CONSTANTS
  plain = plain
  locked = locked
  beyond = beyond
  w1 = w1
  w2 = w2
  NoSite = NoSite
  Sites = {plain, locked, beyond}
  Listing <- Tenant
  PageSize = 2
  MaxSites = 2
  Locked = {locked}
  Owned = {plain, beyond}
  Workers = {w1, w2}
  Cap <- CapOne
  MaxRows = 1
SPECIFICATION FairSpec
INVARIANTS SitesAccountedFor SitesClassified FailuresRecorded RowsWritten
PROPERTIES ImplementsSiteProcessor ProcessReturns
