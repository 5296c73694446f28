CONSTANTS
  s1 = s1
  s2 = s2
  bad = bad
  skip = skip
  late = late
  u1 = u1
  g1 = g1
  NoSite = NoSite
  Sites = {s1, s2, bad, skip}
  Listing <- Paged
  PageSize = 2
  MaxPages = 0
  Undecodable = {bad}
  Skipped = {skip}
  UserWorkers = {u1}
  GroupWorkers = {g1}
  ProcessGroups = TRUE
  ProcessGroupMembers = FALSE
  Cap <- CapOne
  MaxRows = 1
SPECIFICATION Spec
INVARIANTS TrackerLifetime SitesAccountedFor FailuresRecorded RowsWritten
PROPERTY ImplementsSiteProcessor
