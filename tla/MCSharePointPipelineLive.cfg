CONSTANTS
  s1 = s1
  s2 = s2
  bad = bad
  skip = skip
  late = late
  u1 = u1
  g1 = g1
  NoSite = NoSite
  Sites = {s1, skip, late}
  Listing <- Single
  PageSize = 2
  MaxPages = 1
  Undecodable = {}
  Skipped = {skip}
  UserWorkers = {u1}
  GroupWorkers = {g1}
  ProcessGroups = TRUE
  ProcessGroupMembers = TRUE
  Cap <- CapOne
  MaxRows = 1
SPECIFICATION FairSpec
INVARIANT RowsWritten
PROPERTY ProcessReturns
