SPECIFICATION FairSpec
CONSTANTS
  Pages = {p1, p2}
  Jobs = {j1, j2}
  NoPage = NoPage
  NoJob = NoJob
  MaxItems = 1
  MaxCauses = 2
  MaxLaunches = 1
  ProbeCanFail = FALSE
  StoreCanFail = TRUE
PROPERTIES
  UsesNoticesPromise
  FirstLoad
  EverySaveEnds
  RefreshEnds
CHECK_DEADLOCK FALSE
