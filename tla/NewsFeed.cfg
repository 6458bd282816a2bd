SPECIFICATION Spec
CONSTANTS
  Pages = {p1, p2}
  Jobs = {j1, j2}
  NoPage = NoPage
  NoJob = NoJob
  MaxItems = 2
  MaxCauses = 2
  MaxLaunches = 2
  ProbeCanFail = TRUE
  StoreCanFail = TRUE
SYMMETRY Symmetric
INVARIANTS
  TypeOK
  SettledCacheIsCurrent
  CacheBounded
  EmptyOnlyBetweenDeleteAndInsert
  NewestPageLoads
CHECK_DEADLOCK FALSE
