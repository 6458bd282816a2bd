SPECIFICATION FairSpec
CONSTANTS
  Users = {u1, u2}
  Keepers = {u2, k}
  Capacity = 1
  MaxConcurrency = 2
  MaxCloses = 2
  MaxFailures = 1
  CloseSeparately = FALSE
INVARIANTS
  TypeOK
  CountsAgree
  ClosedForCallback
PROPERTIES
  LockExcludes
  EveryCloseReturns
  EveryUserServed
