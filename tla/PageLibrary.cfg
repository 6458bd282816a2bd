SPECIFICATION Spec
CONSTANTS
  Count = 3
  Preload = 1
  Animated = TRUE
  StartPolicy = 0
  HostSelects = {"new", "laidOut", "appeared"}
  HostReloads = TRUE
  Suspends = FALSE
  Evicts = TRUE
  MaxWarnings = 1
INVARIANTS
  TypeOK
  NoBlankPage
  MenuFollowsPage
  MenuNotLocked
