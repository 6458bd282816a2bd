SPECIFICATION FairSpec
CONSTANTS
  Count = 2
  Preload = 0
  Animated = FALSE
  StartPolicy = 0
  HostSelects = {"new", "appeared"}
  HostReloads = FALSE
  Suspends = TRUE
  Evicts = FALSE
  MaxWarnings = 3
INVARIANTS
  NoGrowthAfterTooMany
PROPERTIES
  GrowsBack
  OnlyReturnDoubles
