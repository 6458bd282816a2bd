SPECIFICATION FairSpec
CONSTANTS
  Statuses = {NotReachable, ViaWWAN, ViaWiFi}
  Unknown = Unknown
  Probes = {b1, b2}
  MaxQueued = 2
  ProbeCanFail = TRUE
INVARIANTS
  SettledStatusIsCurrent
PROPERTIES
  KeepsNoticesPromise
  StatusBecomesKnown
