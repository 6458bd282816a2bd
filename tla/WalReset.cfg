SPECIFICATION Spec
CONSTANTS
  Conn = {a, b}
  Readers = {a}
  Writers = {a}
  Checkpointers = {b}
  Page = {1, 2}
  NReader = 1
  MaxFrame = 2
  MaxTx = 2
  MaxStops = 0
  Overlap = TRUE
  None = None
INVARIANTS
  BackfillWithinLog
CHECK_DEADLOCK FALSE
