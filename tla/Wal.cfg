SPECIFICATION Spec
CONSTANTS
  Conn = {a, b}
  Readers = {a, b}
  Writers = {a, b}
  Checkpointers = {a, b}
  Page = {1, 2}
  NReader = 2
  MaxFrame = 2
  MaxTx = 2
  MaxStops = 0
  Overlap = FALSE
  None = None
SYMMETRY Symmetry
INVARIANTS
  TypeOK
  BackfillWithinLog
  FoldedWhenIgnored
PROPERTIES
  KeepsSnapshots
