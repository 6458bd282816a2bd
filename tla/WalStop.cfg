SPECIFICATION Spec
CONSTANTS
  Conn = {a, b}
  Readers = {a}
  Writers = {a}
  Checkpointers = {b}
  Page = {1, 2}
  NReader = 1
  MaxFrame = 2
  MaxTx = 2
  MaxStops = 1
  Overlap = FALSE
  None = None
PROPERTIES
  KeepsSnapshots
