SPECIFICATION Spec
CONSTANTS
  FifoBlks = 2
  HalfBand = 2
  Unit = 1
  Classes = 2
  NumEach = 1
  Used = {1, 2, 4}
  Marked = {4}
  Values = {v0, v1}
  InitValue = v0
  NoOp = NoOp
  NoReply = NoReply
PROPERTIES WholeBandFlushed
CHECK_DEADLOCK FALSE
