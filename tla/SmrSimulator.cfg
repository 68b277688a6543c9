SPECIFICATION FairSpec
CONSTANTS
  FifoBlks = 4
  HalfBand = 2
  Unit = 1
  Classes = 2
  NumEach = 1
  Used = {1, 3, 4}
  Marked = {4}
  Values = {v0, v1}
  InitValue = v0
  NoOp = NoOp
  NoReply = NoReply
INVARIANTS HeadIsValid TableMatchesFifo FlushMakesRoom
PROPERTIES ImplementsBlockStore RequestsReturn
CHECK_DEADLOCK FALSE
