SPECIFICATION Spec
CONSTANTS
  N = 3
  Grain = 2
  Blocks = {b1, b2, b3, b4}
  Values = {v0, v1}
  InitValue = v0
  Unwritten = Unwritten
  NoOp = NoOp
  NoReply = NoReply
  NoBlock = NoBlock
  Balancer = TRUE
  Typed = TRUE
  DevicesFail = TRUE
INVARIANTS CountersMatchFlags LogOutAnswerable NoDoubleRegistration CacheInv
PROPERTIES ImplementsBlockStore CallsStrategyCorrectly CallsTableCorrectly
SYMMETRY BlockSymmetry
CHECK_DEADLOCK FALSE
