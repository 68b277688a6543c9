SPECIFICATION FairSpec
CONSTANTS
  N = 2
  Grain = 2
  Blocks = {b1, b2, b3}
  Values = {v0, v1}
  InitValue = v0
  Unwritten = Unwritten
  NoOp = NoOp
  NoReply = NoReply
  NoBlock = NoBlock
  Balancer = FALSE
  Typed = FALSE
  DevicesFail = FALSE
PROPERTIES RequestsReturn
