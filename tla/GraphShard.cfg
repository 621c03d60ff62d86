SPECIFICATION FairSpec
CONSTANTS
  a = a
  b = b
  w1 = w1
  w2 = w2
  w3 = w3
  w4 = w4
  NoValue = NoValue
  Node <- MCNode
  Request <- MCRequest
  Plan <- MCPlan
  ChannelSize = 2
  StartTime = 2
INVARIANTS
  
  ProjectionCurrent
  AppliedOnce
PROPERTIES
  QuietWriteAnswered
CHECK_DEADLOCK FALSE
