SPECIFICATION MCSpec
CONSTANTS
  Ops <- Writes
  MaxEntries = 2
  Node = {"a", "b", "c"}
  Owner = "a"
  NoOp = "none"
  Plan <- MCPlan
INVARIANTS
  RepairKeepsSeqs
PROPERTIES
  QuietDeltaLeavesOwnerAlone
  LostTailHealed
  EveryBarrierReopens
CHECK_DEADLOCK FALSE
