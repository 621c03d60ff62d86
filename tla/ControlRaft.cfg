SPECIFICATION FairSpec
CONSTANTS
    Node = {"n1", "n2"}
    Plan <- MCPlan
    InitialMap <- MCInitialMap
    HaltThreshold = 2
    Absent = Absent
INVARIANTS
  RecoverableFromLog
  CommittedStateAgrees
  
PROPERTIES
  NothingLeftPending
CHECK_DEADLOCK FALSE
