SPECIFICATION MCSpec
CONSTANTS
  Event <- Events
  Caller <- Callers
  Mode = "push"
  MaxAttempts = 2
  MaxCommitTries = 2
  StartBatchSize = 2
  EventPlan <- MCEventPlan
  QueryPlan <- MCQueryPlan
  HistoryPlan <- MCHistoryPlan
  Nothing = Nothing
INVARIANTS
  AppendsExact
  GenerationsExact
  
  HistoryExact
PROPERTIES
  
  EverythingServed
CHECK_DEADLOCK FALSE
