SPECIFICATION MCSpec
CONSTANTS
    w1 = w1
    w2 = w2
    f1 = f1
    f2 = f2
    r1 = r1
    NoRequest = NoRequest
    Followers <- TwoFollowers
    Rank <- RankTwo
    Writes = {w1, w2}
    RequestOf <- Retry
    Concern = "Majority"
    FailureThreshold = 1
    GcRuns = TRUE
INVARIANTS
  
  ReportsTrue
PROPERTIES
  CommittedRequestNotResent
  EveryCallReturns
