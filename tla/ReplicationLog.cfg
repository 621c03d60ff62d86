CONSTANTS
    w1 = w1
    w2 = w2
    w3 = w3
    w4 = w4
    w5 = w5
    Ops <- FiveOps
    OwnerOps <- FiveOps
    ReplicaSeqs <- NoSeqs
    MaxEntries = 3
    InFlight = 4
    MaxRestarts = 2
    PutMayFail = FALSE
SPECIFICATION MCSpec
INVARIANTS
  ReturnedSeqsUnique
  MemoryAndStoreSound
  ServesContiguously
CHECK_DEADLOCK FALSE
