SPECIFICATION MCSpec
CONSTANTS
  c1 = c1
  c2 = c2
  c3 = c3
  p1 = p1
  p2 = p2
  t1 = t1
  t2 = t2
  prep1 = prep1
  prep2 = prep2
  com1 = com1
  com2 = com2
  abt = abt
  Call <- MCCall
  Participant <- MCParticipant
  TxnId <- MCTxnId
  IdOf <- MCIdOf
  Order <- MCOrder
  NumOps <- MCNumOps
  Request <- MCRequest
  Kind <- MCKind
  Txn <- MCTxn
  MaxHistory = 1
INVARIANTS
  BookkeepingTrue
  FinishedOnce
PROPERTIES
  ImplementsAtomicOutcome
  EveryCallReturns
CHECK_DEADLOCK FALSE
