SPECIFICATION MCSpec
CONSTANTS
    n1 = n1
    n2 = n2
    n3 = n3
    w0 = w0
    w1 = w1
    w2 = w2
    NoOp = NoOp
    Nodes <- ThreeNodes
    Ring <- ThreeRing
    Ops = {w0, w1, w2}
    MaxEntries = 2
    MaxEpoch = 2
    Forwarding = TRUE
    ApplyMayFail = TRUE
SYMMETRY Interchangeable
INVARIANTS
  SeqNamesOneWrite
  DeposedNeverCommits
  PromotionLosesOnlyHoles
