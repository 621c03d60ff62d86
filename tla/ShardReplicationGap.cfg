SPECIFICATION Spec
CONSTANTS
    n1 = n1
    n2 = n2
    n3 = n3
    w0 = w0
    w1 = w1
    w2 = w2
    NoOp = NoOp
    Nodes <- ThreeNodes
    Ring <- ThreeRing
    Ops = {w1, w2}
    MaxEntries = 4
    MaxEpoch = 2
    Forwarding = FALSE
    ApplyMayFail = FALSE
SYMMETRY Interchangeable
INVARIANT PromotionKeepsCommitted
