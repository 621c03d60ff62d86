SPECIFICATION Spec
CONSTANTS
    n1 = n1
    n2 = n2
    n3 = n3
    joiner = joiner
    Ring <- RingOfFour
    Voters <- ThreeVoters
    Self = n2
    TotalShards = 2
    RF = 2
    Admin = TRUE
    MaxVersion = 3
INVARIANTS
  CopiesNeverAhead
  CopiesDistinct
  FenceCoversRouter
PROPERTIES
  OwnershipFenced
