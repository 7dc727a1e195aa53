SPECIFICATION Spec
CONSTANTS
    Sessions = {s1, s2}
    Sweeper = Sweeper
    Nobody = Nobody
    NumAccounts = 2
    NumHolds = 2
    Currencies = {"TRY"}
    Chart <- MCChart
    InitiallyOpen = {1, 2}
    Archivable = {2}
    Requests <- HoldTopups
    HoldRequests <- HoldHolds
    CaptureRequests <- HoldCaptures
    ReversalRefs <- None
SYMMETRY SessionSymmetry
INVARIANTS
    EngineInv
    
PROPERTIES
    ImplementsBooks
CHECK_DEADLOCK FALSE
