SPECIFICATION Spec
CONSTANTS
    Sessions = {s1, s2}
    Sweeper = Sweeper
    Nobody = Nobody
    NumAccounts = 4
    NumHolds = 0
    Currencies = {"TRY"}
    Chart <- MCChart
    InitiallyOpen = {1, 2, 4}
    Archivable = {3}
    Requests <- PostRequests
    HoldRequests <- None
    CaptureRequests <- None
    ReversalRefs <- PostReversals
SYMMETRY SessionSymmetry
INVARIANTS
    ChecksStillHold
    EngineInv
PROPERTIES
    ImplementsBooks
CHECK_DEADLOCK FALSE
