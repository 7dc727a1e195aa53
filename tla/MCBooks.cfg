SPECIFICATION Spec
CONSTANTS
    NumAccounts = 4
    NumHolds = 2
    Currencies = {"TRY", "EUR"}
    Chart <- MCChart
    InitiallyOpen = {1, 2, 4}
    Requests <- MCRequests
    HoldRequests <- MCHoldRequests
    CaptureRequests <- MCCaptureRequests
    ReversalRefs <- MCReversalRefs
INVARIANTS
    TypeOK
    GuardHolds
    SumZero
    BalancesMatchPostings
    ChainIntact
    ReversalsCancel
    CapturesSettle
PROPERTIES
    ArchivedIsFrozen
CHECK_DEADLOCK FALSE
