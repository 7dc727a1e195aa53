SPECIFICATION Spec
CONSTANTS
    NumAccounts = 3
    NumHolds = 0
    Currencies = {"TRY"}
    Chart <- MCChart
    InitiallyOpen = {1, 2, 3}
    Requests <- MCRequests
    HoldRequests <- None
    CaptureRequests <- None
    ReversalRefs <- None
    Forged = "forged"
INVARIANTS
    NoFalseAlarm
    EditIsLocated
