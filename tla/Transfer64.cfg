SPECIFICATION Spec
CONSTANTS
    NumAccounts = 3
    NumHolds = 0
    Currencies = {"TRY"}
    Chart <- MCChart
    InitiallyOpen <- None
    Requests <- None
    HoldRequests <- None
    CaptureRequests <- None
    ReversalRefs <- None
    MaxInt = 7
    MaxLegs = 3
    Amounts <- Small
INVARIANTS
    DebitsEqualCredits
    BalancesExact
