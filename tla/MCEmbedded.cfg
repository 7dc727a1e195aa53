SPECIFICATION Spec
CONSTANTS
    Callers = {c1, c2}
    Programs <- MCPrograms
    Nobody = Nobody
    MaxCalls = 2
    NumAccounts = 2
    NumHolds = 1
    Currencies = {"TRY"}
    Chart <- MCChart
    InitiallyOpen = {1}
    Administered = {2}
    Requests <- Posts
    HoldRequests <- Holds
    CaptureRequests <- Captures
    ReversalRefs <- Undos
SYMMETRY CallerSymmetry
INVARIANTS
    TypeOK
    DeadlockNeedsDisorder
    BooksSurvive
PROPERTIES
    ImplementsBooks
