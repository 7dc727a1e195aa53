SPECIFICATION Spec
CONSTANTS
    NumAccounts = 3
    NumHolds = 0
    Currencies = {"TRY"}
    Chart <- MCChart
    InitiallyOpen = {1, 2, 3}
    Requests <- MCRequests
    HoldRequests <- None
    CaptureRequests <- None
    ReversalRefs <- None
    Instants = {0, 1, 2, 3, 5}
    MaxLines = 3
    Files <- MCFiles
    DayLength = 2
INVARIANTS
    AsOfMeetsBalance
    StatementExplains
    CutShowsNewest
    OneBucket
    CleanMeansAgreement
    DaysPartition
PROPERTIES
    PastIsSettled
CHECK_DEADLOCK FALSE
