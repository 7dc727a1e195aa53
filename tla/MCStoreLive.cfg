SPECIFICATION LiveSpec
CONSTANTS
    Sessions = {s1, s2}
    Sweeper = Sweeper
    Nobody = Nobody
    NumAccounts = 2
    NumHolds = 2
    Currencies = {"TRY"}
    Chart <- MCChart
    InitiallyOpen = {1, 2}
    Archivable = {}
    Requests <- LiveRequests
    HoldRequests <- LiveHolds
    CaptureRequests <- LiveCaptures
    ReversalRefs <- None

PROPERTIES
    CallsFinish
    LapsedHoldsStopReserving
CHECK_DEADLOCK FALSE
