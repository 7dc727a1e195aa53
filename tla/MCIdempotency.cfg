SPECIFICATION LiveSpec
CONSTANTS
    Clients = {"ana", "bo"}
    Attempts <- MCAttempts
    Request <- MCRequest
    Takes <- MCTakes
    Things <- MCThings
    Nobody = Nobody
    MaxFaults = 1
INVARIANTS
    ReplaysBelong
    AnswersMatchBooks
    OneHandlerAtATime
    ResponseOfThisReservation
PROPERTIES
    EveryClientLearns
CHECK_DEADLOCK FALSE
