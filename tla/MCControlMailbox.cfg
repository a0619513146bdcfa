SPECIFICATION Spec
CONSTANTS
    c1 = c1
    c2 = c2
    c3 = c3
    None = None
    Clients <- MCClients
    Mixes <- MCMixes
INVARIANTS
    TypeOK
    AnswersOwnRequest
    RefusedIsNotExecuted
    ResetBeforeNextRequest
PROPERTIES
    StopEndsSession
    ImplementsService
CHECK_DEADLOCK FALSE
