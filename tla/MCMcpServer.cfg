SPECIFICATION Spec
CONSTANTS
    subscribe = subscribe
    verify = verify
    wait = wait
    disconnect = disconnect
    None = None
    Calls <- MCCalls
    KindOf <- MCKindOf
    MaxConnects = 2
INVARIANTS
    TypeOK
    OwnAnswerOnce
    NoCallForgotten
    TemporarySubscriptionEnds
    QuitsAfterLastAnswer
PROPERTIES
    EveryCallAnswered
    QuitsAtEndOfInput
CHECK_DEADLOCK FALSE
