SPECIFICATION Spec
CONSTANTS
    q1 = q1
    q2 = q2
    q3 = q3
    m1 = m1
    NoRequest = NoRequest
    Requests <- MCRequests
    Mutating <- MCMutating
INVARIANTS
    TypeOK
    OneOperationAtATime
    AnswersAreTrue
PROPERTIES
    MutationsStartEnabled
    EveryRequestAnswered
    ImplementsPromise
