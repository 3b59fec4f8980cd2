SPECIFICATION FairSpec
CONSTANTS
    Requests = {r1, r2}
    PoolSize = 1
    FailOpen = {r1}
INVARIANTS
    TypeOK
    ConnectionsReturned
    CalledWithLeave
    AnswerTellsCost
PROPERTIES
    EveryRequestServed
CHECK_DEADLOCK FALSE
