SPECIFICATION Spec
CONSTANTS
    Requests = {r1, r2}
    PoolSize = 1
    FailOpen = {r1}
INVARIANTS
    InvalidIsClientError
CHECK_DEADLOCK FALSE
