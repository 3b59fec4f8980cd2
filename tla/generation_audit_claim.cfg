SPECIFICATION Spec
CONSTANTS
    Requests = {r1, r2}
    WebhookMaxRetries = 1
    DatabaseMayFail = FALSE
    Ids = {i1}
    FailureStatuses = {504}
INVARIANT EveryAnswerAudited
CHECK_DEADLOCK FALSE
