SPECIFICATION FairSpec
CONSTANTS
    Requests = {r1, r2}
    WebhookMaxRetries = 2
    DatabaseMayFail = TRUE
    Ids = {i1, i2}
    FailureStatuses = {500, 504}
INVARIANTS
    TypeOK
    AuditTruthful
    AnnouncedIsAudited
    OneOutcome
    AnswerHonest
PROPERTIES
    AuditAppendOnly
    CallsWebhookProperly
    ImplementsLedger
    EveryRequestAnswered
CHECK_DEADLOCK FALSE
