SPECIFICATION FairSpec
CONSTANTS
    Requests = {r1}
    WebhookMaxRetries = 3
    DatabaseMayFail = TRUE
INVARIANTS
    TypeOK
    RecordedBeforePosted
    DeliveredMeansReceived
PROPERTIES
    SettledForGood
    EverySettles
CHECK_DEADLOCK FALSE
