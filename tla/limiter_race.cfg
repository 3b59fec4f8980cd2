SPECIFICATION Spec
CONSTANTS
    Workers = {w1, w2}
    Limit = 1
    WindowSeconds = 2
    TicksPerSecond = 2
    Salts = {1}
    Skew <- OneAhead
    MaxSkew = 1
    FailOpen = FALSE
    MaxClock = 7
    MaxRestarts = 1
INVARIANTS
    TypeOK
    OverAdmissionBound
    NoEarlyEviction
PROPERTIES
    RejectionJustified
    RetryAfterWithinSecond
    ImplementsSlidingWindow
    
