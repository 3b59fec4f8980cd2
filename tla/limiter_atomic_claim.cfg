SPECIFICATION Spec
CONSTANTS
    Workers = {w1, w2}
    Limit = 1
    WindowSeconds = 1
    TicksPerSecond = 2
    Salts = {1, 2}
    Skew <- SameClock
    MaxSkew = 0
    FailOpen = TRUE
    MaxClock = 4
    MaxRestarts = 0
INVARIANT QuotaExact
