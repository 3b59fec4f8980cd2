SPECIFICATION Spec
CONSTANTS
    Workers = {w1, w2}
    Limit = 0
    WindowSeconds = 2
    TicksPerSecond = 2
    Salts = {1}
    Skew <- SameClock
    MaxSkew = 0
    FailOpen = TRUE
    MaxClock = 6
    MaxRestarts = 0
PROPERTY ZeroMeansDefault
