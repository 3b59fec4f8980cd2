SPECIFICATION Spec
CONSTANTS
    MaxRetries = 3
    Outcomes <- AllOutcomes
INVARIANT RetriesAsListed
CHECK_DEADLOCK FALSE
