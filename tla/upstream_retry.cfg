SPECIFICATION CallSpec
CONSTANTS
    MaxRetries = 3
    Outcomes <- AllOutcomes
    Calls <- AllCalls
    Bodies <- AllBodies
INVARIANTS
    CallTypeOK
    PermanentFailsFast
    UnavailableMeansExhausted
    ConversationKept
    CutShortIsTold
    TotalCoversParts
    OneClientPerCall
CHECK_DEADLOCK FALSE
