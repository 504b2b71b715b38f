SPECIFICATION FairSpec
CONSTANTS
    c1 = c1
    Calls = {c1}
    MIN_SAMPLE_SIZE = 1
    MAX_RESETS = 2
    MaxWindow = 1
    MaxRetries = 1
    Scenes <- MCScenes
INVARIANTS
    ProbeInFlight
    RefundedIsReal
PROPERTIES
    VerdictReached
CHECK_DEADLOCK FALSE
