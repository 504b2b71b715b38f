SPECIFICATION FairSpec
CONSTANTS
    Terms = {t1, t2}
    NoTerms = NoTerms
    RetryMax = 5
    MaxCrashes = 3
INVARIANTS
    NothingForgotten
    PermissionOutlivesSession
    ScrubbedOrLate
PROPERTY
    EventuallyHome
CHECK_DEADLOCK FALSE
