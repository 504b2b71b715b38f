SPECIFICATION Spec
CONSTANTS
    Scenes <- OneCrash
    Absent = Absent
PROPERTIES
    RetryRuns
CHECK_DEADLOCK FALSE
