SPECIFICATION FairSpec
CONSTANTS
    Slots = {1, 2}
    MaxMessages = 4
    Troubles = {"fault", "crash", "repeat"}
INVARIANTS
    TypeOK
    SettledIsExecuted
    FailsForAReason
    SnapshotAgrees
PROPERTIES
    ReleaseSettles
CHECK_DEADLOCK FALSE
