SPECIFICATION FairSpec
CONSTANTS
    t1 = t1
    t2 = t2
    f1 = f1
    Tickets = {t1, t2}
    Foreign = {f1}
    Timers = {timer}
    Admins = {admin}
    Calls = {c1, c2}
    None = None
    Supplied = Supplied
    Modes = {"buy"}
    Limit = 1
    Scenes <- MCScenes
INVARIANTS
    RowMatchesChain
    SettledOnce
PROPERTIES
    MakerIsPaid
CHECK_DEADLOCK FALSE
