SPECIFICATION FairSpec
CONSTANTS
    t1 = t1
    t2 = t2
    f1 = f1
    Tickets = {t1, t2}
    Foreign = {}
    Timers = {timer}
    Admins = {}
    Calls = {c1, c2}
    None = None
    Supplied = Supplied
    Modes = {"buy", "sell"}
    Limit = 1
    Scenes <- MCPlain
INVARIANTS
    WinnerIsPaid
CHECK_DEADLOCK FALSE
