SPECIFICATION FairSpec
CONSTANTS
    Deal <- MCDeal
    Rent = 2
    Dust = 1
    Watchers = {1, 2}
    Rescanners = {again}
    Ticks = {tick}
    Nobody = Nobody
    Scenes <- MCScenes
INVARIANTS
    TypeOK
    ReportedOnce
    RowsAreFunded
CHECK_DEADLOCK FALSE
PROPERTY DepositsLand
