\* Two contests, up to three sessions and one change of each contest's files.
CONSTANTS
    Contests = {c1, c2}
    SessionBound = 3
    ChangeBound = 1

SPECIFICATION FairSpec
INVARIANTS
    ProducersAreGone
    OneWholeSession
    ShownIsOnDisk
PROPERTY
    EveryExitArrives
CHECK_DEADLOCK FALSE
