\* Three processes read three pages, the first of which is deleted.
CONSTANTS
    Procs = {p1, p2, p3}
    Nobody = Nobody
    Disturbed = {p1}
    NumPages = 3
    Ignored = {1}
    LastMatch = 3
SPECIFICATION FairSpec
INVARIANTS
    PagesReadOnce
    NothingMissed
    BroadcastWakesAll
    SignalNotLost
    SleeperHasWaker
PROPERTY
    ScanEnds
CHECK_DEADLOCK FALSE
