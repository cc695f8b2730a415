\* Three processes pass three phases of a static or a dynamic party.
CONSTANTS
    Procs = {p1, p2, p3}
    Nobody = Nobody
    Disturbed = {p1}
    StaticParties = {TRUE, FALSE}
    LastPhases = {2}
    MaxPhase = 3
SPECIFICATION FairSpec
INVARIANTS
    PhaseInStep
    OneElected
    SleeperHasWaker
PROPERTY WaitersReturn
CHECK_DEADLOCK FALSE
