\* Two barriers of two processes that may end and start again.
CONSTANTS
    NumSlots = 2
    Up = {1, 2}
    Joining = {1, 2}
    MaxEmits = 2
    MaxErrors = 1
SPECIFICATION FairSpec
INVARIANTS
    NothingStale
    GenerationExists
PROPERTIES
    QuietNotified
    QuietWaitsEnd
CHECK_DEADLOCK FALSE
