\* A process starts while another one emits a barrier.
CONSTANTS
    NumSlots = 2
    Up = {1}
    Joining = {2}
    MaxEmits = 1
    MaxErrors = 0
SPECIFICATION FairSpec
PROPERTY
    WaitsEnd
CHECK_DEADLOCK FALSE
