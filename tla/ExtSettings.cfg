SPECIFICATION Spec
CONSTANTS
    Backends = {b1, b2}
    Postmaster = postmaster
    Absent = absent
    MaxEdits = 3
    MaxRuns = 2
SYMMETRY BackendSymmetry
INVARIANTS AnswersAgree RestartsAnnounced
CHECK_DEADLOCK FALSE
