SPECIFICATION Spec
CONSTANTS
    NULL = NULL
    Caller = Caller
    Addr = {a1, a2, a3, a4}
    Threads = {t1, t2}
    TypeArgs <- MCTypeArgs
SYMMETRY CoreSymmetry
INVARIANTS
    NoFault
    Conservation
    SingleOwner
    HandlesUsable
PROPERTY
    ImplementsLeases
