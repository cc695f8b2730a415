SPECIFICATION FairSpec
CONSTANTS
    NULL = NULL
    Caller = Caller
    Addr = {a1, a2}
    Threads = {t1, t2}
    TypeArgs <- MCTypeArgs
PROPERTIES
    CallsReturn
