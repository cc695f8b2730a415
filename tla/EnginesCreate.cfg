SPECIFICATION Spec
CONSTANTS
    Threads = {t1, t2}
    NameLens = {0, 3}
    MaxInits = 1
SYMMETRY EngineSymmetry
INVARIANTS PathsFit NoBadFree NothingLeft CreatedHasFile
