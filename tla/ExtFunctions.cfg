SPECIFICATION FunctionsSpec
CONSTANT Names = {"t1"}
INVARIANTS NoBadPfree CleanExit
