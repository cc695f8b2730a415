--------------------------- MODULE MCEpiphanyCore ---------------------------
(* EpiphanyCore on small instances.                                        *)
EXTENDS EpiphanyCore, TLC

\* The addresses and the threads are interchangeable.
CoreSymmetry == Permutations(Addr) \cup Permutations(Threads)

\* Out of range on either side, the two ends of the range.
MCTypeArgs == {-1, 0, STORAGE_MAX - 1, STORAGE_MAX}
=============================================================================
