------------------------------ MODULE MCLWLock -------------------------------
(* The instances of LWLock: processes are interchangeable. *)
EXTENDS LWLock, TLC

ProcSymmetry == Permutations(Procs)
=============================================================================
