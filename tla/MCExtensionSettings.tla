------------------------ MODULE MCExtensionSettings -------------------------
(***************************************************************************)
(* Instances of ExtensionSettings for TLC.                                 *)
(***************************************************************************)
EXTENDS ExtensionSettings, TLC

\* Backends differ only in their history.
BackendSymmetry == Permutations(Backends)
=============================================================================
