-------------------------- MODULE MCDataOperations --------------------------
(* Small instances of DataOperations. *)
EXTENDS DataOperations

\* Below, at, and above the engines there are.
MCTypeArgs == {-1, 0, 2, STORAGE_MAX - 1, STORAGE_MAX}

\* Codes as declared, and the non-negative numbers around the last message.
MCCodeArgs == {-99, -1, 0, NumErrorMessages - 1, NumErrorMessages}
=============================================================================
