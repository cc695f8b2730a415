---------------------------- MODULE MCVectorMath -----------------------------
(***************************************************************************)
(* Instances of VectorMath for TLC.                                        *)
(***************************************************************************)
EXTENDS VectorMath

\* Zero, the least numbers, numbers whose squares vanish or are rounded, one
\* and its neighbours, numbers whose products overflow only when they are added,
\* and the greatest number.
FloatComponents == {-48, -5, 0, 1, 5, 7, 12, 64, 80, 320, 384, 3584}
=============================================================================
