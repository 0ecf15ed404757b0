----------------------------- MODULE MCSoclPipe -----------------------------
(* Instances of SoclPipe: callers are interchangeable in the safety run.   *)
EXTENDS SoclPipe, TLC

Symmetry == Permutations(Callers)
=============================================================================
