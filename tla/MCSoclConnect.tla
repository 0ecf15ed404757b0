---------------------------- MODULE MCSoclConnect ----------------------------
(* An instance of SoclConnect.  The application threads are alike, and no  *)
(* liveness property is checked.                                           *)
EXTENDS SoclConnect, TLC

Symmetry == Permutations(Apps)
=============================================================================
