----------------------------- MODULE MCSoclLife -----------------------------
(* An instance of SoclLife.  Slots are not interchangeable in a run with a *)
(* liveness property.                                                      *)
EXTENDS SoclLife
=============================================================================
