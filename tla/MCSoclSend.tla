----------------------------- MODULE MCSoclSend -----------------------------
(* Small instances of SoclSend for TLC.                                    *)
EXTENDS SoclSend, TLC

(* Writers differ in their name only. *)
Symmetry == Permutations(Writers)
=============================================================================
