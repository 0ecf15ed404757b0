----------------------------- MODULE MCWcmSend -----------------------------
(* An instance of WcmSend; the threads are alike.                            *)
EXTENDS WcmSend, TLC

Symmetry == Permutations(Threads)
=============================================================================
