----------------------------- MODULE MCPortNet -----------------------------
(* An instance of PortNet.                                                   *)
EXTENDS PortNet
=============================================================================
