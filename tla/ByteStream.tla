----------------------------- MODULE ByteStream -----------------------------
(***************************************************************************)
(* What the send side of a socket promises its callers: one stream, to     *)
(* which writes are appended whole and from which CPS gets bytes in order, *)
(* each at most once.  A byte is its position.  Bytes can be dropped, and  *)
(* lossy then says so; nothing else can be missing on the wire.            *)
(***************************************************************************)
EXTENDS Integers, Sequences

VARIABLES posted, passed, wire, lossy
streamVars == <<posted, passed, wire, lossy>>

Init == posted = 0 /\ passed = 0 /\ wire = <<>> /\ lossy = FALSE

Post ==
  /\ posted' > posted
  /\ UNCHANGED <<passed, wire, lossy>>

(* The next bytes of the stream leave it, and a first part reaches CPS. *)
Pass ==
  /\ passed' \in passed + 1 .. posted
  /\ \E r \in 0 .. passed' - passed :
       /\ wire' = wire \o [i \in 1 .. r |-> passed + i]
       /\ lossy' = (lossy \/ r < passed' - passed)
  /\ UNCHANGED posted

Next == Post \/ Pass
Spec == Init /\ [][Next]_streamVars

=============================================================================
