------------------------------- MODULE ApCache -------------------------------
(***************************************************************************)
(* What the list of access points promises: it remembers the last ones      *)
(* seen, each once, in the order in which they were last seen.  A full list *)
(* either ignores a new one or forgets the one not seen for longest.        *)
(***************************************************************************)
EXTENDS Integers, Sequences, FiniteSets

CONSTANTS Bssids, Levels, Capacity
VARIABLE seen

Entry == [bssid : Bssids, level : Levels]
Init == seen = <<>>

At(x)      == {i \in DOMAIN seen : seen[i].bssid = x}
Without(i) == SubSeq(seen, 1, i - 1) \o SubSeq(seen, i + 1, Len(seen))

See(x, l) ==
  LET new == [bssid |-> x, level |-> l] IN
  \/ \E i \in At(x) : seen' = Append(Without(i), new)
  \/ At(x) = {} /\ Len(seen) < Capacity /\ seen' = Append(seen, new)
  \/ At(x) = {} /\ Len(seen) = Capacity /\ Capacity > 0 /\ seen' = Append(Tail(seen), new)

Forget == seen' = <<>>

Next == Forget \/ \E x \in Bssids, l \in Levels : See(x, l)
Spec == Init /\ [][Next]_seen
=============================================================================
