--------------------------- MODULE PortNetProofs ----------------------------
(***************************************************************************)
(* What the sockets of the desktop port promise, for any number of sockets *)
(* and slots, any size of the buffers and any number of bytes.             *)
(***************************************************************************)
EXTENDS PortNet, FiniteSetTheorems, WellFoundedInduction, TLAPS

(* The holder of the startup mutex, and what that says about the thread.     *)
Binding == {"bindjoin", "register", "start"}
Holding == Binding \cup {"join"}
Guarded ==
  /\ \A s \in Socks : pc[s] \in Holding <=> startup = s
  /\ startup \in Socks \cup {None}
  /\ \A s \in Socks : pc[s] \in {"register", "start"} => ~handle
  /\ \A s \in Socks : pc[s] \in {"bindjoin", "join"} => handle /\ stop
  /\ ~handle => tpc = "off"
  /\ handle /\ tpc = "off" => stop
  /\ stop => left \/ \E s \in Socks : pc[s] \in {"bindjoin", "join"}
  /\ \A s \in Socks : pc[s] = "clear" /\ tpc # "off" => s \in restarted

(* The array and its count; without a gap it is filled from the bottom.      *)
Used == {i \in 1 .. Slots : array[i] # None}
Counted ==
  /\ leaked \in Nat
  /\ ~overrun => total \in 0 .. Slots /\ total = Cardinality(Used) + leaked
  /\ ~hole => leaked = 0
  /\ ~hole /\ ~overrun => Used = 1 .. total

(* Who is in the array, and that a thread is on its way if one is.           *)
Placed ==
  /\ \A s \in Listed : pc[s] \notin {"none", "restart"}
  /\ \A s \in Socks : open[s] => pc[s] \notin {"none", "restart"}
  /\ \A s \in Socks : open[s] => s \in Listed \/ s \in displaced \/ overrun
  /\ ~handle /\ Listed # {} => \E s \in Socks : pc[s] \in {"register", "start"} \cup Releasing
Harmed ==
  /\ overrun => \/ leaked > 0
                \/ \E s \in Socks : \/ Cardinality(SlotsOf(s)) > 1
                                    \/ pc[s] = "start" /\ SlotsOf(s) # {}
  /\ torn => \E s \in restarted : pc[s] = "restart"

(* The bytes of a buffer: those counted and those received but not counted   *)
(* are the ones that arrived and were not consumed, unless it is raced.      *)
Uncounted(s) == IF Filling(s) THEN got ELSE 0
Buffered(s) ==
  /\ Filling(s) => rcvbufp[s] <= loaded /\ loaded + got <= RcvSize
  /\ pc[s] = "consume" => s \notin raced /\ arg[s] \in 1 .. rcvbufp[s]
  /\ pc[s] = "none" => rcvbufp[s] = 0
  /\ s \notin raced =>
       /\ next[s] + rcvbufp[s] + Uncounted(s) = arrived[s]
       /\ Filling(s) => loaded = rcvbufp[s] /\ pc[s] # "move"
       /\ pc[s] # "move" => \A k \in 1 .. rcvbufp[s] + Uncounted(s) : mem[s][k] = next[s] + k
       /\ pc[s] = "move" =>
            /\ rcvbufp[s] + arg[s] <= RcvSize
            /\ \A k \in 1 .. rcvbufp[s] : mem[s][k + arg[s]] = next[s] + k
Written(s) ==
  /\ pc[s] = "write" => wrote[s] = [asked |-> MaxBytes, taken |-> 0, ret |-> 0]
  /\ pc[s] = "written" => (wrote[s].ret = 0 <=> wrote[s].taken = 0)
Filled ==
  /\ tpc = "count" => slot \in 1 .. Slots /\ array[slot] \in Socks
  /\ \A s \in Socks : Buffered(s) /\ Written(s)

NetInv == PortNetConstants /\ TypeOK /\ Guarded /\ Counted /\ Placed /\ Harmed /\ Filled

-----------------------------------------------------------------------------
(* Steps that leave the startup mutex, the array and the thread's life alone. *)

(* A caller goes to another place.                                         *)
LEMMA Moved ==
  ASSUME TypeOK, NEW s \in Socks, NEW p, Goto(s, p)
  PROVE  pc'[s] = p /\ \A u \in Socks : u # s => pc'[u] = pc[u]
BY DEF TypeOK, Goto

Active == {"idle", "consume", "move", "write", "written"}
Quiet ==
  /\ UNCHANGED <<array, total, startup, stop, handle, left, open, displaced, leaked, hole,
                 torn, restarted, overrun>>
  /\ tpc' = "off" <=> tpc = "off"
  /\ \A s \in Socks : pc'[s] = pc[s] \/ (pc[s] \in Active /\ pc'[s] \in Active)

LEMMA QuietKept ==
  ASSUME NetInv, Quiet, ~overrun, ~torn
  PROVE  Guarded' /\ Counted' /\ Placed' /\ Harmed'
<1>1. /\ UNCHANGED <<array, total, startup, stop, handle, left, open, displaced, leaked, hole,
                     torn, restarted, overrun>>
      /\ tpc' = "off" <=> tpc = "off"
      /\ \A s \in Socks : pc'[s] = pc[s] \/ (pc[s] \in Active /\ pc'[s] \in Active)
  BY DEF Quiet
<1>2. \A s \in Socks : \A X : X \cap Active = {} => (pc'[s] \in X <=> pc[s] \in X)
  BY <1>1
<1>3. \A s \in Socks :
        /\ pc'[s] \in Holding <=> pc[s] \in Holding
        /\ pc'[s] \in {"register", "start"} <=> pc[s] \in {"register", "start"}
        /\ pc'[s] \in {"bindjoin", "join"} <=> pc[s] \in {"bindjoin", "join"}
        /\ pc'[s] = "clear" <=> pc[s] = "clear"
        /\ pc'[s] \in {"none", "restart"} <=> pc[s] \in {"none", "restart"}
        /\ pc'[s] \in {"register", "start"} \cup Releasing <=> pc[s] \in {"register", "start"} \cup Releasing
  BY <1>1 DEF Holding, Binding, Active, Releasing
<1>4. Guarded'
  BY <1>1, <1>3 DEF NetInv, Guarded
<1>5. Counted'
  BY <1>1 DEF NetInv, Counted, Used
<1>6. Placed'
  <2>1. Listed' = Listed /\ Listed \subseteq Socks
    BY <1>1 DEF Listed, NetInv, TypeOK
  <2>2. QED
    BY <1>1, <1>3, <2>1 DEF NetInv, Placed
<1>7. Harmed'
  BY <1>1 DEF Harmed
<1>8. QED
  BY <1>4, <1>5, <1>6, <1>7

(* A buffer that a step does not touch.                                    *)
Aside == {"consume", "move", "none"}
LEMMA BufferedFrame ==
  ASSUME NEW s \in Socks, Buffered(s), rcvbufp'[s] = rcvbufp[s], next'[s] = next[s],
         arrived'[s] = arrived[s], mem'[s] = mem[s], s \in raced' <=> s \in raced,
         Filling(s)' <=> Filling(s), Filling(s) => got' = got /\ loaded' = loaded,
         (pc'[s] = pc[s] /\ arg'[s] = arg[s]) \/ (pc[s] \notin Aside /\ pc'[s] \notin Aside)
  PROVE  Buffered(s)'
<1>1. Uncounted(s)' = Uncounted(s)
  BY DEF Uncounted
<1>2. (pc'[s] = pc[s] /\ arg'[s] = arg[s])
        \/ (pc[s] \notin {"consume", "move", "none"} /\ pc'[s] \notin {"consume", "move", "none"})
  BY DEF Aside
<1>3. QED
  BY <1>1, <1>2 DEF Buffered

LEMMA WrittenFrame ==
  ASSUME NEW s \in Socks, Written(s), wrote'[s] = wrote[s],
         pc'[s] = pc[s] \/ pc'[s] \notin {"write", "written"}
  PROVE  Written(s)'
BY DEF Written

(* Where the thread is not filling a buffer, before and after.             *)
LEMMA NotFilling ==
  ASSUME tpc # "count", tpc' # "count"
  PROVE  \A s : ~Filling(s) /\ ~Filling(s)'
BY DEF Filling

-----------------------------------------------------------------------------
(* The socket thread.                                                        *)

(* The part of TypeOK a step of the thread or of a buffer can disturb.       *)
ThreadTypes ==
  /\ tpc \in {"off", "top", "scan", "recv", "count"}
  /\ ready \subseteq Socks /\ slot \in 0 .. Slots
  /\ {got, loaded} \subseteq 0 .. RcvSize
  /\ raced \subseteq Socks
BufferTypes ==
  /\ mem \in [Socks -> [1 .. RcvSize -> 0 .. MaxBytes]]
  /\ rcvbufp \in [Socks -> 0 .. RcvSize]
  /\ arrived \in [Socks -> 0 .. MaxBytes] /\ next \in [Socks -> 0 .. MaxBytes]
CallTypes ==
  /\ pc \in [Socks -> Places] /\ arg \in [Socks -> Nat]
  /\ wrote \in [Socks -> [asked : 0 .. MaxBytes, taken : 0 .. MaxBytes, ret : 0 .. MaxBytes]]
OtherTypes ==
  /\ array \in [1 .. Slots -> Socks \cup {None}] /\ total \in 0 .. Slots + 1
  /\ {stop, handle, left, hole, torn, overrun} \subseteq BOOLEAN
  /\ startup \in Socks \cup {None}
  /\ open \in [Socks -> BOOLEAN] /\ established \in [Socks -> BOOLEAN]
  /\ bound \in [Socks -> Addrs \cup {None}]
  /\ displaced \cup restarted \subseteq Socks /\ leaked \in Nat

LEMMA TypesAre == TypeOK <=> ThreadTypes /\ BufferTypes /\ CallTypes /\ OtherTypes
BY DEF TypeOK, ThreadTypes, BufferTypes, CallTypes, OtherTypes

LEMMA ConstantsAre ==
  ASSUME PortNetConstants
  PROVE  /\ Slots \in Nat /\ RcvSize \in Nat /\ Retries \in Nat /\ MaxBytes \in Nat
         /\ None \notin Socks /\ None \notin Addrs /\ IsFiniteSet(Socks) /\ Cardinality(Socks) <= Slots
BY DEF PortNetConstants

LEMMA TypesPrimed == ThreadTypes' /\ BufferTypes' /\ CallTypes' /\ OtherTypes' => TypeOK'
BY DEF TypeOK, ThreadTypes, BufferTypes, CallTypes, OtherTypes

LEMMA OtherTypesFrame ==
  ASSUME OtherTypes, UNCHANGED <<table, control, sockets>>,
         UNCHANGED <<displaced, leaked, hole, torn, restarted, overrun>>
  PROVE  OtherTypes'
BY DEF OtherTypes, table, control, sockets

(* The thread looks and waits: nothing happens to a buffer.                *)
LEMMA LookKept ==
  ASSUME NetInv, Select \/ EndRound
  PROVE  TypeOK' /\ Filled' /\ Quiet
<1>1. /\ UNCHANGED <<table, control, pc, arg, sockets, buffer, wrote, marks>>
      /\ tpc \in {"scan", "recv"} /\ tpc' \in {"recv", "top"} /\ slot' = 0
      /\ ready' \subseteq Socks /\ got' \in {got, 0} /\ loaded' \in {loaded, 0}
  <2>1. CASE Select
    <3>1. {s \in Listed \cap Talkers : open[s] /\ s \notin raced} \subseteq Socks
      BY DEF NetInv, PortNetConstants
    <3>2. ready' \subseteq Socks
      BY <2>1, <3>1 DEF Select
    <3>3. QED
      BY <2>1, <3>2 DEF Select
  <2>2. CASE EndRound
    BY <2>2 DEF EndRound
  <2>3. QED
    BY <2>1, <2>2
<1>2. ThreadTypes /\ BufferTypes /\ CallTypes /\ OtherTypes
  BY TypesAre DEF NetInv
<1>3. ThreadTypes'
  BY <1>1, <1>2, ConstantsAre DEF ThreadTypes, marks, NetInv
<1>4. BufferTypes' /\ CallTypes'
  BY <1>1, <1>2 DEF BufferTypes, CallTypes, buffer
<1>5. OtherTypes'
  BY <1>1, <1>2, OtherTypesFrame DEF marks
<1>6. \A s \in Socks : ~Filling(s) /\ ~Filling(s)'
  BY <1>1, NotFilling
<1>7. ASSUME NEW s \in Socks PROVE Buffered(s)' /\ Written(s)'
  <2>1. Buffered(s) /\ Written(s)
    BY DEF NetInv, Filled
  <2>2. Buffered(s)'
    BY <1>1, <1>6, <2>1, BufferedFrame DEF buffer, marks
  <2>3. Written(s)'
    BY <1>1, <2>1, WrittenFrame
  <2>4. QED
    BY <2>2, <2>3
<1>8. Quiet
  BY <1>1 DEF Quiet, table, control, sockets, marks
<1>9. QED
  BY <1>1, <1>3, <1>4, <1>5, <1>7, <1>8, TypesPrimed DEF Filled

(* The slot that is received for next.                                       *)
LEMMA LaterIs ==
  ASSUME NetInv, Later(slot) # {}
  PROVE  NextSlot \in 1 .. Slots /\ array[NextSlot] \in ready /\ array[NextSlot] \in Socks
<1>1. Later(slot) \in SUBSET Nat /\ slot \in Nat
  BY ConstantsAre DEF Later, NetInv, TypeOK
<1>2. \E k \in Later(slot) : \A l \in Later(slot) : k <= l
  <2>1. PICK x \in Later(slot) : \A y \in Later(slot) : ~(<<y, x>> \in OpToRel(<, Nat))
    BY <1>1, NatLessThanWellFounded, WFMin
  <2>2. \A y \in Later(slot) : ~(y < x)
    BY <1>1, <2>1 DEF OpToRel
  <2>3. QED
    BY <1>1, <2>2
<1>3. \A k \in Later(slot) : k \in 1 .. Slots /\ array[k] \in ready /\ array[k] \in Socks
  BY <1>1, ConstantsAre DEF Later, NetInv, TypeOK
<1>4. NextSlot \in Later(slot)
  BY <1>2 DEF NextSlot
<1>5. QED
  BY <1>3, <1>4

LEMMA Behind ==
  ASSUME NEW a \in Nat, NEW r \in Nat, NEW n \in Nat, NEW m \in Nat, NEW k \in Nat,
         r + 1 <= k, k <= r + n, a + n <= m
  PROVE  a + k - r \in 0 .. m
OBVIOUS

(* Bytes are received behind those counted.  While the caller moves what is  *)
(* left of a consume the buffer is raced.                                  *)
LEMMA RecvKept ==
  ASSUME NetInv, Recv
  PROVE  TypeOK' /\ Filled' /\ Quiet
<1>1. Later(slot) # {} /\ tpc = "recv"
  BY DEF Recv
<1>2. PICK i \in 1 .. Slots : i = NextSlot /\ array[i] \in Socks
  BY <1>1, LaterIs
<1>3. PICK s \in Socks : s = array[i]
  BY <1>2
<1>4. PICK n \in 0 .. RcvSize - rcvbufp[s] :
        /\ arrived[s] + n <= MaxBytes
        /\ mem' = [mem EXCEPT ![s] = [k \in 1 .. RcvSize |->
             IF k \in rcvbufp[s] + 1 .. rcvbufp[s] + n THEN arrived[s] + k - rcvbufp[s] ELSE mem[s][k]]]
        /\ arrived' = [arrived EXCEPT ![s] = arrived[s] + n]
        /\ slot' = i /\ got' = n /\ loaded' = rcvbufp[s]
        /\ tpc' = IF n > 0 THEN "count" ELSE "recv"
        /\ raced' = IF n > 0 /\ pc[s] = "move" THEN raced \cup {s} ELSE raced
  BY <1>1, <1>2, <1>3 DEF Recv
<1>5. /\ UNCHANGED <<table, control, ready, pc, arg, sockets, rcvbufp, next, wrote, displaced>>
      /\ UNCHANGED <<leaked, hole, torn, restarted, overrun>>
  BY DEF Recv
<1>6. ThreadTypes /\ BufferTypes /\ CallTypes /\ OtherTypes
  BY TypesAre DEF NetInv
<1>7. /\ rcvbufp[s] \in 0 .. RcvSize /\ arrived[s] \in 0 .. MaxBytes /\ next[s] \in 0 .. MaxBytes
      /\ mem[s] \in [1 .. RcvSize -> 0 .. MaxBytes]
      /\ RcvSize \in Nat /\ MaxBytes \in Nat /\ Slots \in Nat /\ n \in Nat /\ rcvbufp[s] + n <= RcvSize
  BY <1>4, <1>6, ConstantsAre DEF BufferTypes, NetInv
<1>8. ThreadTypes'
  BY <1>4, <1>5, <1>6, <1>7 DEF ThreadTypes
<1>9. BufferTypes'
  <2>1. [k \in 1 .. RcvSize |-> IF k \in rcvbufp[s] + 1 .. rcvbufp[s] + n
           THEN arrived[s] + k - rcvbufp[s] ELSE mem[s][k]] \in [1 .. RcvSize -> 0 .. MaxBytes]
    <3>1. ASSUME NEW k \in rcvbufp[s] + 1 .. rcvbufp[s] + n PROVE arrived[s] + k - rcvbufp[s] \in 0 .. MaxBytes
      <4>1. k \in Nat /\ rcvbufp[s] + 1 <= k /\ k <= rcvbufp[s] + n
        BY <1>7
      <4>2. arrived[s] \in Nat /\ arrived[s] + n <= MaxBytes /\ rcvbufp[s] \in Nat
        BY <1>4, <1>7
      <4>3. QED
        BY <1>7, <4>1, <4>2, Behind
    <3>2. QED
      BY <1>7, <3>1
  <2>2. arrived[s] + n \in 0 .. MaxBytes
    BY <1>4, <1>7
  <2>3. QED
    BY <1>4, <1>5, <1>6, <2>1, <2>2 DEF BufferTypes
<1>10. CallTypes' /\ OtherTypes'
  BY <1>5, <1>6, OtherTypesFrame DEF CallTypes
<1>11. \A u \in Socks : ~Filling(u) /\ (Filling(u)' <=> n > 0 /\ u = s)
  BY <1>1, <1>3, <1>4, <1>5 DEF Filling, table
<1>12. ASSUME NEW u \in Socks PROVE Buffered(u)' /\ Written(u)'
  <2>1. Buffered(u) /\ Written(u)
    BY DEF NetInv, Filled
  <2>2. Written(u)'
    BY <1>5, <2>1, WrittenFrame
  <2>3. CASE u # s
    <3>1. /\ rcvbufp'[u] = rcvbufp[u] /\ next'[u] = next[u] /\ arrived'[u] = arrived[u]
          /\ mem'[u] = mem[u] /\ (u \in raced' <=> u \in raced)
      BY <1>4, <1>5, <1>6, <2>3 DEF BufferTypes
    <3>2. QED
      BY <1>5, <1>11, <2>1, <2>2, <2>3, <3>1, BufferedFrame
  <2>4. CASE u = s
    <3>1. /\ rcvbufp'[s] = rcvbufp[s] /\ next'[s] = next[s] /\ arrived'[s] = arrived[s] + n
          /\ pc'[s] = pc[s] /\ arg'[s] = arg[s]
          /\ \A k \in 1 .. RcvSize : mem'[s][k] = IF k \in rcvbufp[s] + 1 .. rcvbufp[s] + n
                                                   THEN arrived[s] + k - rcvbufp[s] ELSE mem[s][k]
      BY <1>4, <1>5, <1>6 DEF BufferTypes
    <3>2. ~Filling(s) /\ (Filling(s)' <=> n > 0) /\ Uncounted(s) = 0 /\ Uncounted(s)' = n
      BY <1>4, <1>7, <1>11 DEF Uncounted
    <3>3. n > 0 /\ pc[s] = "move" => s \in raced'
      BY <1>4
    <3>4. s \notin raced' => s \notin raced
      BY <1>4
    <3>5. pc[s] \notin {"none"}
      BY <1>2, <1>3 DEF NetInv, Placed, Listed, PortNetConstants
    <3>6. ASSUME s \notin raced'
          PROVE  /\ next[s] + rcvbufp[s] + n = arrived'[s]
                 /\ pc[s] # "move" => \A k \in 1 .. rcvbufp[s] + n : mem'[s][k] = next[s] + k
                 /\ pc[s] = "move" => n = 0 /\ rcvbufp[s] + arg[s] <= RcvSize
                      /\ \A k \in 1 .. rcvbufp[s] : mem'[s][k + arg[s]] = next[s] + k
      <4>1. next[s] + rcvbufp[s] = arrived[s]
        BY <1>7, <2>1, <2>4, <3>2, <3>4, <3>6 DEF Buffered
      <4>2. ASSUME pc[s] # "move", NEW k \in 1 .. rcvbufp[s] + n PROVE mem'[s][k] = next[s] + k
        <5>1. k \in 1 .. rcvbufp[s] => mem[s][k] = next[s] + k
          BY <1>7, <2>1, <2>4, <3>2, <3>4, <3>6, <4>2 DEF Buffered
        <5>2. k \in 1 .. RcvSize
          BY <1>7
        <5>3. CASE k \in 1 .. rcvbufp[s]
          <6>1. k \notin rcvbufp[s] + 1 .. rcvbufp[s] + n
            <7>1. rcvbufp[s] \in Int /\ n \in Int
              BY <1>7
            <7>2. QED
              BY <5>3, <7>1
          <6>2. mem'[s][k] = mem[s][k]
            BY <3>1, <5>2, <6>1
          <6>3. QED
            BY <5>1, <5>3, <6>2
        <5>4. CASE k \in rcvbufp[s] + 1 .. rcvbufp[s] + n
          <6>1. mem'[s][k] = arrived[s] + k - rcvbufp[s]
            BY <3>1, <5>2, <5>4
          <6>2. QED
            BY <1>7, <4>1, <5>4, <6>1
        <5>5. QED
          BY <1>7, <5>3, <5>4
      <4>3. ASSUME pc[s] = "move" PROVE n = 0 /\ rcvbufp[s] + arg[s] <= RcvSize
                      /\ \A k \in 1 .. rcvbufp[s] : mem'[s][k + arg[s]] = next[s] + k
        <5>1. n = 0
          BY <1>7, <3>3, <3>6, <4>3
        <5>2. \A k \in 1 .. RcvSize : mem'[s][k] = mem[s][k]
          BY <1>7, <3>1, <5>1
        <5>3. rcvbufp[s] + arg[s] <= RcvSize /\ \A k \in 1 .. rcvbufp[s] : mem[s][k + arg[s]] = next[s] + k
          BY <2>1, <2>4, <3>4, <3>6, <4>3 DEF Buffered
        <5>4. arg[s] \in Nat
          BY <1>6 DEF CallTypes
        <5>5. \A k \in 1 .. rcvbufp[s] : k + arg[s] \in 1 .. RcvSize
          BY <1>7, <5>3, <5>4
        <5>6. QED
          BY <5>1, <5>2, <5>3, <5>5
      <4>4. QED
        BY <1>7, <3>1, <4>1, <4>2, <4>3
    <3>7. Buffered(s)'
      <4>1. Filling(s)' => rcvbufp'[s] <= loaded' /\ loaded' + got' <= RcvSize /\ loaded' = rcvbufp'[s]
        BY <1>4, <1>7, <3>1
      <4>2. pc'[s] = "consume" => s \notin raced' /\ arg'[s] \in 1 .. rcvbufp'[s]
        BY <1>4, <2>1, <2>4, <3>1 DEF Buffered
      <4>3. Filling(s)' /\ s \notin raced' => pc'[s] # "move"
        BY <3>1, <3>2, <3>3
      <4>4. QED
        BY <1>7, <3>1, <3>2, <3>5, <3>6, <4>1, <4>2, <4>3 DEF Buffered
    <3>8. QED
      BY <2>2, <2>4, <3>7
  <2>5. QED
    BY <2>3, <2>4
<1>13. Quiet
  BY <1>1, <1>4, <1>5 DEF Quiet, table, control, sockets
<1>14. tpc' = "count" => slot' \in 1 .. Slots /\ array'[slot'] \in Socks
  BY <1>2, <1>4, <1>5 DEF table
<1>15. QED
  BY <1>8, <1>9, <1>10, <1>12, <1>13, <1>14, TypesPrimed DEF Filled

(* The bytes received are counted; a consume that got between raced the      *)
(* buffer.                                                                 *)
LEMMA CountKept ==
  ASSUME NetInv, Count
  PROVE  TypeOK' /\ Filled' /\ Quiet
<1>1. PICK s \in Socks : s = array[slot]
  BY DEF NetInv, Filled, Count
<1>2. PICK p \in {rcvbufp[s], loaded} : rcvbufp' = [rcvbufp EXCEPT ![s] = p + got]
  BY <1>1 DEF Count
<1>3. /\ UNCHANGED <<table, control, ready, slot, got, loaded, pc, arg, sockets>>
      /\ UNCHANGED <<mem, arrived, next, wrote, marks>>
      /\ tpc = "count" /\ tpc' = "recv"
  BY DEF Count
<1>4. ThreadTypes /\ BufferTypes /\ CallTypes /\ OtherTypes
  BY TypesAre DEF NetInv
<1>5. /\ rcvbufp[s] \in 0 .. RcvSize /\ RcvSize \in Nat /\ got \in Nat /\ loaded \in Nat
      /\ next[s] \in Nat /\ arrived[s] \in Nat
  BY <1>4, ConstantsAre DEF BufferTypes, ThreadTypes, NetInv
<1>6. Filling(s) /\ \A u \in Socks : u # s => ~Filling(u)
  BY <1>1, <1>3 DEF Filling
<1>7. \A u \in Socks : ~Filling(u)'
  BY <1>3 DEF Filling
<1>8. Buffered(s) /\ rcvbufp[s] <= loaded /\ loaded + got <= RcvSize
  BY <1>6 DEF NetInv, Filled, Buffered
<1>9. p \in Nat /\ p + got \in 0 .. RcvSize
  BY <1>5, <1>8
<1>10. ThreadTypes' /\ CallTypes' /\ OtherTypes'
  BY <1>3, <1>4, OtherTypesFrame DEF ThreadTypes, CallTypes, marks
<1>11. BufferTypes'
  BY <1>2, <1>3, <1>4, <1>9 DEF BufferTypes
<1>12. Buffered(s)'
  <2>1. /\ rcvbufp'[s] = p + got /\ pc'[s] = pc[s] /\ arg'[s] = arg[s] /\ next'[s] = next[s]
        /\ arrived'[s] = arrived[s] /\ mem'[s] = mem[s] /\ raced' = raced
    BY <1>2, <1>3, <1>4 DEF BufferTypes, marks
  <2>2. Uncounted(s) = got /\ Uncounted(s)' = 0 /\ ~Filling(s)'
    BY <1>6, <1>7 DEF Uncounted
  <2>3. pc[s] # "none"
    <3>1. s \in Listed
      BY <1>1, <1>3 DEF NetInv, Filled, Listed, PortNetConstants
    <3>2. QED
      BY <3>1 DEF NetInv, Placed
  <2>4. ASSUME s \notin raced
        PROVE  /\ p = rcvbufp[s] /\ pc[s] # "move"
               /\ next[s] + rcvbufp[s] + got = arrived[s]
               /\ \A k \in 1 .. rcvbufp[s] + got : mem[s][k] = next[s] + k
    BY <1>2, <1>6, <1>8, <2>2, <2>4 DEF Buffered
  <2>5. pc[s] = "consume" => s \notin raced /\ arg[s] \in 1 .. rcvbufp[s]
    BY <1>8 DEF Buffered
  <2>6. pc'[s] = "consume" => s \notin raced' /\ arg'[s] \in 1 .. rcvbufp'[s]
    BY <1>5, <2>1, <2>4, <2>5
  <2>7. s \notin raced' => next'[s] + rcvbufp'[s] + Uncounted(s)' = arrived'[s]
    BY <1>5, <2>1, <2>2, <2>4
  <2>8. s \notin raced' => \A k \in 1 .. rcvbufp'[s] + Uncounted(s)' : mem'[s][k] = next'[s] + k
    BY <1>5, <2>1, <2>2, <2>4
  <2>9. QED
    BY <2>1, <2>2, <2>3, <2>4, <2>6, <2>7, <2>8 DEF Buffered
<1>13. ASSUME NEW u \in Socks PROVE Buffered(u)' /\ Written(u)'
  <2>1. Buffered(u) /\ Written(u)
    BY DEF NetInv, Filled
  <2>2. Written(u)'
    BY <1>3, <2>1, WrittenFrame
  <2>3. ASSUME u # s PROVE Buffered(u)'
    <3>1. rcvbufp'[u] = rcvbufp[u]
      BY <1>2, <1>4, <2>3 DEF BufferTypes
    <3>2. QED
      BY <1>3, <1>6, <1>7, <2>1, <2>3, <3>1, BufferedFrame DEF marks
  <2>4. QED
    BY <1>12, <2>2, <2>3
<1>14. Quiet
  BY <1>3 DEF Quiet, table, control, sockets, marks
<1>15. QED
  BY <1>3, <1>10, <1>11, <1>13, <1>14, TypesPrimed DEF Filled

-----------------------------------------------------------------------------
(* Connecting, reading and writing.                                          *)

(* What such a step of s leaves alone,                                     *)
CallFrame(s) ==
  /\ UNCHANGED <<table, control, thread, open, bound, displaced, leaked, hole, torn>>
  /\ UNCHANGED <<restarted, overrun>>
  /\ raced' = raced \/ raced' = raced \cup {s}
  /\ pc[s] \in Active /\ pc'[s] \in Active
  /\ \A u \in Socks : u # s =>
       /\ pc'[u] = pc[u] /\ arg'[u] = arg[u] /\ wrote'[u] = wrote[u]
       /\ mem'[u] = mem[u] /\ rcvbufp'[u] = rcvbufp[u]
       /\ arrived'[u] = arrived[u] /\ next'[u] = next[u]

(* and that the invariant is kept when it is for s.                        *)
LEMMA CallKept ==
  ASSUME NetInv, NEW s \in Socks, CallFrame(s), BufferTypes', CallTypes',
         established' \in [Socks -> BOOLEAN], Buffered(s)', Written(s)'
  PROVE  TypeOK' /\ Filled' /\ Quiet
<1>1. ThreadTypes /\ OtherTypes
  BY TypesAre DEF NetInv
<1>2. /\ UNCHANGED <<array, total, stop, handle, startup, left, tpc, ready, slot, got, loaded>>
      /\ UNCHANGED <<open, bound, displaced, leaked, hole, torn, restarted, overrun>>
  BY DEF CallFrame, table, control, thread
<1>3. raced' \subseteq Socks
  BY <1>1 DEF ThreadTypes, CallFrame
<1>4. ThreadTypes' /\ OtherTypes'
  BY <1>1, <1>2, <1>3 DEF ThreadTypes, OtherTypes
<1>5. \A u \in Socks : Filling(u)' <=> Filling(u)
  BY <1>2 DEF Filling
<1>6. ASSUME NEW u \in Socks, u # s PROVE Buffered(u)' /\ Written(u)'
  <2>1. /\ pc'[u] = pc[u] /\ arg'[u] = arg[u] /\ wrote'[u] = wrote[u]
        /\ mem'[u] = mem[u] /\ rcvbufp'[u] = rcvbufp[u]
        /\ arrived'[u] = arrived[u] /\ next'[u] = next[u] /\ (u \in raced' <=> u \in raced)
    BY <1>6 DEF CallFrame
  <2>2. Buffered(u) /\ Written(u)
    BY DEF NetInv, Filled
  <2>3. Buffered(u)'
    BY <1>2, <1>5, <2>1, <2>2, BufferedFrame
  <2>4. Written(u)'
    BY <2>1, <2>2, WrittenFrame
  <2>5. QED
    BY <2>3, <2>4
<1>7. Filled'
  BY <1>2, <1>6 DEF NetInv, Filled
<1>8. Quiet
  BY <1>2 DEF Quiet, CallFrame
<1>9. QED
  BY <1>4, <1>7, <1>8, TypesPrimed

(* A call that does not touch the buffer.                                  *)
LEMMA BufferApart ==
  ASSUME NetInv, NEW s \in Socks, UNCHANGED <<thread, array, buffer, raced>>,
         pc[s] \notin Aside, pc'[s] \notin Aside
  PROVE  BufferTypes' /\ Buffered(s)'
<1>1. Buffered(s) /\ BufferTypes
  BY TypesAre DEF NetInv, Filled
<1>2. Filling(s)' <=> Filling(s)
  BY DEF Filling, thread
<1>3. QED
  BY <1>1, <1>2, BufferedFrame DEF buffer, thread, BufferTypes

LEMMA ConnectKept ==
  ASSUME NetInv, NEW s \in Socks, CPS_TcpConnect(s) \/ CPS_TcpClose(s)
  PROVE  TypeOK' /\ Filled' /\ Quiet
<1>1. /\ UNCHANGED <<table, control, thread, pc, arg, open, bound, buffer, wrote, marks>>
      /\ pc[s] = "idle" /\ established' \in [Socks -> BOOLEAN]
  BY DEF CPS_TcpConnect, CPS_TcpClose, NetInv, TypeOK
<1>2. CallTypes /\ Written(s)
  BY TypesAre DEF NetInv, Filled
<1>3. BufferTypes' /\ Buffered(s)'
  BY <1>1, BufferApart DEF Aside, table, marks
<1>4. CallTypes' /\ Written(s)'
  BY <1>1, <1>2, WrittenFrame DEF CallTypes
<1>5. CallFrame(s)
  BY <1>1 DEF CallFrame, Active, buffer, marks
<1>6. QED
  BY <1>1, <1>3, <1>4, <1>5, CallKept

(* The caller is elsewhere with another argument.                          *)
LEMMA SetTypes ==
  ASSUME NEW s \in Socks, NEW p \in Places, NEW a \in Nat, Set(s, p, a),
         pc \in [Socks -> Places], arg \in [Socks -> Nat]
  PROVE  /\ pc' \in [Socks -> Places] /\ arg' \in [Socks -> Nat]
         /\ pc'[s] = p /\ arg'[s] = a
         /\ \A u \in Socks : u # s => pc'[u] = pc[u] /\ arg'[u] = arg[u]
BY DEF Set, Goto

LEMMA ReadKept ==
  ASSUME NetInv, NEW s \in Socks, CPS_SocRead(s)
  PROVE  TypeOK' /\ Filled' /\ Quiet
<1>1. PICK n \in 1 .. rcvbufp[s] : Set(s, "consume", n)
  BY DEF CPS_SocRead
<1>2. /\ UNCHANGED <<table, control, thread, sockets, buffer, wrote, marks>>
      /\ pc[s] = "idle" /\ s \notin raced /\ rcvbufp[s] > 0
  BY DEF CPS_SocRead
<1>3. BufferTypes /\ CallTypes /\ OtherTypes /\ Buffered(s) /\ Written(s)
  BY TypesAre DEF NetInv, Filled
<1>4. rcvbufp[s] \in Nat /\ n \in Nat
  BY <1>1, <1>3 DEF BufferTypes
<1>5. /\ pc' \in [Socks -> Places] /\ arg' \in [Socks -> Nat]
      /\ pc'[s] = "consume" /\ arg'[s] = n
      /\ \A u \in Socks : u # s => pc'[u] = pc[u] /\ arg'[u] = arg[u]
  BY <1>1, <1>3, <1>4, SetTypes DEF CallTypes, Places
<1>6. CallTypes' /\ BufferTypes' /\ established' \in [Socks -> BOOLEAN]
  BY <1>2, <1>3, <1>5 DEF CallTypes, BufferTypes, OtherTypes, buffer, sockets
<1>7. Written(s)'
  BY <1>2, <1>3, <1>5, WrittenFrame
<1>8. (Filling(s)' <=> Filling(s)) /\ Uncounted(s)' = Uncounted(s)
  BY <1>2 DEF Filling, Uncounted, thread, table
<1>9. Buffered(s)'
  <2>1. /\ rcvbufp'[s] = rcvbufp[s] /\ next'[s] = next[s] /\ arrived'[s] = arrived[s]
        /\ mem'[s] = mem[s] /\ raced' = raced /\ got' = got /\ loaded' = loaded
    BY <1>2 DEF buffer, marks, thread
  <2>2. QED
    BY <1>1, <1>2, <1>3, <1>5, <1>8, <2>1 DEF Buffered
<1>10. CallFrame(s)
  BY <1>2, <1>5 DEF CallFrame, Active, buffer, marks, sockets
<1>11. QED
  BY <1>6, <1>7, <1>9, <1>10, CallKept

(* Bytes are counted out; the rest is still to be moved down.              *)
LEMMA ConsumeKept ==
  ASSUME NetInv, NEW s \in Socks, CPSi_SocConsumeRaw(s)
  PROVE  TypeOK' /\ Filled' /\ Quiet
<1>1. /\ UNCHANGED <<table, control, thread, sockets, mem, arrived, wrote, displaced>>
      /\ UNCHANGED <<leaked, hole, torn, restarted, overrun>>
      /\ pc[s] = "consume"
      /\ next' = [next EXCEPT ![s] = next[s] + arg[s]]
      /\ raced' = IF Filling(s) THEN raced \cup {s} ELSE raced
  BY DEF CPSi_SocConsumeRaw
<1>2. BufferTypes /\ CallTypes /\ OtherTypes /\ ThreadTypes /\ Buffered(s) /\ Written(s)
  BY TypesAre DEF NetInv, Filled
<1>3. PICK r \in Nat, a \in Nat : r = rcvbufp[s] /\ a = arg[s]
  BY <1>2 DEF BufferTypes, CallTypes
<1>4. s \notin raced /\ 1 <= a /\ a <= r
  BY <1>1, <1>2, <1>3 DEF Buffered
<1>5. PICK p \in {"move", "idle"}, b \in Nat :
        /\ Set(s, p, b) /\ rcvbufp' = [rcvbufp EXCEPT ![s] = r - a]
        /\ p = "move" => b = a
  <2>1. CASE a < r
    <3>1. rcvbufp' = [rcvbufp EXCEPT ![s] = r - a] /\ Goto(s, "move") /\ arg' = arg
      BY <1>3, <2>1 DEF CPSi_SocConsumeRaw
    <3>2. Set(s, "move", a)
      BY <1>2, <1>3, <3>1 DEF Set, CallTypes
    <3>3. QED
      BY <3>1, <3>2
  <2>2. CASE ~(a < r)
    <3>1. rcvbufp' = [rcvbufp EXCEPT ![s] = 0] /\ Set(s, "idle", 0)
      BY <1>3, <2>2 DEF CPSi_SocConsumeRaw
    <3>2. r - a = 0
      BY <1>4, <2>2
    <3>3. QED
      BY <3>1, <3>2
  <2>3. QED
    BY <2>1, <2>2
<1>6. /\ pc' \in [Socks -> Places] /\ arg' \in [Socks -> Nat]
      /\ pc'[s] = p /\ arg'[s] = b
      /\ \A u \in Socks : u # s => pc'[u] = pc[u] /\ arg'[u] = arg[u]
  BY <1>2, <1>5, SetTypes DEF CallTypes, Places
<1>7. /\ rcvbufp'[s] = r - a /\ next'[s] = next[s] + a /\ mem'[s] = mem[s] /\ arrived'[s] = arrived[s]
      /\ \A u \in Socks : u # s => rcvbufp'[u] = rcvbufp[u] /\ next'[u] = next[u]
  BY <1>1, <1>2, <1>3, <1>5 DEF BufferTypes
<1>8. /\ RcvSize \in Nat /\ MaxBytes \in Nat /\ next[s] \in Nat /\ arrived[s] \in Nat
      /\ arrived[s] <= MaxBytes /\ r <= RcvSize /\ got \in Nat /\ loaded \in Nat /\ Uncounted(s) \in Nat
  BY <1>2, <1>3, ConstantsAre DEF BufferTypes, ThreadTypes, Uncounted, NetInv
<1>9. /\ next[s] + r + Uncounted(s) = arrived[s]
      /\ Filling(s) => loaded = r
      /\ \A k \in 1 .. r + Uncounted(s) : mem[s][k] = next[s] + k
      /\ Filling(s) => r <= loaded /\ loaded + got <= RcvSize
  BY <1>1, <1>2, <1>3, <1>4 DEF Buffered
<1>10. (Filling(s)' <=> Filling(s)) /\ (~Filling(s) => Uncounted(s) = 0 /\ Uncounted(s)' = 0)
  BY <1>1 DEF Filling, Uncounted, thread, table
<1>11. next[s] + a \in 0 .. MaxBytes /\ r - a \in 0 .. RcvSize
  BY <1>4, <1>8, <1>9
<1>12. BufferTypes'
  BY <1>1, <1>2, <1>3, <1>5, <1>11 DEF BufferTypes
<1>13. CallTypes' /\ established' \in [Socks -> BOOLEAN] /\ Written(s)'
  BY <1>1, <1>2, <1>5, <1>6 DEF CallTypes, OtherTypes, sockets, Written
<1>14. Buffered(s)'
  <2>1. Filling(s)' => rcvbufp'[s] <= loaded' /\ loaded' + got' <= RcvSize
    BY <1>1, <1>4, <1>7, <1>8, <1>9, <1>10 DEF thread
  <2>2. pc'[s] # "consume" /\ pc'[s] # "none"
    BY <1>5, <1>6
  <2>3. s \notin raced' => ~Filling(s)
    BY <1>1
  <2>4. ASSUME s \notin raced'
        PROVE  /\ next'[s] + rcvbufp'[s] + Uncounted(s)' = arrived'[s] /\ ~Filling(s)'
               /\ p = "idle" => \A k \in 1 .. rcvbufp'[s] + Uncounted(s)' : mem'[s][k] = next'[s] + k
               /\ p = "move" => /\ rcvbufp'[s] + b <= RcvSize
                                /\ \A k \in 1 .. rcvbufp'[s] : mem'[s][k + b] = next'[s] + k
    <3>1. ~Filling(s)' /\ Uncounted(s) = 0 /\ Uncounted(s)' = 0
      BY <1>10, <2>3, <2>4
    <3>2. next'[s] + rcvbufp'[s] + Uncounted(s)' = arrived'[s]
      BY <1>4, <1>7, <1>8, <1>9, <3>1
    <3>3. p = "idle" => r = a
      <4>1. CASE a < r
        <5>1. Goto(s, "move")
          BY <1>3, <4>1 DEF CPSi_SocConsumeRaw
        <5>2. QED
          BY <1>2, <1>6, <5>1 DEF Goto, CallTypes
      <4>2. QED
        BY <1>4, <4>1
    <3>4. \A k \in 1 .. r : mem[s][k] = next[s] + k
      BY <1>8, <1>9, <3>1
    <3>5. p = "idle" => \A k \in 1 .. rcvbufp'[s] + Uncounted(s)' : mem'[s][k] = next'[s] + k
      BY <1>7, <1>8, <3>1, <3>3
    <3>6. ASSUME p = "move", NEW k \in 1 .. r - a PROVE mem'[s][k + b] = next'[s] + k
      <4>1. k + a \in 1 .. r /\ b = a
        BY <1>4, <1>5, <3>6
      <4>2. mem[s][k + a] = next[s] + (k + a)
        BY <3>4, <4>1
      <4>3. QED
        BY <1>7, <1>8, <4>1, <4>2
    <3>7. p = "move" => rcvbufp'[s] + b <= RcvSize
      BY <1>4, <1>5, <1>7, <1>8
    <3>8. QED
      BY <1>7, <3>1, <3>2, <3>5, <3>6, <3>7
  <2>5. QED
    BY <1>5, <1>6, <2>1, <2>2, <2>4 DEF Buffered
<1>15. CallFrame(s)
  BY <1>1, <1>5, <1>6, <1>7 DEF CallFrame, Active, sockets
<1>16. QED
  BY <1>12, <1>13, <1>14, <1>15, CallKept

(* The bytes left are moved down.                                          *)
LEMMA MoveKept ==
  ASSUME NetInv, NEW s \in Socks, ConsumeMove(s)
  PROVE  TypeOK' /\ Filled' /\ Quiet
<1>1. /\ UNCHANGED <<table, control, thread, sockets, rcvbufp, arrived, next, wrote, marks>>
      /\ pc[s] = "move" /\ Set(s, "idle", 0)
  BY DEF ConsumeMove
<1>2. BufferTypes /\ CallTypes /\ OtherTypes /\ ThreadTypes /\ Buffered(s) /\ Written(s)
  BY TypesAre DEF NetInv, Filled
<1>3. PICK r \in Nat, a \in Nat : r = rcvbufp[s] /\ a = arg[s] /\ r <= RcvSize
  BY <1>2, ConstantsAre DEF BufferTypes, CallTypes, NetInv
<1>4. RcvSize \in Nat /\ next[s] \in Nat
  BY <1>2, ConstantsAre DEF BufferTypes, NetInv
<1>5. mem' = [mem EXCEPT ![s] = [k \in 1 .. RcvSize |->
               IF k <= r /\ k + a <= RcvSize THEN mem[s][k + a] ELSE mem[s][k]]]
  BY <1>3 DEF ConsumeMove
<1>6. /\ pc' \in [Socks -> Places] /\ arg' \in [Socks -> Nat]
      /\ pc'[s] = "idle" /\ arg'[s] = 0
      /\ \A u \in Socks : u # s => pc'[u] = pc[u] /\ arg'[u] = arg[u]
  BY <1>1, <1>2, SetTypes DEF CallTypes, Places
<1>7. BufferTypes'
  <2>1. mem[s] \in [1 .. RcvSize -> 0 .. MaxBytes]
    BY <1>2 DEF BufferTypes
  <2>2. ASSUME NEW k \in 1 .. RcvSize
        PROVE  (IF k <= r /\ k + a <= RcvSize THEN mem[s][k + a] ELSE mem[s][k]) \in 0 .. MaxBytes
    <3>1. k + a <= RcvSize => k + a \in 1 .. RcvSize
      BY <1>3, <1>4
    <3>2. QED
      BY <2>1, <3>1
  <2>3. [k \in 1 .. RcvSize |->
               IF k <= r /\ k + a <= RcvSize THEN mem[s][k + a] ELSE mem[s][k]] \in [1 .. RcvSize -> 0 .. MaxBytes]
    BY <2>2
  <2>4. QED
    BY <1>1, <1>2, <1>5, <2>3 DEF BufferTypes
<1>8. CallTypes' /\ established' \in [Socks -> BOOLEAN] /\ Written(s)'
  BY <1>1, <1>2, <1>6 DEF CallTypes, OtherTypes, sockets, Written
<1>9. Buffered(s)'
  <2>1. /\ rcvbufp'[s] = r /\ next'[s] = next[s] /\ arrived'[s] = arrived[s] /\ raced' = raced
        /\ got' = got /\ loaded' = loaded
        /\ \A k \in 1 .. RcvSize : mem'[s][k] = IF k <= r /\ k + a <= RcvSize THEN mem[s][k + a] ELSE mem[s][k]
    BY <1>1, <1>2, <1>3, <1>5 DEF BufferTypes, marks, thread
  <2>2. (Filling(s)' <=> Filling(s)) /\ Uncounted(s)' = Uncounted(s)
    BY <1>1 DEF Filling, Uncounted, thread, table
  <2>3. s \notin raced => ~Filling(s) /\ Uncounted(s) = 0
    BY <1>1, <1>2 DEF Buffered, Uncounted
  <2>4. ASSUME s \notin raced, NEW k \in 1 .. r PROVE mem'[s][k] = next[s] + k
    <3>1. r + a <= RcvSize /\ mem[s][k + a] = next[s] + k
      BY <1>1, <1>2, <1>3, <2>4 DEF Buffered
    <3>2. k \in 1 .. RcvSize /\ k <= r /\ k + a <= RcvSize
      BY <1>3, <1>4, <3>1
    <3>3. QED
      BY <2>1, <3>1, <3>2
  <2>5. s \notin raced => \A k \in 1 .. rcvbufp'[s] + Uncounted(s)' : mem'[s][k] = next'[s] + k
    BY <1>3, <2>1, <2>2, <2>3, <2>4
  <2>6. QED
    BY <1>2, <1>3, <1>6, <2>1, <2>2, <2>3, <2>5 DEF Buffered
<1>10. CallFrame(s)
  <2>1. \A u \in Socks : u # s => mem'[u] = mem[u]
    BY <1>2, <1>5 DEF BufferTypes
  <2>2. QED
    BY <1>1, <1>6, <2>1 DEF CallFrame, Active, marks, sockets
<1>11. QED
  BY <1>7, <1>8, <1>9, <1>10, CallKept

(* What a write was asked for, and what it says it has done.               *)
LEMMA WriteKept ==
  ASSUME NetInv, NEW s \in Socks,
         CPS_SocWrite(s) \/ SendTaken(s) \/ SendRefused(s) \/ WriteReturns(s)
  PROVE  TypeOK' /\ Filled' /\ Quiet
<1>1. /\ UNCHANGED <<table, control, thread, sockets, buffer, marks>>
      /\ pc[s] \in {"idle", "write", "written"}
  BY DEF CPS_SocWrite, SendTaken, SendRefused, WriteReturns
<1>2. CallTypes /\ OtherTypes /\ Written(s)
  BY TypesAre DEF NetInv, Filled
<1>3. MaxBytes \in Nat
  BY ConstantsAre DEF NetInv
<1>4. /\ wrote[s] \in [asked : 0 .. MaxBytes, taken : 0 .. MaxBytes, ret : 0 .. MaxBytes]
      /\ \A w \in [asked : 0 .. MaxBytes, taken : 0 .. MaxBytes, ret : 0 .. MaxBytes] :
           [wrote EXCEPT ![s] = w] \in
             [Socks -> [asked : 0 .. MaxBytes, taken : 0 .. MaxBytes, ret : 0 .. MaxBytes]]
  BY <1>2 DEF CallTypes
<1>5. /\ CallTypes' /\ Written(s)' /\ pc'[s] \in {"idle", "write", "written"}
      /\ \A u \in Socks : u # s => pc'[u] = pc[u] /\ arg'[u] = arg[u] /\ wrote'[u] = wrote[u]
  <2>1. CASE CPS_SocWrite(s)
    <3>1. Set(s, "write", 0) /\ wrote' = [wrote EXCEPT ![s] = [asked |-> MaxBytes, taken |-> 0, ret |-> 0]]
      BY <2>1 DEF CPS_SocWrite
    <3>2. /\ pc' \in [Socks -> Places] /\ arg' \in [Socks -> Nat] /\ pc'[s] = "write"
          /\ \A u \in Socks : u # s => pc'[u] = pc[u] /\ arg'[u] = arg[u]
      BY <1>2, <3>1, SetTypes DEF CallTypes, Places
    <3>3. wrote'[s] = [asked |-> MaxBytes, taken |-> 0, ret |-> 0] /\ \A u \in Socks : u # s => wrote'[u] = wrote[u]
      BY <1>2, <3>1 DEF CallTypes
    <3>4. [asked |-> MaxBytes, taken |-> 0, ret |-> 0] \in [asked : 0 .. MaxBytes, taken : 0 .. MaxBytes, ret : 0 .. MaxBytes]
      BY <1>3
    <3>5. CallTypes'
      BY <1>4, <3>1, <3>2, <3>4 DEF CallTypes
    <3>6. QED
      BY <3>2, <3>3, <3>5 DEF Written
  <2>2. CASE SendTaken(s)
    <3>1. wrote[s] = [asked |-> MaxBytes, taken |-> 0, ret |-> 0]
      BY <1>2, <2>2 DEF SendTaken, Written
    <3>2. PICK m \in 1 .. wrote[s].asked :
            wrote' = [wrote EXCEPT ![s].taken = @ + m, ![s].ret = wrote[s].asked]
      BY <2>2 DEF SendTaken
    <3>3. m \in 1 .. MaxBytes
      BY <3>1, <3>2
    <3>4. wrote' = [wrote EXCEPT ![s] = [asked |-> MaxBytes, taken |-> m, ret |-> MaxBytes]]
      BY <1>2, <1>3, <3>1, <3>2, <3>3 DEF CallTypes
    <3>5. [asked |-> MaxBytes, taken |-> m, ret |-> MaxBytes] \in [asked : 0 .. MaxBytes, taken : 0 .. MaxBytes, ret : 0 .. MaxBytes]
      BY <1>3, <3>3
    <3>6. Set(s, "written", 0)
      BY <2>2 DEF SendTaken
    <3>7. /\ pc' \in [Socks -> Places] /\ arg' \in [Socks -> Nat] /\ pc'[s] = "written"
          /\ \A u \in Socks : u # s => pc'[u] = pc[u] /\ arg'[u] = arg[u]
      BY <1>2, <3>6, SetTypes DEF CallTypes, Places
    <3>8. /\ wrote'[s].taken = m /\ wrote'[s].ret = MaxBytes
          /\ \A u \in Socks : u # s => wrote'[u] = wrote[u]
      BY <1>2, <3>4 DEF CallTypes
    <3>9. wrote'[s].taken # 0 /\ wrote'[s].ret # 0
      BY <1>3, <3>3, <3>8
    <3>10. CallTypes'
      BY <1>4, <3>4, <3>5, <3>7 DEF CallTypes
    <3>11. QED
      BY <3>7, <3>8, <3>9, <3>10 DEF Written
  <2>3. CASE SendRefused(s)
    <3>1. PICK p \in {"write", "written"}, b \in Nat : Set(s, p, b)
      <4>1. arg[s] \in Nat
        BY <1>2 DEF CallTypes
      <4>2. CASE arg[s] < Retries
        BY <2>3, <4>1, <4>2 DEF SendRefused
      <4>3. CASE ~(arg[s] < Retries)
        BY <2>3, <4>3 DEF SendRefused
      <4>4. QED
        BY <4>2, <4>3
    <3>2. /\ pc' \in [Socks -> Places] /\ arg' \in [Socks -> Nat] /\ pc'[s] = p
          /\ \A u \in Socks : u # s => pc'[u] = pc[u] /\ arg'[u] = arg[u]
      BY <1>2, <3>1, SetTypes DEF CallTypes, Places
    <3>3. wrote' = wrote /\ wrote[s] = [asked |-> MaxBytes, taken |-> 0, ret |-> 0]
      BY <1>2, <2>3 DEF SendRefused, Written
    <3>4. CallTypes'
      BY <1>2, <3>2, <3>3 DEF CallTypes
    <3>5. QED
      BY <3>1, <3>2, <3>3, <3>4 DEF Written
  <2>4. CASE WriteReturns(s)
    <3>1. Set(s, "idle", arg[s]) /\ wrote' = [wrote EXCEPT ![s] = NoWrite] /\ arg[s] \in Nat
      BY <1>2, <2>4 DEF WriteReturns, Set, CallTypes
    <3>2. /\ pc' \in [Socks -> Places] /\ arg' \in [Socks -> Nat] /\ pc'[s] = "idle"
          /\ \A u \in Socks : u # s => pc'[u] = pc[u] /\ arg'[u] = arg[u]
      BY <1>2, <3>1, SetTypes DEF CallTypes, Places
    <3>3. \A u \in Socks : u # s => wrote'[u] = wrote[u]
      BY <1>2, <3>1 DEF CallTypes
    <3>4. NoWrite \in [asked : 0 .. MaxBytes, taken : 0 .. MaxBytes, ret : 0 .. MaxBytes]
      BY <1>3 DEF NoWrite
    <3>5. CallTypes'
      BY <1>4, <3>1, <3>2, <3>4 DEF CallTypes
    <3>6. QED
      BY <3>2, <3>3, <3>5 DEF Written
  <2>5. QED
    BY <2>1, <2>2, <2>3, <2>4
<1>6. BufferTypes' /\ Buffered(s)'
  BY <1>1, <1>5, BufferApart DEF Aside, table, marks
<1>7. established' \in [Socks -> BOOLEAN]
  BY <1>1, <1>2 DEF OtherTypes, sockets
<1>8. CallFrame(s)
  BY <1>1, <1>5 DEF CallFrame, Active, buffer, marks, sockets
<1>9. QED
  BY <1>5, <1>6, <1>7, <1>8, CallKept

-----------------------------------------------------------------------------
(* Binding and releasing.  A step of s here leaves the buffers alone,      *)
BindFrame(s) ==
  /\ UNCHANGED <<arg, established, buffer, wrote, ready, slot, got, loaded, raced>>
  /\ pc' \in [Socks -> Places] /\ pc[s] \notin Aside /\ pc'[s] \notin Aside \cup {"write", "written"}
  /\ \A u \in Socks : u # s => pc'[u] = pc[u]
  /\ UNCHANGED <<tpc, array>> \/ (tpc # "count" /\ tpc' \in {"off", "top", "scan"})

LEMMA BindFilled ==
  ASSUME NetInv, NEW s \in Socks, BindFrame(s)
  PROVE  Filled' /\ ThreadTypes' /\ BufferTypes' /\ CallTypes'
<1>1. /\ UNCHANGED <<arg, established, buffer, wrote, ready, slot, got, loaded, raced>>
      /\ pc' \in [Socks -> Places]
  BY DEF BindFrame
<1>2. \A u \in Socks : (Filling(u)' <=> Filling(u))
  <2>1. CASE UNCHANGED <<tpc, array>>
    BY <1>1, <2>1 DEF Filling
  <2>2. CASE ~UNCHANGED <<tpc, array>>
    BY <2>2, NotFilling DEF BindFrame
  <2>3. QED
    BY <2>1, <2>2
<1>3. ASSUME NEW u \in Socks PROVE Buffered(u)' /\ Written(u)'
  <2>1. Buffered(u) /\ Written(u)
    BY DEF NetInv, Filled
  <2>2. (pc'[u] = pc[u] /\ arg'[u] = arg[u]) \/ (pc[u] \notin Aside /\ pc'[u] \notin Aside)
    BY DEF BindFrame
  <2>3. Buffered(u)'
    BY <1>1, <1>2, <2>1, <2>2, BufferedFrame DEF buffer
  <2>4. Written(u)'
    BY <2>1, WrittenFrame DEF BindFrame
  <2>5. QED
    BY <2>3, <2>4
<1>4. tpc' = "count" => slot' \in 1 .. Slots /\ array'[slot'] \in Socks
  BY DEF NetInv, Filled, BindFrame
<1>5. ThreadTypes /\ BufferTypes /\ CallTypes
  BY TypesAre DEF NetInv
<1>6. ThreadTypes' /\ BufferTypes' /\ CallTypes'
  BY <1>1, <1>5 DEF ThreadTypes, BufferTypes, CallTypes, buffer, BindFrame
<1>7. QED
  BY <1>3, <1>4, <1>6 DEF Filled

(* the count and the damage are where they were when the array is,         *)
LEMMA CountedFrame ==
  ASSUME NetInv, UNCHANGED <<table, leaked, hole, overrun>>
  PROVE  Counted'
BY DEF NetInv, Counted, Used, table

LEMMA HarmedFrame ==
  ASSUME ~overrun, ~torn, UNCHANGED <<overrun, torn>>
  PROVE  Harmed'
BY DEF Harmed

(* and nobody else is where only the holder of the startup mutex may be.   *)
LEMMA Alone ==
  ASSUME NetInv
  PROVE  /\ startup \in Socks \cup {None} /\ None \notin Socks
         /\ \A u \in Socks : u # startup => pc[u] \notin {"bindjoin", "register", "start", "join"}
         /\ \A u \in Socks : pc[u] \in {"bindjoin", "register", "start", "join"} => startup = u
BY ConstantsAre DEF NetInv, Guarded, Holding, Binding

LEMMA GuardedIs ==
  Guarded' <=>
  /\ \A s \in Socks : pc'[s] \in {"bindjoin", "register", "start", "join"} <=> startup' = s
  /\ startup' \in Socks \cup {None}
  /\ \A s \in Socks : pc'[s] \in {"register", "start"} => ~handle'
  /\ \A s \in Socks : pc'[s] \in {"bindjoin", "join"} => handle' /\ stop'
  /\ ~handle' => tpc' = "off"
  /\ handle' /\ tpc' = "off" => stop'
  /\ stop' => left' \/ \E s \in Socks : pc'[s] \in {"bindjoin", "join"}
  /\ \A s \in Socks : pc'[s] = "clear" /\ tpc' # "off" => s \in restarted'
BY DEF Guarded, Holding, Binding

LEMMA UseKept ==
  ASSUME NetInv, ~overrun, ~torn, NEW s \in Socks, CPS_SocUse(s)
  PROVE  NetInv'
<1>1. /\ UNCHANGED <<table, control, thread, arg, bound, mem, arrived, next, wrote, marks>>
      /\ pc[s] = "none" /\ Goto(s, "idle")
      /\ open' = [open EXCEPT ![s] = FALSE] /\ established' = [established EXCEPT ![s] = FALSE]
      /\ rcvbufp' = [rcvbufp EXCEPT ![s] = 0]
  BY DEF CPS_SocUse
<1>2. ThreadTypes /\ BufferTypes /\ CallTypes /\ OtherTypes /\ Buffered(s) /\ PortNetConstants
  BY TypesAre DEF NetInv, Filled
<1>3. /\ pc' \in [Socks -> Places] /\ pc'[s] = "idle" /\ \A u \in Socks : u # s => pc'[u] = pc[u]
  BY <1>1, <1>2 DEF Goto, CallTypes, Places
<1>4. rcvbufp' = rcvbufp
  BY <1>1, <1>2 DEF Buffered, BufferTypes
<1>5. ThreadTypes' /\ BufferTypes' /\ CallTypes' /\ OtherTypes'
  BY <1>1, <1>2, <1>3, <1>4
    DEF ThreadTypes, BufferTypes, CallTypes, OtherTypes, thread, table, control, marks
<1>6. Filled'
  <2>1. \A u \in Socks : Filling(u)' <=> Filling(u)
    BY <1>1 DEF Filling, thread, table
  <2>2. ASSUME NEW u \in Socks PROVE Buffered(u)' /\ Written(u)'
    <3>1. Buffered(u) /\ Written(u)
      BY DEF NetInv, Filled
    <3>2. UNCHANGED <<mem, rcvbufp, arrived, next, raced, got, loaded, arg, wrote>>
      BY <1>1, <1>4 DEF marks, thread
    <3>3. Buffered(u)'
      <4>1. CASE u # s
        BY <1>3, <2>1, <3>1, <3>2, <4>1, BufferedFrame
      <4>2. CASE u = s
        BY <1>1, <1>3, <2>1, <3>1, <3>2, <4>2 DEF Buffered, Uncounted
      <4>3. QED
        BY <4>1, <4>2
    <3>4. Written(u)'
      BY <1>3, <3>1, <3>2, WrittenFrame
    <3>5. QED
      BY <3>3, <3>4
  <2>3. QED
    BY <1>1, <2>2 DEF Filled, NetInv, thread, table
<1>7. Guarded'
  <2>1. Guarded
    BY DEF NetInv
  <2>2. UNCHANGED <<startup, handle, stop, left, tpc, restarted>>
    BY <1>1 DEF control, thread, marks
  <2>3. QED
    BY <1>1, <1>3, <2>1, <2>2, GuardedIs DEF Guarded, Holding, Binding
<1>8. Placed'
  <2>1. UNCHANGED <<array, handle, displaced, overrun>> /\ Listed' = Listed
    BY <1>1 DEF table, control, marks, Listed
  <2>2. \A u \in Socks : open'[u] => u # s /\ open[u]
    BY <1>1, <1>2 DEF OtherTypes
  <2>3. Listed \subseteq Socks
    BY <1>2 DEF OtherTypes, Listed
  <2>4. QED
    BY <1>1, <1>3, <2>1, <2>2, <2>3 DEF NetInv, Placed, Releasing
<1>9. Counted' /\ Harmed'
  BY <1>1, CountedFrame, HarmedFrame DEF marks
<1>10. QED
  BY <1>2, <1>5, <1>6, <1>7, <1>8, <1>9, TypesPrimed DEF NetInv, PortNetConstants

(* Who is listed does not change with the array alone.                     *)
LEMMA PlacedFrame ==
  ASSUME NetInv, NEW s \in Socks, UNCHANGED <<array, open, displaced, overrun>>,
         pc'[s] \notin {"none", "restart"}, \A u \in Socks : u # s => pc'[u] = pc[u],
         handle' \/ pc'[s] \in {"register", "start", "clear"}
  PROVE  Placed'
<1>1. Listed' = Listed /\ Listed \subseteq Socks
  BY DEF NetInv, TypeOK, Listed
<1>2. QED
  BY <1>1 DEF NetInv, Placed, Releasing

LEMMA BindKept ==
  ASSUME NetInv, ~overrun, ~torn, NEW s \in Socks, NEW a \in Addrs, CPS_SocBind(s, a)
  PROVE  NetInv'
<1>1. /\ UNCHANGED <<table, handle, left, thread, arg, open, established, buffer, wrote, marks>>
      /\ pc[s] = "idle" /\ startup = None /\ startup' = s /\ stop' = (stop \/ handle)
      /\ bound' = [bound EXCEPT ![s] = a]
      /\ Goto(s, IF handle THEN "bindjoin" ELSE "register")
  BY DEF CPS_SocBind
<1>2. CallTypes /\ OtherTypes /\ PortNetConstants /\ Guarded
  BY TypesAre DEF NetInv
<1>3. /\ pc' \in [Socks -> Places] /\ \A u \in Socks : u # s => pc'[u] = pc[u]
      /\ IF handle THEN pc'[s] = "bindjoin" ELSE pc'[s] = "register"
  BY <1>1, <1>2 DEF Goto, CallTypes, Places
<1>4. OtherTypes'
  BY <1>1, <1>2 DEF OtherTypes, table, marks
<1>5. BindFrame(s)
  BY <1>1, <1>3 DEF BindFrame, thread, table, marks, Aside
<1>6. Guarded'
  <2>1. UNCHANGED <<tpc, handle, left, restarted>>
    BY <1>1 DEF thread, marks
  <2>2. \A u \in Socks : pc[u] \notin {"bindjoin", "register", "start", "join"}
    BY <1>1, Alone
  <2>3. stop => left
    BY <1>2, <2>2 DEF Guarded
  <2>4. CASE handle
    <3>1. stop' = TRUE /\ pc'[s] = "bindjoin"
      BY <1>1, <1>3, <2>4
    <3>2. QED
      BY <1>1, <1>2, <1>3, <2>1, <2>2, <2>4, <3>1, Alone, GuardedIs DEF Guarded
  <2>5. CASE ~handle
    <3>1. (stop' <=> stop) /\ pc'[s] = "register"
      BY <1>1, <1>3, <2>5
    <3>2. QED
      BY <1>1, <1>2, <1>3, <2>1, <2>2, <2>3, <2>5, <3>1, Alone, GuardedIs DEF Guarded
  <2>6. QED
    BY <2>4, <2>5
<1>7. Placed'
  BY <1>1, <1>3, PlacedFrame DEF table, marks
<1>8. Counted' /\ Harmed'
  BY <1>1, CountedFrame, HarmedFrame DEF marks
<1>9. QED
  BY <1>2, <1>4, <1>5, <1>6, <1>7, <1>8, BindFilled, TypesPrimed DEF NetInv, PortNetConstants

(* The thread that was told to stop has: it may go on without one.         *)
LEMMA JoinKept ==
  ASSUME NetInv, ~overrun, ~torn, NEW s \in Socks, BindJoin(s) \/ ReleaseJoin(s)
  PROVE  NetInv'
<1>1. /\ UNCHANGED <<table, thread, arg, sockets, buffer, wrote, marks>>
      /\ tpc = "off" /\ handle' = FALSE /\ stop' = FALSE /\ left' = FALSE
      /\ \/ pc[s] = "bindjoin" /\ Goto(s, "register") /\ startup' = startup
         \/ pc[s] = "join" /\ Goto(s, "clear") /\ startup' = None
  BY DEF BindJoin, ReleaseJoin, Joined
<1>2. CallTypes /\ OtherTypes /\ PortNetConstants /\ Guarded
  BY TypesAre DEF NetInv
<1>3. /\ pc' \in [Socks -> Places] /\ \A u \in Socks : u # s => pc'[u] = pc[u]
      /\ \/ pc[s] = "bindjoin" /\ pc'[s] = "register" /\ startup' = startup
         \/ pc[s] = "join" /\ pc'[s] = "clear" /\ startup' = None
  BY <1>1, <1>2 DEF Goto, CallTypes, Places
<1>4. OtherTypes'
  BY <1>1, <1>2, <1>3 DEF OtherTypes, table, marks, sockets
<1>5. BindFrame(s)
  BY <1>1, <1>3 DEF BindFrame, thread, table, marks, Aside, sockets
<1>6. Guarded'
  <2>1. UNCHANGED <<tpc, restarted>> /\ startup = s
    BY <1>1, Alone DEF thread, marks
  <2>2. \A u \in Socks : u # s => pc[u] \notin {"bindjoin", "register", "start", "join"}
    BY <2>1, Alone
  <2>3. QED
    BY <1>1, <1>2, <1>3, <2>1, <2>2, Alone, GuardedIs
<1>7. Placed'
  BY <1>1, <1>3, PlacedFrame DEF table, marks, sockets
<1>8. Counted' /\ Harmed'
  BY <1>1, CountedFrame, HarmedFrame DEF marks
<1>9. QED
  BY <1>2, <1>4, <1>5, <1>6, <1>7, <1>8, BindFilled, TypesPrimed DEF NetInv, PortNetConstants

(* A thread is started; the calls it may be started under are noted.       *)
LEMMA StartKept ==
  ASSUME NetInv, ~overrun, ~torn, NEW s \in Socks, BindStart(s)
  PROVE  NetInv'
<1>1. /\ UNCHANGED <<table, stop, left, ready, slot, got, loaded, arg, sockets, buffer, wrote>>
      /\ UNCHANGED <<displaced, leaked, hole, torn, raced, overrun>>
      /\ pc[s] = "start" /\ handle' = TRUE /\ tpc' = "top" /\ Starts(s)
      /\ startup' = None /\ Goto(s, "idle")
  BY DEF BindStart
<1>2. CallTypes /\ OtherTypes /\ PortNetConstants /\ Guarded
  BY TypesAre DEF NetInv
<1>3. /\ pc' \in [Socks -> Places] /\ pc'[s] = "idle" /\ \A u \in Socks : u # s => pc'[u] = pc[u]
  BY <1>1, <1>2 DEF Goto, CallTypes, Places
<1>4. restarted' = (restarted \ {s}) \cup {u \in Socks \ {s} : pc[u] \in Releasing}
  BY <1>1 DEF Starts
<1>5. OtherTypes'
  BY <1>1, <1>2, <1>4 DEF OtherTypes, table, sockets
<1>6. startup = s /\ ~handle /\ tpc = "off" /\ ~overrun
  BY <1>1, <1>2, Alone DEF Guarded
<1>7. BindFrame(s)
  BY <1>1, <1>3, <1>6 DEF BindFrame, Aside, sockets
<1>8. Guarded'
  <2>1. \A u \in Socks : u # s => pc[u] \notin {"bindjoin", "register", "start", "join"}
    BY <1>6, Alone
  <2>2. stop => left
    BY <1>1, <1>2, <2>1 DEF Guarded
  <2>3. \A u \in Socks : pc'[u] = "clear" => u \in restarted'
    BY <1>3, <1>4 DEF Releasing
  <2>4. QED
    BY <1>1, <1>2, <1>3, <2>1, <2>2, <2>3, Alone, GuardedIs
<1>9. Placed'
  BY <1>1, <1>3, PlacedFrame DEF table, sockets
<1>10. Counted' /\ Harmed'
  BY <1>1, CountedFrame, HarmedFrame
<1>11. QED
  BY <1>2, <1>5, <1>7, <1>8, <1>9, <1>10, BindFilled, TypesPrimed DEF NetInv, PortNetConstants

LEMMA ReleaseKept ==
  ASSUME NetInv, ~overrun, ~torn, NEW s \in Socks, CPS_SocRelease(s)
  PROVE  NetInv'
<1>1. /\ UNCHANGED <<table, handle, left, thread, arg, sockets, buffer, wrote, marks>>
      /\ pc[s] = "idle" /\ startup = None
      /\ IF handle THEN startup' = s /\ stop' = TRUE /\ Goto(s, "join")
                   ELSE startup' = startup /\ stop' = stop /\ Goto(s, "clear")
  BY DEF CPS_SocRelease
<1>2. CallTypes /\ OtherTypes /\ PortNetConstants /\ Guarded
  BY TypesAre DEF NetInv
<1>3. /\ pc' \in [Socks -> Places] /\ \A u \in Socks : u # s => pc'[u] = pc[u]
      /\ IF handle THEN pc'[s] = "join" ELSE pc'[s] = "clear"
  BY <1>1, <1>2 DEF Goto, CallTypes, Places
<1>4. OtherTypes'
  BY <1>1, <1>2 DEF OtherTypes, table, marks, sockets
<1>5. BindFrame(s)
  BY <1>1, <1>3 DEF BindFrame, thread, table, marks, Aside, sockets
<1>6. Guarded'
  <2>1. UNCHANGED <<tpc, handle, left, restarted>>
    BY <1>1 DEF thread, marks
  <2>2. \A u \in Socks : pc[u] \notin {"bindjoin", "register", "start", "join"}
    BY <1>1, Alone
  <2>3. stop => left
    BY <1>2, <2>2 DEF Guarded
  <2>4. CASE handle
    BY <1>1, <1>2, <1>3, <2>1, <2>2, <2>3, <2>4, Alone, GuardedIs DEF Guarded
  <2>5. CASE ~handle
    BY <1>1, <1>2, <1>3, <2>1, <2>2, <2>3, <2>5, Alone, GuardedIs DEF Guarded
  <2>6. QED
    BY <2>4, <2>5
<1>7. Placed'
  BY <1>1, <1>3, PlacedFrame DEF table, marks, sockets
<1>8. Counted' /\ Harmed'
  BY <1>1, CountedFrame, HarmedFrame DEF marks
<1>9. QED
  BY <1>2, <1>4, <1>5, <1>6, <1>7, <1>8, BindFilled, TypesPrimed DEF NetInv, PortNetConstants

(* A socket is put in the slot the count names.  Past the end of the array   *)
(* that is when slots were lost, or a socket is in one of them already and   *)
(* registered again, or in two.                                            *)
LEMMA CreateKept ==
  ASSUME NetInv, ~overrun, ~torn, NEW s \in Socks, CreateSocketEvent(s)
  PROVE  NetInv'
<1>1. /\ UNCHANGED <<control, thread, arg, bound, established, buffer, wrote, hole, torn>>
      /\ UNCHANGED <<restarted, raced>>
      /\ pc[s] = "register" /\ tpc \notin {"recv", "count"} /\ Goto(s, "start")
      /\ open' = [open EXCEPT ![s] = TRUE] /\ total' = total + 1
  BY DEF CreateSocketEvent
<1>2. CallTypes /\ OtherTypes /\ PortNetConstants /\ Guarded /\ Counted /\ Placed
  BY TypesAre DEF NetInv
<1>3. /\ pc' \in [Socks -> Places] /\ pc'[s] = "start" /\ \A u \in Socks : u # s => pc'[u] = pc[u]
  BY <1>1, <1>2 DEF Goto, CallTypes, Places
<1>4. /\ Slots \in Nat /\ total \in Nat /\ leaked \in Nat /\ total <= Slots
      /\ total = Cardinality(Used) + leaked
      /\ IsFiniteSet(Used) /\ Cardinality(Used) \in Nat /\ Used \subseteq 1 .. Slots
  <2>1. Slots \in Nat /\ IsFiniteSet(1 .. Slots) /\ Used \subseteq 1 .. Slots
    BY <1>2, ConstantsAre, FS_Interval DEF Used
  <2>2. IsFiniteSet(Used) /\ Cardinality(Used) \in Nat
    BY <2>1, FS_Subset, FS_CardinalityType
  <2>3. QED
    BY <1>2, <2>1, <2>2 DEF Counted
<1>5. UNCHANGED <<stop, handle, startup, left, tpc, restarted>>
  BY <1>1 DEF control, thread
<1>6. BindFrame(s)
  <2>1. tpc \in {"off", "top", "scan"} /\ tpc' = tpc
    BY <1>1, <1>5, TypesAre DEF ThreadTypes, NetInv
  <2>2. QED
    BY <1>1, <1>3, <2>1 DEF BindFrame, thread, Aside
<1>7. Guarded'
  BY <1>1, <1>2, <1>3, <1>5, GuardedIs DEF Guarded, Holding, Binding
<1>8. CASE total < Slots
  <2>1. PICK n \in 1 .. Slots : n = total + 1
    BY <1>4, <1>8
  <2>2. PICK o \in Socks \cup {None} : o = array[n]
    BY <1>2, <2>1 DEF OtherTypes
  <2>3. /\ array' = [array EXCEPT ![n] = s]
        /\ leaked' = IF o = None THEN leaked ELSE leaked + 1
        /\ displaced' = (displaced \cup {o}) \ {s, None} /\ overrun' = overrun
    BY <1>8, <2>1, <2>2 DEF CreateSocketEvent
  <2>4. /\ array' \in [1 .. Slots -> Socks \cup {None}] /\ array'[n] = s
        /\ \A i \in 1 .. Slots : i # n => array'[i] = array[i]
    BY <1>2, <2>3 DEF OtherTypes
  <2>5. OtherTypes'
    <3>1. total' \in 0 .. Slots + 1 /\ leaked' \in Nat
      BY <1>1, <1>4, <1>8, <2>3
    <3>2. open' \in [Socks -> BOOLEAN]
      BY <1>1, <1>2 DEF OtherTypes
    <3>3. displaced' \subseteq Socks
      BY <1>2, <2>3 DEF OtherTypes
    <3>4. QED
      BY <1>1, <1>2, <1>5, <2>3, <2>4, <3>1, <3>2, <3>3 DEF OtherTypes
  <2>6. Used' = Used \cup {n}
    <3>1. \A i \in 1 .. Slots : array'[i] # None <=> (i = n \/ array[i] # None)
      BY <1>2, <2>4, ConstantsAre
    <3>2. QED
      BY <3>1 DEF Used
  <2>7. Cardinality(Used') = (IF n \in Used THEN Cardinality(Used) ELSE Cardinality(Used) + 1)
    BY <1>4, <2>6, FS_AddElement
  <2>8. n \in Used <=> o # None
    BY <2>1, <2>2 DEF Used
  <2>9. Counted'
    <3>1. total' \in 0 .. Slots /\ leaked' \in Nat
      BY <1>1, <1>4, <1>8, <2>3
    <3>2. total' = Cardinality(Used') + leaked'
      BY <1>1, <1>4, <2>3, <2>7, <2>8
    <3>3. ASSUME ~hole PROVE leaked' = 0 /\ Used' = 1 .. total'
      <4>1. Used = 1 .. total /\ leaked = 0
        BY <1>2, <3>3 DEF Counted
      <4>2. n \notin Used
        <5>1. n \notin 1 .. total
          BY <1>4, <2>1
        <5>2. QED
          BY <4>1, <5>1
      <4>3. 1 .. total' = (1 .. total) \cup {n}
        BY <1>1, <1>4, <2>1
      <4>4. QED
        BY <2>3, <2>6, <2>8, <4>1, <4>2, <4>3
    <3>4. QED
      BY <1>1, <3>1, <3>2, <3>3 DEF Counted
  <2>10. Placed'
    <3>1. Listed' \subseteq Listed \cup {s}
      BY <2>4 DEF Listed
    <3>2. s \in Listed' /\ Listed \subseteq Socks
      <4>1. s # None /\ Listed \subseteq Socks
        BY <1>2, ConstantsAre DEF Listed, OtherTypes
      <4>2. QED
        BY <2>4, <4>1 DEF Listed
    <3>3. ASSUME NEW u \in Socks, u \in Listed, u # s PROVE u \in Listed' \/ u \in displaced'
      <4>1. PICK i \in 1 .. Slots : u = array[i] /\ u # None
        BY <3>3 DEF Listed
      <4>2. CASE i = n
        BY <2>2, <2>3, <3>3, <4>1, <4>2
      <4>3. CASE i # n
        BY <2>4, <4>1, <4>3 DEF Listed
      <4>4. QED
        BY <4>2, <4>3
    <3>4. \A u \in Socks : u # s /\ u \in displaced => u \in displaced'
      BY <1>2, <2>3, ConstantsAre
    <3>5. \A u \in Socks : u # s => open'[u] = open[u]
      BY <1>1, <1>2 DEF OtherTypes
    <3>6. \A u \in Listed' : pc'[u] \notin {"none", "restart"}
      BY <1>2, <1>3, <3>1, <3>2 DEF Placed
    <3>7. \A u \in Socks : open'[u] => pc'[u] \notin {"none", "restart"}
      BY <1>2, <1>3, <3>5 DEF Placed
    <3>8. \A u \in Socks : open'[u] => u \in Listed' \/ u \in displaced' \/ overrun'
      BY <1>2, <2>3, <3>2, <3>3, <3>4, <3>5 DEF Placed
    <3>9. QED
      BY <1>3, <3>6, <3>7, <3>8 DEF Placed
  <2>11. Harmed'
    BY <1>1, <2>3, HarmedFrame
  <2>12. QED
    BY <1>2, <1>6, <1>7, <2>5, <2>9, <2>10, <2>11, BindFilled, TypesPrimed DEF NetInv, PortNetConstants
<1>9. CASE ~(total < Slots)
  <2>1. overrun' = TRUE /\ array' = array /\ leaked' = leaked /\ displaced' = displaced
    BY <1>9 DEF CreateSocketEvent
  <2>2. total = Slots
    BY <1>4, <1>9
  <2>3. OtherTypes'
    <3>1. total' \in 0 .. Slots + 1
      BY <1>1, <1>4, <2>2
    <3>2. open' \in [Socks -> BOOLEAN]
      BY <1>1, <1>2 DEF OtherTypes
    <3>3. QED
      BY <1>1, <1>2, <1>5, <2>1, <3>1, <3>2 DEF OtherTypes
  <2>4. Counted'
    BY <1>1, <1>2, <2>1 DEF Counted
  <2>5. Placed'
    <3>1. Listed' = Listed /\ Listed \subseteq Socks
      BY <1>2, <2>1 DEF Listed, OtherTypes
    <3>2. \A u \in Socks : u # s => open'[u] = open[u]
      BY <1>1, <1>2 DEF OtherTypes
    <3>3. QED
      BY <1>2, <1>3, <2>1, <3>1, <3>2 DEF Placed
  <2>6. Harmed'
    <3>1. SUFFICES ASSUME leaked = 0, SlotsOf(s) = {}
                   PROVE  \E u \in Socks : Cardinality(SlotsOf(u)) > 1
      <4>1. SlotsOf(s)' = SlotsOf(s) /\ \A u \in Socks : SlotsOf(u)' = SlotsOf(u)
        BY <2>1 DEF SlotsOf
      <4>2. leaked' \in Nat /\ ~torn'
        BY <1>1, <1>4, <2>1
      <4>3. CASE leaked = 0 /\ SlotsOf(s) = {}
        BY <3>1, <4>1, <4>2, <4>3 DEF Harmed
      <4>4. CASE leaked # 0
        BY <1>4, <2>1, <4>2, <4>4 DEF Harmed
      <4>5. CASE SlotsOf(s) # {}
        BY <1>3, <4>1, <4>2, <4>5 DEF Harmed
      <4>6. QED
        BY <4>3, <4>4, <4>5
    <3>2. Cardinality(1 .. Slots) = Slots /\ IsFiniteSet(1 .. Slots)
      BY <1>4, FS_Interval
    <3>3. Used = 1 .. Slots
      <4>1. Cardinality(1 .. Slots) = Cardinality(Used)
        BY <1>4, <2>2, <3>1, <3>2
      <4>2. QED
        BY <1>4, <3>2, <4>1, FS_Subset
    <3>4. array \in [1 .. Slots -> Socks \ {s}]
      <4>1. \A i \in 1 .. Slots : array[i] # None /\ array[i] # s /\ array[i] \in Socks \cup {None}
        BY <1>2, <3>1, <3>3 DEF Used, SlotsOf, OtherTypes
      <4>2. QED
        BY <1>2, <4>1 DEF OtherTypes
    <3>5. IsFiniteSet(Socks \ {s}) /\ Cardinality(Socks \ {s}) < Cardinality(1 .. Slots)
      <4>1. IsFiniteSet(Socks) /\ Cardinality(Socks) <= Slots /\ Cardinality(Socks) \in Nat
        BY <1>2, ConstantsAre, FS_CardinalityType
      <4>2. IsFiniteSet(Socks \ {s}) /\ Cardinality(Socks \ {s}) = Cardinality(Socks) - 1
        BY <4>1, FS_RemoveElement
      <4>3. QED
        BY <1>4, <3>2, <4>1, <4>2
    <3>6. PICK i \in 1 .. Slots, j \in 1 .. Slots : i # j /\ array[i] = array[j]
      BY <3>2, <3>4, <3>5, FS_PigeonHole
    <3>7. PICK u \in Socks : u = array[i]
      BY <3>4
    <3>8. i \in SlotsOf(u) /\ j \in SlotsOf(u)
      BY <3>6, <3>7 DEF SlotsOf
    <3>9. Cardinality(SlotsOf(u)) > 1
      <4>1. IsFiniteSet(SlotsOf(u)) /\ Cardinality(SlotsOf(u)) \in Nat
        BY <3>2, FS_Subset, FS_CardinalityType DEF SlotsOf
      <4>2. Cardinality(SlotsOf(u)) # 0
        BY <3>8, <4>1, FS_EmptySet
      <4>3. Cardinality(SlotsOf(u)) # 1
        BY <3>6, <3>8, <4>1, FS_Singleton
      <4>4. QED
        BY <4>1, <4>2, <4>3
    <3>10. QED
      BY <3>9
  <2>7. QED
    BY <1>2, <1>6, <1>7, <2>3, <2>4, <2>5, <2>6, BindFilled, TypesPrimed DEF NetInv, PortNetConstants
<1>10. QED
  BY <1>8, <1>9

(* The slots of a socket are emptied.  When it leaves no gap the rest still  *)
(* fills the array from the bottom.                                         *)
LEMMA TopCut ==
  ASSUME NEW n \in Nat, NEW S \in SUBSET (1 .. n),
         \A i \in S : \A j \in i + 1 .. n : j \in S
  PROVE  (1 .. n) \ S = 1 .. n - Cardinality(S)
<1>1. CASE S = {}
  BY <1>1, FS_EmptySet
<1>2. CASE S # {}
  <2>1. S \in SUBSET Nat
    OBVIOUS
  <2>2. PICK x \in S : \A y \in S : ~(<<y, x>> \in OpToRel(<, Nat))
    BY <1>2, <2>1, NatLessThanWellFounded, WFMin
  <2>3. \A y \in S : x <= y
    <3>1. \A y \in S : ~(y < x)
      BY <2>1, <2>2 DEF OpToRel
    <3>2. QED
      BY <2>1, <3>1
  <2>4. S = x .. n
    <3>1. ASSUME NEW i \in x .. n PROVE i \in S
      <4>1. i = x \/ i \in x + 1 .. n
        BY <2>1, <3>1
      <4>2. QED
        BY <4>1
    <3>2. \A i \in S : i \in x .. n
      BY <2>1, <2>3
    <3>3. QED
      BY <3>1, <3>2
  <2>5. Cardinality(S) = n - x + 1
    <3>1. x \in Int /\ n \in Int /\ x <= n
      OBVIOUS
    <3>2. Cardinality(x .. n) = n - x + 1
      BY <3>1, FS_Interval
    <3>3. QED
      BY <2>4, <3>2
  <2>6. x \in Nat /\ x >= 1 /\ x <= n
    OBVIOUS
  <2>7. n - Cardinality(S) = x - 1
    BY <2>5, <2>6
  <2>8. (1 .. n) \ (x .. n) = 1 .. x - 1
    BY <2>6
  <2>9. QED
    BY <2>4, <2>7, <2>8
<1>3. QED
  BY <1>1, <1>2

LEMMA ClearKept ==
  ASSUME NetInv, ~overrun, ~torn, NEW s \in Socks, ClearSlots(s)
  PROVE  NetInv'
<1>1. /\ UNCHANGED <<control, thread, arg, established, buffer, wrote, displaced, leaked>>
      /\ UNCHANGED <<restarted, raced, overrun>>
      /\ pc[s] = "clear" /\ tpc \notin {"recv", "count"} /\ Goto(s, "restart")
      /\ bound' = [bound EXCEPT ![s] = None] /\ open' = [open EXCEPT ![s] = FALSE]
      /\ array' = [i \in 1 .. Slots |-> IF array[i] = s THEN None ELSE array[i]]
      /\ total' = total - Cardinality(SlotsOf(s))
      /\ hole' = (hole \/ \E i \in SlotsOf(s) : \E j \in i + 1 .. Slots : array[j] \notin {None, s})
      /\ torn' = (torn \/ (tpc = "scan" /\ SlotsOf(s) # {}))
  BY DEF ClearSlots
<1>2. CallTypes /\ OtherTypes /\ ThreadTypes /\ PortNetConstants /\ Guarded /\ Counted /\ Placed
  BY TypesAre DEF NetInv
<1>3. /\ pc' \in [Socks -> Places] /\ pc'[s] = "restart" /\ \A u \in Socks : u # s => pc'[u] = pc[u]
  BY <1>1, <1>2 DEF Goto, CallTypes, Places
<1>4. UNCHANGED <<stop, handle, startup, left, tpc>>
  BY <1>1 DEF control, thread
<1>5. BindFrame(s)
  <2>1. tpc \in {"off", "top", "scan"} /\ tpc' = tpc
    BY <1>1, <1>2, <1>4 DEF ThreadTypes
  <2>2. QED
    BY <1>1, <1>3, <2>1 DEF BindFrame, thread, Aside
<1>6. /\ Slots \in Nat /\ total \in Nat /\ leaked \in Nat /\ total <= Slots /\ None \notin Socks
      /\ total = Cardinality(Used) + leaked
      /\ IsFiniteSet(Used) /\ Cardinality(Used) \in Nat /\ Used \subseteq 1 .. Slots
      /\ SlotsOf(s) \subseteq Used /\ Cardinality(SlotsOf(s)) \in Nat
      /\ Cardinality(SlotsOf(s)) <= Cardinality(Used)
      /\ Cardinality(Used \ SlotsOf(s)) = Cardinality(Used) - Cardinality(SlotsOf(s))
  <2>1. Slots \in Nat /\ None \notin Socks /\ IsFiniteSet(1 .. Slots) /\ Used \subseteq 1 .. Slots
    BY <1>2, ConstantsAre, FS_Interval DEF Used
  <2>2. IsFiniteSet(Used) /\ Cardinality(Used) \in Nat
    BY <2>1, FS_Subset, FS_CardinalityType
  <2>3. SlotsOf(s) \subseteq Used
    BY <2>1 DEF SlotsOf, Used
  <2>4. IsFiniteSet(SlotsOf(s)) /\ Cardinality(SlotsOf(s)) \in Nat /\ Cardinality(SlotsOf(s)) <= Cardinality(Used)
    BY <2>2, <2>3, FS_Subset, FS_CardinalityType
  <2>5. Cardinality(Used \ SlotsOf(s)) = Cardinality(Used) - Cardinality(SlotsOf(s))
    <3>1. Used \cap SlotsOf(s) = SlotsOf(s)
      BY <2>3
    <3>2. QED
      BY <2>2, <3>1, FS_Difference
  <2>6. QED
    BY <1>1, <1>2, <2>1, <2>2, <2>3, <2>4, <2>5 DEF Counted
<1>7. array' \in [1 .. Slots -> Socks \cup {None}] /\ Used' = Used \ SlotsOf(s)
  <2>1. array' \in [1 .. Slots -> Socks \cup {None}]
    BY <1>1, <1>2 DEF OtherTypes
  <2>2. \A i \in 1 .. Slots : array'[i] # None <=> (array[i] # None /\ array[i] # s)
    BY <1>1
  <2>3. QED
    BY <2>1, <2>2 DEF Used, SlotsOf
<1>8. total' \in 0 .. Slots
  BY <1>1, <1>6
<1>9. OtherTypes'
  <2>1. open' \in [Socks -> BOOLEAN] /\ bound' \in [Socks -> Addrs \cup {None}]
    BY <1>1, <1>2 DEF OtherTypes
  <2>2. hole' \in BOOLEAN /\ torn' \in BOOLEAN
    BY <1>1, <1>2 DEF OtherTypes
  <2>3. total' \in 0 .. Slots + 1
    BY <1>6, <1>8
  <2>4. QED
    BY <1>1, <1>2, <1>4, <1>7, <2>1, <2>2, <2>3 DEF OtherTypes
<1>10. Guarded'
  <2>1. UNCHANGED <<restarted>>
    BY <1>1
  <2>2. QED
    BY <1>1, <1>2, <1>3, <1>4, <2>1, GuardedIs DEF Guarded, Holding, Binding
<1>11. Counted'
  <2>1. total' = Cardinality(Used') + leaked'
    BY <1>1, <1>6, <1>7
  <2>2. ASSUME ~hole' PROVE leaked' = 0 /\ Used' = 1 .. total'
    <3>1. ~hole /\ ~(\E i \in SlotsOf(s) : \E j \in i + 1 .. Slots : array[j] \notin {None, s})
      BY <1>1, <2>2
    <3>2. leaked = 0 /\ Used = 1 .. total
      BY <1>1, <1>2, <3>1 DEF Counted
    <3>3. ASSUME NEW i \in SlotsOf(s), NEW j \in i + 1 .. total PROVE j \in SlotsOf(s)
      <4>1. i \in 1 .. total
        BY <1>6, <3>2, <3>3
      <4>2. j \in 1 .. total /\ j \in i + 1 .. Slots /\ j \in 1 .. Slots
        BY <1>6, <3>3, <4>1
      <4>3. array[j] # None
        BY <3>2, <4>2 DEF Used
      <4>4. QED
        BY <3>1, <3>3, <4>2, <4>3 DEF SlotsOf
    <3>4. (1 .. total) \ SlotsOf(s) = 1 .. total - Cardinality(SlotsOf(s))
      BY <1>6, <3>2, <3>3, TopCut
    <3>5. QED
      BY <1>1, <1>7, <3>2, <3>4
  <2>3. QED
    BY <1>1, <1>6, <1>8, <2>1, <2>2 DEF Counted
<1>12. Placed'
  <2>1. Listed' = Listed \ {s} /\ Listed \subseteq Socks
    <3>1. Listed \subseteq Socks
      BY <1>2 DEF Listed, OtherTypes
    <3>2. \A u : u \in Listed' => u \in Listed /\ u # s
      BY <1>1, <1>6 DEF Listed
    <3>3. \A u : u \in Listed /\ u # s => u \in Listed'
      BY <1>1, <1>6 DEF Listed
    <3>4. QED
      BY <3>1, <3>2, <3>3
  <2>2. \A u \in Socks : open'[u] => u # s /\ open[u]
    BY <1>1, <1>2 DEF OtherTypes
  <2>3. QED
    BY <1>1, <1>2, <1>3, <1>4, <2>1, <2>2 DEF Placed, Releasing
<1>13. Harmed'
  <2>1. torn' => s \in restarted'
    BY <1>1, <1>2 DEF Guarded
  <2>2. QED
    BY <1>1, <1>3, <2>1 DEF Harmed
<1>14. QED
  BY <1>2, <1>5, <1>9, <1>10, <1>11, <1>12, <1>13, BindFilled, TypesPrimed DEF NetInv, PortNetConstants

(* The thread is started again if a socket is listed; what is known of the   *)
(* released one is forgotten.                                              *)
LEMMA RestartKept ==
  ASSUME NetInv, ~overrun, ~torn, NEW s \in Socks, ReleaseRestart(s)
  PROVE  NetInv'
<1>1. /\ UNCHANGED <<table, stop, left, startup, ready, slot, got, loaded, arg, open, bound>>
      /\ UNCHANGED <<wrote, leaked, hole, torn, overrun>>
      /\ pc[s] = "restart" /\ startup = None /\ Goto(s, "none")
      /\ established' = [established EXCEPT ![s] = FALSE]
      /\ mem' = [mem EXCEPT ![s] = Empty] /\ rcvbufp' = [rcvbufp EXCEPT ![s] = 0]
      /\ arrived' = [arrived EXCEPT ![s] = 0] /\ next' = [next EXCEPT ![s] = 0]
      /\ displaced' = displaced \ {s} /\ raced' = raced \ {s}
      /\ IF total > 0 /\ ~handle
           THEN /\ handle' = TRUE /\ tpc' = "top"
                /\ restarted' = (restarted \ {s}) \cup {u \in Socks \ {s} : pc[u] \in Releasing}
           ELSE handle' = handle /\ tpc' = tpc /\ restarted' = restarted \ {s}
  BY DEF ReleaseRestart, Starts
<1>2. /\ CallTypes /\ OtherTypes /\ ThreadTypes /\ BufferTypes /\ PortNetConstants
      /\ Guarded /\ Counted /\ Placed
  BY TypesAre DEF NetInv
<1>3. /\ pc' \in [Socks -> Places] /\ pc'[s] = "none" /\ \A u \in Socks : u # s => pc'[u] = pc[u]
  BY <1>1, <1>2 DEF Goto, CallTypes, Places
<1>4. s \notin Listed /\ Listed' = Listed /\ Listed \subseteq Socks /\ ~open[s] /\ UNCHANGED <<array, total>>
  BY <1>1, <1>2 DEF Placed, Listed, table, OtherTypes
<1>5. tpc' \in {"top", tpc} /\ (tpc' # tpc => tpc = "off") /\ handle' \in BOOLEAN
      /\ restarted' \subseteq Socks
  BY <1>1, <1>2 DEF Guarded, OtherTypes
<1>6. OtherTypes' /\ CallTypes' /\ ThreadTypes'
  BY <1>1, <1>2, <1>3, <1>5 DEF OtherTypes, CallTypes, ThreadTypes, table
<1>7. BufferTypes'
  <2>1. Empty \in [1 .. RcvSize -> 0 .. MaxBytes] /\ 0 \in 0 .. RcvSize /\ 0 \in 0 .. MaxBytes
    BY <1>2, ConstantsAre DEF Empty
  <2>2. QED
    BY <1>1, <1>2, <2>1 DEF BufferTypes
<1>8. Filled'
  <2>1. \A u \in Socks : Filling(u)' <=> Filling(u)
    BY <1>1, <1>4, <1>5 DEF Filling
  <2>2. tpc = "count" => slot \in 1 .. Slots /\ array[slot] \in Socks
    BY DEF NetInv, Filled
  <2>3. ~Filling(s)
    BY <1>2, <1>4, <2>2, ConstantsAre DEF Filling, Listed
  <2>4. ASSUME NEW u \in Socks PROVE Buffered(u)' /\ Written(u)'
    <3>1. Buffered(u) /\ Written(u)
      BY DEF NetInv, Filled
    <3>2. Written(u)'
      BY <1>1, <1>3, <3>1, WrittenFrame
    <3>3. CASE u # s
      <4>1. /\ mem'[u] = mem[u] /\ rcvbufp'[u] = rcvbufp[u] /\ arrived'[u] = arrived[u]
            /\ next'[u] = next[u] /\ (u \in raced' <=> u \in raced)
        BY <1>1, <1>2, <3>3 DEF BufferTypes
      <4>2. QED
        BY <1>1, <1>3, <2>1, <3>1, <3>2, <3>3, <4>1, BufferedFrame
    <3>4. CASE u = s
      <4>1. rcvbufp'[s] = 0 /\ arrived'[s] = 0 /\ next'[s] = 0
        BY <1>1, <1>2 DEF BufferTypes
      <4>2. ~Filling(s)' /\ Uncounted(s)' = 0
        BY <2>1, <2>3 DEF Uncounted
      <4>3. QED
        BY <1>3, <3>2, <3>4, <4>1, <4>2 DEF Buffered
    <3>5. QED
      BY <3>3, <3>4
  <2>5. tpc' = "count" => slot' \in 1 .. Slots /\ array'[slot'] \in Socks
    BY <1>1, <1>4, <1>5, <2>2
  <2>6. QED
    BY <2>4, <2>5 DEF Filled
<1>9. Guarded'
  <2>1. \A u \in Socks : pc[u] \notin {"bindjoin", "register", "start", "join"}
    BY <1>1, Alone
  <2>2. stop => left
    BY <1>2, <2>1 DEF Guarded
  <2>3. \A u \in Socks : pc'[u] \notin {"bindjoin", "register", "start", "join"}
    BY <1>3, <2>1
  <2>4. \A u \in Socks : pc'[u] = "clear" /\ tpc' # "off" => u \in restarted'
    BY <1>1, <1>2, <1>3 DEF Guarded, Releasing
  <2>5. (~handle' => tpc' = "off") /\ (handle' /\ tpc' = "off" => stop')
    BY <1>1, <1>2 DEF Guarded
  <2>6. QED
    BY <1>1, <2>2, <2>3, <2>4, <2>5, Alone, GuardedIs
<1>10. Counted' /\ Harmed'
  BY <1>1, CountedFrame, HarmedFrame
<1>11. Placed'
  <2>1. ~handle' => Listed' = {}
    <3>1. SUFFICES ASSUME ~handle' PROVE Listed = {}
      BY <1>4
    <3>2. ~(total > 0)
      BY <1>1, <3>1
    <3>3. IsFiniteSet(Used) /\ Cardinality(Used) \in Nat
      <4>1. IsFiniteSet(1 .. Slots) /\ Used \subseteq 1 .. Slots
        BY <1>2, ConstantsAre, FS_Interval DEF Used
      <4>2. QED
        BY <4>1, FS_Subset, FS_CardinalityType
    <3>4. Cardinality(Used) = 0
      BY <1>2, <3>2, <3>3 DEF Counted
    <3>5. Used = {}
      BY <3>3, <3>4, FS_EmptySet
    <3>6. QED
      BY <3>5 DEF Used, Listed
  <2>2. QED
    BY <1>1, <1>2, <1>3, <1>4, <2>1 DEF Placed
<1>12. QED
  BY <1>2, <1>6, <1>7, <1>8, <1>9, <1>10, <1>11, TypesPrimed DEF NetInv, PortNetConstants

(* The last one stops the thread and leaves the word to stop behind.       *)
LEMMA CleanupKept ==
  ASSUME NetInv, ~overrun, ~torn, CPS_Cleanup
  PROVE  NetInv'
<1>1. /\ UNCHANGED <<table, startup, pc, arg, sockets, buffer, wrote, marks>>
      /\ \A s \in Socks : pc[s] = "none"
      /\ stop' = TRUE /\ handle' = FALSE /\ left' = TRUE
      /\ tpc' = "off" /\ ready' = {} /\ slot' = 0 /\ got' = 0 /\ loaded' = 0
  BY DEF CPS_Cleanup
<1>2. /\ CallTypes /\ OtherTypes /\ ThreadTypes /\ BufferTypes /\ PortNetConstants
      /\ Guarded /\ Counted /\ Placed
  BY TypesAre DEF NetInv
<1>3. Listed = {} /\ Listed' = Listed
  BY <1>1, <1>2 DEF Placed, Listed, table, OtherTypes
<1>4. ThreadTypes' /\ BufferTypes' /\ CallTypes' /\ OtherTypes'
  <2>1. 0 \in 0 .. Slots /\ 0 \in 0 .. RcvSize
    BY <1>2, ConstantsAre
  <2>2. ThreadTypes'
    BY <1>1, <1>2, <2>1 DEF ThreadTypes, marks
  <2>3. BufferTypes' /\ CallTypes'
    BY <1>1, <1>2 DEF BufferTypes, CallTypes, buffer
  <2>4. OtherTypes'
    BY <1>1, <1>2 DEF OtherTypes, table, sockets, marks
  <2>5. QED
    BY <2>2, <2>3, <2>4
<1>5. Filled'
  <2>1. tpc = "count" => slot \in 1 .. Slots /\ array[slot] \in Socks
    BY DEF NetInv, Filled
  <2>2. tpc # "count"
    BY <1>2, <1>3, <2>1, ConstantsAre DEF Listed
  <2>3. \A u \in Socks : ~Filling(u) /\ ~Filling(u)'
    BY <1>1, <2>2 DEF Filling
  <2>4. ASSUME NEW u \in Socks PROVE Buffered(u)' /\ Written(u)'
    <3>1. Buffered(u) /\ Written(u)
      BY DEF NetInv, Filled
    <3>2. QED
      BY <1>1, <2>3, <3>1, BufferedFrame, WrittenFrame DEF buffer, marks
  <2>5. QED
    BY <1>1, <2>4 DEF Filled
<1>6. Guarded'
  BY <1>1, <1>2, GuardedIs DEF Guarded, Holding, Binding
<1>7. Placed'
  BY <1>1, <1>2, <1>3 DEF Placed, sockets, marks
<1>8. Counted' /\ Harmed'
  BY <1>1, CountedFrame, HarmedFrame DEF marks
<1>9. QED
  BY <1>2, <1>4, <1>5, <1>6, <1>7, <1>8, TypesPrimed DEF NetInv, PortNetConstants

(* The thread ends when it is told to, and only then.                      *)
LEMMA TopKept ==
  ASSUME NetInv, ~overrun, ~torn, ThreadTop
  PROVE  NetInv'
<1>1. /\ UNCHANGED <<table, control, ready, slot, got, loaded, pc, arg, sockets, buffer, wrote, marks>>
      /\ tpc = "top" /\ tpc' \in {"off", "scan"} /\ (tpc' = "off" => stop)
  BY DEF ThreadTop
<1>2. /\ CallTypes /\ OtherTypes /\ ThreadTypes /\ BufferTypes /\ PortNetConstants
      /\ Guarded /\ Counted /\ Placed
  BY TypesAre DEF NetInv
<1>3. ThreadTypes' /\ BufferTypes' /\ CallTypes' /\ OtherTypes'
  <2>1. OtherTypes'
    BY <1>1, <1>2, OtherTypesFrame DEF marks
  <2>2. QED
    BY <1>1, <1>2, <2>1 DEF ThreadTypes, BufferTypes, CallTypes, buffer, marks
<1>4. Filled'
  <2>1. \A u \in Socks : ~Filling(u) /\ ~Filling(u)'
    BY <1>1, NotFilling
  <2>2. ASSUME NEW u \in Socks PROVE Buffered(u)' /\ Written(u)'
    <3>1. Buffered(u) /\ Written(u)
      BY DEF NetInv, Filled
    <3>2. QED
      BY <1>1, <2>1, <3>1, BufferedFrame, WrittenFrame DEF buffer, marks
  <2>3. QED
    BY <1>1, <2>2 DEF Filled
<1>5. Guarded'
  <2>1. UNCHANGED <<stop, handle, startup, left, restarted, pc>>
    BY <1>1 DEF control, marks
  <2>2. QED
    BY <1>1, <1>2, <2>1, GuardedIs DEF Guarded, Holding, Binding
<1>6. Placed'
  <2>1. UNCHANGED <<array, handle, pc, open, displaced, overrun>> /\ Listed' = Listed
    BY <1>1 DEF table, control, sockets, marks, Listed
  <2>2. QED
    BY <1>2, <2>1 DEF Placed
<1>7. Counted' /\ Harmed'
  BY <1>1, CountedFrame, HarmedFrame DEF marks
<1>8. QED
  BY <1>2, <1>3, <1>4, <1>5, <1>6, <1>7, TypesPrimed DEF NetInv, PortNetConstants

-----------------------------------------------------------------------------
(* The invariant holds at first and is kept.                                 *)

LEMMA NetInit ==
  ASSUME PortNetConstants, Init
  PROVE  NetInv
<1>1. /\ Slots \in Nat /\ RcvSize \in Nat /\ MaxBytes \in Nat /\ None \notin Socks
      /\ 0 \in 0 .. Slots /\ 0 \in 0 .. RcvSize /\ 0 \in 0 .. MaxBytes /\ 0 \in 0 .. Slots + 1
  BY ConstantsAre
<1>2. ThreadTypes /\ CallTypes /\ OtherTypes
  BY <1>1 DEF Init, ThreadTypes, CallTypes, OtherTypes, Places, NoWrite
<1>3. BufferTypes
  <2>1. Empty \in [1 .. RcvSize -> 0 .. MaxBytes]
    BY <1>1 DEF Empty
  <2>2. QED
    BY <1>1, <2>1 DEF Init, BufferTypes
<1>4. Listed = {} /\ Used = {}
  BY DEF Listed, Used, Init
<1>5. Guarded
  BY <1>1 DEF Init, Guarded, Holding, Binding
<1>6. Counted
  <2>1. Cardinality(Used) = 0 /\ Used = 1 .. 0
    BY <1>4, FS_EmptySet
  <2>2. QED
    BY <1>1, <2>1 DEF Init, Counted
<1>7. Placed /\ Harmed
  BY <1>4 DEF Init, Placed, Harmed
<1>8. Filled
  BY DEF Init, Filled, Buffered, Written, Filling, Uncounted
<1>9. QED
  BY <1>2, <1>3, <1>5, <1>6, <1>7, <1>8, TypesAre DEF NetInv

LEMMA NetStutter ==
  ASSUME NetInv, UNCHANGED vars
  PROVE  NetInv'
<1>1. /\ UNCHANGED <<array, total, stop, handle, startup, tpc, ready, slot, got, loaded, pc, arg>>
      /\ UNCHANGED <<open, bound, established, mem, rcvbufp, arrived, next, wrote, left>>
      /\ UNCHANGED <<displaced, leaked, hole, torn, restarted, raced, overrun>>
  BY DEF vars, table, control, thread, sockets, buffer, marks
<1>2. TypeOK'
  BY <1>1 DEF NetInv, TypeOK
<1>3. Guarded' /\ Counted'
  BY <1>1 DEF NetInv, Guarded, Counted, Used
<1>4. Placed' /\ Harmed'
  BY <1>1 DEF NetInv, Placed, Harmed, Listed, SlotsOf
<1>5. Filled'
  BY <1>1 DEF NetInv, Filled, Buffered, Written, Filling, Uncounted
<1>6. QED
  BY <1>2, <1>3, <1>4, <1>5 DEF NetInv, PortNetConstants

LEMMA NetStep ==
  ASSUME NetInv, [Next]_vars
  PROVE  NetInv'
<1>1. CASE UNCHANGED vars
  BY <1>1, NetStutter
<1>2. CASE Next
  <2>1. ~overrun /\ ~torn
    BY <1>2 DEF Next
  <2>2. (TypeOK' /\ Filled' /\ Quiet) => NetInv'
    BY <2>1, QuietKept DEF NetInv, PortNetConstants
  <2>3. ASSUME NEW s \in Socks, Calls(s) PROVE NetInv'
    BY <2>1, <2>2, <2>3, UseKept, ReleaseKept, ConnectKept, ReadKept, WriteKept, BindKept DEF Calls
  <2>4. ASSUME NEW s \in Socks, Steps(s) PROVE NetInv'
    BY <2>1, <2>2, <2>4, JoinKept, CreateKept, StartKept, ClearKept, RestartKept, ConsumeKept,
       MoveKept, WriteKept DEF Steps
  <2>5. CASE Thread
    BY <2>1, <2>2, <2>5, TopKept, LookKept, RecvKept, CountKept DEF Thread
  <2>6. CASE CPS_Cleanup
    BY <2>1, <2>6, CleanupKept
  <2>7. QED
    BY <1>2, <2>3, <2>4, <2>5, <2>6 DEF Next
<1>3. QED
  BY <1>1, <1>2

(* Who holds the startup mutex against the thread, the count against the     *)
(* array, who is in the array, what harm was done, and every buffer against  *)
(* the bytes that came (network.c:241-315, 3374-3434, 3823-3901).            *)
THEOREM NetAlways == Spec => []NetInv
<1>1. Init => NetInv
  BY PortNetAssumption, NetInit
<1>2. NetInv /\ [Next]_vars => NetInv'
  BY NetStep
<1>3. QED
  BY <1>1, <1>2, PTL DEF Spec

(* The count is the used slots and those lost, the array is passed only with *)
(* a slot lost or a socket in it twice, and the thread's look at it is torn  *)
(* only by a release under which a call had started the thread               *)
(* (network.c:186-189, 272-279, 3861-3870).                                  *)
THEOREM TableSafe == Spec => []TableSound
<1>1. NetInv => TableSound
  <2>1. SUFFICES ASSUME NetInv PROVE TableSound
    OBVIOUS
  <2>2. Used = {i \in 1 .. Slots : array[i] # None}
    BY DEF Used
  <2>3. leaked > 0 => hole
    BY <2>1 DEF NetInv, Counted
  <2>4. QED
    BY <2>1, <2>2, <2>3 DEF NetInv, TableSound, Counted, Harmed
<1>2. QED
  BY <1>1, NetAlways, PTL

(* A bound socket is in the array, unless another was put in its slot, and a *)
(* thread that is not told to stop is there when no call is in the middle of *)
(* stopping or starting it (network.c:3374-3434, 3838-3901).                 *)
THEOREM HeardSafe == Spec => []Heard
<1>1. NetInv => Heard
  <2>1. SUFFICES ASSUME NetInv PROVE Heard
    OBVIOUS
  <2>2. \A s \in Socks : pc[s] \notin Releasing \cup {"join", "bindjoin", "register", "start"} \/ InMiddle # {}
    BY DEF InMiddle
  <2>3. ASSUME Listed # {}, InMiddle = {} PROVE handle /\ ((tpc # "off" /\ ~stop) \/ left)
    <3>1. handle
      BY <2>1, <2>2, <2>3 DEF NetInv, Placed
    <3>2. stop => left
      BY <2>1, <2>2, <2>3 DEF NetInv, Guarded
    <3>3. tpc = "off" => stop
      BY <2>1, <3>1 DEF NetInv, Guarded
    <3>4. QED
      BY <3>1, <3>2, <3>3
  <2>4. QED
    BY <2>1, <2>3 DEF Heard, NetInv, Placed
<1>2. QED
  BY <1>1, NetAlways, PTL

(* The receive buffer is what came and was not consumed, unless a consume    *)
(* and a receive ran at once, and a write gives 0 exactly when nothing was   *)
(* taken (network.c:288-307, 4254-4280, 4282-4318).                          *)
THEOREM BytesSafe == Spec => []BytesWhole
<1>1. NetInv => BytesWhole
  <2>1. SUFFICES ASSUME NetInv, NEW s \in Socks
                 PROVE  /\ s \notin raced /\ pc[s] # "move" =>
                             /\ \A k \in 1 .. rcvbufp[s] : mem[s][k] = next[s] + k
                             /\ next[s] + rcvbufp[s] + (IF Filling(s) THEN got ELSE 0) = arrived[s]
                        /\ pc[s] = "written" => (wrote[s].ret = 0 <=> wrote[s].taken = 0)
    BY DEF BytesWhole
  <2>2. Buffered(s) /\ Written(s) /\ BufferTypes /\ ThreadTypes
    BY <2>1, TypesAre DEF NetInv, Filled
  <2>3. rcvbufp[s] \in Nat /\ Uncounted(s) \in Nat
    BY <2>1, <2>2, ConstantsAre DEF BufferTypes, ThreadTypes, Uncounted, NetInv
  <2>4. ASSUME s \notin raced, pc[s] # "move", NEW k \in 1 .. rcvbufp[s] PROVE mem[s][k] = next[s] + k
    <3>1. k \in 1 .. rcvbufp[s] + Uncounted(s)
      BY <2>3
    <3>2. QED
      BY <2>2, <2>4, <3>1 DEF Buffered
  <2>5. s \notin raced => next[s] + rcvbufp[s] + Uncounted(s) = arrived[s]
    BY <2>2 DEF Buffered
  <2>6. QED
    BY <2>2, <2>4, <2>5 DEF Written, Uncounted
<1>2. QED
  BY <1>1, NetAlways, PTL

=============================================================================
