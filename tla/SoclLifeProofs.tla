--------------------------- MODULE SoclLifeProofs ---------------------------
(***************************************************************************)
(* SOCL_Cleanup leaves nothing behind and memory is misused only where the *)
(* code lets two closers or two cleaners overlap, for any number of        *)
(* sockets, application threads and command packets.                       *)
(*                                                                         *)
(* The invariant follows each socket through its life: Unused, Made (the   *)
(* create command is on its way), Open, Marked (WAIT_CLOSE is set, the     *)
(* close command waits for a packet), Closing (the command is in the       *)
(* control pipe) and Closed (it is in the trash list), with what its pipe, *)
(* its two threads and the threads that are about it may be doing at each  *)
(* stage.  It follows the library from one SOCL_Startup to the end of the  *)
(* SOCL_Cleanup: Down, Begun, Pooled, Making the UDP-send socket, Up,      *)
(* Parting from the UDP-send socket, Parted.  And it counts the packets:   *)
(* those in the pool and those in the control pipes make cmd_packet_max.   *)
(* Once two closers or two cleaners have overlapped only the types, the    *)
(* lists and an upper bound on the packets are claimed.                    *)
(***************************************************************************)
EXTENDS SoclLife, SequenceTheorems, FiniteSetTheorems, WellFoundedInduction, TLAPS

(* Where a thread may be, and the places where it is about a socket. *)
Calling == {"idle", "packet", "response", "close", "sendclose"}
Sweeping == {"trash", "join"}
Alone == {"startup", "udpsend", "calm", "closeall", "isclosed", "pool"}
AtSocket == {"packet", "response", "close", "sendclose", "join"}
Messages == {"create", "close", "null"}

Types ==
  /\ config \in BOOLEAN /\ force \in BOOLEAN
  /\ udpsend \in Slots \cup {None, "enomem"}
  /\ pool \in Int /\ pool >= Stale
  /\ list \in Seq(Slots) /\ trash \in Seq(Slots)
  /\ mode \in [Slots -> {"tcp", "udp", "udpsend"}]
  /\ status \in [Slots -> SUBSET {"CREATE", "WAIT_CLOSE"}]
  /\ queue \in [Slots -> Seq(Messages)]
  /\ ctl \in [Slots -> {"run", "move", "reply", "end"}]
  /\ snd \in [Slots -> {"run", "null", "end"}]
  /\ pc \in [Threads -> Calling \cup Sweeping \cup Alone \cup {"end", "start", "sleep"}]
  /\ at \in [Threads -> Slots \cup {None}]
  /\ ret \in [Threads -> {"idle", "closeall", "isclosed", "calm", "sleep"}]
  /\ corrupt \in {"no", "twice", "null"} /\ overlapped \in BOOLEAN /\ failed \in BOOLEAN

Control ==
  /\ \A t \in Apps : t # Main => pc[t] \in Calling /\ ret[t] = "idle"
  /\ pc[Main] \in Calling \cup Sweeping \cup Alone
  /\ pc[Main] \in {"close", "sendclose"} => ret[Main] \in {"idle", "closeall", "isclosed"}
  /\ pc[Main] \in Sweeping => ret[Main] = "calm"
  /\ pc[Main] \notin {"close", "sendclose"} \cup Sweeping => ret[Main] = "idle"
  /\ pc[Scavenger] \in {"end", "start", "sleep"} \cup Sweeping
  /\ ret[Scavenger] = IF pc[Scavenger] \in Sweeping THEN "sleep" ELSE "idle"
  /\ ~config \/ pc[Main] = "pool" => pc[Scavenger] = "end"
  /\ pc[Main] = "startup" => config
  /\ \A t \in Threads : at[t] \in Slots <=> pc[t] \in AtSocket

(* A socket is in one list and once.  Only such a socket has a control     *)
(* thread.                                                                 *)
Once(q) == \A i, j \in 1 .. Len(q) : q[i] = q[j] => i = j
Lists ==
  /\ Once(list) /\ Once(trash) /\ Registered \cap Trashed = {}
  /\ \A s \in Slots : ctl[s] # "end" => s \in Registered \cup Trashed
  /\ \A s \in Slots : ctl[s] \in {"move", "reply"} => queue[s] # <<>> /\ queue[s][1] = "close"

(* The packets that are out. *)
Held(q) == {i \in DOMAIN q : q[i] # "null"}
Packets == UNION {{s} \X Held(queue[s]) : s \in Slots}
Pool ==
  /\ IsFiniteSet(Packets)
  /\ pool >= 0 => pool + Cardinality(Packets) <= PoolSize
  /\ pool >= 0 /\ ~overlapped => pool + Cardinality(Packets) = PoolSize
  /\ pool < 0 => Packets = {}
  /\ ~config \/ pc[Main] = "startup" => pool < 0

(* The threads that are about a socket. *)
About(t, s) == pc[t] \in AtSocket /\ at[t] = s
Nobody(s) == \A t \in Threads : ~About(t, s)
Only(t, s) == About(t, s) /\ \A u \in Threads : About(u, s) => u = t

(* The stages of a socket. *)
Unused(s) ==
  /\ s \notin Registered \cup Trashed /\ Nobody(s)
  /\ ctl[s] = "end" /\ snd[s] = "end" /\ queue[s] = <<>>
Made(s) ==
  /\ s \in Registered /\ status[s] = {} /\ ctl[s] = "run" /\ snd[s] \in {"run", "end"}
  /\ \E t \in Apps : Only(t, s) /\ \/ pc[t] = "packet" /\ queue[s] = <<>>
                                   \/ pc[t] = "response" /\ queue[s] = <<"create">>
Open(s) ==
  /\ s \in Registered /\ status[s] = {"CREATE"}
  /\ ctl[s] = "run" /\ snd[s] \in {"run", "end"} /\ queue[s] = <<>>
  /\ Nobody(s) \/ \E t \in Apps : Only(t, s) /\ pc[t] = "close"
Marked(s) ==
  /\ s \in Registered /\ status[s] = {"CREATE", "WAIT_CLOSE"}
  /\ ctl[s] = "run" /\ snd[s] \in {"null", "end"} /\ queue[s] = <<>>
  /\ \E t \in Apps : Only(t, s) /\ pc[t] = "sendclose"
Closing(s) ==
  /\ s \in Registered /\ status[s] = {"CREATE", "WAIT_CLOSE"} /\ Nobody(s)
  /\ \/ ctl[s] = "run" /\ snd[s] \in {"null", "end"} /\ queue[s] = <<"close">>
     \/ ctl[s] = "move" /\ snd[s] = "end" /\ queue[s] = <<"close", "null">>
Closed(s) ==
  /\ s \in Trashed /\ snd[s] = "end"
  /\ Nobody(s) \/ \E t \in Threads : Only(t, s) /\ pc[t] = "join"
  /\ \/ ctl[s] = "reply" /\ queue[s] = <<"close", "null">>
     \/ ctl[s] \in {"run", "end"} /\ queue[s] = <<"null">>
Stage(s) == Unused(s) \/ Made(s) \/ Open(s) \/ Marked(s) \/ Closing(s) \/ Closed(s)
Stages == ~overlapped => \A s \in Slots : Stage(s)

(* The phases of the library. *)
Alive == Registered \cup Trashed
OnlyMain == \A t \in Apps : t # Main => pc[t] = "idle"
Down ==
  /\ ~config /\ udpsend = None /\ pool < 0 /\ Alive = {}
  /\ OnlyMain /\ pc[Main] = "idle"
Begun ==
  /\ config /\ udpsend = None /\ pool < 0 /\ Alive = {}
  /\ OnlyMain /\ pc[Main] = "startup"
Pooled ==
  /\ config /\ udpsend = None /\ pool >= 0 /\ Alive = {}
  /\ OnlyMain /\ pc[Main] = "udpsend"
Making ==
  /\ config /\ udpsend = None /\ pool >= 0
  /\ OnlyMain /\ pc[Main] \in {"packet", "response"}
  /\ Registered = {at[Main]} /\ Trashed = {} /\ mode[at[Main]] = "udpsend"
Up ==
  /\ config /\ udpsend \in Registered /\ pool >= 0
  /\ status[udpsend] = {"CREATE"} /\ Nobody(udpsend)
  /\ \A s \in Alive : mode[s] = "udpsend" => s = udpsend
  /\ pc[Main] \in Calling \cup Sweeping \cup {"calm", "closeall"} /\ ret[Main] # "isclosed"
Parting ==
  /\ config /\ udpsend \in Slots /\ pool >= 0 /\ Alive \subseteq {udpsend}
  /\ OnlyMain /\ pc[Main] \in {"close", "sendclose", "isclosed", "calm", "closeall"} \cup Sweeping
  /\ pc[Main] \in {"close", "sendclose"} => ret[Main] = "isclosed"
Parted ==
  /\ config /\ udpsend = None /\ pool >= 0 /\ Alive = {}
  /\ OnlyMain /\ pc[Main] \in {"calm", "trash", "pool"}
Phases ==
  ~overlapped /\ ~failed => Down \/ Begun \/ Pooled \/ Making \/ Up \/ Parting \/ Parted

Harm ==
  /\ corrupt = "twice" => overlapped
  /\ corrupt = "null" => failed \/ overlapped

-----------------------------------------------------------------------------
(* The lists                                                               *)

(* The least element of a set of naturals is one of its elements. *)
LEMMA Least == ASSUME NEW T \in SUBSET Nat, T # {} PROVE Min(T) \in T
<1>1. PICK x \in T : \A y \in T : ~(<<y, x>> \in OpToRel(<, Nat))
  BY NatLessThanWellFounded, WFMin
<1>2. \A y \in T : ~(y < x)
  BY <1>1 DEF OpToRel
<1>3. \A y \in T : x <= y
  BY <1>2
<1>4. QED
  BY <1>3 DEF Min

(* A list without one of its sockets. *)
LEMMA Removed ==
  ASSUME NEW q \in Seq(Slots), NEW e, Once(q)
  PROVE  /\ RemoveFirst(q, e) \in Seq(Slots) /\ Once(RemoveFirst(q, e))
         /\ ToSet(RemoveFirst(q, e)) = ToSet(q) \ {e}
<1> DEFINE I == {i \in 1 .. Len(q) : q[i] = e}
<1>0. Len(q) \in Nat /\ DOMAIN q = 1 .. Len(q) /\ \A i \in 1 .. Len(q) : q[i] \in Slots
  BY LenProperties, ElementOfSeq
<1>1. CASE ~ \E i \in 1 .. Len(q) : q[i] = e
  BY <1>0, <1>1 DEF RemoveFirst, ToSet
<1>2. CASE \E i \in 1 .. Len(q) : q[i] = e
  <2>1. I # {} /\ I \in SUBSET Nat
    BY <1>2
  <2>2. Min(I) \in I
    BY <2>1, Least
  <2>3. SelectInSeq(q, LAMBDA v : v = e) = Min(I)
    BY <2>1 DEF SelectInSeq
  <2>4. PICK k \in 1 .. Len(q) : q[k] = e /\ RemoveFirst(q, e) = SubSeq(q, 1, k - 1) \o SubSeq(q, k + 1, Len(q))
    BY <1>2, <2>2, <2>3 DEF RemoveFirst, RemoveAt
  <2> DEFINE a == SubSeq(q, 1, k - 1)
             b == SubSeq(q, k + 1, Len(q))
             r == RemoveFirst(q, e)
  <2>5. /\ a \in Seq(Slots) /\ Len(a) = k - 1 /\ \A i \in 1 .. k - 1 : a[i] = q[i]
    <3>1. \A i \in 1 .. k - 1 : q[i] \in Slots
      BY <1>0
    <3>2. QED
      BY <1>0, <3>1, SubSeqProperties
  <2>6. /\ b \in Seq(Slots) /\ Len(b) = Len(q) - k /\ \A i \in 1 .. Len(q) - k : b[i] = q[k + i]
    <3>1. \A i \in k + 1 .. Len(q) : q[i] \in Slots
      BY <1>0
    <3>2. k + 1 \in Int /\ Len(q) \in Int
      BY <1>0
    <3>3. /\ b \in Seq(Slots) /\ Len(b) = IF k + 1 <= Len(q) THEN Len(q) - (k + 1) + 1 ELSE 0
          /\ \A i \in 1 .. Len(q) - (k + 1) + 1 : b[i] = q[(k + 1) + i - 1]
      BY <3>1, <3>2, SubSeqProperties
    <3> HIDE DEF b
    <3>4. \A i \in 1 .. Len(q) - k : i \in 1 .. Len(q) - (k + 1) + 1 /\ (k + 1) + i - 1 = k + i
      BY <1>0
    <3>5. \A i \in 1 .. Len(q) - k : b[i] = q[k + i]
      BY <3>3, <3>4
    <3>6. Len(b) = Len(q) - k
      <4>1. k \in Int /\ k <= Len(q) /\ Len(q) \in Int
        BY <1>0, <2>4
      <4>2. Len(b) = IF k + 1 <= Len(q) THEN Len(q) - (k + 1) + 1 ELSE 0
        BY <3>3
      <4>3. QED
        BY <4>1, <4>2
    <3>7. QED
      BY <3>3, <3>5, <3>6
  <2> HIDE DEF a, b
  <2>7. /\ r \in Seq(Slots) /\ Len(r) = Len(q) - 1
        /\ \A i \in 1 .. Len(q) - 1 : r[i] = IF i < k THEN q[i] ELSE q[i + 1]
    <3>1. r = a \o b
      BY <2>4 DEF a, b
    <3>2. /\ a \o b \in Seq(Slots) /\ Len(a \o b) = Len(a) + Len(b)
          /\ \A i \in 1 .. Len(a) + Len(b) : (a \o b)[i] = IF i <= Len(a) THEN a[i] ELSE b[i - Len(a)]
      BY <2>5, <2>6, ConcatProperties
    <3> HIDE DEF r
    <3>3. QED
      BY <1>0, <2>5, <2>6, <3>1, <3>2
  <2> HIDE DEF r
  <2>8. Once(r)
    BY <1>0, <2>7 DEF Once
  <2>9. ToSet(r) = ToSet(q) \ {e}
    <3>1. DOMAIN r = 1 .. Len(q) - 1
      BY <2>7, LenProperties
    <3>2. ASSUME NEW i \in 1 .. Len(q) - 1 PROVE r[i] \in ToSet(q) \ {e}
      <4>1. PICK j \in 1 .. Len(q) : r[i] = q[j] /\ j # k
        BY <1>0, <2>7, <3>2
      <4>2. q[j] # e
        BY <2>4, <4>1 DEF Once
      <4>3. QED
        BY <1>0, <4>1, <4>2 DEF ToSet
    <3>3. ASSUME NEW j \in 1 .. Len(q), q[j] # e PROVE \E i \in 1 .. Len(q) - 1 : r[i] = q[j]
      <4>1. CASE j < k
        <5>1. j \in 1 .. Len(q) - 1 /\ r[j] = q[j]
          BY <1>0, <2>7, <4>1
        <5>2. QED
          BY <5>1
      <4>2. CASE j > k
        <5>1. j - 1 \in 1 .. Len(q) - 1 /\ r[j - 1] = q[j]
          BY <1>0, <2>7, <4>2
        <5>2. QED
          BY <5>1
      <4>3. QED
        BY <1>0, <2>4, <3>3, <4>1, <4>2
    <3>4. ToSet(r) = {r[i] : i \in 1 .. Len(q) - 1} /\ ToSet(q) = {q[i] : i \in 1 .. Len(q)}
      BY <1>0, <3>1 DEF ToSet
    <3>5. \A x \in ToSet(q) \ {e} : x \in ToSet(r)
      BY <3>3, <3>4
    <3>6. \A x \in ToSet(r) : x \in ToSet(q) \ {e}
      BY <3>2, <3>4
    <3>7. QED
      BY <3>5, <3>6
  <2>10. QED
    BY <2>7, <2>8, <2>9 DEF r
<1>3. QED
  BY <1>1, <1>2

(* A list with one more socket at its head. *)
LEMMA Pushed ==
  ASSUME NEW q \in Seq(Slots), NEW e \in Slots, Once(q)
  PROVE  /\ <<e>> \o q \in Seq(Slots) /\ ToSet(<<e>> \o q) = ToSet(q) \cup {e}
         /\ e \notin ToSet(q) => Once(<<e>> \o q)
<1> DEFINE r == <<e>> \o q
<1>1. /\ r \in Seq(Slots) /\ Len(r) = Len(q) + 1 /\ Len(q) \in Nat
      /\ \A i \in 1 .. Len(q) + 1 : r[i] = IF i = 1 THEN e ELSE q[i - 1]
  <2>1. <<e>> \in Seq(Slots) /\ Len(<<e>>) = 1 /\ <<e>>[1] = e
    OBVIOUS
  <2>2. /\ r \in Seq(Slots) /\ Len(r) = Len(<<e>>) + Len(q)
        /\ \A i \in 1 .. Len(<<e>>) + Len(q) : r[i] = IF i <= Len(<<e>>) THEN <<e>>[i] ELSE q[i - Len(<<e>>)]
    BY <2>1, ConcatProperties
  <2>3. Len(q) \in Nat
    BY LenProperties
  <2> HIDE DEF r
  <2>4. QED
    BY <2>1, <2>2, <2>3
<1>2. DOMAIN q = 1 .. Len(q) /\ DOMAIN r = 1 .. Len(r)
  BY <1>1, LenProperties
<1> HIDE DEF r
<1>3. r[1] = e /\ \A i \in 1 .. Len(q) : i + 1 \in 1 .. Len(r) /\ r[i + 1] = q[i]
  BY <1>1
<1>4. ToSet(r) = ToSet(q) \cup {e}
  <2>1. ASSUME NEW i \in 1 .. Len(r) PROVE r[i] = e \/ \E j \in 1 .. Len(q) : r[i] = q[j]
    BY <1>1
  <2>2. 1 \in 1 .. Len(r)
    BY <1>1
  <2>3. ToSet(r) = {r[i] : i \in 1 .. Len(r)} /\ ToSet(q) = {q[i] : i \in 1 .. Len(q)}
    BY <1>2 DEF ToSet
  <2>4. \A x \in ToSet(r) : x \in ToSet(q) \cup {e}
    BY <2>1, <2>3
  <2>5. \A x \in ToSet(q) \cup {e} : x \in ToSet(r)
    BY <1>3, <2>2, <2>3
  <2>6. QED
    BY <2>4, <2>5
<1>5. ASSUME e \notin ToSet(q) PROVE Once(r)
  <2>1. \A i \in 1 .. Len(q) : q[i] # e
    BY <1>2, <1>5 DEF ToSet
  <2>2. SUFFICES ASSUME NEW i \in 1 .. Len(r), NEW j \in 1 .. Len(r), r[i] = r[j] PROVE i = j
    BY DEF Once
  <2>3. /\ i # 1 => i - 1 \in 1 .. Len(q) /\ r[i] = q[i - 1]
        /\ j # 1 => j - 1 \in 1 .. Len(q) /\ r[j] = q[j - 1]
    BY <1>1
  <2>4. i = 1 <=> j = 1
    BY <1>3, <2>1, <2>2, <2>3
  <2>5. i # 1 /\ j # 1 => i - 1 = j - 1
    BY <2>2, <2>3 DEF Once
  <2>6. QED
    BY <1>1, <2>4, <2>5
<1>6. QED
  BY <1>1, <1>4, <1>5 DEF r

LEMMA HeadIn ==
  ASSUME NEW q \in Seq(Slots)
  PROVE  /\ ToSet(q) \subseteq Slots
         /\ q = <<>> <=> ToSet(q) = {}
         /\ q # <<>> => Head(q) \in ToSet(q)
<1>1. Len(q) \in Nat /\ DOMAIN q = 1 .. Len(q) /\ \A i \in 1 .. Len(q) : q[i] \in Slots
  BY LenProperties, ElementOfSeq
<1>2. q # <<>> => Len(q) > 0 /\ Head(q) = q[1]
  BY EmptySeq, <1>1
<1>3. ToSet(q) = {q[i] : i \in 1 .. Len(q)}
  BY <1>1 DEF ToSet
<1>4. ASSUME q = <<>> PROVE ToSet(q) = {}
  BY <1>3, <1>4
<1>5. ASSUME q # <<>> PROVE Head(q) \in ToSet(q)
  BY <1>1, <1>2, <1>3, <1>5
<1>6. ToSet(q) \subseteq Slots
  BY <1>1, <1>3
<1>7. QED
  BY <1>4, <1>5, <1>6

(* SOCL_CloseAll closes a socket that is to be closed. *)
LEMMA FirstIs == list \in Seq(Slots) /\ ToClose # {} => FirstToClose \in ToClose
<1> SUFFICES ASSUME list \in Seq(Slots), ToClose # {} PROVE FirstToClose \in ToClose
  OBVIOUS
<1> DEFINE I == {i \in 1 .. Len(list) : list[i] \in ToClose}
<1>1. Len(list) \in Nat /\ DOMAIN list = 1 .. Len(list)
  BY LenProperties
<1>2. I # {} /\ I \in SUBSET Nat
  BY <1>1 DEF ToClose, Registered, ToSet
<1>3. Min(I) \in I
  BY <1>2, Least
<1>4. FirstToClose = list[Min(I)]
  BY <1>2 DEF FirstToClose, SelectInSeq
<1>5. QED
  BY <1>3, <1>4

-----------------------------------------------------------------------------
(* The packets                                                             *)

LEMMA HeldIs ==
  ASSUME NEW q \in Seq(Messages)
  PROVE  IsFiniteSet(Held(q)) /\ Cardinality(Held(q)) \in Nat
<1>1. Held(q) \in SUBSET (1 .. Len(q)) /\ Len(q) \in Nat
  BY LenProperties DEF Held
<1>2. IsFiniteSet(1 .. Len(q))
  BY <1>1, FS_Interval
<1>3. QED
  BY <1>1, <1>2, FS_Subset, FS_CardinalityType

LEMMA HeldEmpty == Held(<<>>) = {} /\ Cardinality(Held(<<>>)) = 0
BY FS_EmptySet DEF Held

(* A queue with one more message. *)
LEMMA HeldAppend ==
  ASSUME NEW q \in Seq(Messages), NEW x \in Messages
  PROVE  /\ Append(q, x) \in Seq(Messages) /\ Append(q, x) # <<>>
         /\ q # <<>> => Append(q, x)[1] = q[1]
         /\ Cardinality(Held(Append(q, x))) = Cardinality(Held(q)) + (IF x = "null" THEN 0 ELSE 1)
<1> DEFINE r == Append(q, x)
<1>1. /\ r \in Seq(Messages) /\ Len(r) = Len(q) + 1 /\ r[Len(q) + 1] = x /\ r # <<>>
      /\ \A i \in 1 .. Len(q) : r[i] = q[i]
      /\ Len(q) \in Nat /\ DOMAIN q = 1 .. Len(q) /\ DOMAIN r = 1 .. Len(q) + 1
  BY AppendProperties, LenProperties
<1> HIDE DEF r
<1>2. q # <<>> => r[1] = q[1]
  BY <1>1, EmptySeq
<1>3. IsFiniteSet(Held(q)) /\ Len(q) + 1 \notin Held(q) /\ Cardinality(Held(q)) \in Nat
  <2>1. Len(q) + 1 \notin 1 .. Len(q)
    BY <1>1
  <2>2. Len(q) + 1 \notin Held(q)
    BY <1>1, <2>1 DEF Held
  <2>3. QED
    BY <2>2, HeldIs
<1>4. CASE x = "null"
  <2>1. Held(r) = Held(q)
    BY <1>1, <1>4 DEF Held
  <2>2. QED
    BY <1>1, <1>2, <1>3, <1>4, <2>1 DEF r
<1>5. CASE x # "null"
  <2>1. Held(r) = Held(q) \cup {Len(q) + 1}
    BY <1>1, <1>5 DEF Held
  <2>2. Cardinality(Held(r)) = Cardinality(Held(q)) + 1
    BY <1>3, <2>1, FS_AddElement
  <2>3. QED
    BY <1>1, <1>2, <1>5, <2>2 DEF r
<1>6. QED
  BY <1>4, <1>5

(* A queue whose head, a command, is taken. *)
LEMMA HeldTail ==
  ASSUME NEW q \in Seq(Messages), q # <<>>, q[1] # "null"
  PROVE  /\ Tail(q) \in Seq(Messages) /\ Head(q) = q[1]
         /\ Cardinality(Held(q)) = Cardinality(Held(Tail(q))) + 1
<1> DEFINE r == Tail(q)
<1>1. /\ r \in Seq(Messages) /\ Len(r) = Len(q) - 1 /\ \A i \in 1 .. Len(r) : r[i] = q[i + 1]
      /\ Len(q) \in Nat /\ Len(q) > 0 /\ DOMAIN q = 1 .. Len(q) /\ DOMAIN r = 1 .. Len(r) /\ Head(q) = q[1]
  BY HeadTailProperties, LenProperties, EmptySeq
<1> HIDE DEF r
<1> DEFINE H == {i \in 2 .. Len(q) : q[i] # "null"}
           f == [i \in Held(r) |-> i + 1]
<1>2. f \in Bijection(Held(r), H)
  <2>1. \A i \in Held(r) : i \in 1 .. Len(r) /\ i + 1 \in H
    BY <1>1 DEF Held
  <2>2. \A k \in H : k - 1 \in Held(r) /\ (k - 1) + 1 = k
    BY <1>1 DEF Held
  <2>3. f \in [Held(r) -> H]
    BY <2>1
  <2>4. \A a, b \in Held(r) : f[a] = f[b] => a = b
    BY <2>1
  <2>5. \A k \in H : \E i \in Held(r) : f[i] = k
    BY <2>2
  <2>6. QED
    BY <2>3, <2>4, <2>5 DEF Bijection, Injection, Surjection, IsInjective
<1>3. IsFiniteSet(H) /\ Cardinality(H) = Cardinality(Held(r)) /\ Cardinality(Held(r)) \in Nat
  BY <1>1, <1>2, HeldIs, FS_Bijection DEF ExistsBijection
<1>4. Held(q) = H \cup {1} /\ 1 \notin H
  BY <1>1 DEF Held
<1> HIDE DEF H
<1>5. Cardinality(Held(q)) = Cardinality(Held(r)) + 1
  BY <1>3, <1>4, FS_AddElement
<1>6. QED
  BY <1>1, <1>5 DEF r

(* The packets that are out when one queue has changed. *)
LEMMA Recount ==
  ASSUME queue \in [Slots -> Seq(Messages)], IsFiniteSet(Packets),
         NEW s \in Slots, NEW q \in Seq(Messages), queue' = [queue EXCEPT ![s] = q]
  PROVE  /\ IsFiniteSet(Packets') /\ Cardinality(Packets') \in Nat /\ Cardinality(Packets) \in Nat
         /\ Cardinality(Packets') + Cardinality(Held(queue[s])) = Cardinality(Packets) + Cardinality(Held(q))
<1> DEFINE Old == {s} \X Held(queue[s])
           New == {s} \X Held(q)
           Rest == Packets \ Old
<1>1. Packets' = Rest \cup New /\ Rest \cap New = {} /\ Packets \cap Old = Old
  BY DEF Packets
<1>2. /\ IsFiniteSet(Held(queue[s])) /\ Cardinality(Held(queue[s])) \in Nat
      /\ IsFiniteSet(Held(q)) /\ Cardinality(Held(q)) \in Nat
  BY HeldIs
<1>3. IsFiniteSet({s}) /\ Cardinality({s}) = 1
  BY FS_Singleton
<1>4. /\ IsFiniteSet(Old) /\ Cardinality(Old) = Cardinality(Held(queue[s]))
      /\ IsFiniteSet(New) /\ Cardinality(New) = Cardinality(Held(q))
  <2>1. /\ IsFiniteSet(Old) /\ Cardinality(Old) = Cardinality({s}) * Cardinality(Held(queue[s]))
        /\ IsFiniteSet(New) /\ Cardinality(New) = Cardinality({s}) * Cardinality(Held(q))
    BY <1>2, <1>3, FS_Product
  <2>2. QED
    BY <1>2, <1>3, <2>1
<1>5. IsFiniteSet(Rest) /\ Cardinality(Rest) = Cardinality(Packets) - Cardinality(Packets \cap Old)
  BY FS_Difference
<1>6. Cardinality(Packets) \in Nat /\ Cardinality(Rest) \in Nat
  BY <1>5, FS_CardinalityType
<1> HIDE DEF Rest, New, Old
<1>7. IsFiniteSet(Rest \cup New) /\ Cardinality(Rest \cup New) = Cardinality(Rest) + Cardinality(New) - Cardinality(Rest \cap New)
  BY <1>4, <1>5, FS_Union
<1>8. Cardinality(Rest \cap New) = 0
  BY <1>1, FS_EmptySet
<1>9. IsFiniteSet(Packets') /\ Cardinality(Packets') = Cardinality(Rest) + Cardinality(New) - 0
  BY <1>1, <1>7, <1>8
<1>10. Cardinality(Rest) = Cardinality(Packets) - Cardinality(Old)
  BY <1>1, <1>5
<1>11. QED
  BY <1>2, <1>4, <1>6, <1>9, <1>10

(* Short queues. *)
LEMMA Appended ==
  ASSUME NEW S, NEW a \in S, NEW b \in S
  PROVE  Append(<<a>>, b) = <<a, b>>
<1> DEFINE q == <<a>>
           r == Append(q, b)
           v == <<a, b>>
<1>1. q \in Seq(S) /\ Len(q) = 1 /\ q[1] = a /\ v \in Seq(S) /\ Len(v) = 2 /\ v[1] = a /\ v[2] = b
  OBVIOUS
<1> HIDE DEF q, v
<1>2. r \in Seq(S) /\ Len(r) = 2 /\ r[1] = a /\ r[2] = b
  <2>1. /\ r \in Seq(S) /\ Len(r) = Len(q) + 1 /\ \A i \in 1 .. Len(q) : r[i] = q[i]
        /\ r[Len(q) + 1] = b
    <3>1. q \in Seq(S) /\ b \in S
      BY <1>1
    <3>2. QED
      BY <3>1, AppendProperties
  <2> HIDE DEF r
  <2>2. QED
    BY <1>1, <2>1
<1> HIDE DEF r
<1>3. \A i \in 1 .. Len(r) : r[i] = v[i]
  BY <1>1, <1>2
<1>4. r = v
  BY <1>1, <1>2, <1>3, SeqEqual
<1>5. QED
  BY <1>4 DEF q, r, v

LEMMA TwoMessages ==
  /\ Append(<<"close">>, "null") = <<"close", "null">>
  /\ Tail(<<"close", "null">>) = <<"null">> /\ Tail(<<"create">>) = <<>>
  /\ Append(<<>>, "create") = <<"create">> /\ Append(<<>>, "close") = <<"close">>
<1>1. Append(<<"close">>, "null") = <<"close", "null">>
  <2>1. "close" \in Messages /\ "null" \in Messages
    BY DEF Messages
  <2>2. QED
    BY <2>1, Appended
<1>2. Tail(<<"close", "null">>) = <<"null">>
  OBVIOUS
<1>3. Tail(<<"create">>) = <<>>
  OBVIOUS
<1>4. Append(<<>>, "create") = <<"create">> /\ Append(<<>>, "close") = <<"close">>
  OBVIOUS
<1>5. QED
  BY <1>1, <1>2, <1>3, <1>4


-----------------------------------------------------------------------------
(* What a step leaves alone                                                *)

LifeInv == Types /\ Control /\ Lists /\ Pool /\ Stages /\ Phases /\ Harm

LEMMA ConstantsAre ==
  /\ Main \in Apps /\ Main \in Threads /\ Scavenger \in Threads /\ Scavenger # Main
  /\ Apps \subseteq Threads /\ \A t \in Threads : t \in Apps \/ t = Scavenger
  /\ Scavenger \notin Apps /\ None \notin Slots
  /\ PoolSize \in Nat /\ PoolSize > 0 /\ Unset = -1 /\ Stale = -2
BY LifeAssumption DEF Threads, Unset, Stale

LEMMA AliveIs ==
  ASSUME LifeInv
  PROVE  /\ Registered \subseteq Slots /\ Trashed \subseteq Slots
         /\ list = <<>> <=> Registered = {}
         /\ trash = <<>> <=> Trashed = {}
         /\ trash # <<>> => Head(trash) \in Trashed
<1>1. list \in Seq(Slots) /\ trash \in Seq(Slots)
  BY DEF LifeInv, Types
<1>2. QED
  BY <1>1, HeadIn DEF Registered, Trashed

(* A step of no interest to a socket. *)
SameThreads(s) ==
  \A t \in Threads : /\ About(t, s)' <=> About(t, s)
                     /\ About(t, s) => pc'[t] = pc[t]
SameLists(s) == (s \in Registered' <=> s \in Registered) /\ (s \in Trashed' <=> s \in Trashed)
SamePipe(s) == queue'[s] = queue[s] /\ ctl'[s] = ctl[s] /\ snd'[s] = snd[s]

LEMMA StageFrame ==
  ASSUME NEW s \in Slots, SameThreads(s), SameLists(s), SamePipe(s), status'[s] = status[s], Stage(s)
  PROVE  Stage(s)'
<1>1. Nobody(s) => Nobody(s)'
  BY DEF SameThreads, Nobody
<1>2. ASSUME NEW t \in Threads, Only(t, s) PROVE Only(t, s)' /\ pc'[t] = pc[t]
  BY <1>2 DEF SameThreads, Only
<1>3. Apps \subseteq Threads
  BY ConstantsAre
<1>4. Unused(s) => Unused(s)'
  BY <1>1 DEF Unused, SameLists, SamePipe
<1>5. Made(s) => Made(s)'
  BY <1>2, <1>3 DEF Made, SameLists, SamePipe
<1>6. Open(s) => Open(s)'
  BY <1>1, <1>2, <1>3 DEF Open, SameLists, SamePipe
<1>7. Marked(s) => Marked(s)'
  BY <1>2, <1>3 DEF Marked, SameLists, SamePipe
<1>8. Closing(s) => Closing(s)'
  BY <1>1 DEF Closing, SameLists, SamePipe
<1>9. Closed(s) => Closed(s)'
  BY <1>1, <1>2 DEF Closed, SameLists, SamePipe
<1>10. QED
  BY <1>4, <1>5, <1>6, <1>7, <1>8, <1>9 DEF Stage

(* All the other sockets keep their stage. *)
LEMMA StagesFrame ==
  ASSUME Stages, overlapped => overlapped', NEW u,
         ~overlapped' =>
           /\ \A s \in Slots : s # u => SameThreads(s) /\ SameLists(s) /\ SamePipe(s) /\ status'[s] = status[s]
           /\ u \in Slots => Stage(u)'
  PROVE  Stages'
<1>1. SUFFICES ASSUME ~overlapped', NEW s \in Slots PROVE Stage(s)'
  BY DEF Stages
<1>2. Stage(s)
  BY <1>1 DEF Stages
<1>3. CASE s = u
  BY <1>1, <1>3
<1>4. CASE s # u
  BY <1>1, <1>2, <1>4, StageFrame
<1>5. QED
  BY <1>3, <1>4

(* The threads stay where they are. *)
LEMMA StillThreads ==
  ASSUME UNCHANGED threadVars
  PROVE  \A s : SameThreads(s) /\ (Nobody(s)' <=> Nobody(s)) /\ \A t : (Only(t, s)' <=> Only(t, s))
BY DEF threadVars, SameThreads, About, Nobody, Only

(* One thread goes on. *)
LEMMA OneThread ==
  ASSUME Types, NEW t \in Threads, NEW w, pc' = [pc EXCEPT ![t] = w],
         \A u \in Threads : u # t => at'[u] = at[u]
  PROVE  /\ \A s : ~About(t, s) /\ ~About(t, s)' => SameThreads(s)
         /\ \A s : (\A u \in Threads : u # t => ~About(u, s)) /\ ~About(t, s)' => Nobody(s)'
         /\ \A s : (\A u \in Threads : u # t => ~About(u, s)) /\ About(t, s)' => Only(t, s)'
         /\ pc'[t] = w /\ \A u \in Threads : u # t => pc'[u] = pc[u]
<1>1. pc'[t] = w /\ \A u \in Threads : u # t => pc'[u] = pc[u]
  BY DEF Types
<1>2. \A u \in Threads : \A s : u # t => (About(u, s)' <=> About(u, s))
  BY <1>1 DEF About
<1>3. \A s : ~About(t, s) /\ ~About(t, s)' => SameThreads(s)
  BY <1>1, <1>2 DEF SameThreads
<1>4. \A s : (\A u \in Threads : u # t => ~About(u, s)) /\ ~About(t, s)' => Nobody(s)'
  BY <1>2 DEF Nobody
<1>5. \A s : (\A u \in Threads : u # t => ~About(u, s)) /\ About(t, s)' => Only(t, s)'
  BY <1>2 DEF Only
<1>6. QED
  BY <1>1, <1>3, <1>4, <1>5

LEMMA ControlFrame ==
  ASSUME Control, UNCHANGED threadVars, config' = config
  PROVE  Control'
BY DEF Control, threadVars

LEMMA ListsFrame ==
  ASSUME Lists, UNCHANGED <<list, trash>>,
         \A s \in Slots : ctl'[s] # "end" => ctl[s] # "end",
         \A s \in Slots : ctl'[s] \in {"move", "reply"} => queue'[s] # <<>> /\ queue'[s][1] = "close"
  PROVE  Lists'
BY DEF Lists, Registered, Trashed

LEMMA PoolFrame ==
  ASSUME Pool, UNCHANGED <<queue, pool>>, overlapped => overlapped',
         ~config' \/ pc'[Main] = "startup" => ~config \/ pc[Main] = "startup"
  PROVE  Pool'
<1>1. Packets' = Packets
  BY DEF Packets
<1>2. QED
  BY <1>1 DEF Pool

(* The library does not notice the steps of a socket's own threads. *)
LEMMA PhasesFrame ==
  ASSUME Phases, UNCHANGED <<config, udpsend, list, trash, mode, status, threadVars, overlapped, failed>>,
         pool >= 0 <=> pool' >= 0, pool < 0 <=> pool' < 0
  PROVE  Phases'
<1>1. Alive' = Alive /\ Registered' = Registered /\ Trashed' = Trashed
  BY DEF Alive, Registered, Trashed
<1>2. pc' = pc /\ at' = at /\ ret' = ret
  BY DEF threadVars
<1>3. OnlyMain' <=> OnlyMain
  BY <1>2 DEF OnlyMain
<1>4. Nobody(udpsend)' <=> Nobody(udpsend)
  BY StillThreads DEF Nobody, About, threadVars
<1>5. /\ Down => Down'
      /\ Begun => Begun'
      /\ Pooled => Pooled'
      /\ Parted => Parted'
  BY <1>1, <1>2, <1>3 DEF Down, Begun, Pooled, Parted
<1>6. Making => Making'
  BY <1>1, <1>2, <1>3 DEF Making
<1>7. Up => Up'
  BY <1>1, <1>2, <1>4 DEF Up
<1>8. Parting => Parting'
  BY <1>1, <1>2, <1>3 DEF Parting
<1>9. QED
  BY <1>5, <1>6, <1>7, <1>8 DEF Phases


-----------------------------------------------------------------------------
(* The threads of a socket                                                 *)

LEMMA MisuseKept ==
  ASSUME LifeInv, NEW how \in {"twice", "null"}, Misuse(how),
         how = "twice" => overlapped, how = "null" => failed \/ overlapped
  PROVE  LifeInv'
<1>1. /\ UNCHANGED <<config, udpsend, pool, force, list, trash, mode, status, queue, ctl, snd, overlapped, failed>>
      /\ UNCHANGED threadVars /\ pc' = pc /\ at' = at /\ ret' = ret /\ corrupt' = how
  BY DEF Misuse, libVars, sockVars, pipeVars, threadVars
<1>2. Types'
  BY <1>1 DEF LifeInv, Types
<1>3. Control'
  BY <1>1, ControlFrame DEF LifeInv
<1>4. Lists'
  BY <1>1, ListsFrame DEF LifeInv, Lists
<1>5. Pool'
  BY <1>1, PoolFrame DEF LifeInv
<1>6. Stages'
  <2>1. \A s \in Slots : SameThreads(s) /\ SameLists(s) /\ SamePipe(s) /\ status'[s] = status[s]
    BY <1>1, StillThreads DEF SameLists, SamePipe, Registered, Trashed
  <2>2. None \notin Slots
    BY ConstantsAre
  <2>3. QED
    BY <1>1, <2>1, <2>2, StagesFrame DEF LifeInv
<1>7. Phases'
  BY <1>1, PhasesFrame DEF LifeInv
<1>8. Harm'
  BY <1>1 DEF Harm
<1>9. QED
  BY <1>2, <1>3, <1>4, <1>5, <1>6, <1>7, <1>8 DEF LifeInv

LEMMA SendThreadEndsKept ==
  ASSUME LifeInv, NEW s \in Slots, SendThreadEnds(s)
  PROVE  LifeInv'
<1>1. /\ snd[s] = "null" /\ snd' = [snd EXCEPT ![s] = "end"]
      /\ UNCHANGED <<config, udpsend, pool, force, list, trash, mode, status, queue, ctl, corrupt, overlapped, failed>>
      /\ UNCHANGED threadVars /\ pc' = pc /\ at' = at /\ ret' = ret
  BY DEF SendThreadEnds, libVars, sockVars, threadVars, faultVars
<1>2. Types'
  BY <1>1 DEF LifeInv, Types
<1>3. Control'
  BY <1>1, ControlFrame DEF LifeInv
<1>4. Lists'
  BY <1>1, ListsFrame DEF LifeInv, Lists
<1>5. Pool'
  BY <1>1, PoolFrame DEF LifeInv
<1>6. Stages'
  <2>1. snd \in [Slots -> {"run", "null", "end"}]
    BY DEF LifeInv, Types
  <2>2. \A r \in Slots : SameThreads(r) /\ SameLists(r) /\ (r # s => SamePipe(r)) /\ status'[r] = status[r]
    BY <1>1, <2>1, StillThreads DEF SameLists, SamePipe, Registered, Trashed
  <2>3. snd'[s] = "end" /\ ctl'[s] = ctl[s] /\ queue'[s] = queue[s] /\ status'[s] = status[s] /\ SameLists(s)
    BY <1>1, <2>1, <2>2
  <2>4. Marked(s) => Marked(s)'
    BY <1>1, <2>3, StillThreads DEF Marked, SameLists
  <2>5. Closing(s) => Closing(s)'
    BY <1>1, <2>3, StillThreads DEF Closing, SameLists
  <2>6. Stage(s) => Stage(s)'
    BY <1>1, <2>4, <2>5 DEF Stage, Unused, Made, Open, Closed
  <2>7. QED
    BY <1>1, <2>2, <2>6, StagesFrame DEF LifeInv, Stages
<1>7. Phases'
  BY <1>1, PhasesFrame DEF LifeInv
<1>8. Harm'
  BY <1>1 DEF LifeInv, Harm
<1>9. QED
  BY <1>2, <1>3, <1>4, <1>5, <1>6, <1>7, <1>8 DEF LifeInv

LEMMA CloseCallBackKept ==
  ASSUME LifeInv, NEW s \in Slots, CloseCallBack(s)
  PROVE  LifeInv'
<1>1. /\ ctl[s] = "run" /\ queue[s] # <<>> /\ Head(queue[s]) = "close" /\ snd[s] = "end"
      /\ queue' = [queue EXCEPT ![s] = Append(queue[s], "null")] /\ ctl' = [ctl EXCEPT ![s] = "move"]
      /\ UNCHANGED <<config, udpsend, pool, force, list, trash, mode, status, snd, corrupt, overlapped, failed>>
      /\ UNCHANGED threadVars /\ pc' = pc /\ at' = at /\ ret' = ret
  BY DEF CloseCallBack, libVars, sockVars, threadVars, faultVars
<1>2. /\ queue \in [Slots -> Seq(Messages)] /\ ctl \in [Slots -> {"run", "move", "reply", "end"}]
      /\ queue[s] \in Seq(Messages)
  BY DEF LifeInv, Types
<1>3. /\ Append(queue[s], "null") \in Seq(Messages) /\ Append(queue[s], "null") # <<>>
      /\ Append(queue[s], "null")[1] = "close" /\ queue[s][1] = "close"
      /\ Cardinality(Held(Append(queue[s], "null"))) = Cardinality(Held(queue[s]))
  <2>1. queue[s][1] = "close"
    BY <1>1, <1>2, HeadTailProperties
  <2>2. "null" \in Messages /\ Cardinality(Held(queue[s])) \in Nat
    BY <1>2, HeldIs DEF Messages
  <2>3. QED
    BY <1>1, <1>2, <2>1, <2>2, HeldAppend
<1>4. /\ queue'[s] = Append(queue[s], "null") /\ ctl'[s] = "move"
      /\ \A r \in Slots : r # s => queue'[r] = queue[r] /\ ctl'[r] = ctl[r]
  BY <1>1, <1>2
<1>5. Types'
  BY <1>1, <1>2, <1>3 DEF LifeInv, Types
<1>6. Control'
  BY <1>1, ControlFrame DEF LifeInv
<1>7. Lists'
  BY <1>1, <1>3, <1>4, ListsFrame DEF LifeInv, Lists
<1>8. Pool'
  <2>1. /\ IsFiniteSet(Packets) /\ IsFiniteSet(Packets') /\ Cardinality(Packets') = Cardinality(Packets)
    <3>1. IsFiniteSet(Packets)
      BY DEF LifeInv, Pool
    <3>2. Cardinality(Held(queue[s])) \in Nat
      BY <1>2, HeldIs
    <3>3. /\ IsFiniteSet(Packets') /\ Cardinality(Packets') \in Nat /\ Cardinality(Packets) \in Nat
          /\ Cardinality(Packets') + Cardinality(Held(queue[s])) = Cardinality(Packets) + Cardinality(Held(queue[s]))
      BY <1>1, <1>2, <1>3, <3>1, Recount
    <3>4. QED
      BY <3>1, <3>2, <3>3
  <2>2. Packets = {} => Packets' = {}
    BY <2>1, FS_EmptySet
  <2>3. QED
    BY <1>1, <2>1, <2>2 DEF LifeInv, Pool
<1>9. Stages'
  <2>1. \A r \in Slots : SameThreads(r) /\ SameLists(r) /\ (r # s => SamePipe(r)) /\ status'[r] = status[r]
    BY <1>1, <1>4, StillThreads DEF SameLists, SamePipe, Registered, Trashed
  <2>2. ASSUME Stage(s) PROVE Stage(s)'
    <3>1. Closing(s) /\ queue[s] = <<"close">>
      BY <1>1, <1>3, <2>2 DEF Stage, Unused, Made, Open, Marked, Closing, Closed
    <3>2. queue'[s] = <<"close", "null">>
      BY <1>4, <3>1, TwoMessages
    <3>3. Closing(s)'
      BY <1>1, <1>4, <2>1, <3>1, <3>2, StillThreads DEF Closing, SameLists
    <3>4. QED
      BY <3>3 DEF Stage
  <2>3. QED
    BY <1>1, <2>1, <2>2, StagesFrame DEF LifeInv, Stages
<1>10. Phases'
  BY <1>1, PhasesFrame DEF LifeInv
<1>11. Harm'
  BY <1>1 DEF LifeInv, Harm
<1>12. QED
  BY <1>5, <1>6, <1>7, <1>8, <1>9, <1>10, <1>11 DEF LifeInv

LEMMA CtrlThreadEndsKept ==
  ASSUME LifeInv, NEW s \in Slots, CtrlThreadEnds(s)
  PROVE  LifeInv'
<1>1. /\ ctl[s] = "run" /\ queue[s] # <<>> /\ Head(queue[s]) = "null" /\ ctl' = [ctl EXCEPT ![s] = "end"]
      /\ UNCHANGED <<config, udpsend, pool, force, list, trash, mode, status, queue, snd, corrupt, overlapped, failed>>
      /\ UNCHANGED threadVars /\ pc' = pc /\ at' = at /\ ret' = ret
  BY DEF CtrlThreadEnds, libVars, sockVars, threadVars, faultVars
<1>2. /\ queue \in [Slots -> Seq(Messages)] /\ ctl \in [Slots -> {"run", "move", "reply", "end"}]
      /\ queue[s] \in Seq(Messages)
  BY DEF LifeInv, Types
<1>3. queue[s][1] = "null"
  BY <1>1, <1>2, HeadTailProperties
<1>4. ctl'[s] = "end" /\ \A r \in Slots : r # s => ctl'[r] = ctl[r]
  BY <1>1, <1>2
<1>5. Types'
  BY <1>1 DEF LifeInv, Types
<1>6. Control'
  BY <1>1, ControlFrame DEF LifeInv
<1>7. Lists'
  BY <1>1, <1>4, ListsFrame DEF LifeInv, Lists
<1>8. Pool'
  BY <1>1, PoolFrame DEF LifeInv
<1>9. Stages'
  <2>1. \A r \in Slots : SameThreads(r) /\ SameLists(r) /\ (r # s => SamePipe(r)) /\ status'[r] = status[r]
    BY <1>1, <1>4, StillThreads DEF SameLists, SamePipe, Registered, Trashed
  <2>2. ASSUME Stage(s) PROVE Stage(s)'
    <3>1. Closed(s) /\ queue[s] = <<"null">>
      BY <1>1, <1>3, <2>2 DEF Stage, Unused, Made, Open, Marked, Closing, Closed
    <3>2. Closed(s)'
      BY <1>1, <1>4, <2>1, <3>1, StillThreads DEF Closed, SameLists
    <3>3. QED
      BY <3>2 DEF Stage
  <2>3. QED
    BY <1>1, <2>1, <2>2, StagesFrame DEF LifeInv, Stages
<1>10. Phases'
  BY <1>1, PhasesFrame DEF LifeInv
<1>11. Harm'
  BY <1>1 DEF LifeInv, Harm
<1>12. QED
  BY <1>5, <1>6, <1>7, <1>8, <1>9, <1>10, <1>11 DEF LifeInv


LEMMA MoveToTrashKept ==
  ASSUME LifeInv, NEW s \in Slots, MoveToTrash(s), s \notin Trashed
  PROVE  LifeInv'
<1>1. /\ ctl[s] = "move" /\ list' = RemoveFirst(list, s) /\ trash' = <<s>> \o trash
      /\ ctl' = [ctl EXCEPT ![s] = "reply"]
      /\ UNCHANGED <<config, udpsend, pool, force, mode, status, queue, snd, corrupt, overlapped, failed>>
      /\ UNCHANGED threadVars /\ pc' = pc /\ at' = at /\ ret' = ret
  BY DEF MoveToTrash, libVars, threadVars, faultVars
<1>2. /\ list \in Seq(Slots) /\ trash \in Seq(Slots) /\ ctl \in [Slots -> {"run", "move", "reply", "end"}]
      /\ Once(list) /\ Once(trash)
  BY DEF LifeInv, Types, Lists
<1>3. /\ list' \in Seq(Slots) /\ Once(list') /\ Registered' = Registered \ {s}
      /\ trash' \in Seq(Slots) /\ Once(trash') /\ Trashed' = Trashed \cup {s}
  BY <1>1, <1>2, Removed, Pushed DEF Registered, Trashed
<1>4. ctl'[s] = "reply" /\ \A r \in Slots : r # s => ctl'[r] = ctl[r]
  BY <1>1, <1>2
<1>5. Types'
  BY <1>1, <1>3 DEF LifeInv, Types
<1>6. Control'
  BY <1>1, ControlFrame DEF LifeInv
<1>7. Lists'
  <2>1. Registered' \cap Trashed' = {}
    BY <1>3 DEF LifeInv, Lists
  <2>2. \A r \in Slots : ctl'[r] # "end" => r \in Registered' \cup Trashed'
    BY <1>1, <1>3, <1>4 DEF LifeInv, Lists
  <2>3. \A r \in Slots : ctl'[r] \in {"move", "reply"} => queue'[r] # <<>> /\ queue'[r][1] = "close"
    BY <1>1, <1>4 DEF LifeInv, Lists
  <2>4. QED
    BY <1>3, <2>1, <2>2, <2>3 DEF Lists
<1>8. Pool'
  BY <1>1, PoolFrame DEF LifeInv
<1>9. ASSUME ~overlapped PROVE Closing(s) /\ Closed(s)'
  <2>1. Stage(s)
    BY <1>9 DEF LifeInv, Stages
  <2>2. Closing(s)
    BY <1>1, <2>1 DEF Stage, Unused, Made, Open, Marked, Closing, Closed
  <2>3. Closed(s)'
    BY <1>1, <1>3, <1>4, <2>2, StillThreads DEF Closing, Closed
  <2>4. QED
    BY <2>2, <2>3
<1>10. Stages'
  <2>1. \A r \in Slots : r # s => SameThreads(r) /\ SameLists(r) /\ SamePipe(r) /\ status'[r] = status[r]
    BY <1>1, <1>3, <1>4, StillThreads DEF SameLists, SamePipe
  <2>2. QED
    BY <1>1, <1>9, <2>1, StagesFrame DEF LifeInv, Stage
<1>11. Phases'
  <2>1. SUFFICES ASSUME ~overlapped, ~failed
                 PROVE  (Down \/ Begun \/ Pooled \/ Making \/ Up \/ Parting \/ Parted)'
    BY <1>1 DEF Phases
  <2>2. /\ s \in Registered /\ status[s] # {"CREATE"} /\ Nobody(s)
        /\ Alive' = Alive
    <3>1. s \in Registered /\ status[s] = {"CREATE", "WAIT_CLOSE"} /\ Nobody(s)
      BY <1>9, <2>1 DEF Closing
    <3>2. {"CREATE", "WAIT_CLOSE"} # {"CREATE"}
      OBVIOUS
    <3>3. Alive' = Alive
      BY <1>3, <3>1 DEF Alive
    <3>4. QED
      BY <3>1, <3>2, <3>3
  <2>3. OnlyMain' <=> OnlyMain
    BY <1>1 DEF OnlyMain
  <2>4. ~Down /\ ~Begun /\ ~Pooled /\ ~Parted
    BY <2>2 DEF Down, Begun, Pooled, Parted, Alive
  <2>5. ~Making
    <3>1. ASSUME Making PROVE FALSE
      <4>1. s = at[Main] /\ pc[Main] \in {"packet", "response"}
        BY <2>2, <3>1 DEF Making
      <4>2. About(Main, s) /\ Main \in Threads
        BY <4>1, ConstantsAre DEF About, AtSocket
      <4>3. QED
        BY <2>2, <4>2 DEF Nobody
    <3>2. QED
      BY <3>1
  <2>6. ASSUME Up PROVE Up'
    <3>1. Nobody(udpsend)'
      BY <1>1, <2>6, StillThreads DEF Up
    <3>2. udpsend # s
      BY <2>2, <2>6 DEF Up
    <3>3. QED
      BY <1>1, <1>3, <2>2, <2>6, <3>1, <3>2 DEF Up
  <2>7. ASSUME Parting PROVE Parting'
    BY <1>1, <2>2, <2>3, <2>7 DEF Parting
  <2>8. QED
    BY <2>1, <2>4, <2>5, <2>6, <2>7 DEF LifeInv, Phases
<1>12. Harm'
  BY <1>1 DEF LifeInv, Harm
<1>13. QED
  BY <1>5, <1>6, <1>7, <1>8, <1>10, <1>11, <1>12 DEF LifeInv

(* A command's packet goes back to the pool. *)
LEMMA PacketBack ==
  ASSUME LifeInv, NEW s \in Slots, queue[s] # <<>>, queue[s][1] # "null",
         queue' = [queue EXCEPT ![s] = Tail(queue[s])], pool' = pool + 1, overlapped' = overlapped
  PROVE  /\ queue'[s] = Tail(queue[s]) /\ \A r \in Slots : r # s => queue'[r] = queue[r]
         /\ queue' \in [Slots -> Seq(Messages)]
         /\ pool >= 0 /\ pool' \in Int
         /\ IsFiniteSet(Packets') /\ Cardinality(Packets') \in Nat
         /\ pool' + Cardinality(Packets') <= PoolSize
         /\ ~overlapped => pool' + Cardinality(Packets') = PoolSize
<1>1. queue \in [Slots -> Seq(Messages)] /\ queue[s] \in Seq(Messages) /\ pool \in Int
  BY DEF LifeInv, Types
<1>2. Tail(queue[s]) \in Seq(Messages) /\ Cardinality(Held(queue[s])) = Cardinality(Held(Tail(queue[s]))) + 1
  BY <1>1, HeldTail
<1>3. IsFiniteSet(Packets)
  BY DEF LifeInv, Pool
<1>4. /\ IsFiniteSet(Packets') /\ Cardinality(Packets') \in Nat /\ Cardinality(Packets) \in Nat
      /\ Cardinality(Packets') + Cardinality(Held(queue[s])) = Cardinality(Packets) + Cardinality(Held(Tail(queue[s])))
  BY <1>1, <1>2, <1>3, Recount
<1>5. Cardinality(Held(Tail(queue[s]))) \in Nat
  BY <1>2, HeldIs
<1>6. Cardinality(Packets) = Cardinality(Packets') + 1
  BY <1>2, <1>4, <1>5
<1>7. pool >= 0
  <2>1. Cardinality(Packets) # 0
    BY <1>4, <1>6
  <2>2. Packets # {}
    BY <2>1, FS_EmptySet
  <2>3. QED
    BY <1>1, <2>2 DEF LifeInv, Pool
<1>8. /\ pool + Cardinality(Packets) <= PoolSize
      /\ ~overlapped => pool + Cardinality(Packets) = PoolSize
  BY <1>7 DEF LifeInv, Pool
<1>9. queue'[s] = Tail(queue[s]) /\ (\A r \in Slots : r # s => queue'[r] = queue[r]) /\ queue' \in [Slots -> Seq(Messages)]
  BY <1>1, <1>2
<1>10. QED
  BY <1>1, <1>4, <1>6, <1>7, <1>8, <1>9, ConstantsAre

LEMMA CloseReplyKept ==
  ASSUME LifeInv, NEW s \in Slots, CloseReply(s)
  PROVE  LifeInv'
<1>1. /\ ctl[s] = "reply" /\ queue' = [queue EXCEPT ![s] = Tail(queue[s])] /\ pool' = pool + 1
      /\ ctl' = [ctl EXCEPT ![s] = "run"]
      /\ UNCHANGED <<config, udpsend, force, list, trash, mode, status, snd, corrupt, overlapped, failed>>
      /\ UNCHANGED threadVars /\ pc' = pc /\ at' = at /\ ret' = ret
  BY DEF CloseReply, sockVars, threadVars, faultVars
<1>2. /\ ctl \in [Slots -> {"run", "move", "reply", "end"}] /\ pool \in Int
      /\ queue[s] # <<>> /\ queue[s][1] = "close" /\ "close" # "null"
  BY <1>1 DEF LifeInv, Types, Lists
<1>3. /\ queue'[s] = Tail(queue[s]) /\ \A r \in Slots : r # s => queue'[r] = queue[r]
      /\ queue' \in [Slots -> Seq(Messages)]
      /\ pool >= 0 /\ pool' \in Int
      /\ IsFiniteSet(Packets') /\ Cardinality(Packets') \in Nat
      /\ pool' + Cardinality(Packets') <= PoolSize
      /\ ~overlapped => pool' + Cardinality(Packets') = PoolSize
  BY <1>1, <1>2, PacketBack
<1>4. ctl'[s] = "run" /\ \A r \in Slots : r # s => ctl'[r] = ctl[r]
  BY <1>1, <1>2
<1>5. Types'
  BY <1>1, <1>2, <1>3, ConstantsAre DEF LifeInv, Types
<1>6. Control'
  BY <1>1, ControlFrame DEF LifeInv
<1>7. Lists'
  BY <1>1, <1>3, <1>4, ListsFrame DEF LifeInv, Lists
<1>8. Pool'
  <2>1. pool' >= 0 /\ ~(pool' < 0)
    BY <1>1, <1>2, <1>3
  <2>2. ~(~config' \/ pc'[Main] = "startup")
    BY <1>1, <1>2, <1>3 DEF LifeInv, Pool
  <2>3. QED
    BY <1>1, <1>3, <2>1, <2>2 DEF Pool
<1>9. Stages'
  <2>1. \A r \in Slots : SameThreads(r) /\ SameLists(r) /\ (r # s => SamePipe(r)) /\ status'[r] = status[r]
    BY <1>1, <1>3, <1>4, StillThreads DEF SameLists, SamePipe, Registered, Trashed
  <2>2. ASSUME Stage(s) PROVE Stage(s)'
    <3>1. Closed(s) /\ queue[s] = <<"close", "null">>
      BY <1>1, <2>2 DEF Stage, Unused, Made, Open, Marked, Closing, Closed
    <3>2. queue'[s] = <<"null">>
      BY <1>3, <3>1, TwoMessages
    <3>3. Closed(s)'
      BY <1>1, <1>4, <2>1, <3>1, <3>2, StillThreads DEF Closed, SameLists
    <3>4. QED
      BY <3>3 DEF Stage
  <2>3. QED
    BY <1>1, <2>1, <2>2, StagesFrame DEF LifeInv, Stages
<1>10. Phases'
  <2>1. pool >= 0 <=> pool' >= 0
    BY <1>1, <1>2, <1>3
  <2>2. pool < 0 <=> pool' < 0
    BY <1>1, <1>2, <1>3
  <2>3. QED
    BY <1>1, <2>1, <2>2, PhasesFrame DEF LifeInv
<1>11. Harm'
  BY <1>1 DEF LifeInv, Harm
<1>12. QED
  BY <1>5, <1>6, <1>7, <1>8, <1>9, <1>10, <1>11 DEF LifeInv


-----------------------------------------------------------------------------
(* Creating sockets                                                        *)

(* An application thread goes on. *)
LEMMA AppControl ==
  ASSUME Types, Control, NEW t \in Apps, NEW w \in Calling, NEW a \in Slots \cup {None},
         pc' = [pc EXCEPT ![t] = w], at' = [at EXCEPT ![t] = a], ret' = ret, config' = config,
         a \in Slots <=> w \in AtSocket, w # "sendclose" => ret[t] = "idle", w = "sendclose" => pc[t] = "close"
  PROVE  Control' /\ pc' \in [Threads -> Calling \cup Sweeping \cup Alone \cup {"end", "start", "sleep"}]
         /\ at' \in [Threads -> Slots \cup {None}]
<1>1. /\ pc \in [Threads -> Calling \cup Sweeping \cup Alone \cup {"end", "start", "sleep"}]
      /\ at \in [Threads -> Slots \cup {None}]
  BY DEF Types
<1>2. t \in Threads /\ t # Scavenger /\ Scavenger \in Threads /\ Main \in Threads /\ Main \in Apps
      /\ \A u \in Apps : u \in Threads
  BY ConstantsAre
<1>3. /\ pc' \in [Threads -> Calling \cup Sweeping \cup Alone \cup {"end", "start", "sleep"}]
      /\ at' \in [Threads -> Slots \cup {None}]
  BY <1>1
<1>4. /\ pc'[t] = w /\ at'[t] = a
      /\ \A u \in Threads : u # t => pc'[u] = pc[u] /\ at'[u] = at[u]
  BY <1>1, <1>2
<1>5. \A u \in Threads : at'[u] \in Slots <=> pc'[u] \in AtSocket
  BY <1>4 DEF Control
<1>6. \A u \in Apps : u # Main => pc'[u] \in Calling /\ ret'[u] = "idle"
  BY <1>2, <1>4 DEF Control
<1>7. /\ pc'[Main] \in Calling \cup Sweeping \cup Alone
      /\ pc'[Main] \in {"close", "sendclose"} => ret'[Main] \in {"idle", "closeall", "isclosed"}
      /\ pc'[Main] \in Sweeping => ret'[Main] = "calm"
      /\ pc'[Main] \notin {"close", "sendclose"} \cup Sweeping => ret'[Main] = "idle"
  <2>1. CASE t = Main
    BY <1>4, <2>1 DEF Control, Calling, Sweeping
  <2>2. CASE t # Main
    BY <1>2, <1>4, <2>2 DEF Control
  <2>3. QED
    BY <2>1, <2>2
<1>8. /\ pc'[Scavenger] \in {"end", "start", "sleep"} \cup Sweeping
      /\ ret'[Scavenger] = IF pc'[Scavenger] \in Sweeping THEN "sleep" ELSE "idle"
      /\ ~config' \/ pc'[Main] = "pool" => pc'[Scavenger] = "end"
      /\ pc'[Main] = "startup" => config'
  <2>1. w # "pool" /\ w # "startup"
    BY DEF Calling
  <2>2. /\ pc'[Main] = "pool" => pc[Main] = "pool"
        /\ pc'[Main] = "startup" => pc[Main] = "startup"
    BY <1>2, <1>4, <2>1
  <2>3. pc'[Scavenger] = pc[Scavenger]
    BY <1>2, <1>4
  <2>4. QED
    BY <2>2, <2>3 DEF Control
<1>9. QED
  BY <1>3, <1>5, <1>6, <1>7, <1>8 DEF Control

(* A command takes a packet from the pool. *)
LEMMA PacketOut ==
  ASSUME LifeInv, NEW s \in Slots, NEW c \in {"create", "close"}, pool > 0,
         queue' = [queue EXCEPT ![s] = Append(queue[s], c)], pool' = pool - 1, overlapped' = overlapped
  PROVE  /\ queue'[s] = Append(queue[s], c) /\ \A r \in Slots : r # s => queue'[r] = queue[r]
         /\ queue' \in [Slots -> Seq(Messages)] /\ queue'[s] # <<>>
         /\ queue[s] # <<>> => queue'[s][1] = queue[s][1]
         /\ pool >= 0 /\ pool' \in Int /\ pool' >= 0 /\ ~(pool' < 0)
         /\ IsFiniteSet(Packets') /\ Cardinality(Packets') \in Nat
         /\ pool' + Cardinality(Packets') <= PoolSize
         /\ ~overlapped => pool' + Cardinality(Packets') = PoolSize
<1>1. queue \in [Slots -> Seq(Messages)] /\ queue[s] \in Seq(Messages) /\ pool \in Int /\ c \in Messages /\ c # "null"
  BY DEF LifeInv, Types, Messages
<1>2. /\ Append(queue[s], c) \in Seq(Messages) /\ Append(queue[s], c) # <<>>
      /\ queue[s] # <<>> => Append(queue[s], c)[1] = queue[s][1]
      /\ Cardinality(Held(Append(queue[s], c))) = Cardinality(Held(queue[s])) + (IF c = "null" THEN 0 ELSE 1)
  BY <1>1, HeldAppend
<1>3. IsFiniteSet(Packets)
  BY DEF LifeInv, Pool
<1>4. /\ IsFiniteSet(Packets') /\ Cardinality(Packets') \in Nat /\ Cardinality(Packets) \in Nat
      /\ Cardinality(Packets') + Cardinality(Held(queue[s])) = Cardinality(Packets) + Cardinality(Held(Append(queue[s], c)))
  BY <1>1, <1>2, <1>3, Recount
<1>5. Cardinality(Held(queue[s])) \in Nat
  BY <1>1, HeldIs
<1>6. Cardinality(Packets') = Cardinality(Packets) + 1
  BY <1>1, <1>2, <1>4, <1>5
<1>7. pool >= 0 /\ pool' \in Int /\ pool' >= 0 /\ ~(pool' < 0)
  BY <1>1
<1>8. /\ pool + Cardinality(Packets) <= PoolSize
      /\ ~overlapped => pool + Cardinality(Packets) = PoolSize
  BY <1>7 DEF LifeInv, Pool
<1>9. /\ pool' + Cardinality(Packets') <= PoolSize
      /\ ~overlapped => pool' + Cardinality(Packets') = PoolSize
  BY <1>1, <1>4, <1>6, <1>8, ConstantsAre
<1>10. queue'[s] = Append(queue[s], c) /\ (\A r \in Slots : r # s => queue'[r] = queue[r]) /\ queue' \in [Slots -> Seq(Messages)]
  BY <1>1, <1>2
<1>11. QED
  BY <1>2, <1>4, <1>7, <1>9, <1>10

(* A new socket. *)
LEMMA StartupSocketKept ==
  ASSUME LifeInv, NEW t \in Apps, NEW s \in Slots, NEW m \in {"tcp", "udp", "udpsend"}, StartupSocket(t, s, m),
         pc[t] \in {"idle", "udpsend"}, UNCHANGED <<libVars, ret, faultVars>>
  PROVE  /\ Types' /\ Control' /\ Lists' /\ Pool' /\ Stages' /\ Harm'
         /\ s \notin Alive /\ Registered' = Registered \cup {s} /\ Trashed' = Trashed
         /\ mode'[s] = m /\ \A r \in Slots : r # s => mode'[r] = mode[r] /\ status'[r] = status[r]
         /\ pc' = [pc EXCEPT ![t] = "packet"] /\ at'[t] = s /\ \A u \in Threads : u # t => at'[u] = at[u]
<1>1. /\ s \notin Registered \cup Trashed /\ list' = <<s>> \o list
      /\ mode' = [mode EXCEPT ![s] = m] /\ status' = [status EXCEPT ![s] = {}]
      /\ queue' = [queue EXCEPT ![s] = <<>>] /\ ctl' = [ctl EXCEPT ![s] = "run"]
      /\ snd' = [snd EXCEPT ![s] = IF m = "tcp" THEN "run" ELSE "end"]
      /\ pc' = [pc EXCEPT ![t] = "packet"] /\ at' = [at EXCEPT ![t] = s]
      /\ UNCHANGED <<config, udpsend, pool, force, trash, ret, corrupt, overlapped, failed>>
  BY DEF StartupSocket, Goto, libVars, faultVars
<1>2. /\ list \in Seq(Slots) /\ trash \in Seq(Slots) /\ mode \in [Slots -> {"tcp", "udp", "udpsend"}]
      /\ status \in [Slots -> SUBSET {"CREATE", "WAIT_CLOSE"}] /\ queue \in [Slots -> Seq(Messages)]
      /\ ctl \in [Slots -> {"run", "move", "reply", "end"}] /\ snd \in [Slots -> {"run", "null", "end"}]
      /\ at \in [Threads -> Slots \cup {None}] /\ pool \in Int /\ queue[s] \in Seq(Messages)
      /\ Once(list) /\ Once(trash)
  BY DEF LifeInv, Types, Lists
<1>3. t \in Threads
  BY ConstantsAre
<1>4. list' \in Seq(Slots) /\ Once(list') /\ Registered' = Registered \cup {s} /\ Trashed' = Trashed
  <2>1. s \notin ToSet(list)
    BY <1>1 DEF Registered
  <2>2. QED
    BY <1>1, <1>2, <2>1, Pushed DEF Registered, Trashed
<1>5. /\ mode'[s] = m /\ status'[s] = {} /\ queue'[s] = <<>> /\ ctl'[s] = "run" /\ snd'[s] \in {"run", "end"} /\ at'[t] = s
      /\ \A r \in Slots : r # s => /\ mode'[r] = mode[r] /\ status'[r] = status[r]
                                   /\ queue'[r] = queue[r] /\ ctl'[r] = ctl[r] /\ snd'[r] = snd[r]
      /\ \A u \in Threads : u # t => at'[u] = at[u]
  BY <1>1, <1>2, <1>3
<1>6. Control' /\ pc' \in [Threads -> Calling \cup Sweeping \cup Alone \cup {"end", "start", "sleep"}]
      /\ at' \in [Threads -> Slots \cup {None}]
  <2>1. ret[t] = "idle"
    BY DEF LifeInv, Control, Calling, Sweeping
  <2>2. "packet" \in Calling /\ "packet" \in AtSocket
    BY DEF Calling, AtSocket
  <2>3. QED
    BY <1>1, <2>1, <2>2, AppControl DEF LifeInv
<1>7. Types'
  <2>1. queue' \in [Slots -> Seq(Messages)] /\ snd' \in [Slots -> {"run", "null", "end"}]
        /\ status' \in [Slots -> SUBSET {"CREATE", "WAIT_CLOSE"}] /\ mode' \in [Slots -> {"tcp", "udp", "udpsend"}]
        /\ ctl' \in [Slots -> {"run", "move", "reply", "end"}]
    BY <1>1, <1>2, EmptySeq
  <2>2. QED
    BY <1>1, <1>4, <1>6, <2>1 DEF LifeInv, Types
<1>8. Lists'
  <2>1. Once(trash') /\ Registered' \cap Trashed' = {}
    BY <1>1, <1>2, <1>4 DEF LifeInv, Lists
  <2>2. \A r \in Slots : ctl'[r] # "end" => r \in Registered' \cup Trashed'
    BY <1>4, <1>5 DEF LifeInv, Lists
  <2>3. \A r \in Slots : ctl'[r] \in {"move", "reply"} => queue'[r] # <<>> /\ queue'[r][1] = "close"
    BY <1>5 DEF LifeInv, Lists
  <2>4. QED
    BY <1>4, <2>1, <2>2, <2>3 DEF Lists
<1>9. ~overlapped => Unused(s)
  BY <1>1 DEF LifeInv, Stages, Stage, Unused, Made, Open, Marked, Closing, Closed
<1>10. Pool'
  <2>1. IsFiniteSet(Packets)
    BY DEF LifeInv, Pool
  <2>2. /\ IsFiniteSet(Packets') /\ Cardinality(Packets') \in Nat /\ Cardinality(Packets) \in Nat
        /\ Cardinality(Packets') + Cardinality(Held(queue[s])) = Cardinality(Packets) + Cardinality(Held(<<>>))
    BY <1>1, <1>2, <2>1, Recount, EmptySeq
  <2>3. Cardinality(Held(queue[s])) \in Nat /\ Cardinality(Held(<<>>)) = 0
    BY <1>2, HeldIs, HeldEmpty
  <2>4. Cardinality(Packets') <= Cardinality(Packets)
    BY <2>2, <2>3
  <2>5. ~overlapped => Cardinality(Packets') = Cardinality(Packets)
    BY <1>9, <2>2, <2>3 DEF Unused
  <2>6. pool < 0 => Packets' = {}
    <3>1. pool < 0 => Cardinality(Packets) = 0
      BY FS_EmptySet DEF LifeInv, Pool
    <3>2. pool < 0 => Cardinality(Packets') = 0
      BY <2>2, <2>4, <3>1
    <3>3. QED
      BY <2>2, <3>2, FS_EmptySet
  <2>7. pool >= 0 => pool + Cardinality(Packets') <= PoolSize
    BY <1>2, <2>2, <2>4, ConstantsAre DEF LifeInv, Pool
  <2>8. pool >= 0 /\ ~overlapped => pool + Cardinality(Packets') = PoolSize
    BY <2>5 DEF LifeInv, Pool
  <2>9. ~config' \/ pc'[Main] = "startup" => pool < 0
    <3>1. pc'[Main] = "startup" => pc[Main] = "startup"
      BY <1>1, <1>3, ConstantsAre DEF LifeInv, Types
    <3>2. QED
      BY <1>1, <3>1 DEF LifeInv, Pool
  <2>10. QED
    BY <1>1, <2>2, <2>6, <2>7, <2>8, <2>9 DEF Pool
<1>11. Stages'
  <2>1. /\ \A r : ~About(t, r) /\ ~About(t, r)' => SameThreads(r)
        /\ \A r : (\A u \in Threads : u # t => ~About(u, r)) /\ About(t, r)' => Only(t, r)'
        /\ pc'[t] = "packet"
    <3>1. Types /\ pc' = [pc EXCEPT ![t] = "packet"] /\ \A u \in Threads : u # t => at'[u] = at[u]
      BY <1>1, <1>5 DEF LifeInv
    <3>2. QED
      BY <1>3, <3>1, OneThread
  <2>2. \A r : ~About(t, r) /\ (r # s => ~About(t, r)')
    BY <1>5 DEF About, AtSocket
  <2>3. ASSUME NEW r \in Slots, r # s PROVE SameThreads(r) /\ SameLists(r) /\ SamePipe(r) /\ status'[r] = status[r]
    BY <1>4, <1>5, <2>1, <2>2, <2>3 DEF SameLists, SamePipe
  <2>4. ASSUME ~overlapped PROVE Stage(s)'
    <3>1. Nobody(s)
      BY <1>9, <2>4 DEF Unused
    <3>2. Only(t, s)'
      BY <1>5, <2>1, <3>1 DEF Nobody, About, AtSocket
    <3>3. Made(s)'
      BY <1>4, <1>5, <2>1, <3>2 DEF Made
    <3>4. QED
      BY <3>3 DEF Stage
  <2>5. QED
    BY <1>1, <2>3, <2>4, StagesFrame DEF LifeInv
<1>12. Harm'
  BY <1>1 DEF LifeInv, Harm
<1>13. QED
  BY <1>1, <1>4, <1>5, <1>6, <1>7, <1>8, <1>10, <1>11, <1>12 DEF Alive


(* The application calls between the startup and the cleanup only. *)
LEMMA ReadyIsUp ==
  ASSUME LifeInv, Ready, ~overlapped, ~failed
  PROVE  Up
<1>1. config /\ ~Starting /\ ~Cleaning
  BY DEF Ready
<1>2. /\ pc[Main] \notin {"calm", "closeall", "isclosed", "pool", "startup", "udpsend"} \cup Sweeping
      /\ ret[Main] = "idle"
  BY <1>1 DEF Cleaning, Starting, LifeInv, Control, Sweeping
<1>3. ~Down /\ ~Begun /\ ~Pooled
  BY <1>1, <1>2 DEF Down, Begun, Pooled
<1>4. ~Making
  BY <1>1 DEF Making, Starting
<1>5. ~Parting
  BY <1>2 DEF Parting, Sweeping
<1>6. ~Parted
  BY <1>2 DEF Parted, Sweeping
<1>7. QED
  BY <1>3, <1>4, <1>5, <1>6 DEF LifeInv, Phases

LEMMA CreateSocketKept ==
  ASSUME LifeInv, NEW t \in Apps, NEW m \in {"tcp", "udp"}, CreateSocket(t, m)
  PROVE  LifeInv'
<1>1. pc[t] = "idle" /\ Ready
  BY DEF CreateSocket
<1>2. CASE m = "udp" /\ udpsend \notin Slots
  <2>1. Misuse("null")
    BY <1>2 DEF CreateSocket
  <2>2. failed \/ overlapped
    <3>1. ~failed /\ ~overlapped => udpsend \in Slots
      <4>1. ~failed /\ ~overlapped => Up
        BY <1>1, ReadyIsUp
      <4>2. Registered \subseteq Slots
        BY AliveIs
      <4>3. QED
        BY <4>1, <4>2 DEF Up
    <3>2. QED
      BY <1>2, <3>1
  <2>3. QED
    BY <2>1, <2>2, MisuseKept
<1>3. CASE ~(m = "udp" /\ udpsend \notin Slots)
  <2>1. PICK s \in Slots : StartupSocket(t, s, m)
    BY <1>3 DEF CreateSocket
  <2>2. UNCHANGED <<libVars, ret, faultVars>>
    BY <1>3 DEF CreateSocket
  <2>3. /\ Types' /\ Control' /\ Lists' /\ Pool' /\ Stages' /\ Harm'
        /\ s \notin Alive /\ Registered' = Registered \cup {s} /\ Trashed' = Trashed
        /\ mode'[s] = m /\ \A r \in Slots : r # s => mode'[r] = mode[r] /\ status'[r] = status[r]
        /\ pc' = [pc EXCEPT ![t] = "packet"] /\ at'[t] = s /\ \A u \in Threads : u # t => at'[u] = at[u]
    BY <1>1, <2>1, <2>2, StartupSocketKept
  <2>4. Phases'
    <3>1. SUFFICES ASSUME ~overlapped, ~failed PROVE Up'
      BY <2>2 DEF Phases, faultVars
    <3>2. Up
      BY <1>1, <3>1, ReadyIsUp
    <3>3. udpsend # s /\ udpsend \in Slots /\ Alive \subseteq Slots
      <4>1. Registered \subseteq Slots /\ Trashed \subseteq Slots
        BY AliveIs
      <4>2. QED
        BY <2>3, <3>2, <4>1 DEF Up, Alive
    <3>4. Types /\ t \in Threads
      BY ConstantsAre DEF LifeInv
    <3>5. /\ \A r : (\A u \in Threads : u # t => ~About(u, r)) /\ ~About(t, r)' => Nobody(r)'
          /\ pc'[t] = "packet" /\ \A u \in Threads : u # t => pc'[u] = pc[u]
      BY <2>3, <3>4, OneThread
    <3>6. Nobody(udpsend)'
      <4>1. ~About(t, udpsend)'
        BY <2>2, <2>3, <3>3 DEF About, libVars
      <4>2. \A u \in Threads : ~About(u, udpsend)
        BY <3>2 DEF Up, Nobody
      <4>3. udpsend' = udpsend
        BY <2>2 DEF libVars
      <4>4. \A u \in Threads : ~About(u, udpsend)'
        BY <2>3, <3>5, <4>1, <4>2, <4>3 DEF About
      <4>5. QED
        BY <4>4 DEF Nobody
    <3>7. pc'[Main] \in Calling \cup Sweeping \cup {"calm", "closeall"} /\ ret'[Main] # "isclosed"
      BY <2>2, <3>2, <3>5, ConstantsAre DEF Up, Calling
    <3>8. \A r \in Alive' : mode'[r] = "udpsend" => r = udpsend
      BY <2>3, <3>2, <3>3 DEF Up, Alive
    <3>9. config' /\ udpsend' = udpsend /\ pool' >= 0 /\ udpsend \in Registered' /\ status'[udpsend] = {"CREATE"}
      BY <2>2, <2>3, <3>2, <3>3 DEF Up, libVars
    <3>10. QED
      BY <3>6, <3>7, <3>8, <3>9 DEF Up
  <2>5. QED
    BY <2>3, <2>4 DEF LifeInv
<1>4. QED
  BY <1>2, <1>3

LEMMA ExecCreateKept ==
  ASSUME LifeInv, NEW t \in Apps, ExecCreate(t)
  PROVE  LifeInv'
<1>0. pc[t] = "packet" /\ t \in Threads
  BY ConstantsAre DEF ExecCreate
<1>1. PICK s \in Slots : pc[t] = "packet" /\ t \in Threads /\ s \in Slots /\ s = at[t]
  BY <1>0 DEF LifeInv, Control, AtSocket
<1>2. About(t, s)
  BY <1>1 DEF About, AtSocket
<1>3. ~overlapped => Made(s) /\ Only(t, s) /\ queue[s] = <<>>
  <2>1. ASSUME ~overlapped PROVE Made(s) /\ Only(t, s) /\ queue[s] = <<>>
    <3>1. Stage(s)
      BY <1>1, <2>1 DEF LifeInv, Stages
    <3>2. \A u \in Threads : Only(u, s) => u = t
      BY <1>1, <1>2 DEF Only
    <3>3. ~Nobody(s)
      BY <1>1, <1>2 DEF Nobody
    <3>4. Apps \subseteq Threads
      BY ConstantsAre
    <3>5. Made(s)
      BY <1>1, <3>1, <3>2, <3>3, <3>4 DEF Stage, Unused, Open, Marked, Closing, Closed
    <3>6. QED
      BY <1>1, <3>2, <3>4, <3>5 DEF Made
  <2>2. QED
    BY <2>1
<1>4. CASE pool = Stale
  <2>1. Misuse("null")
    BY <1>4 DEF ExecCreate
  <2>2. failed \/ overlapped
    <3>1. SUFFICES ASSUME ~failed, ~overlapped PROVE FALSE
      OBVIOUS
    <3>2. pool < 0 /\ ~(pool >= 0)
      BY <1>4, ConstantsAre
    <3>3. s \in Registered
      BY <1>3, <3>1 DEF Made
    <3>4. QED
      BY <3>1, <3>2, <3>3 DEF LifeInv, Phases, Down, Begun, Pooled, Making, Up, Parting, Parted, Alive
  <2>3. QED
    BY <2>1, <2>2, MisuseKept
<1>5. CASE pool # Stale
  <2>1. /\ pool > 0 /\ pool' = pool - 1 /\ queue' = [queue EXCEPT ![s] = Append(queue[s], "create")]
        /\ pc' = [pc EXCEPT ![t] = "response"]
        /\ UNCHANGED <<config, udpsend, force, list, trash, mode, status, ctl, snd, at, ret, corrupt, overlapped, failed>>
    BY <1>1, <1>5 DEF ExecCreate, sockVars, faultVars
  <2>2. /\ queue'[s] = Append(queue[s], "create") /\ \A r \in Slots : r # s => queue'[r] = queue[r]
        /\ queue' \in [Slots -> Seq(Messages)] /\ queue'[s] # <<>>
        /\ queue[s] # <<>> => queue'[s][1] = queue[s][1]
        /\ pool >= 0 /\ pool' \in Int /\ pool' >= 0 /\ ~(pool' < 0)
        /\ IsFiniteSet(Packets') /\ Cardinality(Packets') \in Nat
        /\ pool' + Cardinality(Packets') <= PoolSize
        /\ ~overlapped => pool' + Cardinality(Packets') = PoolSize
    BY <1>1, <2>1, PacketOut
  <2>3. Control' /\ pc' \in [Threads -> Calling \cup Sweeping \cup Alone \cup {"end", "start", "sleep"}]
    <3>1. ret[t] = "idle" /\ "response" \in Calling /\ "response" \in AtSocket
      BY <1>1 DEF LifeInv, Control, Calling, Sweeping, AtSocket
    <3>2. at' = [at EXCEPT ![t] = s] /\ s \in Slots \cup {None} /\ Types /\ Control
      BY <1>1, <2>1 DEF LifeInv, Types
    <3>3. QED
      BY <1>1, <2>1, <3>1, <3>2, AppControl
  <2>4. Types'
    BY <2>1, <2>2, <2>3, ConstantsAre DEF LifeInv, Types
  <2>5. Lists'
    BY <2>1, <2>2, ListsFrame DEF LifeInv, Lists
  <2>6. /\ \A r : ~About(t, r) /\ ~About(t, r)' => SameThreads(r)
        /\ \A r : (\A u \in Threads : u # t => ~About(u, r)) /\ ~About(t, r)' => Nobody(r)'
        /\ \A r : (\A u \in Threads : u # t => ~About(u, r)) /\ About(t, r)' => Only(t, r)'
        /\ pc'[t] = "response" /\ \A u \in Threads : u # t => pc'[u] = pc[u]
    <3>1. Types /\ \A u \in Threads : u # t => at'[u] = at[u]
      BY <2>1 DEF LifeInv
    <3>2. QED
      BY <1>1, <2>1, <3>1, OneThread
  <2>7. Pool'
    <3>1. ~(~config' \/ pc'[Main] = "startup")
      <4>1. ~(~config \/ pc[Main] = "startup")
        BY <2>1, <2>2 DEF LifeInv, Pool, Types
      <4>2. QED
        BY <2>1, <2>6, <4>1, ConstantsAre
    <3>2. QED
      BY <2>1, <2>2, <3>1 DEF Pool
  <2>8. Stages'
    <3>1. \A r : r # s => ~About(t, r) /\ ~About(t, r)'
      BY <1>1, <2>1 DEF About
    <3>2. ASSUME NEW r \in Slots, r # s PROVE SameThreads(r) /\ SameLists(r) /\ SamePipe(r) /\ status'[r] = status[r]
      BY <2>1, <2>2, <2>6, <3>1, <3>2 DEF SameLists, SamePipe, Registered, Trashed
    <3>3. ASSUME ~overlapped PROVE Stage(s)'
      <4>1. Made(s) /\ Only(t, s) /\ queue[s] = <<>>
        BY <1>3, <3>3
      <4>2. queue'[s] = <<"create">>
        BY <2>2, <4>1, TwoMessages
      <4>3. Only(t, s)'
        <5>1. About(t, s)'
          BY <1>2, <2>1, <2>6 DEF About, AtSocket
        <5>2. QED
          BY <2>6, <4>1, <5>1 DEF Only
      <4>4. Made(s)'
        BY <2>1, <2>6, <4>1, <4>2, <4>3 DEF Made, Registered
      <4>5. QED
        BY <4>4 DEF Stage
    <3>4. QED
      BY <2>1, <3>2, <3>3, StagesFrame DEF LifeInv
  <2>9. Phases'
    <3>1. SUFFICES ASSUME ~overlapped, ~failed PROVE (Making \/ Up)'
      BY <2>1 DEF Phases
    <3>2. /\ s \in Registered /\ Alive' = Alive /\ Registered' = Registered /\ Trashed' = Trashed
      BY <1>3, <2>1, <3>1 DEF Made, Alive, Registered, Trashed
    <3>3. t # Main => ~OnlyMain
      BY <1>1 DEF OnlyMain
    <3>4. ~Down /\ ~Begun /\ ~Pooled /\ ~Parted
      BY <3>2 DEF Down, Begun, Pooled, Parted, Alive
    <3>5. ~Parting
      BY <1>1, <3>3 DEF Parting, Sweeping
    <3>6. ASSUME Making PROVE Making'
      <4>1. t = Main
        BY <3>3, <3>6 DEF Making
      <4>2. OnlyMain'
        BY <2>6, <3>6, <4>1, ConstantsAre DEF Making, OnlyMain
      <4>3. QED
        BY <2>1, <2>2, <2>6, <3>2, <3>6, <4>1, <4>2 DEF Making
    <3>7. ASSUME Up PROVE Up'
      <4>1. udpsend # s
        BY <1>1, <1>2, <3>7 DEF Up, Nobody
      <4>2. Nobody(udpsend)'
        <5>1. ~About(t, udpsend)'
          BY <1>1, <2>1, <4>1 DEF About
        <5>2. \A u \in Threads : ~About(u, udpsend)
          BY <3>7 DEF Up, Nobody
        <5>3. \A u \in Threads : ~About(u, udpsend)'
          BY <2>1, <2>6, <5>1, <5>2 DEF About
        <5>4. QED
          BY <5>3 DEF Nobody
      <4>3. pc'[Main] \in Calling \cup Sweeping \cup {"calm", "closeall"}
        BY <2>6, <3>7, ConstantsAre DEF Up, Calling
      <4>4. QED
        BY <2>1, <2>2, <3>2, <3>7, <4>2, <4>3 DEF Up
    <3>8. QED
      BY <3>1, <3>4, <3>5, <3>6, <3>7 DEF LifeInv, Phases
  <2>10. Harm'
    BY <2>1 DEF LifeInv, Harm
  <2>11. QED
    BY <2>3, <2>4, <2>5, <2>7, <2>8, <2>9, <2>10 DEF LifeInv
<1>6. QED
  BY <1>4, <1>5


LEMMA CreateSocketCallBackKept ==
  ASSUME LifeInv, NEW s \in Slots, CreateSocketCallBack(s)
  PROVE  LifeInv'
<1>1. PICK t \in Apps : pc[t] = "response" /\ at[t] = s /\ Goto(t, "idle", None)
  BY DEF CreateSocketCallBack
<1>2. /\ ctl[s] = "run" /\ queue[s] # <<>> /\ Head(queue[s]) = "create"
      /\ queue' = [queue EXCEPT ![s] = Tail(queue[s])] /\ status' = [status EXCEPT ![s] = {"CREATE"}]
      /\ pool' = pool + 1 /\ udpsend' = IF mode[s] = "udpsend" THEN s ELSE udpsend
      /\ pc' = [pc EXCEPT ![t] = "idle"] /\ at' = [at EXCEPT ![t] = None]
      /\ UNCHANGED <<config, force, list, trash, mode, ctl, snd, ret, corrupt, overlapped, failed>>
  BY <1>1 DEF CreateSocketCallBack, Goto, faultVars
<1>3. /\ queue[s] \in Seq(Messages) /\ status \in [Slots -> SUBSET {"CREATE", "WAIT_CLOSE"}]
      /\ pool \in Int /\ at \in [Threads -> Slots \cup {None}]
  BY DEF LifeInv, Types
<1>4. queue[s][1] = "create" /\ queue[s][1] # "null"
  BY <1>2, <1>3, HeadTailProperties
<1>5. /\ queue'[s] = Tail(queue[s]) /\ \A r \in Slots : r # s => queue'[r] = queue[r]
      /\ queue' \in [Slots -> Seq(Messages)]
      /\ pool >= 0 /\ pool' \in Int
      /\ IsFiniteSet(Packets') /\ Cardinality(Packets') \in Nat
      /\ pool' + Cardinality(Packets') <= PoolSize
      /\ ~overlapped => pool' + Cardinality(Packets') = PoolSize
  BY <1>2, <1>4, PacketBack
<1>6. t \in Threads /\ About(t, s)
  BY <1>1, ConstantsAre DEF About, AtSocket
<1>7. /\ status'[s] = {"CREATE"} /\ \A r \in Slots : r # s => status'[r] = status[r]
      /\ at'[t] = None /\ \A u \in Threads : u # t => at'[u] = at[u]
  BY <1>2, <1>3, <1>6
<1>8. /\ \A r : ~About(t, r) /\ ~About(t, r)' => SameThreads(r)
      /\ \A r : (\A u \in Threads : u # t => ~About(u, r)) /\ ~About(t, r)' => Nobody(r)'
      /\ pc'[t] = "idle" /\ \A u \in Threads : u # t => pc'[u] = pc[u]
  <2>1. Types
    BY DEF LifeInv
  <2>2. QED
    BY <1>2, <1>6, <1>7, <2>1, OneThread
<1>9. Registered' = Registered /\ Trashed' = Trashed /\ Alive' = Alive /\ s \in Alive
  BY <1>2 DEF Registered, Trashed, Alive, LifeInv, Lists
<1>10. Control' /\ pc' \in [Threads -> Calling \cup Sweeping \cup Alone \cup {"end", "start", "sleep"}]
       /\ at' \in [Threads -> Slots \cup {None}]
  <2>1. ret[t] = "idle"
    BY <1>1 DEF LifeInv, Control, Calling, Sweeping
  <2>2. "idle" \in Calling /\ "idle" \notin AtSocket /\ None \notin Slots
    BY ConstantsAre DEF Calling, AtSocket
  <2>3. Types /\ Control
    BY DEF LifeInv
  <2>4. QED
    BY <1>2, <2>1, <2>2, <2>3, AppControl
<1>11. Types'
  <2>1. status' \in [Slots -> SUBSET {"CREATE", "WAIT_CLOSE"}] /\ udpsend' \in Slots \cup {None, "enomem"}
    BY <1>2, <1>3 DEF LifeInv, Types
  <2>2. pool' >= Stale
    BY <1>2, <1>3, <1>5, ConstantsAre
  <2>3. QED
    BY <1>2, <1>5, <1>10, <2>1, <2>2 DEF LifeInv, Types
<1>12. Lists'
  BY <1>2, <1>5, ListsFrame DEF LifeInv, Lists
<1>13. Pool'
  <2>1. pool' >= 0 /\ ~(pool' < 0)
    BY <1>2, <1>3, <1>5
  <2>2. ~(~config' \/ pc'[Main] = "startup")
    <3>1. ~(~config \/ pc[Main] = "startup")
      BY <1>3, <1>5 DEF LifeInv, Pool
    <3>2. QED
      BY <1>2, <1>8, <3>1, ConstantsAre
  <2>3. QED
    BY <1>2, <1>5, <2>1, <2>2 DEF Pool
<1>14. ASSUME ~overlapped PROVE Made(s) /\ Only(t, s) /\ queue[s] = <<"create">>
  <2>1. Stage(s)
    BY <1>14 DEF LifeInv, Stages
  <2>2. Made(s)
    BY <1>2, <1>4, <2>1 DEF Stage, Unused, Open, Marked, Closing, Closed
  <2>3. \A u \in Threads : Only(u, s) => u = t
    BY <1>6 DEF Only
  <2>4. Apps \subseteq Threads
    BY ConstantsAre
  <2>5. QED
    BY <1>1, <2>2, <2>3, <2>4 DEF Made
<1>15. ~overlapped => Nobody(s)'
  <2>1. ASSUME ~overlapped PROVE Nobody(s)'
    <3>1. \A u \in Threads : u # t => ~About(u, s)
      BY <1>14, <2>1 DEF Only
    <3>2. ~About(t, s)'
      BY <1>8 DEF About, AtSocket
    <3>3. QED
      BY <1>8, <3>1, <3>2
  <2>2. QED
    BY <2>1
<1>16. Stages'
  <2>1. \A r : r # s => ~About(t, r) /\ ~About(t, r)'
    BY <1>1, <1>8 DEF About, AtSocket
  <2>2. ASSUME NEW r \in Slots, r # s PROVE SameThreads(r) /\ SameLists(r) /\ SamePipe(r) /\ status'[r] = status[r]
    BY <1>2, <1>5, <1>7, <1>8, <1>9, <2>1, <2>2 DEF SameLists, SamePipe
  <2>3. ASSUME ~overlapped PROVE Stage(s)'
    <3>1. Made(s) /\ queue[s] = <<"create">> /\ Nobody(s)'
      BY <1>14, <1>15, <2>3
    <3>2. queue'[s] = <<>>
      BY <1>5, <3>1, TwoMessages
    <3>3. Open(s)'
      BY <1>2, <1>7, <1>9, <3>1, <3>2 DEF Made, Open
    <3>4. QED
      BY <3>3 DEF Stage
  <2>4. QED
    BY <1>2, <2>2, <2>3, StagesFrame DEF LifeInv
<1>17. Phases'
  <2>1. SUFFICES ASSUME ~overlapped, ~failed PROVE Up'
    BY <1>2 DEF Phases
  <2>2. Made(s) /\ s \in Registered /\ pool' >= 0
    BY <1>2, <1>3, <1>5, <1>14, <2>1 DEF Made
  <2>3. t # Main => ~OnlyMain
    BY <1>1 DEF OnlyMain
  <2>4. ~Down /\ ~Begun /\ ~Pooled /\ ~Parted
    BY <1>9 DEF Down, Begun, Pooled, Parted
  <2>5. ~Parting
    BY <1>1, <2>3 DEF Parting, Sweeping
  <2>6. ASSUME Making PROVE Up'
    <3>1. t = Main
      BY <2>3, <2>6 DEF Making
    <3>2. Registered = {s} /\ Trashed = {} /\ mode[s] = "udpsend" /\ udpsend' = s
      BY <1>1, <1>2, <2>6, <3>1 DEF Making
    <3>3. Nobody(udpsend)'
      BY <1>15, <2>1, <3>2 DEF Nobody, About
    <3>4. ret'[Main] # "isclosed"
      BY <1>1, <1>2, <3>1 DEF LifeInv, Control, Sweeping
    <3>5. pc'[Main] \in Calling
      BY <1>8, <3>1 DEF Calling
    <3>6. \A r \in Alive' : r = udpsend'
      BY <1>9, <3>2 DEF Alive
    <3>7. QED
      BY <1>2, <1>7, <1>9, <2>2, <2>6, <3>2, <3>3, <3>4, <3>5, <3>6 DEF Up, Making
  <2>7. ASSUME Up PROVE Up'
    <3>1. udpsend # s /\ udpsend \in Slots
      <4>1. Registered \subseteq Slots
        BY AliveIs
      <4>2. QED
        BY <1>6, <2>7, <4>1 DEF Up, Nobody
    <3>2. mode[s] # "udpsend" /\ udpsend' = udpsend
      BY <1>2, <1>9, <2>7, <3>1 DEF Up
    <3>3. Nobody(udpsend)'
      <4>1. \A u \in Threads : ~About(u, udpsend)
        BY <2>7 DEF Up, Nobody
      <4>2. \A u \in Threads : ~About(u, udpsend)'
        BY <1>7, <1>8, <3>2, <4>1 DEF About, AtSocket
      <4>3. QED
        BY <4>2 DEF Nobody
    <3>4. pc'[Main] \in Calling \cup Sweeping \cup {"calm", "closeall"}
      BY <1>8, <2>7, ConstantsAre DEF Up, Calling
    <3>5. QED
      BY <1>2, <1>7, <1>9, <2>2, <2>7, <3>1, <3>2, <3>3, <3>4 DEF Up
  <2>8. QED
    BY <2>1, <2>4, <2>5, <2>6, <2>7 DEF LifeInv, Phases
<1>18. Harm'
  BY <1>2 DEF LifeInv, Harm
<1>19. QED
  BY <1>10, <1>11, <1>12, <1>13, <1>16, <1>17, <1>18 DEF LifeInv

-----------------------------------------------------------------------------
(* The library's own steps                                                 *)

(* Threads that are about no socket before and after a step. *)
Quiet ==
  /\ UNCHANGED <<list, trash, mode, status, queue, ctl, snd, overlapped>>
  /\ \A t \in Threads : \/ pc'[t] = pc[t] /\ at'[t] = at[t]
                        \/ pc[t] \notin AtSocket /\ pc'[t] \notin AtSocket

LEMMA QuietKept ==
  ASSUME LifeInv, Quiet
  PROVE  /\ Lists' /\ Stages' /\ Packets' = Packets
         /\ Alive' = Alive /\ Registered' = Registered /\ Trashed' = Trashed
         /\ udpsend' = udpsend => (Nobody(udpsend)' <=> Nobody(udpsend))
<1>1. UNCHANGED <<list, trash, mode, status, queue, ctl, snd, overlapped>>
  BY DEF Quiet
<1>2. \A t \in Threads : \A s : (About(t, s)' <=> About(t, s)) /\ (About(t, s) => pc'[t] = pc[t])
  BY DEF Quiet, About
<1>3. \A s : SameThreads(s)
  BY <1>2 DEF SameThreads
<1>4. Alive' = Alive /\ Registered' = Registered /\ Trashed' = Trashed /\ Packets' = Packets
  BY <1>1 DEF Alive, Registered, Trashed, Packets
<1>5. Lists'
  BY <1>1, ListsFrame DEF LifeInv, Lists
<1>6. Stages'
  <2>1. \A s \in Slots : SameThreads(s) /\ SameLists(s) /\ SamePipe(s) /\ status'[s] = status[s]
    BY <1>1, <1>3, <1>4 DEF SameLists, SamePipe
  <2>2. None \notin Slots
    BY ConstantsAre
  <2>3. QED
    BY <1>1, <2>1, <2>2, StagesFrame DEF LifeInv
<1>7. ASSUME udpsend' = udpsend PROVE Nobody(udpsend)' <=> Nobody(udpsend)
  <2>1. \A t \in Threads : About(t, udpsend)' <=> About(t, udpsend)
    BY <1>7 DEF Quiet, About
  <2>2. QED
    BY <2>1 DEF Nobody
<1>8. QED
  BY <1>4, <1>5, <1>6, <1>7


(* The main thread goes on. *)
LEMMA MainControl ==
  ASSUME Types, Control, NEW w \in Calling \cup Sweeping \cup Alone, NEW a \in Slots \cup {None},
         NEW b \in {"idle", "closeall", "isclosed", "calm"},
         pc' = [pc EXCEPT ![Main] = w], at' = [at EXCEPT ![Main] = a], ret' = [ret EXCEPT ![Main] = b],
         a \in Slots <=> w \in AtSocket,
         w \in {"close", "sendclose"} => b # "calm",
         w \in Sweeping => b = "calm",
         w \notin {"close", "sendclose"} \cup Sweeping => b = "idle",
         ~config' \/ w = "pool" => pc[Scavenger] = "end", w # "startup"
  PROVE  /\ Control'
         /\ pc' \in [Threads -> Calling \cup Sweeping \cup Alone \cup {"end", "start", "sleep"}]
         /\ at' \in [Threads -> Slots \cup {None}]
         /\ ret' \in [Threads -> {"idle", "closeall", "isclosed", "calm", "sleep"}]
         /\ pc'[Main] = w /\ at'[Main] = a /\ ret'[Main] = b
         /\ \A t \in Threads : t # Main => pc'[t] = pc[t] /\ at'[t] = at[t] /\ ret'[t] = ret[t]
<1>1. /\ pc \in [Threads -> Calling \cup Sweeping \cup Alone \cup {"end", "start", "sleep"}]
      /\ at \in [Threads -> Slots \cup {None}]
      /\ ret \in [Threads -> {"idle", "closeall", "isclosed", "calm", "sleep"}]
  BY DEF Types
<1>2. Main \in Threads /\ Main # Scavenger /\ Scavenger \in Threads /\ \A u \in Apps : u \in Threads
  BY ConstantsAre
<1>3. /\ pc' \in [Threads -> Calling \cup Sweeping \cup Alone \cup {"end", "start", "sleep"}]
      /\ at' \in [Threads -> Slots \cup {None}]
      /\ ret' \in [Threads -> {"idle", "closeall", "isclosed", "calm", "sleep"}]
  BY <1>1
<1>4. /\ pc'[Main] = w /\ at'[Main] = a /\ ret'[Main] = b
      /\ \A t \in Threads : t # Main => pc'[t] = pc[t] /\ at'[t] = at[t] /\ ret'[t] = ret[t]
  BY <1>1, <1>2
<1>5. \A u \in Threads : at'[u] \in Slots <=> pc'[u] \in AtSocket
  BY <1>4 DEF Control
<1>6. \A u \in Apps : u # Main => pc'[u] \in Calling /\ ret'[u] = "idle"
  BY <1>2, <1>4 DEF Control
<1>7. /\ pc'[Main] \in Calling \cup Sweeping \cup Alone
      /\ pc'[Main] \in {"close", "sendclose"} => ret'[Main] \in {"idle", "closeall", "isclosed"}
      /\ pc'[Main] \in Sweeping => ret'[Main] = "calm"
      /\ pc'[Main] \notin {"close", "sendclose"} \cup Sweeping => ret'[Main] = "idle"
  BY <1>4
<1>8. /\ pc'[Scavenger] \in {"end", "start", "sleep"} \cup Sweeping
      /\ ret'[Scavenger] = IF pc'[Scavenger] \in Sweeping THEN "sleep" ELSE "idle"
      /\ ~config' \/ pc'[Main] = "pool" => pc'[Scavenger] = "end"
      /\ pc'[Main] = "startup" => config'
  BY <1>2, <1>4 DEF Control
<1>9. QED
  BY <1>3, <1>4, <1>5, <1>6, <1>7, <1>8 DEF Control

(* A step of the main thread that is about no socket. *)
LEMMA MainQuiet ==
  ASSUME LifeInv, pc[Main] \notin AtSocket, NEW w, w \notin AtSocket, pc' = [pc EXCEPT ![Main] = w],
         \A t \in Threads : t # Main => at'[t] = at[t],
         UNCHANGED <<list, trash, mode, status, queue, ctl, snd, overlapped>>
  PROVE  Quiet /\ (OnlyMain' <=> OnlyMain)
<1>1. pc'[Main] = w /\ \A t \in Threads : t # Main => pc'[t] = pc[t]
  BY ConstantsAre DEF LifeInv, Types
<1>2. Quiet
  BY <1>1 DEF Quiet
<1>3. OnlyMain' <=> OnlyMain
  BY <1>1, ConstantsAre DEF OnlyMain
<1>4. QED
  BY <1>2, <1>3

(* What the invariant still asks of such a step. *)
LEMMA QuietInv ==
  ASSUME LifeInv, Quiet, Types', Control', Phases', Harm', pool' = pool,
         ~config' \/ pc'[Main] = "startup" => ~config \/ pc[Main] = "startup"
  PROVE  LifeInv'
<1>1. Lists' /\ Stages'
  BY QuietKept
<1>2. UNCHANGED <<queue, overlapped>>
  BY DEF Quiet
<1>3. Pool'
  BY <1>2, PoolFrame DEF LifeInv
<1>4. QED
  BY <1>1, <1>3 DEF LifeInv

LEMMA StartupKept == ASSUME LifeInv, Startup PROVE LifeInv'
<1>1. /\ pc[Main] = "idle" /\ ~config /\ config' = TRUE
      /\ pc' = [pc EXCEPT ![Main] = "startup", ![Scavenger] = "start"]
      /\ UNCHANGED <<udpsend, pool, force, list, trash, mode, status, queue, ctl, snd, at, ret, corrupt, overlapped, failed>>
  BY DEF Startup, sockVars, pipeVars, faultVars
<1>2. /\ pc \in [Threads -> Calling \cup Sweeping \cup Alone \cup {"end", "start", "sleep"}]
      /\ pc[Scavenger] = "end"
  BY <1>1 DEF LifeInv, Types, Control
<1>3. /\ pc'[Main] = "startup" /\ pc'[Scavenger] = "start"
      /\ \A t \in Threads : t # Main /\ t # Scavenger => pc'[t] = pc[t]
  BY <1>1, <1>2, ConstantsAre
<1>4. Types'
  <2>1. pc' \in [Threads -> Calling \cup Sweeping \cup Alone \cup {"end", "start", "sleep"}]
    BY <1>1, <1>2 DEF Alone
  <2>2. QED
    BY <1>1, <2>1 DEF LifeInv, Types
<1>5. Control'
  <2>1. ret[Main] = "idle" /\ ret[Scavenger] = "idle"
    BY <1>1, <1>2 DEF LifeInv, Control, Sweeping
  <2>2. \A t \in Threads : at'[t] \in Slots <=> pc'[t] \in AtSocket
    BY <1>1, <1>2, <1>3 DEF LifeInv, Control, AtSocket
  <2>3. \A t \in Apps : t # Main => pc'[t] \in Calling /\ ret'[t] = "idle"
    BY <1>1, <1>3, ConstantsAre DEF LifeInv, Control
  <2>4. QED
    BY <1>1, <1>3, <2>1, <2>2, <2>3 DEF Control, Calling, Sweeping, Alone
<1>6. Quiet
  BY <1>1, <1>2, <1>3 DEF Quiet, AtSocket
<1>7. Phases'
  <2>1. SUFFICES ASSUME ~overlapped, ~failed PROVE Begun'
    BY <1>1 DEF Phases
  <2>2. Down
    BY <1>1, <2>1 DEF LifeInv, Phases, Begun, Pooled, Making, Up, Parting, Parted
  <2>3. Alive' = Alive
    BY <1>6, QuietKept
  <2>4. OnlyMain'
    BY <1>3, <2>2, ConstantsAre DEF Down, OnlyMain
  <2>5. QED
    BY <1>1, <1>3, <2>2, <2>3, <2>4 DEF Down, Begun
<1>8. Harm'
  BY <1>1 DEF LifeInv, Harm
<1>9. QED
  BY <1>1, <1>4, <1>5, <1>6, <1>7, <1>8, QuietInv

LEMMA StartupPoolKept == ASSUME LifeInv, StartupPool PROVE LifeInv'
<1>1. /\ pc[Main] = "startup" /\ pc[Main] \notin AtSocket /\ at[Main] \notin Slots /\ ret[Main] = "idle"
      /\ UNCHANGED <<config, udpsend, force, list, trash, mode, status, queue, ctl, snd, at, ret, corrupt, overlapped>>
  BY ConstantsAre DEF StartupPool, sockVars, pipeVars, LifeInv, Control, AtSocket, Sweeping
<1>2. /\ at \in [Threads -> Slots \cup {None}] /\ ret \in [Threads -> {"idle", "closeall", "isclosed", "calm", "sleep"}]
      /\ Types /\ Control
  BY DEF LifeInv, Types
<1>3. at' = [at EXCEPT ![Main] = at[Main]] /\ ret' = [ret EXCEPT ![Main] = "idle"] /\ at[Main] \in Slots \cup {None}
  BY <1>1, <1>2, ConstantsAre
<1>4. pool < 0 /\ config
  BY <1>1 DEF LifeInv, Pool, Control, Types
<1>5. CASE /\ pool' = PoolSize /\ pc' = [pc EXCEPT ![Main] = "udpsend"] /\ failed' = failed
  <2>1. "udpsend" \in Calling \cup Sweeping \cup Alone /\ "udpsend" \notin AtSocket \cup {"close", "sendclose", "startup"} \cup Sweeping
    BY DEF Alone, AtSocket, Sweeping
  <2>2. Control' /\ pc' \in [Threads -> Calling \cup Sweeping \cup Alone \cup {"end", "start", "sleep"}] /\ pc'[Main] = "udpsend"
    BY <1>1, <1>2, <1>3, <1>4, <1>5, <2>1, MainControl
  <2>3. Types'
    BY <1>1, <1>5, <2>2, ConstantsAre DEF LifeInv, Types
  <2>4. Quiet /\ (OnlyMain' <=> OnlyMain)
    BY <1>1, <1>5, <2>1, MainQuiet
  <2>5. Lists' /\ Stages' /\ Packets' = Packets /\ Alive' = Alive
    BY <2>4, QuietKept
  <2>6. Pool'
    <3>1. Packets' = {} /\ Cardinality(Packets') = 0 /\ IsFiniteSet(Packets')
      BY <1>4, <2>5, FS_EmptySet DEF LifeInv, Pool
    <3>2. ~(~config' \/ pc'[Main] = "startup") /\ pool' >= 0 /\ ~(pool' < 0)
      BY <1>1, <1>4, <1>5, <2>2, ConstantsAre
    <3>3. QED
      BY <1>5, <3>1, <3>2, ConstantsAre DEF Pool
  <2>7. Phases'
    <3>1. SUFFICES ASSUME ~overlapped, ~failed PROVE Pooled'
      BY <1>1, <1>5 DEF Phases
    <3>2. Begun
      BY <1>1, <3>1 DEF LifeInv, Phases, Down, Pooled, Making, Up, Parting, Parted, Calling, Sweeping
    <3>3. pool' >= 0
      BY <1>5, ConstantsAre
    <3>4. QED
      BY <1>1, <2>2, <2>4, <2>5, <3>2, <3>3 DEF Begun, Pooled
  <2>8. Harm'
    BY <1>1, <1>5 DEF LifeInv, Harm
  <2>9. QED
    BY <2>2, <2>3, <2>5, <2>6, <2>7, <2>8 DEF LifeInv
<1>6. CASE /\ failed' = TRUE /\ pc' = [pc EXCEPT ![Main] = "idle"] /\ pool' = pool
  <2>1. "idle" \in Calling \cup Sweeping \cup Alone /\ "idle" \notin AtSocket \cup {"close", "sendclose", "startup"} \cup Sweeping
    BY DEF Calling, AtSocket, Sweeping
  <2>2. Control' /\ pc' \in [Threads -> Calling \cup Sweeping \cup Alone \cup {"end", "start", "sleep"}] /\ pc'[Main] = "idle"
    BY <1>1, <1>2, <1>3, <1>4, <1>6, <2>1, MainControl
  <2>3. Types'
    BY <1>1, <1>6, <2>2 DEF LifeInv, Types
  <2>4. Quiet
    BY <1>1, <1>6, <2>1, MainQuiet
  <2>5. Phases' /\ Harm'
    BY <1>1, <1>6 DEF LifeInv, Phases, Harm
  <2>6. QED
    BY <1>1, <1>4, <1>6, <2>2, <2>3, <2>4, <2>5, QuietInv
<1>7. QED
  BY <1>5, <1>6 DEF StartupPool

LEMMA StartupUdpSendKept == ASSUME LifeInv, StartupUdpSend PROVE LifeInv'
<1>1. pc[Main] = "udpsend" /\ Main \in Apps
  BY ConstantsAre DEF StartupUdpSend
<1>2. ~overlapped /\ ~failed => Pooled
  BY <1>1 DEF LifeInv, Phases, Down, Begun, Making, Up, Parting, Parted, Calling, Sweeping
<1>3. ASSUME NEW s \in Slots, StartupSocket(Main, s, "udpsend"), UNCHANGED <<libVars, ret, faultVars>> PROVE LifeInv'
  <2>1. /\ Types' /\ Control' /\ Lists' /\ Pool' /\ Stages' /\ Harm'
        /\ s \notin Alive /\ Registered' = Registered \cup {s} /\ Trashed' = Trashed
        /\ mode'[s] = "udpsend" /\ \A r \in Slots : r # s => mode'[r] = mode[r] /\ status'[r] = status[r]
        /\ pc' = [pc EXCEPT ![Main] = "packet"] /\ at'[Main] = s /\ \A u \in Threads : u # Main => at'[u] = at[u]
    BY <1>1, <1>3, StartupSocketKept
  <2>2. Phases'
    <3>1. SUFFICES ASSUME ~overlapped, ~failed PROVE Making'
      BY <1>3 DEF Phases, faultVars
    <3>2. pc'[Main] = "packet" /\ \A u \in Threads : u # Main => pc'[u] = pc[u]
      BY <2>1, ConstantsAre DEF LifeInv, Types
    <3>3. OnlyMain'
      BY <1>2, <3>1, <3>2, ConstantsAre DEF Pooled, OnlyMain
    <3>4. Registered' = {at'[Main]} /\ Trashed' = {}
      BY <1>2, <2>1, <3>1 DEF Pooled, Alive
    <3>5. QED
      BY <1>2, <1>3, <2>1, <3>1, <3>2, <3>3, <3>4 DEF Pooled, Making, libVars
  <2>3. QED
    BY <2>1, <2>2 DEF LifeInv
<1>4. ASSUME udpsend' = "enomem", failed' = TRUE, Goto(Main, "idle", None), UNCHANGED <<sockVars, pipeVars>>,
             UNCHANGED <<config, pool, force, ret, corrupt, overlapped>>
      PROVE  LifeInv'
  <2>1. /\ UNCHANGED <<list, trash, mode, status, queue, ctl, snd, overlapped, config, pool, force, ret, corrupt>>
        /\ pc' = [pc EXCEPT ![Main] = "idle"] /\ at' = [at EXCEPT ![Main] = None]
    BY <1>4 DEF Goto, sockVars, pipeVars
  <2>2. /\ ret \in [Threads -> {"idle", "closeall", "isclosed", "calm", "sleep"}] /\ at \in [Threads -> Slots \cup {None}]
        /\ Types /\ Control /\ ret[Main] = "idle" /\ (~config => pc[Scavenger] = "end")
    BY <1>1 DEF LifeInv, Types, Control, Sweeping
  <2>3. ret' = [ret EXCEPT ![Main] = "idle"]
    BY <2>1, <2>2, ConstantsAre
  <2>4. /\ "idle" \in Calling \cup Sweeping \cup Alone /\ "idle" \notin AtSocket \cup {"close", "sendclose", "startup"} \cup Sweeping
        /\ None \notin Slots /\ pc[Main] \notin AtSocket
    BY <1>1, ConstantsAre DEF Calling, AtSocket, Sweeping
  <2>5. /\ Control' /\ pc' \in [Threads -> Calling \cup Sweeping \cup Alone \cup {"end", "start", "sleep"}] /\ pc'[Main] = "idle"
        /\ at' \in [Threads -> Slots \cup {None}] /\ \A t \in Threads : t # Main => at'[t] = at[t]
    BY <2>1, <2>2, <2>3, <2>4, MainControl
  <2>6. Types'
    BY <1>4, <2>1, <2>5 DEF LifeInv, Types
  <2>7. Quiet
    BY <2>1, <2>4, <2>5, MainQuiet
  <2>8. Phases' /\ Harm'
    BY <1>4 DEF LifeInv, Phases, Harm
  <2>9. QED
    BY <2>1, <2>5, <2>6, <2>7, <2>8, QuietInv
<1>5. QED
  <2>1. \/ (\E s \in Slots : StartupSocket(Main, s, "udpsend")) /\ UNCHANGED <<libVars, ret, faultVars>>
        \/ /\ udpsend' = "enomem" /\ failed' = TRUE /\ Goto(Main, "idle", None) /\ UNCHANGED <<sockVars, pipeVars>>
           /\ UNCHANGED <<config, pool, force, ret, corrupt, overlapped>>
    BY DEF StartupUdpSend, libVars, faultVars
  <2>2. QED
    BY <1>3, <1>4, <2>1


(* The scavenger goes on, about no socket. *)
LEMMA ScavengerQuiet ==
  ASSUME LifeInv, pc[Scavenger] \in {"start", "sleep", "trash"},
         NEW w \in {"end", "sleep", "trash"}, NEW b \in {"idle", "sleep"},
         pc' = [pc EXCEPT ![Scavenger] = w], ret' = [ret EXCEPT ![Scavenger] = b],
         w = "trash" <=> b = "sleep",
         at' \in [Threads -> Slots \cup {None}], at'[Scavenger] \notin Slots,
         \A t \in Threads : t # Scavenger => at'[t] = at[t],
         force' \in BOOLEAN,
         UNCHANGED <<config, udpsend, pool, list, trash, mode, status, queue, ctl, snd, corrupt, overlapped, failed>>
  PROVE  LifeInv'
<1>1. /\ pc \in [Threads -> Calling \cup Sweeping \cup Alone \cup {"end", "start", "sleep"}]
      /\ ret \in [Threads -> {"idle", "closeall", "isclosed", "calm", "sleep"}]
      /\ Scavenger \in Threads /\ Main # Scavenger /\ Main \in Threads
      /\ \A t \in Apps : t \in Threads /\ t # Scavenger
  BY ConstantsAre DEF LifeInv, Types
<1>2. /\ pc'[Scavenger] = w /\ ret'[Scavenger] = b
      /\ \A t \in Threads : t # Scavenger => pc'[t] = pc[t] /\ ret'[t] = ret[t]
  BY <1>1
<1>3. Types'
  <2>1. pc' \in [Threads -> Calling \cup Sweeping \cup Alone \cup {"end", "start", "sleep"}]
    BY <1>1 DEF Sweeping
  <2>2. ret' \in [Threads -> {"idle", "closeall", "isclosed", "calm", "sleep"}]
    BY <1>1
  <2>3. QED
    BY <2>1, <2>2 DEF LifeInv, Types
<1>4. w \notin AtSocket /\ pc[Scavenger] \notin AtSocket /\ (w \in Sweeping <=> w = "trash") /\ pc[Scavenger] # "end"
  BY DEF AtSocket, Sweeping
<1>5. Control'
  <2>1. \A t \in Threads : at'[t] \in Slots <=> pc'[t] \in AtSocket
    BY <1>2, <1>4 DEF LifeInv, Control
  <2>2. \A t \in Apps : t # Main => pc'[t] \in Calling /\ ret'[t] = "idle"
    BY <1>1, <1>2 DEF LifeInv, Control
  <2>3. config /\ pc[Main] # "pool"
    BY <1>4 DEF LifeInv, Control
  <2>4. /\ pc'[Main] \in Calling \cup Sweeping \cup Alone
        /\ pc'[Main] \in {"close", "sendclose"} => ret'[Main] \in {"idle", "closeall", "isclosed"}
        /\ pc'[Main] \in Sweeping => ret'[Main] = "calm"
        /\ pc'[Main] \notin {"close", "sendclose"} \cup Sweeping => ret'[Main] = "idle"
    BY <1>1, <1>2 DEF LifeInv, Control
  <2>5. /\ pc'[Scavenger] \in {"end", "start", "sleep"} \cup Sweeping
        /\ ret'[Scavenger] = IF pc'[Scavenger] \in Sweeping THEN "sleep" ELSE "idle"
    BY <1>2, <1>4 DEF Sweeping
  <2>6. config' /\ pc'[Main] # "pool"
    BY <1>1, <1>2, <2>3
  <2>7. QED
    BY <2>1, <2>2, <2>4, <2>5, <2>6 DEF Control
<1>6. Quiet
  BY <1>2, <1>4 DEF Quiet
<1>7. Phases'
  <2>1. /\ Alive' = Alive /\ Registered' = Registered /\ Trashed' = Trashed
        /\ Nobody(udpsend)' <=> Nobody(udpsend)
    BY <1>6, QuietKept
  <2>2. /\ pc'[Main] = pc[Main] /\ at'[Main] = at[Main] /\ ret'[Main] = ret[Main]
        /\ OnlyMain' <=> OnlyMain
    BY <1>1, <1>2 DEF OnlyMain
  <2>3. /\ Down => Down'
        /\ Begun => Begun'
        /\ Pooled => Pooled'
        /\ Parted => Parted'
    BY <2>1, <2>2 DEF Down, Begun, Pooled, Parted
  <2>4. Making => Making'
    BY <2>1, <2>2 DEF Making
  <2>5. Up => Up'
    BY <2>1, <2>2 DEF Up
  <2>6. Parting => Parting'
    BY <2>1, <2>2 DEF Parting
  <2>7. QED
    BY <2>3, <2>4, <2>5, <2>6 DEF LifeInv, Phases
<1>8. Harm'
  BY DEF LifeInv, Harm
<1>9. QED
  BY <1>1, <1>2, <1>3, <1>5, <1>6, <1>7, <1>8, QuietInv

LEMMA ScavengerStartsKept == ASSUME LifeInv, ScavengerStarts PROVE LifeInv'
<1>1. /\ pc[Scavenger] = "start" /\ force' = FALSE /\ pc' = [pc EXCEPT ![Scavenger] = "sleep"]
      /\ UNCHANGED <<config, udpsend, pool, list, trash, mode, status, queue, ctl, snd, at, ret, corrupt, overlapped, failed>>
  BY DEF ScavengerStarts, sockVars, pipeVars, faultVars
<1>2. /\ at \in [Threads -> Slots \cup {None}] /\ ret \in [Threads -> {"idle", "closeall", "isclosed", "calm", "sleep"}]
      /\ ret[Scavenger] = "idle" /\ at[Scavenger] \notin Slots
  BY <1>1, ConstantsAre DEF LifeInv, Types, Control, AtSocket, Sweeping
<1>3. ret' = [ret EXCEPT ![Scavenger] = "idle"]
  BY <1>1, <1>2, ConstantsAre
<1>4. QED
  BY <1>1, <1>2, <1>3, ScavengerQuiet

LEMMA ScavengerWakesKept == ASSUME LifeInv, ScavengerWakes PROVE LifeInv'
<1>1. /\ pc[Scavenger] = "sleep"
      /\ pc' = [pc EXCEPT ![Scavenger] = IF force THEN "end" ELSE "trash"]
      /\ ret' = [ret EXCEPT ![Scavenger] = IF force THEN "idle" ELSE "sleep"]
      /\ UNCHANGED <<config, udpsend, pool, force, list, trash, mode, status, queue, ctl, snd, at, corrupt, overlapped, failed>>
  BY DEF ScavengerWakes, libVars, sockVars, pipeVars, faultVars
<1>2. at \in [Threads -> Slots \cup {None}] /\ at[Scavenger] \notin Slots /\ force \in BOOLEAN
  BY <1>1, ConstantsAre DEF LifeInv, Types, Control, AtSocket
<1>3. CASE force
  BY <1>1, <1>2, <1>3, ScavengerQuiet
<1>4. CASE ~force
  BY <1>1, <1>2, <1>4, ScavengerQuiet
<1>5. QED
  BY <1>3, <1>4

(* A step of the main thread that is about no socket, with all it keeps. *)
LEMMA MainGoes ==
  ASSUME LifeInv, pc[Main] \notin AtSocket, NEW w \in {"idle", "calm", "closeall", "isclosed", "pool", "trash"},
         pc' = [pc EXCEPT ![Main] = w],
         ret' = [ret EXCEPT ![Main] = IF w = "trash" THEN "calm" ELSE "idle"],
         NEW a, at' = [at EXCEPT ![Main] = a], a \notin Slots, a \in Slots \cup {None},
         ~config' \/ w = "pool" => pc[Scavenger] = "end",
         config' \in BOOLEAN, force' \in BOOLEAN, udpsend' \in Slots \cup {None, "enomem"},
         pool' \in Int, pool' >= Stale,
         UNCHANGED <<list, trash, mode, status, queue, ctl, snd, corrupt, overlapped, failed>>
  PROVE  /\ Types' /\ Control' /\ Lists' /\ Stages' /\ Harm' /\ Quiet
         /\ Alive' = Alive /\ Registered' = Registered /\ Trashed' = Trashed /\ Packets' = Packets
         /\ OnlyMain' <=> OnlyMain
         /\ pc'[Main] = w /\ ret'[Main] = IF w = "trash" THEN "calm" ELSE "idle"
<1>1. /\ w \in Calling \cup Sweeping \cup Alone /\ w \notin AtSocket \cup {"close", "sendclose", "startup"}
      /\ w \in Sweeping <=> w = "trash"
  BY DEF Calling, Sweeping, Alone, AtSocket
<1>2. Types /\ Control
  BY DEF LifeInv
<1>3. PICK b \in {"idle", "closeall", "isclosed", "calm"} : b = IF w = "trash" THEN "calm" ELSE "idle"
  OBVIOUS
<1>4. /\ Control'
      /\ pc' \in [Threads -> Calling \cup Sweeping \cup Alone \cup {"end", "start", "sleep"}]
      /\ at' \in [Threads -> Slots \cup {None}]
      /\ ret' \in [Threads -> {"idle", "closeall", "isclosed", "calm", "sleep"}]
      /\ pc'[Main] = w /\ ret'[Main] = b
      /\ \A t \in Threads : t # Main => pc'[t] = pc[t] /\ at'[t] = at[t] /\ ret'[t] = ret[t]
  <2>1. ret' = [ret EXCEPT ![Main] = b]
    BY <1>3
  <2>2. /\ a \in Slots <=> w \in AtSocket
        /\ w \in {"close", "sendclose"} => b # "calm"
        /\ w \in Sweeping => b = "calm"
        /\ w \notin {"close", "sendclose"} \cup Sweeping => b = "idle"
        /\ w # "startup"
    BY <1>1, <1>3
  <2>3. QED
    BY <1>1, <1>2, <1>3, <2>1, <2>2, MainControl
<1>5. Types'
  BY <1>2, <1>4 DEF Types
<1>6. Quiet /\ (OnlyMain' <=> OnlyMain)
  BY <1>1, <1>4, MainQuiet
<1>7. Lists' /\ Stages' /\ Packets' = Packets /\ Alive' = Alive /\ Registered' = Registered /\ Trashed' = Trashed
  BY <1>6, QuietKept
<1>8. Harm'
  BY DEF LifeInv, Harm
<1>9. QED
  BY <1>3, <1>4, <1>5, <1>6, <1>7, <1>8

LEMMA StillAt ==
  ASSUME Types
  PROVE  /\ at = [at EXCEPT ![Main] = at[Main]] /\ at[Main] \in Slots \cup {None}
         /\ \A b : ret[Main] = b => ret = [ret EXCEPT ![Main] = b]
BY ConstantsAre DEF Types

LEMMA CleanupKept == ASSUME LifeInv, Cleanup PROVE LifeInv'
<1>1. /\ pc[Main] = "idle" /\ config /\ pc' = [pc EXCEPT ![Main] = "calm"]
      /\ UNCHANGED <<config, udpsend, pool, force, list, trash, mode, status, queue, ctl, snd, at, ret, corrupt, overlapped, failed>>
  BY DEF Cleanup, libVars, sockVars, pipeVars, faultVars
<1>2. /\ pc[Main] \notin AtSocket /\ at[Main] \notin Slots /\ ret[Main] = "idle" /\ Types
      /\ config \in BOOLEAN /\ force \in BOOLEAN /\ udpsend \in Slots \cup {None, "enomem"} /\ pool \in Int /\ pool >= Stale
  BY <1>1, ConstantsAre DEF LifeInv, Types, Control, AtSocket, Sweeping
<1>3. at' = [at EXCEPT ![Main] = at[Main]] /\ at[Main] \in Slots \cup {None} /\ ret' = [ret EXCEPT ![Main] = "idle"]
  BY <1>1, <1>2, StillAt
<1>4. /\ Types' /\ Control' /\ Lists' /\ Stages' /\ Harm' /\ Quiet
      /\ Alive' = Alive /\ Registered' = Registered /\ Trashed' = Trashed
      /\ pc'[Main] = "calm" /\ ret'[Main] = "idle"
  BY <1>1, <1>2, <1>3, MainGoes
<1>5. Phases'
  <2>1. SUFFICES ASSUME ~overlapped, ~failed PROVE Up'
    BY <1>1 DEF Phases
  <2>2. Up
    BY <1>1, <2>1 DEF LifeInv, Phases, Down, Begun, Pooled, Making, Parting, Parted, Sweeping
  <2>3. Nobody(udpsend)'
    BY <1>1, <1>4, <2>2, QuietKept DEF Up
  <2>4. QED
    BY <1>1, <1>4, <2>2, <2>3 DEF Up
<1>6. QED
  BY <1>1, <1>4, <1>5, QuietInv

LEMMA CalmDownKept == ASSUME LifeInv, CalmDown PROVE LifeInv'
<1>1. /\ pc[Main] = "calm"
      /\ UNCHANGED <<config, udpsend, pool, list, trash, mode, status, queue, ctl, snd, at, ret, corrupt, overlapped, failed>>
  BY DEF CalmDown, sockVars, pipeVars, faultVars
<1>2. /\ pc[Main] \notin AtSocket /\ at[Main] \notin Slots /\ ret[Main] = "idle" /\ Types
      /\ config \in BOOLEAN /\ force \in BOOLEAN /\ udpsend \in Slots \cup {None, "enomem"} /\ pool \in Int /\ pool >= Stale
      /\ ~config => pc[Scavenger] = "end"
  BY <1>1, ConstantsAre DEF LifeInv, Types, Control, AtSocket, Sweeping
<1>3. at' = [at EXCEPT ![Main] = at[Main]] /\ at[Main] \in Slots \cup {None} /\ ret' = [ret EXCEPT ![Main] = "idle"]
  BY <1>1, <1>2, StillAt
<1>4. ~overlapped /\ ~failed => Up \/ Parting \/ Parted
  BY <1>1 DEF LifeInv, Phases, Down, Begun, Pooled, Making
<1>5. PICK w \in {"closeall", "calm", "pool"} :
        /\ pc' = [pc EXCEPT ![Main] = w] /\ force' \in BOOLEAN
        /\ w = "closeall" <=> udpsend # None
        /\ w = "pool" => pc[Scavenger] = "end"
  <2>1. CASE udpsend # None
    <3>1. pc' = [pc EXCEPT ![Main] = "closeall"] /\ force' \in BOOLEAN
      BY <1>2, <2>1 DEF CalmDown
    <3>2. QED
      BY <2>1, <3>1
  <2>2. CASE udpsend = None /\ pc[Scavenger] = "end"
    <3>1. pc' = [pc EXCEPT ![Main] = "pool"] /\ force' \in BOOLEAN
      BY <1>2, <2>2 DEF CalmDown
    <3>2. QED
      BY <2>2, <3>1
  <2>3. CASE udpsend = None /\ pc[Scavenger] # "end"
    <3>1. pc' = [pc EXCEPT ![Main] = "calm"] /\ force' \in BOOLEAN
      BY <1>2, <2>3 DEF CalmDown
    <3>2. QED
      BY <2>3, <3>1
  <2>4. QED
    BY <2>1, <2>2, <2>3
<1>6. /\ Types' /\ Control' /\ Lists' /\ Stages' /\ Harm' /\ Quiet
      /\ Alive' = Alive /\ Registered' = Registered /\ Trashed' = Trashed
      /\ OnlyMain' <=> OnlyMain
      /\ pc'[Main] = w /\ ret'[Main] = "idle"
  BY <1>1, <1>2, <1>3, <1>5, MainGoes
<1>7. Phases'
  <2>1. SUFFICES ASSUME ~overlapped, ~failed PROVE (Up \/ Parting \/ Parted)'
    BY <1>1 DEF Phases
  <2>2. Registered \subseteq Slots /\ None \notin Slots
    BY AliveIs, ConstantsAre
  <2>3. ASSUME Up PROVE Up'
    <3>1. w = "closeall"
      BY <1>5, <2>2, <2>3 DEF Up
    <3>2. Nobody(udpsend)'
      BY <1>1, <1>6, <2>3, QuietKept DEF Up
    <3>3. QED
      BY <1>1, <1>6, <2>3, <3>1, <3>2 DEF Up
  <2>4. ASSUME Parting PROVE Parting'
    <3>1. w = "closeall"
      BY <1>5, <2>2, <2>4 DEF Parting
    <3>2. QED
      BY <1>1, <1>6, <2>4, <3>1 DEF Parting
  <2>5. ASSUME Parted PROVE Parted'
    <3>1. w # "closeall"
      BY <1>5, <2>5 DEF Parted
    <3>2. QED
      BY <1>1, <1>6, <2>5, <3>1 DEF Parted
  <2>6. QED
    BY <1>4, <2>1, <2>3, <2>4, <2>5
<1>8. ~config' \/ pc'[Main] = "startup" => ~config \/ pc[Main] = "startup"
  BY <1>1, <1>6
<1>9. QED
  BY <1>1, <1>6, <1>7, <1>8, QuietInv

LEMMA IsClosedKept == ASSUME LifeInv, IsClosed PROVE LifeInv'
<1>1. /\ pc[Main] = "isclosed" /\ pc' = [pc EXCEPT ![Main] = "trash"] /\ ret' = [ret EXCEPT ![Main] = "calm"]
      /\ udpsend' = IF udpsend \in Slots \ (Registered \cup Trashed) THEN None ELSE udpsend
      /\ UNCHANGED <<config, pool, force, list, trash, mode, status, queue, ctl, snd, at, corrupt, overlapped, failed>>
  BY DEF IsClosed, sockVars, pipeVars, faultVars
<1>2. /\ pc[Main] \notin AtSocket /\ at[Main] \notin Slots /\ Types
      /\ config \in BOOLEAN /\ force \in BOOLEAN /\ udpsend' \in Slots \cup {None, "enomem"} /\ pool \in Int /\ pool >= Stale
      /\ ~config => pc[Scavenger] = "end"
  BY <1>1, ConstantsAre DEF LifeInv, Types, Control, AtSocket
<1>3. at' = [at EXCEPT ![Main] = at[Main]] /\ at[Main] \in Slots \cup {None}
  BY <1>1, <1>2, StillAt
<1>4. /\ Types' /\ Control' /\ Lists' /\ Stages' /\ Harm' /\ Quiet
      /\ Alive' = Alive /\ Registered' = Registered /\ Trashed' = Trashed
      /\ OnlyMain' <=> OnlyMain
      /\ pc'[Main] = "trash" /\ ret'[Main] = "calm"
  BY <1>1, <1>2, <1>3, MainGoes
<1>5. Phases'
  <2>1. SUFFICES ASSUME ~overlapped, ~failed PROVE (Parting \/ Parted)'
    BY <1>1 DEF Phases
  <2>2. Parting
    BY <1>1, <2>1 DEF LifeInv, Phases, Down, Begun, Pooled, Making, Up, Parted, Calling, Sweeping
  <2>3. CASE udpsend \in Alive
    <3>1. udpsend' = udpsend
      BY <1>1, <2>3 DEF Alive
    <3>2. Parting'
      BY <1>1, <1>4, <2>2, <3>1 DEF Parting, Sweeping
    <3>3. QED
      BY <3>2
  <2>4. CASE udpsend \notin Alive
    <3>1. udpsend' = None
      BY <1>1, <2>2, <2>4 DEF Alive, Parting
    <3>2. Alive = {}
      BY <2>2, <2>4 DEF Parting
    <3>3. Parted'
      BY <1>1, <1>4, <2>2, <3>1, <3>2 DEF Parting, Parted
    <3>4. QED
      BY <3>3
  <2>5. QED
    BY <2>3, <2>4
<1>6. QED
  BY <1>1, <1>4, <1>5, QuietInv

LEMMA CleanupPoolKept == ASSUME LifeInv, CleanupPool PROVE LifeInv'
<1>1. /\ pc[Main] = "pool" /\ pc' = [pc EXCEPT ![Main] = "idle"]
      /\ UNCHANGED <<udpsend, force, list, trash, mode, status, queue, ctl, snd, at, ret, corrupt, overlapped, failed>>
  BY DEF CleanupPool, sockVars, pipeVars, faultVars
<1>2. /\ pc[Main] \notin AtSocket /\ at[Main] \notin Slots /\ ret[Main] = "idle" /\ Types /\ pc[Scavenger] = "end"
      /\ config \in BOOLEAN /\ force \in BOOLEAN /\ udpsend \in Slots \cup {None, "enomem"} /\ pool \in Int /\ pool >= Stale
  BY <1>1, ConstantsAre DEF LifeInv, Types, Control, AtSocket, Sweeping
<1>3. at' = [at EXCEPT ![Main] = at[Main]] /\ at[Main] \in Slots \cup {None} /\ ret' = [ret EXCEPT ![Main] = "idle"]
  BY <1>1, <1>2, StillAt
<1>4. /\ config' \in BOOLEAN /\ pool' \in Int /\ pool' >= Stale
      /\ PoolIsFull => config' = FALSE /\ pool' < 0
      /\ ~PoolIsFull => config' = config /\ pool' = pool
  <2>1. CASE PoolIsFull
    <3>1. config' = FALSE /\ pool' = IF pool = Unset THEN Unset ELSE Stale
      BY <2>1 DEF CleanupPool
    <3>2. pool' \in Int /\ pool' >= Stale /\ pool' < 0
      BY <3>1, ConstantsAre
    <3>3. QED
      BY <2>1, <3>1, <3>2
  <2>2. CASE ~PoolIsFull
    <3>1. config' = config /\ pool' = pool
      BY <2>2 DEF CleanupPool
    <3>2. config' \in BOOLEAN /\ pool' \in Int /\ pool' >= Stale
      BY <1>2, <3>1
    <3>3. QED
      BY <2>2, <3>1, <3>2
  <2>3. QED
    BY <2>1, <2>2
<1>5. /\ Types' /\ Control' /\ Lists' /\ Stages' /\ Harm' /\ Quiet
      /\ Alive' = Alive /\ Packets' = Packets
      /\ OnlyMain' <=> OnlyMain
      /\ pc'[Main] = "idle" /\ ret'[Main] = "idle"
  BY <1>1, <1>2, <1>3, <1>4, MainGoes
<1>6. Pool'
  <2>1. CASE PoolIsFull
    <3>1. Packets = {}
      <4>1. CASE pool = PoolSize
        <5>1. pool >= 0 /\ IsFiniteSet(Packets)
          BY <4>1, ConstantsAre DEF LifeInv, Pool
        <5>2. Cardinality(Packets) \in Nat /\ pool + Cardinality(Packets) <= PoolSize
          BY <5>1, FS_CardinalityType DEF LifeInv, Pool
        <5>3. Cardinality(Packets) = 0
          BY <4>1, <5>2, ConstantsAre
        <5>4. QED
          BY <5>1, <5>3, FS_EmptySet
      <4>2. CASE pool \in {Unset, Stale}
        <5>1. pool < 0
          BY <4>2, ConstantsAre
        <5>2. QED
          BY <5>1 DEF LifeInv, Pool
      <4>3. QED
        BY <2>1, <4>1, <4>2 DEF PoolIsFull
    <3>2. pool' < 0 /\ ~(pool' >= 0)
      BY <1>4, <2>1
    <3>3. IsFiniteSet(Packets')
      BY <1>5, <3>1, FS_EmptySet
    <3>4. QED
      BY <1>5, <3>1, <3>2, <3>3 DEF Pool
  <2>2. CASE ~PoolIsFull
    <3>1. /\ UNCHANGED <<queue, pool>>
          /\ overlapped => overlapped'
          /\ ~config' \/ pc'[Main] = "startup" => ~config \/ pc[Main] = "startup"
      BY <1>1, <1>4, <1>5, <2>2
    <3>2. Pool
      BY DEF LifeInv
    <3>3. QED
      BY <3>1, <3>2, PoolFrame
  <2>3. QED
    BY <2>1, <2>2
<1>7. Phases'
  <2>1. SUFFICES ASSUME ~overlapped, ~failed PROVE Down'
    BY <1>1 DEF Phases
  <2>2. Parted
    BY <1>1, <2>1 DEF LifeInv, Phases, Down, Begun, Pooled, Making, Up, Parting, Calling, Sweeping
  <2>3. Packets = {}
    <3>1. \A s \in Slots : queue[s] = <<>>
      BY <2>1, <2>2 DEF LifeInv, Stages, Stage, Unused, Made, Open, Marked, Closing, Closed, Parted, Alive
    <3>2. \A s \in Slots : Held(queue[s]) = {}
      BY <3>1, HeldEmpty
    <3>3. QED
      BY <3>2 DEF Packets
  <2>4. pool = PoolSize
    <3>1. Cardinality(Packets) = 0
      BY <2>3, FS_EmptySet
    <3>2. pool + Cardinality(Packets) = PoolSize
      BY <2>1, <2>2 DEF LifeInv, Pool, Parted
    <3>3. QED
      BY <1>2, <3>1, <3>2
  <2>5. ~config' /\ pool' < 0
    BY <1>4, <2>4 DEF PoolIsFull
  <2>6. QED
    BY <1>1, <1>5, <2>2, <2>5 DEF Parted, Down
<1>8. QED
  BY <1>5, <1>6, <1>7 DEF LifeInv

LEMMA TrashEmptyKept ==
  ASSUME LifeInv, NEW t \in Threads, TrashEmpty(t)
  PROVE  LifeInv'
<1>1. /\ pc[t] = "trash" /\ trash = <<>>
      /\ pc' = [pc EXCEPT ![t] = ret[t]] /\ at' = [at EXCEPT ![t] = None] /\ ret' = [ret EXCEPT ![t] = "idle"]
      /\ UNCHANGED <<config, udpsend, pool, force, list, trash, mode, status, queue, ctl, snd, corrupt, overlapped, failed>>
  BY DEF TrashEmpty, Goto, libVars, sockVars, pipeVars, faultVars
<1>2. t = Main \/ t = Scavenger
  BY <1>1, ConstantsAre DEF LifeInv, Control, Calling
<1>3. at \in [Threads -> Slots \cup {None}] /\ None \notin Slots /\ Types
  BY ConstantsAre DEF LifeInv, Types
<1>4. CASE t = Scavenger
  <2>1. pc[Scavenger] = "trash" /\ ret[Scavenger] = "sleep"
    BY <1>1, <1>4 DEF LifeInv, Control, Sweeping
  <2>2. /\ at' \in [Threads -> Slots \cup {None}] /\ at'[Scavenger] \notin Slots
        /\ \A u \in Threads : u # Scavenger => at'[u] = at[u]
    BY <1>1, <1>3, <1>4
  <2>3. force' \in BOOLEAN
    BY <1>1 DEF LifeInv, Types
  <2>4. pc' = [pc EXCEPT ![Scavenger] = "sleep"] /\ ret' = [ret EXCEPT ![Scavenger] = "idle"]
    BY <1>1, <1>4, <2>1
  <2>5. QED
    BY <1>1, <2>1, <2>2, <2>3, <2>4, ScavengerQuiet
<1>5. CASE t = Main
  <2>1. /\ pc[Main] = "trash" /\ ret[Main] = "calm" /\ pc[Main] \notin AtSocket
        /\ config \in BOOLEAN /\ force \in BOOLEAN /\ udpsend \in Slots \cup {None, "enomem"} /\ pool \in Int /\ pool >= Stale
        /\ ~config => pc[Scavenger] = "end"
    BY <1>1, <1>5 DEF LifeInv, Control, Sweeping, AtSocket, Types
  <2>2. pc' = [pc EXCEPT ![Main] = "calm"] /\ ret' = [ret EXCEPT ![Main] = "idle"] /\ at' = [at EXCEPT ![Main] = None]
    BY <1>1, <1>5, <2>1
  <2>3. /\ Types' /\ Control' /\ Lists' /\ Stages' /\ Harm' /\ Quiet
        /\ Alive' = Alive /\ Registered' = Registered /\ Trashed' = Trashed
        /\ OnlyMain' <=> OnlyMain
        /\ pc'[Main] = "calm" /\ ret'[Main] = "idle"
    BY <1>1, <1>3, <2>1, <2>2, MainGoes
  <2>4. Phases'
    <3>1. SUFFICES ASSUME ~overlapped, ~failed PROVE (Up \/ Parting \/ Parted)'
      BY <1>1 DEF Phases
    <3>2. Up \/ Parting \/ Parted
      BY <2>1, <3>1 DEF LifeInv, Phases, Down, Begun, Pooled, Making
    <3>3. ASSUME Up PROVE Up'
      <4>1. Nobody(udpsend)'
        BY <1>1, <2>3, <3>3, QuietKept DEF Up
      <4>2. QED
        BY <1>1, <2>3, <3>3, <4>1 DEF Up
    <3>4. ASSUME Parting PROVE Parting'
      BY <1>1, <2>3, <3>4 DEF Parting
    <3>5. ASSUME Parted PROVE Parted'
      BY <1>1, <2>3, <3>5 DEF Parted
    <3>6. QED
      BY <3>2, <3>3, <3>4, <3>5
  <2>5. ~config' \/ pc'[Main] = "startup" => ~config \/ pc[Main] = "startup"
    BY <1>1, <2>3
  <2>6. QED
    BY <1>1, <2>3, <2>4, <2>5, QuietInv
<1>6. QED
  BY <1>2, <1>4, <1>5


-----------------------------------------------------------------------------
(* Closing                                                                 *)

(* SOCL_Close goes on after its tests. *)
LEMMA CloseStarts ==
  ASSUME LifeInv, NEW t \in Apps, NEW s \in Slots, NEW back \in {"idle", "closeall", "isclosed"},
         pc[t] \in {"idle", "closeall"}, t # Main => back = "idle", MayClose(s), CloseTest(t, s, back)
  PROVE  /\ Types' /\ Control' /\ Lists' /\ Pool' /\ Stages' /\ Harm'
         /\ UNCHANGED <<config, udpsend, pool, list, trash, mode, status, failed>> /\ (~overlapped' => ~overlapped)
         /\ pc'[t] = "close" /\ ret'[t] = back
         /\ \A u \in Threads : u # t => pc'[u] = pc[u] /\ ret'[u] = ret[u]
         /\ Up /\ s # udpsend /\ back # "isclosed" => Up'
<1>1. /\ pc' = [pc EXCEPT ![t] = "close"] /\ at' = [at EXCEPT ![t] = s] /\ ret' = [ret EXCEPT ![t] = back]
      /\ overlapped' = (overlapped \/ \E u \in Threads \ {t} : pc[u] = "close" /\ at[u] = s)
      /\ UNCHANGED <<config, udpsend, pool, force, list, trash, mode, status, queue, ctl, snd, corrupt, failed>>
  BY DEF CloseTest, Goto, libVars, sockVars, pipeVars
<1>2. /\ s \in Registered /\ "CREATE" \in status[s] /\ "WAIT_CLOSE" \notin status[s]
  BY DEF MayClose
<1>3. /\ t \in Threads /\ Main \in Threads /\ at \in [Threads -> Slots \cup {None}]
      /\ ret \in [Threads -> {"idle", "closeall", "isclosed", "calm", "sleep"}]
      /\ overlapped \in BOOLEAN /\ Types /\ Control
  BY ConstantsAre DEF LifeInv, Types
<1>4. /\ "close" \in Calling /\ "close" \in Calling \cup Sweeping \cup Alone
      /\ "close" \in AtSocket /\ pc[t] \notin AtSocket /\ "close" \notin Sweeping
  BY DEF Calling, AtSocket, Sweeping
<1>5. /\ at'[t] = s /\ ret'[t] = back /\ \A u \in Threads : u # t => at'[u] = at[u] /\ ret'[u] = ret[u]
  BY <1>1, <1>3
<1>6. Control' /\ pc' \in [Threads -> Calling \cup Sweeping \cup Alone \cup {"end", "start", "sleep"}]
      /\ at' \in [Threads -> Slots \cup {None}]
      /\ ret' \in [Threads -> {"idle", "closeall", "isclosed", "calm", "sleep"}]
  <2>1. CASE t = Main
    <3>1. ~config' \/ "close" = "pool" => pc[Scavenger] = "end"
      BY <1>1, <1>3 DEF Control
    <3>2. QED
      BY <1>1, <1>3, <1>4, <2>1, <3>1, MainControl
  <2>2. CASE t # Main
    <3>1. ret[t] = "idle" /\ back = "idle"
      BY <1>3, <2>2 DEF Control
    <3>2. ret' = ret
      BY <1>1, <1>3, <3>1
    <3>3. QED
      BY <1>1, <1>3, <1>4, <3>1, <3>2, AppControl
  <2>3. QED
    BY <2>1, <2>2
<1>7. Types'
  <2>1. overlapped' \in BOOLEAN
    BY <1>1
  <2>2. QED
    BY <1>1, <1>3, <1>6, <2>1 DEF Types
<1>8. Lists'
  BY <1>1, ListsFrame DEF LifeInv, Lists
<1>9. /\ \A r : ~About(t, r) /\ ~About(t, r)' => SameThreads(r)
      /\ \A r : (\A u \in Threads : u # t => ~About(u, r)) /\ About(t, r)' => Only(t, r)'
      /\ pc'[t] = "close" /\ \A u \in Threads : u # t => pc'[u] = pc[u]
  BY <1>1, <1>3, <1>5, OneThread
<1>10. Pool'
  <2>1. ~config' \/ pc'[Main] = "startup" => ~config \/ pc[Main] = "startup"
    BY <1>1, <1>3, <1>9
  <2>2. overlapped => overlapped'
    BY <1>1
  <2>3. QED
    BY <1>1, <2>1, <2>2, PoolFrame DEF LifeInv
<1>11. ASSUME ~overlapped' PROVE ~overlapped /\ Open(s) /\ Nobody(s)
  <2>1. ~overlapped /\ \A u \in Threads : u # t => ~(pc[u] = "close" /\ at[u] = s)
    BY <1>1, <1>11
  <2>2. Stage(s)
    BY <2>1 DEF LifeInv, Stages
  <2>3. s \notin Trashed
    BY <1>2 DEF LifeInv, Lists
  <2>4. Open(s)
    BY <1>2, <2>2, <2>3 DEF Stage, Unused, Made, Marked, Closing, Closed
  <2>5. \A u \in Threads : pc[u] = "close" => ~About(u, s)
    BY <1>4, <2>1 DEF About
  <2>6. QED
    BY <2>1, <2>4, <2>5, ConstantsAre DEF Open, Only
<1>12. Stages'
  <2>1. \A r : r # s => ~About(t, r) /\ ~About(t, r)'
    BY <1>4, <1>5 DEF About
  <2>2. ASSUME NEW r \in Slots, r # s PROVE SameThreads(r) /\ SameLists(r) /\ SamePipe(r) /\ status'[r] = status[r]
    BY <1>1, <1>9, <2>1, <2>2 DEF SameLists, SamePipe, Registered, Trashed
  <2>3. ASSUME ~overlapped' PROVE Stage(s)'
    <3>1. Open(s) /\ Nobody(s)
      BY <1>11, <2>3
    <3>2. Only(t, s)'
      BY <1>4, <1>5, <1>9, <3>1 DEF Nobody, About
    <3>3. Open(s)'
      BY <1>1, <1>9, <3>1, <3>2 DEF Open, Registered
    <3>4. QED
      BY <3>3 DEF Stage
  <2>4. overlapped => overlapped'
    BY <1>1
  <2>5. QED
    BY <2>2, <2>3, <2>4, StagesFrame DEF LifeInv
<1>13. Harm'
  BY <1>1 DEF LifeInv, Harm
<1>14. ASSUME Up, s # udpsend, back # "isclosed" PROVE Up'
  <2>1. \A u \in Threads : ~About(u, udpsend)'
    BY <1>1, <1>4, <1>5, <1>9, <1>14 DEF Up, Nobody, About
  <2>2. Nobody(udpsend)'
    BY <2>1 DEF Nobody
  <2>3. pc'[Main] \in Calling \cup Sweeping \cup {"calm", "closeall"} /\ ret'[Main] # "isclosed"
    BY <1>3, <1>4, <1>5, <1>9, <1>14 DEF Up
  <2>4. Registered' = Registered /\ Trashed' = Trashed
    BY <1>1 DEF Registered, Trashed
  <2>5. QED
    BY <1>1, <1>14, <2>2, <2>3, <2>4 DEF Up, Alive
<1>15. UNCHANGED <<config, udpsend, pool, list, trash, mode, status, failed>> /\ (~overlapped' => ~overlapped)
  BY <1>1
<1>16. QED
  BY <1>5, <1>6, <1>7, <1>8, <1>9, <1>10, <1>12, <1>13, <1>14, <1>15

LEMMA CloseKept ==
  ASSUME LifeInv, NEW t \in Apps, NEW s \in Slots, Close(t, s)
  PROVE  LifeInv'
<1>1. pc[t] = "idle" /\ Ready /\ s # udpsend /\ MayClose(s) /\ CloseTest(t, s, "idle")
  BY DEF Close
<1>2. /\ Types' /\ Control' /\ Lists' /\ Pool' /\ Stages' /\ Harm'
      /\ failed' = failed /\ (~overlapped' => ~overlapped)
      /\ Up => Up'
  BY <1>1, CloseStarts
<1>3. Phases'
  BY <1>1, <1>2, ReadyIsUp DEF Phases
<1>4. QED
  BY <1>2, <1>3 DEF LifeInv

LEMMA CloseAllKept == ASSUME LifeInv, CloseAll PROVE LifeInv'
<1>1. pc[Main] = "closeall" /\ ToClose # {} /\ CloseTest(Main, FirstToClose, "closeall") /\ Main \in Apps
  BY ConstantsAre DEF CloseAll
<1>2. PICK s \in Slots : s = FirstToClose /\ s \in Registered /\ s # udpsend
  <2>1. FirstToClose \in ToClose
    BY <1>1, FirstIs DEF LifeInv, Types
  <2>2. Registered \subseteq Slots
    BY AliveIs
  <2>3. QED
    BY <2>1, <2>2 DEF ToClose
<1>3. CloseTest(Main, s, "closeall")
  BY <1>1, <1>2
<1>4. ~overlapped /\ ~failed => Up
  BY <1>1, <1>2 DEF LifeInv, Phases, Down, Begun, Pooled, Making, Parting, Parted, Alive
<1>5. CASE MayClose(s)
  <2>1. /\ Types' /\ Control' /\ Lists' /\ Pool' /\ Stages' /\ Harm'
        /\ failed' = failed /\ (~overlapped' => ~overlapped)
        /\ Up => Up'
    BY <1>1, <1>2, <1>3, <1>5, CloseStarts
  <2>2. Phases'
    BY <1>4, <2>1 DEF Phases
  <2>3. QED
    BY <2>1, <2>2 DEF LifeInv
<1>6. CASE ~MayClose(s)
  <2>1. /\ pc' = [pc EXCEPT ![Main] = "closeall"] /\ at' = [at EXCEPT ![Main] = None] /\ ret' = [ret EXCEPT ![Main] = "idle"]
        /\ UNCHANGED <<config, udpsend, pool, force, list, trash, mode, status, queue, ctl, snd, corrupt, overlapped, failed>>
    BY <1>3, <1>6 DEF CloseTest, Goto, libVars, sockVars, pipeVars
  <2>2. /\ pc[Main] \notin AtSocket /\ None \notin Slots
        /\ config \in BOOLEAN /\ force \in BOOLEAN /\ udpsend \in Slots \cup {None, "enomem"} /\ pool \in Int /\ pool >= Stale
        /\ ~config => pc[Scavenger] = "end"
    BY <1>1, ConstantsAre DEF LifeInv, Types, Control, AtSocket
  <2>3. /\ Types' /\ Control' /\ Lists' /\ Stages' /\ Harm' /\ Quiet
        /\ Alive' = Alive /\ Registered' = Registered /\ Trashed' = Trashed
        /\ pc'[Main] = "closeall" /\ ret'[Main] = "idle"
    BY <2>1, <2>2, MainGoes
  <2>4. Phases'
    <3>1. SUFFICES ASSUME ~overlapped, ~failed PROVE Up'
      BY <2>1 DEF Phases
    <3>2. Up
      BY <1>4, <3>1
    <3>3. Nobody(udpsend)'
      BY <2>1, <2>3, <3>2, QuietKept DEF Up
    <3>4. QED
      BY <2>1, <2>3, <3>2, <3>3 DEF Up
  <2>5. ~config' \/ pc'[Main] = "startup" => ~config \/ pc[Main] = "startup"
    BY <2>1, <2>3
  <2>6. QED
    BY <2>1, <2>3, <2>4, <2>5, QuietInv
<1>7. QED
  BY <1>5, <1>6

(* While the sockets are in the list and the threads elsewhere, only the   *)
(* main thread is in a call once the UDP-send socket is alone.             *)
LEMMA AloneIsMain ==
  ASSUME LifeInv, ~overlapped, Up, Registered \subseteq {udpsend}, trash = <<>>
  PROVE  OnlyMain /\ Alive \subseteq {udpsend}
<1>1. Trashed = {} /\ Alive \subseteq {udpsend}
  BY AliveIs DEF Alive
<1>2. ASSUME NEW t \in Apps, t # Main, pc[t] # "idle" PROVE FALSE
  <2>1. t \in Threads /\ pc[t] \in AtSocket
    BY <1>2, ConstantsAre DEF LifeInv, Control, Calling, AtSocket
  <2>2. PICK s \in Slots : at[t] = s /\ About(t, s)
    BY <2>1 DEF LifeInv, Control, About
  <2>3. ~Nobody(s)
    BY <2>1, <2>2 DEF Nobody
  <2>4. s \in Alive
    BY <2>3 DEF LifeInv, Stages, Stage, Unused, Made, Open, Marked, Closing, Closed, Alive
  <2>5. s = udpsend
    BY <1>1, <2>4
  <2>6. QED
    BY <2>3, <2>5 DEF Up
<1>3. QED
  BY <1>1, <1>2 DEF OnlyMain

LEMMA CloseUdpSendKept == ASSUME LifeInv, CloseUdpSend PROVE LifeInv'
<1>1. pc[Main] = "closeall" /\ Main \in Apps
  BY ConstantsAre DEF CloseUdpSend
<1>2. ~overlapped /\ ~failed => Up \/ Parting
  BY <1>1 DEF LifeInv, Phases, Down, Begun, Pooled, Making, Parted
<1>3. /\ pc[Main] \notin AtSocket /\ None \notin Slots /\ at[Main] \notin Slots /\ ret[Main] = "idle" /\ Types
      /\ config \in BOOLEAN /\ force \in BOOLEAN /\ udpsend \in Slots \cup {None, "enomem"} /\ pool \in Int /\ pool >= Stale
      /\ ~config => pc[Scavenger] = "end"
  BY <1>1, ConstantsAre DEF LifeInv, Types, Control, AtSocket, Sweeping
<1>4. CASE ~(Registered \subseteq {udpsend} /\ trash = <<>>)
  <2>1. /\ pc' = [pc EXCEPT ![Main] = "trash"] /\ ret' = [ret EXCEPT ![Main] = "calm"]
        /\ UNCHANGED <<config, udpsend, pool, force, list, trash, mode, status, queue, ctl, snd, at, corrupt, overlapped, failed>>
    BY <1>4 DEF CloseUdpSend, libVars, sockVars, pipeVars, faultVars
  <2>2. at' = [at EXCEPT ![Main] = at[Main]] /\ at[Main] \in Slots \cup {None}
    BY <1>3, <2>1, StillAt
  <2>3. /\ Types' /\ Control' /\ Lists' /\ Stages' /\ Harm' /\ Quiet
        /\ Alive' = Alive /\ Registered' = Registered /\ Trashed' = Trashed
        /\ OnlyMain' <=> OnlyMain
        /\ pc'[Main] = "trash" /\ ret'[Main] = "calm"
    BY <1>3, <2>1, <2>2, MainGoes
  <2>4. Phases'
    <3>1. SUFFICES ASSUME ~overlapped, ~failed PROVE (Up \/ Parting)'
      BY <2>1 DEF Phases
    <3>2. ASSUME Up PROVE Up'
      <4>1. Nobody(udpsend)'
        BY <2>1, <2>3, <3>2, QuietKept DEF Up
      <4>2. QED
        BY <2>1, <2>3, <3>2, <4>1 DEF Up, Sweeping
    <3>3. ASSUME Parting PROVE Parting'
      BY <2>1, <2>3, <3>3 DEF Parting, Sweeping
    <3>4. QED
      BY <1>2, <3>1, <3>2, <3>3
  <2>5. ~config' \/ pc'[Main] = "startup" => ~config \/ pc[Main] = "startup"
    BY <2>1, <2>3
  <2>6. QED
    BY <2>1, <2>3, <2>4, <2>5, QuietInv
<1>5. CASE Registered \subseteq {udpsend} /\ trash = <<>> /\ MayClose(udpsend)
  <2>1. CloseTest(Main, udpsend, "isclosed")
    BY <1>5 DEF CloseUdpSend
  <2>2. PICK s \in Slots : s = udpsend
    <3>1. Registered \subseteq Slots
      BY AliveIs
    <3>2. QED
      BY <1>5, <3>1 DEF MayClose
  <2>3. CloseTest(Main, s, "isclosed") /\ MayClose(s)
    BY <1>5, <2>1, <2>2
  <2>4. /\ Types' /\ Control' /\ Lists' /\ Pool' /\ Stages' /\ Harm'
        /\ UNCHANGED <<config, udpsend, pool, list, trash, failed>> /\ (~overlapped' => ~overlapped)
        /\ pc'[Main] = "close" /\ ret'[Main] = "isclosed"
        /\ \A u \in Threads : u # Main => pc'[u] = pc[u]
    BY <1>1, <2>3, CloseStarts
  <2>5. Phases'
    <3>1. SUFFICES ASSUME ~overlapped, ~failed PROVE Parting'
      BY <2>4 DEF Phases
    <3>2. OnlyMain /\ Alive \subseteq {udpsend} /\ config /\ pool >= 0
      <4>1. CASE Up
        BY <1>5, <3>1, <4>1, AloneIsMain DEF Up
      <4>2. CASE Parting
        BY <4>2 DEF Parting
      <4>3. QED
        BY <1>2, <3>1, <4>1, <4>2
    <3>3. OnlyMain'
      BY <2>4, <3>2, ConstantsAre DEF OnlyMain
    <3>4. Alive' = Alive
      BY <2>4 DEF Alive, Registered, Trashed
    <3>5. QED
      BY <2>2, <2>4, <3>2, <3>3, <3>4 DEF Parting
  <2>6. QED
    BY <2>4, <2>5 DEF LifeInv
<1>6. CASE Registered \subseteq {udpsend} /\ trash = <<>> /\ ~MayClose(udpsend)
  <2>1. /\ pc' = [pc EXCEPT ![Main] = "isclosed"] /\ at' = [at EXCEPT ![Main] = None] /\ ret' = [ret EXCEPT ![Main] = "idle"]
        /\ UNCHANGED <<config, udpsend, pool, force, list, trash, mode, status, queue, ctl, snd, corrupt, overlapped, failed>>
    BY <1>6 DEF CloseUdpSend, CloseTest, Goto, libVars, sockVars, pipeVars
  <2>2. /\ Types' /\ Control' /\ Lists' /\ Stages' /\ Harm' /\ Quiet
        /\ Alive' = Alive /\ (OnlyMain' <=> OnlyMain)
        /\ pc'[Main] = "isclosed" /\ ret'[Main] = "idle"
    BY <1>3, <2>1, MainGoes
  <2>3. Phases'
    <3>1. SUFFICES ASSUME ~overlapped, ~failed PROVE Parting'
      BY <2>1 DEF Phases
    <3>2. ~Up
      <4>1. "CREATE" \in {"CREATE"} /\ "WAIT_CLOSE" \notin {"CREATE"}
        OBVIOUS
      <4>2. QED
        BY <1>6, <4>1 DEF Up, MayClose
    <3>3. Parting
      BY <1>2, <3>1, <3>2
    <3>4. QED
      BY <2>1, <2>2, <3>3 DEF Parting
  <2>4. ~config' \/ pc'[Main] = "startup" => ~config \/ pc[Main] = "startup"
    BY <2>1, <2>2
  <2>5. QED
    BY <2>1, <2>2, <2>3, <2>4, QuietInv
<1>7. QED
  BY <1>4, <1>5, <1>6


(* The library while a thread is in SOCL_Close. *)
LEMMA ClosingPhase ==
  ASSUME LifeInv, NEW t \in Apps, pc[t] \in {"close", "sendclose"}, ~overlapped, ~failed
  PROVE  Up \/ (Parting /\ t = Main)
<1>1. CASE t = Main
  BY <1>1 DEF LifeInv, Phases, Down, Begun, Pooled, Making, Parted
<1>2. CASE t # Main
  <2>1. ~OnlyMain
    BY <1>2 DEF OnlyMain
  <2>2. QED
    BY <2>1 DEF LifeInv, Phases, Down, Begun, Pooled, Making, Parting, Parted
<1>3. QED
  BY <1>1, <1>2

LEMMA CloseMarkKept ==
  ASSUME LifeInv, NEW t \in Apps, CloseMark(t)
  PROVE  LifeInv'
<1>0. pc[t] = "close" /\ t \in Threads
  BY ConstantsAre DEF CloseMark
<1>1. PICK s \in Slots : pc[t] = "close" /\ t \in Threads /\ s = at[t] /\ About(t, s)
  BY <1>0 DEF LifeInv, Control, AtSocket, About
<1>2. ASSUME ~overlapped PROVE Open(s) /\ Only(t, s)
  <2>1. Stage(s)
    BY <1>2 DEF LifeInv, Stages
  <2>2. ~Nobody(s) /\ \A u \in Threads : Only(u, s) => u = t
    BY <1>1 DEF Nobody, Only
  <2>3. Apps \subseteq Threads
    BY ConstantsAre
  <2>4. Open(s)
    BY <1>1, <2>1, <2>2, <2>3 DEF Stage, Unused, Made, Marked, Closing, Closed
  <2>5. QED
    BY <2>2, <2>3, <2>4 DEF Open
<1>3. CASE s \notin Registered \cup Trashed
  <2>1. Misuse("twice")
    BY <1>1, <1>3 DEF CloseMark
  <2>2. overlapped
    BY <1>2, <1>3 DEF Open
  <2>3. QED
    BY <2>1, <2>2, MisuseKept
<1>4. CASE s \in Registered \cup Trashed
  <2>1. /\ status' = [status EXCEPT ![s] = status[s] \cup {"WAIT_CLOSE"}]
        /\ snd' = [snd EXCEPT ![s] = IF snd[s] = "run" THEN "null" ELSE snd[s]]
        /\ pc' = [pc EXCEPT ![t] = "sendclose"]
        /\ UNCHANGED <<config, udpsend, pool, force, list, trash, mode, queue, ctl, at, ret, corrupt, overlapped, failed>>
    BY <1>1, <1>4 DEF CloseMark, libVars, faultVars
  <2>2. /\ status \in [Slots -> SUBSET {"CREATE", "WAIT_CLOSE"}] /\ snd \in [Slots -> {"run", "null", "end"}]
        /\ at \in [Threads -> Slots \cup {None}] /\ Types /\ Control
    BY DEF LifeInv, Types
  <2>3. /\ status'[s] = status[s] \cup {"WAIT_CLOSE"} /\ snd'[s] \in {"null", "end"}
        /\ \A r \in Slots : r # s => status'[r] = status[r] /\ snd'[r] = snd[r]
    BY <2>1, <2>2
  <2>4. Control' /\ pc' \in [Threads -> Calling \cup Sweeping \cup Alone \cup {"end", "start", "sleep"}]
    <3>1. "sendclose" \in Calling /\ "sendclose" \in AtSocket
      BY DEF Calling, AtSocket
    <3>2. at' = [at EXCEPT ![t] = s] /\ s \in Slots \cup {None}
      BY <1>1, <2>1, <2>2
    <3>3. QED
      BY <1>1, <2>1, <2>2, <3>1, <3>2, AppControl
  <2>5. Types'
    <3>1. status' \in [Slots -> SUBSET {"CREATE", "WAIT_CLOSE"}] /\ snd' \in [Slots -> {"run", "null", "end"}]
      BY <2>1, <2>2
    <3>2. QED
      BY <2>1, <2>2, <2>4, <3>1 DEF Types
  <2>6. Lists'
    BY <2>1, ListsFrame DEF LifeInv, Lists
  <2>7. /\ \A r : ~About(t, r) /\ ~About(t, r)' => SameThreads(r)
        /\ \A r : (\A u \in Threads : u # t => ~About(u, r)) /\ About(t, r)' => Only(t, r)'
        /\ pc'[t] = "sendclose" /\ \A u \in Threads : u # t => pc'[u] = pc[u]
    <3>1. \A u \in Threads : u # t => at'[u] = at[u]
      BY <2>1
    <3>2. QED
      BY <1>1, <2>1, <2>2, <3>1, OneThread
  <2>8. Pool'
    <3>1. ~config' \/ pc'[Main] = "startup" => ~config \/ pc[Main] = "startup"
      BY <2>1, <2>7, ConstantsAre
    <3>2. QED
      BY <2>1, <3>1, PoolFrame DEF LifeInv
  <2>9. Stages'
    <3>1. \A r : r # s => ~About(t, r) /\ ~About(t, r)'
      BY <1>1, <2>1 DEF About
    <3>2. ASSUME NEW r \in Slots, r # s PROVE SameThreads(r) /\ SameLists(r) /\ SamePipe(r) /\ status'[r] = status[r]
      BY <2>1, <2>3, <2>7, <3>1, <3>2 DEF SameLists, SamePipe, Registered, Trashed
    <3>3. ASSUME ~overlapped PROVE Stage(s)'
      <4>1. Open(s) /\ Only(t, s)
        BY <1>2, <3>3
      <4>2. Only(t, s)'
        <5>1. About(t, s)'
          BY <1>1, <2>1, <2>7 DEF About, AtSocket
        <5>2. QED
          BY <2>7, <4>1, <5>1 DEF Only
      <4>3. status'[s] = {"CREATE", "WAIT_CLOSE"}
        BY <2>3, <4>1 DEF Open
      <4>4. Marked(s)'
        BY <2>1, <2>3, <2>7, <4>1, <4>2, <4>3 DEF Open, Marked, Registered
      <4>5. QED
        BY <4>4 DEF Stage
    <3>4. QED
      BY <2>1, <3>2, <3>3, StagesFrame DEF LifeInv
  <2>10. Phases'
    <3>1. SUFFICES ASSUME ~overlapped, ~failed PROVE (Up \/ Parting)'
      BY <2>1 DEF Phases
    <3>2. Up \/ (Parting /\ t = Main)
      BY <1>1, <3>1, ClosingPhase
    <3>3. Alive' = Alive /\ Registered' = Registered /\ Trashed' = Trashed
      BY <2>1 DEF Alive, Registered, Trashed
    <3>4. ASSUME Up PROVE Up'
      <4>1. udpsend # s /\ udpsend \in Slots
        <5>1. Registered \subseteq Slots
          BY AliveIs
        <5>2. QED
          BY <1>1, <3>4, <5>1 DEF Up, Nobody
      <4>2. \A u \in Threads : ~About(u, udpsend)'
        BY <1>1, <2>1, <2>7, <3>4, <4>1 DEF Up, Nobody, About
      <4>3. Nobody(udpsend)'
        BY <4>2 DEF Nobody
      <4>4. pc'[Main] \in Calling \cup Sweeping \cup {"calm", "closeall"}
        BY <2>7, <3>4, ConstantsAre DEF Up, Calling
      <4>5. QED
        BY <2>1, <2>3, <3>3, <3>4, <4>1, <4>3, <4>4 DEF Up
    <3>5. ASSUME Parting, t = Main PROVE Parting'
      <4>1. OnlyMain' /\ ret[Main] = "isclosed"
        BY <1>1, <2>7, <3>5, ConstantsAre DEF Parting, OnlyMain
      <4>2. QED
        BY <2>1, <2>7, <3>3, <3>5, <4>1 DEF Parting
    <3>6. QED
      BY <3>2, <3>4, <3>5
  <2>11. Harm'
    BY <2>1 DEF LifeInv, Harm
  <2>12. QED
    BY <2>4, <2>5, <2>6, <2>8, <2>9, <2>10, <2>11 DEF LifeInv
<1>5. QED
  BY <1>3, <1>4

LEMMA SendCloseKept ==
  ASSUME LifeInv, NEW t \in Apps, SendClose(t)
  PROVE  LifeInv'
<1>0. pc[t] = "sendclose" /\ t \in Threads
  BY ConstantsAre DEF SendClose
<1>1. PICK s \in Slots : pc[t] = "sendclose" /\ t \in Threads /\ s = at[t] /\ About(t, s)
  BY <1>0 DEF LifeInv, Control, AtSocket, About
<1>2. ASSUME ~overlapped PROVE Marked(s) /\ Only(t, s)
  <2>1. Stage(s)
    BY <1>2 DEF LifeInv, Stages
  <2>2. ~Nobody(s) /\ \A u \in Threads : Only(u, s) => u = t
    BY <1>1 DEF Nobody, Only
  <2>3. Apps \subseteq Threads
    BY ConstantsAre
  <2>4. Marked(s)
    BY <1>1, <2>1, <2>2, <2>3 DEF Stage, Unused, Made, Open, Closing, Closed
  <2>5. QED
    BY <2>2, <2>3, <2>4 DEF Marked
<1>3. CASE s \notin Registered \cup Trashed
  <2>1. Misuse("twice")
    BY <1>1, <1>3 DEF SendClose
  <2>2. overlapped
    BY <1>2, <1>3 DEF Marked
  <2>3. QED
    BY <2>1, <2>2, MisuseKept
<1>4. CASE s \in Registered \cup Trashed
  <2>1. /\ pool > 0 /\ pool' = pool - 1 /\ queue' = [queue EXCEPT ![s] = Append(queue[s], "close")]
        /\ pc' = [pc EXCEPT ![t] = ret[t]] /\ at' = [at EXCEPT ![t] = None] /\ ret' = [ret EXCEPT ![t] = "idle"]
        /\ UNCHANGED <<config, udpsend, force, list, trash, mode, status, ctl, snd, corrupt, overlapped, failed>>
    BY <1>1, <1>4 DEF SendClose, Goto, sockVars, faultVars
  <2>2. /\ at \in [Threads -> Slots \cup {None}] /\ ret \in [Threads -> {"idle", "closeall", "isclosed", "calm", "sleep"}]
        /\ Types /\ Control /\ None \notin Slots /\ Main \in Threads
    BY ConstantsAre DEF LifeInv, Types
  <2>3. /\ queue'[s] = Append(queue[s], "close") /\ \A r \in Slots : r # s => queue'[r] = queue[r]
        /\ queue' \in [Slots -> Seq(Messages)] /\ queue'[s] # <<>>
        /\ queue[s] # <<>> => queue'[s][1] = queue[s][1]
        /\ pool >= 0 /\ pool' \in Int /\ pool' >= 0 /\ ~(pool' < 0)
        /\ IsFiniteSet(Packets') /\ Cardinality(Packets') \in Nat
        /\ pool' + Cardinality(Packets') <= PoolSize
        /\ ~overlapped => pool' + Cardinality(Packets') = PoolSize
    BY <2>1, PacketOut
  <2>4. PICK w \in {"idle", "closeall", "isclosed"} : w = ret[t] /\ (t # Main => w = "idle")
    <3>1. CASE t = Main
      BY <1>1, <2>2, <3>1 DEF Control
    <3>2. CASE t # Main
      BY <2>2, <3>2 DEF Control
    <3>3. QED
      BY <3>1, <3>2
  <2>5. /\ pc' = [pc EXCEPT ![t] = w] /\ w \notin AtSocket /\ w # "startup"
        /\ w \in Calling \cup Sweeping \cup Alone /\ w \notin {"close", "sendclose"} \cup Sweeping
    BY <2>1, <2>4 DEF AtSocket, Calling, Sweeping, Alone
  <2>6. Control' /\ pc' \in [Threads -> Calling \cup Sweeping \cup Alone \cup {"end", "start", "sleep"}]
        /\ at' \in [Threads -> Slots \cup {None}]
        /\ ret' \in [Threads -> {"idle", "closeall", "isclosed", "calm", "sleep"}]
    <3>1. CASE t = Main
      <4>1. ~config' \/ w = "pool" => pc[Scavenger] = "end"
        BY <2>1, <2>2, <2>4 DEF Control
      <4>2. QED
        BY <2>1, <2>2, <2>5, <3>1, <4>1, MainControl
    <3>2. CASE t # Main
      <4>1. w = "idle" /\ w \in Calling /\ ret[t] = "idle"
        BY <2>4, <3>2 DEF Calling
      <4>2. ret' = ret
        BY <1>1, <2>1, <2>2, <4>1
      <4>3. QED
        BY <2>1, <2>2, <2>5, <4>1, <4>2, AppControl
    <3>3. QED
      BY <3>1, <3>2
  <2>7. Types'
    BY <2>1, <2>2, <2>3, <2>6, ConstantsAre DEF Types
  <2>8. Lists'
    BY <2>1, <2>3, ListsFrame DEF LifeInv, Lists
  <2>9. /\ at'[t] = None /\ ret'[t] = "idle" /\ \A u \in Threads : u # t => at'[u] = at[u] /\ ret'[u] = ret[u]
    BY <1>1, <2>1, <2>2
  <2>10. /\ \A r : ~About(t, r) /\ ~About(t, r)' => SameThreads(r)
         /\ \A r : (\A u \in Threads : u # t => ~About(u, r)) /\ ~About(t, r)' => Nobody(r)'
         /\ pc'[t] = w /\ \A u \in Threads : u # t => pc'[u] = pc[u]
    BY <1>1, <2>2, <2>5, <2>9, OneThread
  <2>11. Pool'
    <3>1. ~(~config' \/ pc'[Main] = "startup")
      <4>1. ~(~config \/ pc[Main] = "startup")
        BY <2>1, <2>2, <2>3 DEF LifeInv, Pool, Types
      <4>2. QED
        BY <2>1, <2>2, <2>5, <2>10, <4>1
    <3>2. QED
      BY <2>1, <2>3, <3>1 DEF Pool
  <2>12. Stages'
    <3>1. \A r : r # s => ~About(t, r) /\ ~About(t, r)'
      BY <1>1, <2>5, <2>10 DEF About
    <3>2. ASSUME NEW r \in Slots, r # s PROVE SameThreads(r) /\ SameLists(r) /\ SamePipe(r) /\ status'[r] = status[r]
      BY <2>1, <2>3, <2>10, <3>1, <3>2 DEF SameLists, SamePipe, Registered, Trashed
    <3>3. ASSUME ~overlapped PROVE Stage(s)'
      <4>1. Marked(s) /\ Only(t, s)
        BY <1>2, <3>3
      <4>2. Nobody(s)'
        BY <2>5, <2>10, <4>1 DEF Only, About
      <4>3. queue'[s] = <<"close">>
        BY <2>3, <4>1, TwoMessages DEF Marked
      <4>4. Closing(s)'
        BY <2>1, <4>1, <4>2, <4>3 DEF Marked, Closing, Registered
      <4>5. QED
        BY <4>4 DEF Stage
    <3>4. QED
      BY <2>1, <3>2, <3>3, StagesFrame DEF LifeInv
  <2>13. Phases'
    <3>1. SUFFICES ASSUME ~overlapped, ~failed PROVE (Up \/ Parting)'
      BY <2>1 DEF Phases
    <3>2. Up \/ (Parting /\ t = Main)
      BY <1>1, <3>1, ClosingPhase
    <3>3. Alive' = Alive /\ Registered' = Registered /\ Trashed' = Trashed
      BY <2>1 DEF Alive, Registered, Trashed
    <3>4. ASSUME Up PROVE Up'
      <4>1. udpsend # s
        BY <1>1, <3>4 DEF Up, Nobody
      <4>2. \A u \in Threads : ~About(u, udpsend)'
        BY <2>1, <2>5, <2>9, <2>10, <3>4 DEF Up, Nobody, About
      <4>3. Nobody(udpsend)'
        BY <4>2 DEF Nobody
      <4>4. pc'[Main] \in Calling \cup Sweeping \cup {"calm", "closeall"} /\ ret'[Main] # "isclosed"
        <5>1. CASE t = Main
          BY <2>4, <2>9, <2>10, <3>4, <5>1 DEF Up, Calling
        <5>2. CASE t # Main
          BY <2>2, <2>9, <2>10, <3>4, <5>2 DEF Up
        <5>3. QED
          BY <5>1, <5>2
      <4>5. QED
        BY <2>1, <2>3, <3>3, <3>4, <4>3, <4>4 DEF Up
    <3>5. ASSUME Parting, t = Main PROVE Parting'
      <4>1. OnlyMain' /\ w = "isclosed"
        BY <1>1, <2>4, <2>10, <3>5, ConstantsAre DEF Parting, OnlyMain
      <4>2. QED
        BY <2>1, <2>3, <2>10, <3>3, <3>5, <4>1 DEF Parting
    <3>6. QED
      BY <3>2, <3>4, <3>5
  <2>14. Harm'
    BY <2>1 DEF LifeInv, Harm
  <2>15. QED
    BY <2>6, <2>7, <2>8, <2>11, <2>12, <2>13, <2>14 DEF LifeInv
<1>5. QED
  BY <1>3, <1>4


-----------------------------------------------------------------------------
(* Freeing                                                                 *)

(* A cleaner goes on. *)
LEMMA SweepControl ==
  ASSUME Types, Control, NEW t \in Threads, pc[t] \in Sweeping, NEW w \in Sweeping, NEW a \in Slots \cup {None},
         pc' = [pc EXCEPT ![t] = w], at' = [at EXCEPT ![t] = a], ret' = ret, config' = config,
         a \in Slots <=> w = "join"
  PROVE  /\ Control'
         /\ pc' \in [Threads -> Calling \cup Sweeping \cup Alone \cup {"end", "start", "sleep"}]
         /\ at' \in [Threads -> Slots \cup {None}]
         /\ at'[t] = a /\ \A u \in Threads : u # t => at'[u] = at[u]
         /\ OnlyMain' <=> OnlyMain
         /\ pc'[Main] = pc[Main] \/ (t = Main /\ pc'[Main] \in Sweeping /\ pc[Main] \in Sweeping)
<1>1. /\ pc \in [Threads -> Calling \cup Sweeping \cup Alone \cup {"end", "start", "sleep"}]
      /\ at \in [Threads -> Slots \cup {None}]
  BY DEF Types
<1>2. Main \in Threads /\ Main # Scavenger /\ Scavenger \in Threads /\ \A u \in Apps : u \in Threads /\ u # Scavenger
  BY ConstantsAre
<1>3. t = Main \/ t = Scavenger
  BY ConstantsAre DEF Control, Calling, Sweeping
<1>4. /\ pc' \in [Threads -> Calling \cup Sweeping \cup Alone \cup {"end", "start", "sleep"}]
      /\ at' \in [Threads -> Slots \cup {None}]
  BY <1>1
<1>5. /\ pc'[t] = w /\ at'[t] = a
      /\ \A u \in Threads : u # t => pc'[u] = pc[u] /\ at'[u] = at[u]
  BY <1>1
<1>6. /\ w \in AtSocket <=> w = "join"
      /\ w \notin {"close", "sendclose", "pool", "startup", "end"} /\ pc[t] # "end"
  BY DEF AtSocket, Sweeping
<1>7. \A u \in Threads : at'[u] \in Slots <=> pc'[u] \in AtSocket
  BY <1>5, <1>6 DEF Control
<1>8. \A u \in Apps : u # Main => pc'[u] = pc[u] /\ pc'[u] \in Calling /\ ret'[u] = "idle"
  BY <1>2, <1>3, <1>5 DEF Control
<1>9. /\ pc'[Main] \in Calling \cup Sweeping \cup Alone
      /\ pc'[Main] \in {"close", "sendclose"} => ret'[Main] \in {"idle", "closeall", "isclosed"}
      /\ pc'[Main] \in Sweeping => ret'[Main] = "calm"
      /\ pc'[Main] \notin {"close", "sendclose"} \cup Sweeping => ret'[Main] = "idle"
      /\ pc'[Main] = "startup" => config'
      /\ pc'[Main] = "pool" => pc[Main] = "pool"
  <2>1. CASE t = Main
    BY <1>5, <1>6, <2>1 DEF Control
  <2>2. CASE t # Main
    BY <1>2, <1>5, <2>2 DEF Control
  <2>3. QED
    BY <2>1, <2>2
<1>10. /\ pc'[Scavenger] \in {"end", "start", "sleep"} \cup Sweeping
       /\ ret'[Scavenger] = IF pc'[Scavenger] \in Sweeping THEN "sleep" ELSE "idle"
       /\ ~config' \/ pc'[Main] = "pool" => pc'[Scavenger] = "end"
  <2>1. CASE t = Scavenger
    <3>1. pc[Scavenger] # "end"
      BY <1>6, <2>1
    <3>2. config /\ pc[Main] # "pool"
      BY <3>1 DEF Control
    <3>3. config' /\ pc'[Main] # "pool"
      BY <1>9, <3>2
    <3>4. QED
      BY <1>5, <2>1, <3>3 DEF Control
  <2>2. CASE t # Scavenger
    BY <1>2, <1>5, <1>9, <2>2 DEF Control
  <2>3. QED
    BY <2>1, <2>2
<1>11. OnlyMain' <=> OnlyMain
  BY <1>8 DEF OnlyMain
<1>12. Control'
  BY <1>7, <1>8, <1>9, <1>10 DEF Control
<1>13. pc'[Main] = pc[Main] \/ (t = Main /\ pc'[Main] \in Sweeping /\ pc[Main] \in Sweeping)
  BY <1>2, <1>5
<1>14. QED
  BY <1>4, <1>5, <1>11, <1>12, <1>13

(* The library while a cleaner works on a socket. *)
LEMMA SweepPhases ==
  ASSUME LifeInv, NEW s \in Trashed, overlapped => overlapped', failed' = failed,
         pc'[Main] = pc[Main] \/ (pc'[Main] \in Sweeping /\ pc[Main] \in Sweeping),
         ret' = ret, config' = config, udpsend' = udpsend, pool >= 0 => pool' >= 0, mode' = mode,
         OnlyMain' <=> OnlyMain, Registered' = Registered, Trashed' \subseteq Trashed,
         \A r \in Slots : r # s => status'[r] = status[r],
         ~overlapped' => \A r \in Slots : r # s /\ Nobody(r) => Nobody(r)'
  PROVE  Phases'
<1>1. SUFFICES ASSUME ~overlapped', ~overlapped, ~failed PROVE (Up \/ Parting)'
  BY DEF Phases
<1>2. Up \/ Parting
  BY <1>1 DEF LifeInv, Phases, Down, Begun, Pooled, Making, Parted, Alive
<1>3. Alive' \subseteq Alive
  BY DEF Alive
<1>4. ASSUME Up PROVE Up'
  <2>1. udpsend # s /\ udpsend \in Slots
    <3>1. Registered \subseteq Slots
      BY AliveIs
    <3>2. QED
      BY <1>4, <3>1 DEF Up, LifeInv, Lists
  <2>2. \A u \in Threads : ~About(u, udpsend)'
    <3>1. \A r \in Slots : r # s /\ Nobody(r) => \A u \in Threads : ~(pc'[u] \in AtSocket /\ at'[u] = r)
      BY <1>1 DEF Nobody, About
    <3>2. \A u \in Threads : ~(pc'[u] \in AtSocket /\ at'[u] = udpsend)
      BY <1>4, <2>1, <3>1 DEF Up
    <3>3. QED
      BY <3>2 DEF About
  <2>3. Nobody(udpsend)'
    BY <2>2 DEF Nobody
  <2>4. pc'[Main] \in Calling \cup Sweeping \cup {"calm", "closeall"}
    BY <1>4 DEF Up
  <2>5. QED
    BY <1>3, <1>4, <2>1, <2>3, <2>4 DEF Up
<1>5. ASSUME Parting PROVE Parting'
  <2>1. /\ pc'[Main] \in {"close", "sendclose", "isclosed", "calm", "closeall"} \cup Sweeping
        /\ pc'[Main] \in {"close", "sendclose"} => ret'[Main] = "isclosed"
    BY <1>5 DEF Parting, Sweeping
  <2>2. QED
    BY <1>3, <1>5, <2>1 DEF Parting
<1>6. QED
  BY <1>1, <1>2, <1>4, <1>5

(* A block is freed: its socket leaves the trash list, its packets go back. *)
LEMMA FreeSocketDoes ==
  ASSUME LifeInv, NEW s \in Slots, s \in Trashed, ctl[s] = "end", FreeSocket(s), overlapped => overlapped',
         ~config' \/ pc'[Main] = "startup" => ~config \/ pc[Main] = "startup"
  PROVE  /\ UNCHANGED <<config, udpsend, force, mode, ctl, snd>>
         /\ list' \in Seq(Slots) /\ trash' \in Seq(Slots) /\ queue' \in [Slots -> Seq(Messages)]
         /\ status' \in [Slots -> SUBSET {"CREATE", "WAIT_CLOSE"}] /\ pool' \in Int /\ pool' >= Stale
         /\ Lists' /\ Pool' /\ Registered' = Registered /\ Trashed' = Trashed \ {s}
         /\ queue'[s] = <<>> /\ status'[s] = {} /\ (pool >= 0 => pool' >= 0)
         /\ \A r \in Slots : r # s => queue'[r] = queue[r] /\ status'[r] = status[r]
<1>1. /\ pool' = pool + Cardinality(Held(queue[s])) /\ list' = RemoveFirst(list, s) /\ trash' = RemoveFirst(trash, s)
      /\ status' = [status EXCEPT ![s] = {}] /\ queue' = [queue EXCEPT ![s] = <<>>]
      /\ UNCHANGED <<config, udpsend, force, mode, ctl, snd>>
  BY DEF FreeSocket, Held
<1>2. /\ list \in Seq(Slots) /\ trash \in Seq(Slots) /\ queue \in [Slots -> Seq(Messages)] /\ queue[s] \in Seq(Messages)
      /\ status \in [Slots -> SUBSET {"CREATE", "WAIT_CLOSE"}] /\ pool \in Int /\ pool >= Stale
      /\ Once(list) /\ Once(trash) /\ s \notin Registered
  BY DEF LifeInv, Types, Lists
<1>3. /\ list' \in Seq(Slots) /\ Once(list') /\ Registered' = Registered
      /\ trash' \in Seq(Slots) /\ Once(trash') /\ Trashed' = Trashed \ {s}
  <2>1. /\ list' \in Seq(Slots) /\ Once(list') /\ Registered' = Registered \ {s}
        /\ trash' \in Seq(Slots) /\ Once(trash') /\ Trashed' = Trashed \ {s}
    BY <1>1, <1>2, Removed DEF Registered, Trashed
  <2>2. QED
    BY <1>2, <2>1
<1>4. /\ queue'[s] = <<>> /\ status'[s] = {}
      /\ \A r \in Slots : r # s => queue'[r] = queue[r] /\ status'[r] = status[r]
  BY <1>1, <1>2
<1>5. Cardinality(Held(queue[s])) \in Nat /\ Cardinality(Held(<<>>)) = 0 /\ <<>> \in Seq(Messages)
  BY <1>2, HeldIs, HeldEmpty, EmptySeq
<1>6. queue' \in [Slots -> Seq(Messages)] /\ status' \in [Slots -> SUBSET {"CREATE", "WAIT_CLOSE"}]
  BY <1>1, <1>2, <1>5
<1>7. pool' \in Int /\ pool' >= pool
  BY <1>1, <1>2, <1>5
<1>8. Lists'
  <2>1. Registered' \cap Trashed' = {}
    BY <1>3 DEF LifeInv, Lists
  <2>2. \A r \in Slots : ctl'[r] # "end" => r \in Registered' \cup Trashed'
    BY <1>1, <1>3 DEF LifeInv, Lists
  <2>3. \A r \in Slots : ctl'[r] \in {"move", "reply"} => queue'[r] # <<>> /\ queue'[r][1] = "close"
    BY <1>1, <1>4 DEF LifeInv, Lists
  <2>4. QED
    BY <1>3, <2>1, <2>2, <2>3 DEF Lists
<1>9. Pool'
  <2>1. IsFiniteSet(Packets)
    BY DEF LifeInv, Pool
  <2>2. /\ IsFiniteSet(Packets') /\ Cardinality(Packets') \in Nat /\ Cardinality(Packets) \in Nat
        /\ Cardinality(Packets') + Cardinality(Held(queue[s])) = Cardinality(Packets) + Cardinality(Held(<<>>))
    BY <1>1, <1>2, <1>5, <2>1, Recount
  <2>3. pool' + Cardinality(Packets') = pool + Cardinality(Packets)
    BY <1>1, <1>2, <1>5, <2>2
  <2>4. CASE pool >= 0
    <3>1. pool' >= 0 /\ ~(pool' < 0) /\ ~(pool < 0)
      BY <1>2, <1>7, <2>4
    <3>2. /\ pool + Cardinality(Packets) <= PoolSize
          /\ ~overlapped => pool + Cardinality(Packets) = PoolSize
          /\ ~(~config \/ pc[Main] = "startup")
      BY <2>4, <3>1 DEF LifeInv, Pool
    <3>3. QED
      BY <2>2, <2>3, <3>1, <3>2 DEF Pool
  <2>5. CASE pool < 0
    <3>1. Cardinality(Packets) = 0
      BY <2>5, FS_EmptySet DEF LifeInv, Pool
    <3>2. Cardinality(Packets') = 0 /\ Cardinality(Held(queue[s])) = 0
      BY <1>5, <2>2, <3>1
    <3>3. Packets' = {}
      BY <2>2, <3>2, FS_EmptySet
    <3>4. pool' = pool /\ pool' < 0 /\ ~(pool' >= 0)
      BY <1>1, <1>2, <2>5, <3>2
    <3>5. QED
      BY <2>2, <3>3, <3>4 DEF Pool
  <2>6. QED
    BY <1>2, <2>4, <2>5
<1>10. pool' >= Stale /\ (pool >= 0 => pool' >= 0)
  BY <1>2, <1>7, ConstantsAre
<1>11. QED
  BY <1>1, <1>3, <1>4, <1>6, <1>7, <1>8, <1>9, <1>10

LEMMA TrashSocketKept ==
  ASSUME LifeInv, NEW t \in Threads, TrashSocket(t)
  PROVE  LifeInv'
<1>1. PICK s \in Slots : s = Head(trash) /\ s \in Trashed
  BY AliveIs DEF TrashSocket
<1>2. /\ pc[t] = "trash" /\ overlapped' = (overlapped \/ Joining(t, s))
      /\ UNCHANGED <<ret, corrupt, failed>>
  BY <1>1 DEF TrashSocket
<1>3. /\ at \in [Threads -> Slots \cup {None}] /\ overlapped \in BOOLEAN /\ overlapped' \in BOOLEAN /\ Types /\ Control
      /\ overlapped => overlapped'
  BY <1>2 DEF LifeInv, Types
<1>4. pc[t] \in Sweeping /\ ~About(t, s)
  BY <1>2 DEF Sweeping, About, AtSocket
<1>5. ASSUME ~overlapped' PROVE Closed(s) /\ Nobody(s) /\ ~overlapped
  <2>1. ~overlapped /\ ~Joining(t, s)
    BY <1>2, <1>5
  <2>2. Stage(s) /\ s \notin Registered
    BY <1>1, <2>1 DEF LifeInv, Stages, Lists
  <2>3. Closed(s)
    BY <1>1, <2>2 DEF Stage, Unused, Made, Open, Marked, Closing
  <2>4. \A u \in Threads : pc[u] = "join" => ~About(u, s)
    BY <1>4, <2>1 DEF Joining, About
  <2>5. QED
    BY <2>1, <2>3, <2>4 DEF Closed, Only
<1>6. CASE ctl[s] = "end"
  <2>1. FreeSocket(s) /\ pc' = pc /\ at' = at
    BY <1>1, <1>6 DEF TrashSocket
  <2>2. /\ UNCHANGED <<config, udpsend, force, mode, ctl, snd>>
        /\ list' \in Seq(Slots) /\ trash' \in Seq(Slots) /\ queue' \in [Slots -> Seq(Messages)]
        /\ status' \in [Slots -> SUBSET {"CREATE", "WAIT_CLOSE"}] /\ pool' \in Int /\ pool' >= Stale
        /\ Lists' /\ Pool' /\ Registered' = Registered /\ Trashed' = Trashed \ {s}
        /\ queue'[s] = <<>> /\ status'[s] = {}
        /\ \A r \in Slots : r # s => queue'[r] = queue[r] /\ status'[r] = status[r]
    <3>1. ~config' \/ pc'[Main] = "startup" => ~config \/ pc[Main] = "startup"
      BY <2>1 DEF FreeSocket
    <3>2. QED
      BY <1>1, <1>3, <1>6, <2>1, <3>1, FreeSocketDoes
  <2>3. pool >= 0 => pool' >= 0
    <3>1. ~config' \/ pc'[Main] = "startup" => ~config \/ pc[Main] = "startup"
      BY <2>1 DEF FreeSocket
    <3>2. QED
      BY <1>1, <1>3, <1>6, <2>1, <3>1, FreeSocketDoes
  <2>4. Types'
    BY <1>2, <1>3, <2>1, <2>2 DEF Types
  <2>5. UNCHANGED threadVars
    BY <1>2, <2>1 DEF threadVars
  <2>6. Control'
    BY <1>3, <2>2, <2>5, ControlFrame
  <2>7. Stages'
    <3>1. ASSUME NEW r \in Slots, r # s PROVE SameThreads(r) /\ SameLists(r) /\ SamePipe(r) /\ status'[r] = status[r]
      BY <2>2, <2>5, <3>1, StillThreads DEF SameLists, SamePipe
    <3>2. ASSUME ~overlapped' PROVE Stage(s)'
      <4>1. Closed(s) /\ Nobody(s)'
        BY <1>5, <2>5, <3>2, StillThreads
      <4>2. Unused(s)'
        BY <1>1, <1>6, <2>2, <4>1 DEF Closed, Unused, LifeInv, Lists
      <4>3. QED
        BY <4>2 DEF Stage
    <3>3. QED
      BY <1>3, <3>1, <3>2, StagesFrame DEF LifeInv
  <2>8. Phases'
    <3>1. OnlyMain' <=> OnlyMain
      BY <2>1 DEF OnlyMain
    <3>2. \A r \in Slots : r # s /\ Nobody(r) => Nobody(r)'
      BY <2>5, StillThreads
    <3>3. Trashed' \subseteq Trashed /\ pc'[Main] = pc[Main]
      BY <2>1, <2>2
    <3>4. QED
      BY <1>1, <1>2, <1>3, <2>2, <2>3, <3>1, <3>2, <3>3, SweepPhases
  <2>9. Harm'
    BY <1>2, <1>3 DEF LifeInv, Harm
  <2>10. QED
    BY <2>2, <2>4, <2>6, <2>7, <2>8, <2>9 DEF LifeInv
<1>7. CASE ctl[s] # "end"
  <2>1. /\ status' = [status EXCEPT ![s] = {}] /\ pc' = [pc EXCEPT ![t] = "join"] /\ at' = [at EXCEPT ![t] = s]
        /\ UNCHANGED <<config, udpsend, pool, force, list, trash, mode, queue, ctl, snd>>
    BY <1>1, <1>7 DEF TrashSocket, Goto, libVars, pipeVars
  <2>2. "join" \in Sweeping /\ "join" \in AtSocket
    BY DEF Sweeping, AtSocket
  <2>3. /\ Control'
        /\ pc' \in [Threads -> Calling \cup Sweeping \cup Alone \cup {"end", "start", "sleep"}]
        /\ at' \in [Threads -> Slots \cup {None}]
        /\ at'[t] = s /\ \A u \in Threads : u # t => at'[u] = at[u]
        /\ OnlyMain' <=> OnlyMain
        /\ pc'[Main] = pc[Main] \/ (t = Main /\ pc'[Main] \in Sweeping /\ pc[Main] \in Sweeping)
    BY <1>2, <1>3, <1>4, <2>1, <2>2, SweepControl
  <2>4. status' \in [Slots -> SUBSET {"CREATE", "WAIT_CLOSE"}] /\ \A r \in Slots : r # s => status'[r] = status[r]
    BY <1>3, <2>1 DEF Types
  <2>5. Types'
    BY <1>2, <1>3, <2>1, <2>3, <2>4 DEF Types
  <2>6. Lists'
    BY <2>1, ListsFrame DEF LifeInv, Lists
  <2>7. Registered' = Registered /\ Trashed' = Trashed
    BY <2>1 DEF Registered, Trashed
  <2>8. Pool'
    <3>1. ~config' \/ pc'[Main] = "startup" => ~config \/ pc[Main] = "startup"
      BY <2>1, <2>3 DEF Sweeping
    <3>2. QED
      BY <1>3, <2>1, <3>1, PoolFrame DEF LifeInv
  <2>9. /\ \A r : ~About(t, r) /\ ~About(t, r)' => SameThreads(r)
        /\ \A r : (\A u \in Threads : u # t => ~About(u, r)) /\ ~About(t, r)' => Nobody(r)'
        /\ \A r : (\A u \in Threads : u # t => ~About(u, r)) /\ About(t, r)' => Only(t, r)'
        /\ pc'[t] = "join" /\ \A u \in Threads : u # t => pc'[u] = pc[u]
    BY <1>3, <2>1, <2>3, OneThread
  <2>10. \A r : r # s => ~About(t, r) /\ ~About(t, r)'
    BY <1>2, <2>3 DEF About, AtSocket
  <2>11. Stages'
    <3>1. ASSUME NEW r \in Slots, r # s PROVE SameThreads(r) /\ SameLists(r) /\ SamePipe(r) /\ status'[r] = status[r]
      BY <2>1, <2>4, <2>7, <2>9, <2>10, <3>1 DEF SameLists, SamePipe
    <3>2. ASSUME ~overlapped' PROVE Stage(s)'
      <4>1. Closed(s) /\ Nobody(s)
        BY <1>5, <3>2
      <4>2. Only(t, s)'
        BY <2>2, <2>3, <2>9, <4>1 DEF Nobody, About
      <4>3. Closed(s)'
        BY <2>1, <2>7, <2>9, <4>1, <4>2 DEF Closed
      <4>4. QED
        BY <4>3 DEF Stage
    <3>3. QED
      BY <1>3, <3>1, <3>2, StagesFrame DEF LifeInv
  <2>12. Phases'
    <3>1. \A r \in Slots : r # s /\ Nobody(r) => Nobody(r)'
      BY <2>9, <2>10 DEF Nobody
    <3>2. Trashed' \subseteq Trashed
      BY <2>7
    <3>3. QED
      BY <1>1, <1>2, <1>3, <2>1, <2>3, <2>4, <2>7, <3>1, <3>2, SweepPhases
  <2>13. Harm'
    BY <1>2, <1>3 DEF LifeInv, Harm
  <2>14. QED
    BY <2>3, <2>5, <2>6, <2>8, <2>11, <2>12, <2>13 DEF LifeInv
<1>8. QED
  BY <1>6, <1>7

LEMMA JoinedThreadKept ==
  ASSUME LifeInv, NEW t \in Threads, JoinedThread(t)
  PROVE  LifeInv'
<1>0. pc[t] = "join"
  BY DEF JoinedThread
<1>1. PICK s \in Slots : pc[t] = "join" /\ s = at[t] /\ About(t, s)
  BY <1>0 DEF LifeInv, Control, AtSocket, About
<1>2. ASSUME ~overlapped PROVE Closed(s) /\ Only(t, s)
  <2>1. Stage(s)
    BY <1>2 DEF LifeInv, Stages
  <2>2. ~Nobody(s) /\ \A u \in Threads : Only(u, s) => u = t
    BY <1>1 DEF Nobody, Only
  <2>3. Apps \subseteq Threads
    BY ConstantsAre
  <2>4. Closed(s)
    BY <1>1, <2>1, <2>2, <2>3 DEF Stage, Unused, Made, Open, Marked, Closing
  <2>5. QED
    BY <2>2, <2>4 DEF Closed
<1>3. CASE s \notin Trashed
  <2>1. Misuse("twice")
    BY <1>1, <1>3 DEF JoinedThread
  <2>2. overlapped
    BY <1>2, <1>3 DEF Closed
  <2>3. QED
    BY <2>1, <2>2, MisuseKept
<1>4. CASE s \in Trashed
  <2>1. /\ ctl[s] = "end" /\ FreeSocket(s) /\ pc' = [pc EXCEPT ![t] = "trash"] /\ at' = [at EXCEPT ![t] = None]
        /\ UNCHANGED <<ret, corrupt, overlapped, failed>> /\ config' = config
    BY <1>1, <1>4 DEF JoinedThread, Goto, faultVars, FreeSocket
  <2>2. Types /\ Control /\ None \notin Slots /\ "trash" \in Sweeping /\ pc[t] \in Sweeping /\ "trash" \notin AtSocket
    BY <1>1, ConstantsAre DEF LifeInv, Sweeping, AtSocket
  <2>3. /\ Control'
        /\ pc' \in [Threads -> Calling \cup Sweeping \cup Alone \cup {"end", "start", "sleep"}]
        /\ at' \in [Threads -> Slots \cup {None}]
        /\ at'[t] = None /\ \A u \in Threads : u # t => at'[u] = at[u]
        /\ OnlyMain' <=> OnlyMain
        /\ pc'[Main] = pc[Main] \/ (t = Main /\ pc'[Main] \in Sweeping /\ pc[Main] \in Sweeping)
    BY <2>1, <2>2, SweepControl
  <2>4. ~config' \/ pc'[Main] = "startup" => ~config \/ pc[Main] = "startup"
    BY <2>1, <2>3 DEF Sweeping
  <2>5. /\ UNCHANGED <<config, udpsend, force, mode, ctl, snd>>
        /\ list' \in Seq(Slots) /\ trash' \in Seq(Slots) /\ queue' \in [Slots -> Seq(Messages)]
        /\ status' \in [Slots -> SUBSET {"CREATE", "WAIT_CLOSE"}] /\ pool' \in Int /\ pool' >= Stale
        /\ Lists' /\ Pool' /\ Registered' = Registered /\ Trashed' = Trashed \ {s}
        /\ queue'[s] = <<>> /\ status'[s] = {}
        /\ \A r \in Slots : r # s => queue'[r] = queue[r] /\ status'[r] = status[r]
    BY <1>4, <2>1, <2>4, FreeSocketDoes
  <2>6. pool >= 0 => pool' >= 0
    BY <1>4, <2>1, <2>4, FreeSocketDoes
  <2>7. Types'
    BY <2>1, <2>2, <2>3, <2>5 DEF Types
  <2>8. /\ \A r : ~About(t, r) /\ ~About(t, r)' => SameThreads(r)
        /\ \A r : (\A u \in Threads : u # t => ~About(u, r)) /\ ~About(t, r)' => Nobody(r)'
        /\ pc'[t] = "trash" /\ \A u \in Threads : u # t => pc'[u] = pc[u]
    BY <2>1, <2>2, <2>3, OneThread
  <2>9. \A r : ~About(t, r)' /\ (r # s => ~About(t, r))
    BY <1>1, <2>2, <2>8 DEF About
  <2>10. Stages'
    <3>1. ASSUME NEW r \in Slots, r # s PROVE SameThreads(r) /\ SameLists(r) /\ SamePipe(r) /\ status'[r] = status[r]
      BY <2>5, <2>8, <2>9, <3>1 DEF SameLists, SamePipe
    <3>2. ASSUME ~overlapped PROVE Stage(s)'
      <4>1. Closed(s) /\ Only(t, s)
        BY <1>2, <3>2
      <4>2. Nobody(s)'
        BY <2>8, <2>9, <4>1 DEF Only
      <4>3. Unused(s)'
        BY <1>4, <2>1, <2>5, <4>1, <4>2 DEF Closed, Unused, LifeInv, Lists
      <4>4. QED
        BY <4>3 DEF Stage
    <3>3. QED
      BY <2>1, <3>1, <3>2, StagesFrame DEF LifeInv
  <2>11. Phases'
    <3>1. \A r \in Slots : r # s /\ Nobody(r) => Nobody(r)'
      BY <2>8, <2>9 DEF Nobody
    <3>2. Trashed' \subseteq Trashed
      BY <2>5
    <3>3. QED
      BY <1>4, <2>1, <2>3, <2>5, <2>6, <3>1, <3>2, SweepPhases
  <2>12. Harm'
    BY <2>1 DEF LifeInv, Harm
  <2>13. QED
    BY <2>3, <2>5, <2>7, <2>10, <2>11, <2>12 DEF LifeInv
<1>5. QED
  BY <1>3, <1>4


-----------------------------------------------------------------------------
(* The specification                                                       *)

(* Before the first SOCL_Startup there is no socket, no pool and no        *)
(* scavenger.                                                              *)
LEMMA LifeInitial == Init => LifeInv
<1> SUFFICES ASSUME Init PROVE LifeInv
  OBVIOUS
<1>1. /\ config = FALSE /\ udpsend = None /\ pool = -1 /\ force = FALSE
      /\ list = <<>> /\ trash = <<>>
      /\ \A s \in Slots : queue[s] = <<>> /\ ctl[s] = "end" /\ snd[s] = "end"
      /\ \A t \in Threads : pc[t] = (IF t = Scavenger THEN "end" ELSE "idle") /\ at[t] = None /\ ret[t] = "idle"
      /\ corrupt = "no" /\ overlapped = FALSE /\ failed = FALSE
  BY ConstantsAre DEF Init
<1>2. Registered = {} /\ Trashed = {}
  BY <1>1 DEF Registered, Trashed, ToSet
<1>3. Types
  <2>1. /\ mode = [s \in Slots |-> "tcp"] /\ status = [s \in Slots |-> {}] /\ queue = [s \in Slots |-> <<>>]
        /\ ctl = [s \in Slots |-> "end"] /\ snd = [s \in Slots |-> "end"]
        /\ pc = [t \in Threads |-> IF t = Scavenger THEN "end" ELSE "idle"]
        /\ at = [t \in Threads |-> None] /\ ret = [t \in Threads |-> "idle"]
    BY DEF Init
  <2>2. /\ mode \in [Slots -> {"tcp", "udp", "udpsend"}] /\ status \in [Slots -> SUBSET {"CREATE", "WAIT_CLOSE"}]
        /\ queue \in [Slots -> Seq(Messages)]
        /\ ctl \in [Slots -> {"run", "move", "reply", "end"}] /\ snd \in [Slots -> {"run", "null", "end"}]
    BY <2>1
  <2>3. /\ pc \in [Threads -> Calling \cup Sweeping \cup Alone \cup {"end", "start", "sleep"}]
        /\ at \in [Threads -> Slots \cup {None}]
        /\ ret \in [Threads -> {"idle", "closeall", "isclosed", "calm", "sleep"}]
    BY <2>1 DEF Calling
  <2>4. pool \in Int /\ pool >= Stale
    BY <1>1, ConstantsAre
  <2>5. list \in Seq(Slots) /\ trash \in Seq(Slots)
    BY <1>1
  <2>6. config \in BOOLEAN /\ force \in BOOLEAN /\ overlapped \in BOOLEAN /\ failed \in BOOLEAN
    BY <1>1
  <2>7. QED
    BY <1>1, <2>2, <2>3, <2>4, <2>5, <2>6 DEF Types
<1>4. Control
  <2>1. pc[Main] = "idle" /\ pc[Scavenger] = "end" /\ \A t \in Apps : pc[t] = "idle"
    BY <1>1, ConstantsAre
  <2>2. \A t \in Threads : pc[t] \notin AtSocket /\ at[t] \notin Slots
    BY <1>1, ConstantsAre DEF AtSocket
  <2>3. QED
    BY <1>1, <2>1, <2>2, ConstantsAre DEF Control, Calling, Sweeping, Alone
<1>5. Lists
  BY <1>1, <1>2 DEF Lists, Once
<1>6. Packets = {}
  BY <1>1, HeldEmpty DEF Packets
<1>7. Pool
  BY <1>1, <1>6, FS_EmptySet DEF Pool
<1>8. \A s : Nobody(s)
  BY <1>1 DEF Nobody, About, AtSocket
<1>9. Stages
  BY <1>1, <1>2, <1>8 DEF Stages, Stage, Unused
<1>10. Phases
  <2>1. OnlyMain /\ pc[Main] = "idle"
    BY <1>1, ConstantsAre DEF OnlyMain
  <2>2. Alive = {} /\ pool < 0
    BY <1>1, <1>2 DEF Alive
  <2>3. Down
    BY <1>1, <2>1, <2>2 DEF Down
  <2>4. QED
    BY <2>3 DEF Phases
<1>11. Harm
  BY <1>1 DEF Harm
<1>12. QED
  BY <1>3, <1>4, <1>5, <1>7, <1>9, <1>10, <1>11 DEF LifeInv

(* Nothing happens to the library. *)
LEMMA StutterKept == ASSUME LifeInv, UNCHANGED vars PROVE LifeInv'
<1>1. /\ UNCHANGED <<config, udpsend, pool, force, list, trash, mode, status, queue, ctl, snd>>
      /\ UNCHANGED <<corrupt, overlapped, failed>>
      /\ UNCHANGED threadVars /\ pc' = pc /\ at' = at /\ ret' = ret
  BY DEF vars, libVars, sockVars, pipeVars, threadVars, faultVars
<1>2. Types'
  BY <1>1 DEF LifeInv, Types
<1>3. Control'
  BY <1>1, ControlFrame DEF LifeInv
<1>4. Lists'
  BY <1>1, ListsFrame DEF LifeInv, Lists
<1>5. Pool'
  BY <1>1, PoolFrame DEF LifeInv
<1>6. Stages'
  <2>1. \A s \in Slots : SameThreads(s) /\ SameLists(s) /\ SamePipe(s) /\ status'[s] = status[s]
    BY <1>1, StillThreads DEF SameLists, SamePipe, Registered, Trashed
  <2>2. QED
    BY <1>1, <2>1, ConstantsAre, StagesFrame DEF LifeInv
<1>7. Phases'
  BY <1>1, PhasesFrame DEF LifeInv
<1>8. Harm'
  BY <1>1 DEF LifeInv, Harm
<1>9. QED
  BY <1>2, <1>3, <1>4, <1>5, <1>6, <1>7, <1>8 DEF LifeInv

(* A second move of one socket to the trash list needs two closers.        *)
LEMMA MoveTwiceKept ==
  ASSUME LifeInv, NEW s \in Slots, MoveToTrash(s), s \in Trashed
  PROVE  LifeInv'
<1>1. ctl[s] = "move" /\ Misuse("twice")
  BY DEF MoveToTrash
<1>2. ASSUME ~overlapped PROVE FALSE
  <2>1. Stage(s)
    BY <1>2 DEF LifeInv, Stages
  <2>2. s \notin Registered
    BY DEF LifeInv, Lists
  <2>3. QED
    BY <1>1, <2>1, <2>2 DEF Stage, Unused, Made, Open, Marked, Closing, Closed
<1>3. QED
  BY <1>1, <1>2, MisuseKept

(* Every step keeps the invariant. *)
LEMMA LifeNext == LifeInv /\ [Next]_vars => LifeInv'
<1> SUFFICES ASSUME LifeInv, [Next]_vars PROVE LifeInv'
  OBVIOUS
<1>1. CASE UNCHANGED vars
  BY <1>1, StutterKept
<1>2. CASE StartupPool \/ StartupUdpSend
  BY <1>2, StartupPoolKept, StartupUdpSendKept
<1>3. CASE CalmDown \/ CloseAll \/ CloseUdpSend \/ IsClosed \/ CleanupPool
  BY <1>3, CalmDownKept, CloseAllKept, CloseUdpSendKept, IsClosedKept, CleanupPoolKept
<1>4. CASE ScavengerStarts \/ ScavengerWakes
  BY <1>4, ScavengerStartsKept, ScavengerWakesKept
<1>5. ASSUME NEW t \in Threads, TrashSocket(t) \/ JoinedThread(t) \/ TrashEmpty(t) PROVE LifeInv'
  BY <1>5, TrashSocketKept, JoinedThreadKept, TrashEmptyKept
<1>6. ASSUME NEW t \in Apps, ExecCreate(t) \/ CloseMark(t) \/ SendClose(t) PROVE LifeInv'
  BY <1>6, ExecCreateKept, CloseMarkKept, SendCloseKept
<1>7. ASSUME NEW s \in Slots, CreateSocketCallBack(s) \/ SendThreadEnds(s) \/ CloseCallBack(s) PROVE LifeInv'
  BY <1>7, CreateSocketCallBackKept, SendThreadEndsKept, CloseCallBackKept
<1>8. ASSUME NEW s \in Slots, MoveToTrash(s) \/ CloseReply(s) \/ CtrlThreadEnds(s) PROVE LifeInv'
  BY <1>8, MoveToTrashKept, MoveTwiceKept, CloseReplyKept, CtrlThreadEndsKept
<1>9. CASE Startup \/ Cleanup
  BY <1>9, StartupKept, CleanupKept
<1>10. ASSUME NEW t \in Apps, NEW m \in {"tcp", "udp"}, CreateSocket(t, m) PROVE LifeInv'
  BY <1>10, CreateSocketKept
<1>11. ASSUME NEW t \in Apps, NEW s \in Slots, Close(t, s) PROVE LifeInv'
  BY <1>11, CloseKept
<1>12. Library => LifeInv'
  BY <1>2, <1>3, <1>4, <1>5, <1>6, <1>7, <1>8 DEF Library
<1>13. Application => LifeInv'
  BY <1>9, <1>10, <1>11 DEF Application
<1>14. QED
  BY <1>1, <1>12, <1>13 DEF Next

(* LifeInv is an invariant of the library, for any number of sockets,      *)
(* application threads and packets: the stage of each socket in            *)
(* SOCL_CreateSocket, SOCL_Close, the close command and SOCLi_TrashSocket, *)
(* the phase between SOCL_Startup and SOCL_Cleanup, and the packet pool.   *)
THEOREM LifeAlways == Spec => []LifeInv
BY LifeInitial, LifeNext, PTL DEF Spec

(* No more packets are in SOCLiCommandPacketQueue than cmd_packet_max, and *)
(* all of them while no command is in a control pipe.                      *)
LEMMA PoolRange == LifeInv => pool \in Stale .. PoolSize
<1> SUFFICES ASSUME LifeInv PROVE pool \in Stale .. PoolSize
  OBVIOUS
<1>1. pool \in Int /\ pool >= Stale /\ PoolSize \in Nat /\ Stale = -2
  BY ConstantsAre DEF LifeInv, Types
<1>2. Cardinality(Packets) \in Nat
  BY FS_CardinalityType DEF LifeInv, Pool
<1>3. pool >= 0 => pool + Cardinality(Packets) <= PoolSize
  BY DEF LifeInv, Pool
<1>4. pool <= PoolSize
  BY <1>1, <1>2, <1>3
<1>5. QED
  BY <1>1, <1>4

(* Memory is misused only where two closers or two cleaners overlap on one *)
(* socket, or after a startup that could not allocate: no other order of   *)
(* SOCL_CreateSocket, SOCL_Close, SOCLi_TrashSocket, SOCL_CalmDown and     *)
(* SOCL_Cleanup uses a freed block, puts a socket into the trash list      *)
(* twice or meets a missing pool.                                          *)
THEOREM LifeSafe == Spec => []MisuseOnlyRaced
<1>1. LifeInv => MisuseOnlyRaced
  <2> SUFFICES ASSUME LifeInv PROVE MisuseOnlyRaced
    OBVIOUS
  <2>1. TypeOK
    BY PoolRange DEF LifeInv, Types, TypeOK
  <2>2. QED
    BY <2>1 DEF MisuseOnlyRaced, LifeInv, Harm
<1>2. QED
  BY <1>1, LifeAlways, PTL

(* SOCL_Cleanup finds the packet pool whole when it frees it and leaves no *)
(* socket, no thread and no call behind, unless closers or cleaners        *)
(* overlapped or a startup failed half way.                                *)
THEOREM CleanupWhole == Spec => []CleanIsEmpty
<1>1. LifeInv => CleanIsEmpty
  <2> SUFFICES ASSUME LifeInv, ~failed, ~overlapped PROVE
        /\ pc[Main] = "pool" => pool = PoolSize
        /\ ~config =>
             /\ list = <<>> /\ trash = <<>> /\ udpsend = None
             /\ \A s \in Slots : ctl[s] = "end" /\ snd[s] = "end" /\ queue[s] = <<>>
             /\ \A t \in Apps : pc[t] = "idle"
             /\ pc[Scavenger] = "end"
    BY DEF CleanIsEmpty
  <2>1. Down \/ Begun \/ Pooled \/ Making \/ Up \/ Parting \/ Parted
    BY DEF LifeInv, Phases
  <2>2. ASSUME Alive = {}
        PROVE  /\ \A s \in Slots : ctl[s] = "end" /\ snd[s] = "end" /\ queue[s] = <<>>
               /\ Packets = {} /\ list = <<>> /\ trash = <<>>
    <3>1. Registered = {} /\ Trashed = {}
      BY <2>2 DEF Alive
    <3>2. list = <<>> /\ trash = <<>>
      BY <3>1, AliveIs
    <3>3. ASSUME NEW s \in Slots PROVE Unused(s)
      <4>1. Stage(s)
        BY DEF LifeInv, Stages
      <4>2. QED
        BY <3>1, <4>1 DEF Stage, Made, Open, Marked, Closing, Closed
    <3>4. Packets = {}
      BY <3>3, HeldEmpty DEF Unused, Packets
    <3>5. QED
      BY <3>2, <3>3, <3>4 DEF Unused
  <2>3. ASSUME pc[Main] = "pool" PROVE pool = PoolSize
    <3>1. Parted
      BY <2>1, <2>3 DEF Down, Begun, Pooled, Making, Up, Parting, Calling, Sweeping
    <3>2. Packets = {} /\ pool >= 0
      BY <2>2, <3>1 DEF Parted
    <3>3. pool + Cardinality(Packets) = PoolSize
      BY <3>2 DEF LifeInv, Pool
    <3>4. QED
      BY <3>2, <3>3, FS_EmptySet, ConstantsAre DEF LifeInv, Types
  <2>4. ASSUME ~config
        PROVE  /\ list = <<>> /\ trash = <<>> /\ udpsend = None
               /\ \A s \in Slots : ctl[s] = "end" /\ snd[s] = "end" /\ queue[s] = <<>>
               /\ \A t \in Apps : pc[t] = "idle"
               /\ pc[Scavenger] = "end"
    <3>1. Down
      BY <2>1, <2>4 DEF Begun, Pooled, Making, Up, Parting, Parted
    <3>2. \A t \in Apps : pc[t] = "idle"
      BY <3>1 DEF Down, OnlyMain
    <3>3. pc[Scavenger] = "end"
      BY <2>4 DEF LifeInv, Control
    <3>4. QED
      BY <2>2, <3>1, <3>2, <3>3 DEF Down
  <2>5. QED
    BY <2>3, <2>4
<1>2. QED
  BY <1>1, LifeAlways, PTL

=============================================================================
