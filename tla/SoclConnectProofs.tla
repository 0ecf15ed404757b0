-------------------------- MODULE SoclConnectProofs --------------------------
(***************************************************************************)
(* Proofs about the status bits of a TCP socket.  Base says where the      *)
(* threads are, whose command is at the head of a queue, who owns in_use   *)
(* and who waits for an answer; Ended what a close leaves behind, in its   *)
(* order.  While the behaviour is followed, Tested ties a call's tests to  *)
(* what it has loaded, ReadsAhead keeps the reads ahead of the handlers    *)
(* that lock in_use, Attempting allows one connect or accept at a time,    *)
(* Closing and Again say what a close has marked, Backed what the bits     *)
(* announce.  Together they are the inductive invariant ConnInv.           *)
(***************************************************************************)
EXTENDS SoclConnect, SequenceTheorems, TLAPS

(* The places of the threads, by call and by handler. *)
Shared == {"connect", "accept", "shutdown", "close", "poll"}
AppAt ==
  {Idle} \cup (Shared \X {"load", "store"}) \cup {<<"close", "null">>}
    \cup ((Calls \ {"poll"}) \X {"exec"})
    \cup ({"read"} \X {"in_use", "copy", "unlock"})
    \cup ((Calls \ {"poll", "write", "close"}) \X {"response"})
RecvAt ==
  {Idle} \cup ({"connect"} \X {"in_use", "bind"})
    \cup ({"connected", "failed"} \X {"unlock", "load", "store", "reply"})
    \cup ({"accept"} \X {"in_use", "bind", "load", "store", "unlock", "reply"})
    \cup ({"ssl"} \X {"in_use", "unlock", "reply"})
    \cup ({"read"} \X {"wait", "reply"})
    \cup ({"close"} \X {"join", "load", "store", "null", "trash", "load_release", "store_release", "reply"})
    \cup {<<"null", "end">>}
SendAt == {Idle, <<"null", "end">>} \cup ({"write"} \X {"load", "store", "load_reset", "store_reset", "close"})

RecvKinds == {"connect", "accept", "ssl", "read", "close", "null"}
SendKinds == {"write", "shutdown", "null"}
RecvCommand == [kind : RecvKinds, by : Apps \cup {None}]
SendCommand == [kind : SendKinds, by : Apps \cup {None}]

LEMMA AppAtIs ==
  ASSUME NEW v \in AppAt
  PROVE  /\ v = <<v[1], v[2]>>
         /\ v[2] \in {"load", "store"} => v[1] \in Shared
         /\ v[2] = "null" => v[1] = "close"
         /\ v[2] = "exec" => v[1] \in Calls \ {"poll"}
         /\ v[2] \in {"in_use", "copy", "unlock"} => v[1] = "read"
         /\ v[2] = "response" => v[1] \in Calls \ {"poll", "write", "close"}
         /\ v[2] \in {"idle", "load", "store", "null", "exec", "in_use", "copy", "unlock", "response"}
         /\ v[1] = "none" <=> v[2] = "idle"
         /\ v[1] \in Calls \cup {"none"}
BY DEF AppAt, Idle, Shared, Calls

LEMMA RecvAtIs ==
  ASSUME NEW v \in RecvAt
  PROVE  /\ v = <<v[1], v[2]>>
         /\ v[1] \in {"none", "connect", "connected", "failed", "accept", "ssl", "read", "close", "null"}
         /\ v[1] = "none" <=> v[2] = "idle"
         /\ v[1] = "null" <=> v[2] = "end"
         /\ v[2] = "in_use" => v[1] \in {"connect", "accept", "ssl"}
         /\ v[2] = "bind" => v[1] \in {"connect", "accept"}
         /\ v[2] = "unlock" => v[1] \in {"connected", "failed", "accept", "ssl"}
         /\ v[2] \in {"load", "store"} => v[1] \in {"connected", "failed", "accept", "close"}
         /\ v[2] = "reply" => v[1] \in {"connected", "failed", "accept", "ssl", "read", "close"}
         /\ v[2] \in {"join", "null", "trash", "load_release", "store_release"} => v[1] = "close"
         /\ v[1] = "connect" => v[2] \in {"in_use", "bind"}
         /\ v[1] = "close" => v[2] \in {"join", "load", "store", "null", "trash", "load_release", "store_release", "reply"}
BY DEF RecvAt, Idle

LEMMA SendAtIs ==
  ASSUME NEW v \in SendAt
  PROVE  /\ v = <<v[1], v[2]>>
         /\ v[1] = "none" <=> v[2] = "idle"
         /\ v[1] = "null" <=> v[2] = "end"
         /\ v[1] \in {"none", "null", "write"}
         /\ v[1] = "write" => v[2] \in {"load", "store", "load_reset", "store_reset", "close"}
BY DEF SendAt, Idle

AtOK ==
  /\ at \in [Threads -> AppAt \cup RecvAt \cup SendAt]
  /\ \A t \in Apps : at[t] \in AppAt
  /\ at[Recv] \in RecvAt /\ at[Send] \in SendAt
BitsOK == status \in SUBSET Bits /\ reg \in [Threads -> SUBSET Bits]
QueuesOK ==
  /\ rq \in Seq(RecvCommand) /\ Len(rq) <= RecvMax
  /\ sq \in Seq(SendCommand) /\ Len(sq) <= SendMax
RestOK ==
  /\ block \in BOOLEAN /\ data \in BOOLEAN /\ fin \in BOOLEAN /\ listed \in BOOLEAN
  /\ in_use \in Threads \cup {None} /\ closes \in Nat
Types == AtOK /\ BitsOK /\ QueuesOK /\ RestOK

(* The threads of the socket are at the command at the head. *)
HeadIs ==
  /\ at[Recv] # Idle /\ at[Recv][2] # "end" =>
       /\ rq # <<>>
       /\ Head(rq).kind = IF at[Recv][1] \in {"connected", "failed"} THEN "connect" ELSE at[Recv][1]
  /\ at[Send][1] = "write" => sq # <<>> /\ Head(sq).kind = "write"

(* The application that owns in_use is reading. *)
Reading == {"read"} \X {"copy", "exec", "response", "unlock"}
Owner == in_use \in Apps => at[in_use] \in Reading

(* Commands that want an answer, and who waits for it. *)
OneEach(q) == \A i, j \in 1 .. Len(q) : q[i].by = q[j].by /\ q[i].by # None => i = j
Waits(q) == \A i \in 1 .. Len(q) : q[i].by # None => at[q[i].by] = <<q[i].kind, "response">>
Waiting ==
  /\ OneEach(rq) /\ OneEach(sq) /\ Waits(rq) /\ Waits(sq)
  /\ \A t \in Apps : at[t] = <<"read", "response">> =>
        \E i \in 1 .. Len(rq) : rq[i].by = t /\ rq[i].kind = "read"

LEMMA ThreadsAre ==
  /\ Recv \in Threads /\ Send \in Threads /\ Recv # Send /\ None \notin Threads
  /\ Apps \subseteq Threads /\ \A t \in Apps : t # Recv /\ t # Send /\ t # None
  /\ RecvMax \in Nat /\ SendMax \in Nat
BY ConnectAssumption DEF Threads

LEMMA QueuedAre ==
  ASSUME QueuesOK
  PROVE  /\ \A i \in 1 .. Len(rq) : rq[i] \in RecvCommand
         /\ \A i \in 1 .. Len(rq) : rq[i].by \in Apps \cup {None} /\ rq[i].kind \in RecvKinds
         /\ \A i \in 1 .. Len(sq) : sq[i] \in SendCommand
         /\ \A i \in 1 .. Len(sq) : sq[i].by \in Apps \cup {None} /\ sq[i].kind \in SendKinds
<1>1. \A i \in 1 .. Len(rq) : rq[i] \in RecvCommand
  BY ElementOfSeq DEF QueuesOK
<1>2. \A i \in 1 .. Len(sq) : sq[i] \in SendCommand
  BY ElementOfSeq DEF QueuesOK
<1>3. \A e \in RecvCommand : e.by \in Apps \cup {None} /\ e.kind \in RecvKinds
  BY DEF RecvCommand
<1>4. \A e \in SendCommand : e.by \in Apps \cup {None} /\ e.kind \in SendKinds
  BY DEF SendCommand
<1>5. QED
  BY <1>1, <1>2, <1>3, <1>4

(* A thread goes on. *)
LEMMA AppGoes ==
  ASSUME AtOK, NEW t \in Apps, NEW v \in AppAt, at' = [at EXCEPT ![t] = v]
  PROVE  AtOK' /\ at'[t] = v /\ at'[Recv] = at[Recv] /\ at'[Send] = at[Send]
         /\ \A u \in Threads : u # t => at'[u] = at[u]
BY ThreadsAre DEF AtOK

LEMMA RecvGoes ==
  ASSUME AtOK, NEW v \in RecvAt, at' = [at EXCEPT ![Recv] = v]
  PROVE  AtOK' /\ at'[Recv] = v /\ at'[Send] = at[Send] /\ \A t \in Apps : at'[t] = at[t]
BY ThreadsAre DEF AtOK

LEMMA SendGoes ==
  ASSUME AtOK, NEW v \in SendAt, at' = [at EXCEPT ![Send] = v]
  PROVE  AtOK' /\ at'[Send] = v /\ at'[Recv] = at[Recv] /\ \A t \in Apps : at'[t] = at[t]
BY ThreadsAre DEF AtOK

(* An application is answered. *)
LEMMA Answered ==
  ASSUME AtOK, NEW by \in Apps \cup {None}, NEW kind, by # None => at[by] = <<kind, "response">>
  PROVE  /\ Answer(by) \in [Threads -> AppAt \cup RecvAt \cup SendAt]
         /\ \A t \in Apps : Answer(by)[t] \in AppAt
         /\ Answer(by)[Recv] = at[Recv] /\ Answer(by)[Send] = at[Send]
         /\ \A t \in Apps : t # by => Answer(by)[t] = at[t]
         /\ by # None => Answer(by)[by] \in {Idle, <<"read", "unlock">>}
         /\ by # None /\ kind = "read" => Answer(by)[by] = <<"read", "unlock">>
<1>1. CASE by = None
  BY <1>1, ThreadsAre DEF Answer, AtOK
<1>2. CASE by # None
  <2>1. by \in Apps /\ at[by] = <<kind, "response">> /\ at[by][1] = kind
    BY <1>2
  <2> DEFINE v == IF at[by][1] = "read" THEN <<"read", "unlock">> ELSE Idle
  <2>2. v \in AppAt /\ v \in {Idle, <<"read", "unlock">>} /\ (kind = "read" => v = <<"read", "unlock">>)
    BY <2>1 DEF AppAt
  <2>3. Answer(by) = [at EXCEPT ![by] = v]
    BY <1>2 DEF Answer
  <2> HIDE DEF v
  <2>4. QED
    BY <1>2, <2>1, <2>2, <2>3, ThreadsAre DEF AtOK
<1>3. QED
  BY <1>1, <1>2

(* Queues: a command more, the head taken. *)
LEMMA Grown ==
  ASSUME NEW S, NEW q \in Seq(S), NEW e \in S
  PROVE  /\ Append(q, e) \in Seq(S) /\ Len(Append(q, e)) = Len(q) + 1 /\ Len(q) \in Nat
         /\ Append(q, e) # <<>> /\ Append(q, e)[Len(q) + 1] = e
         /\ \A i \in 1 .. Len(q) : Append(q, e)[i] = q[i]
         /\ \A i \in 1 .. Len(q) : q[i] \in S
         /\ q # <<>> => Head(Append(q, e)) = Head(q)
         /\ q = <<>> => Head(Append(q, e)) = e
<1>1. /\ Append(q, e) \in Seq(S) /\ Len(Append(q, e)) = Len(q) + 1 /\ Len(q) \in Nat
      /\ Append(q, e) # <<>> /\ Append(q, e)[Len(q) + 1] = e
      /\ \A i \in 1 .. Len(q) : Append(q, e)[i] = q[i]
  BY AppendProperties, LenProperties
<1>2. \A i \in 1 .. Len(q) : q[i] \in S
  BY ElementOfSeq
<1>3. Head(Append(q, e)) = IF Len(q) = 0 THEN e ELSE Head(q)
  BY HeadTailAppend, EmptySeq
<1>4. q = <<>> <=> Len(q) = 0
  BY EmptySeq
<1>5. QED
  BY <1>1, <1>2, <1>3, <1>4

LEMMA Shrunk ==
  ASSUME NEW S, NEW q \in Seq(S), q # <<>>
  PROVE  /\ Tail(q) \in Seq(S) /\ Len(Tail(q)) = Len(q) - 1 /\ Len(q) \in Nat /\ Len(q) >= 1
         /\ Head(q) = q[1] /\ Head(q) \in S
         /\ \A i \in 1 .. Len(Tail(q)) : Tail(q)[i] = q[i + 1] /\ i + 1 \in 1 .. Len(q)
         /\ \A i \in 1 .. Len(q) : q[i] \in S
<1>1. /\ Tail(q) \in Seq(S) /\ Len(Tail(q)) = Len(q) - 1 /\ Len(q) \in Nat /\ Len(q) > 0
      /\ Head(q) = q[1] /\ Head(q) \in S
      /\ \A i \in 1 .. Len(Tail(q)) : Tail(q)[i] = q[i + 1]
  BY HeadTailProperties, LenProperties, EmptySeq
<1>2. \A i \in 1 .. Len(q) : q[i] \in S
  BY ElementOfSeq
<1>3. Len(q) >= 1 /\ \A i \in 1 .. Len(Tail(q)) : i + 1 \in 1 .. Len(q)
  BY <1>1
<1>4. QED
  BY <1>1, <1>2, <1>3

LEMMA WaitsGrown ==
  ASSUME NEW S, NEW q \in Seq(S), NEW e \in S, OneEach(q),
         e.by # None => \A i \in 1 .. Len(q) : q[i].by # e.by
  PROVE  OneEach(Append(q, e))
<1> DEFINE r == Append(q, e)
<1>1. /\ Len(r) = Len(q) + 1 /\ Len(q) \in Nat /\ r[Len(q) + 1] = e
      /\ \A i \in 1 .. Len(q) : r[i] = q[i]
  BY Grown
<1> HIDE DEF r
<1>2. \A i \in 1 .. Len(r) : i \in 1 .. Len(q) \/ i = Len(q) + 1
  BY <1>1
<1>3. QED
  BY <1>1, <1>2 DEF OneEach, r

LEMMA WaitsShrunk ==
  ASSUME NEW S, NEW q \in Seq(S), q # <<>>, OneEach(q)
  PROVE  /\ OneEach(Tail(q))
         /\ \A i \in 1 .. Len(Tail(q)) : Tail(q)[i].by # None => Tail(q)[i].by # Head(q).by
<1> DEFINE r == Tail(q)
<1>1. /\ Len(r) = Len(q) - 1 /\ Len(q) \in Nat /\ Len(q) >= 1 /\ Head(q) = q[1]
      /\ \A i \in 1 .. Len(r) : r[i] = q[i + 1] /\ i + 1 \in 1 .. Len(q)
  BY Shrunk
<1> HIDE DEF r
<1>2. OneEach(r)
  <2>1. SUFFICES ASSUME NEW i \in 1 .. Len(r), NEW j \in 1 .. Len(r), r[i].by = r[j].by, r[i].by # None
                 PROVE  i = j
    BY DEF OneEach
  <2>2. i + 1 = j + 1
    BY <1>1, <2>1 DEF OneEach
  <2>3. QED
    BY <2>2
<1>3. ASSUME NEW i \in 1 .. Len(r), r[i].by # None PROVE r[i].by # Head(q).by
  <2>1. i + 1 \in 1 .. Len(q) /\ 1 \in 1 .. Len(q) /\ r[i] = q[i + 1] /\ i + 1 # 1
    BY <1>1
  <2>2. QED
    BY <1>1, <1>3, <2>1 DEF OneEach
<1>4. QED
  BY <1>2, <1>3 DEF r

Base == Types /\ HeadIs /\ Owner /\ Waiting

(* A step of an application that neither sends a command nor is answered. *)
LEMMA BaseApp ==
  ASSUME Base, NEW t \in Apps, NEW v \in AppAt, at' = [at EXCEPT ![t] = v],
         at[t][2] # "response", v[2] # "response", UNCHANGED pipeVars,
         in_use' \in {in_use, None} \/ (in_use' = t /\ v \in Reading),
         in_use' = t => v \in Reading, BitsOK', RestOK'
  PROVE  Base'
<1>1. /\ AtOK' /\ at'[t] = v /\ at'[Recv] = at[Recv] /\ at'[Send] = at[Send]
      /\ \A u \in Apps : u # t => at'[u] = at[u]
      /\ rq' = rq /\ sq' = sq
  BY AppGoes, ThreadsAre DEF Base, Types, pipeVars
<1>2. Types'
  BY <1>1 DEF Base, Types, QueuesOK
<1>3. HeadIs'
  BY <1>1 DEF Base, HeadIs
<1>4. Owner'
  <2>1. CASE in_use' = t
    BY <1>1, <2>1 DEF Owner
  <2>2. CASE in_use' # t
    BY <1>1, <2>2, ThreadsAre DEF Base, Owner
  <2>3. QED
    BY <2>1, <2>2
<1>5. Waiting'
  <2>1. OneEach(rq)' /\ OneEach(sq)'
    BY <1>1 DEF Base, Waiting, OneEach
  <2>3. Waits(rq)' /\ Waits(sq)'
    <3>1. /\ \A i \in 1 .. Len(rq) : rq[i].by \in Apps \cup {None}
          /\ \A i \in 1 .. Len(sq) : sq[i].by \in Apps \cup {None}
      BY QueuedAre DEF Base, Types
    <3>2. /\ \A i \in 1 .. Len(rq) : rq[i].by # None => at[rq[i].by] = <<rq[i].kind, "response">>
          /\ \A i \in 1 .. Len(sq) : sq[i].by # None => at[sq[i].by] = <<sq[i].kind, "response">>
      BY DEF Base, Waiting, Waits
    <3>3. ASSUME NEW i \in 1 .. Len(rq), rq[i].by # None
          PROVE  at'[rq[i].by] = <<rq[i].kind, "response">>
      <4>1. at[rq[i].by] = <<rq[i].kind, "response">> /\ rq[i].by \in Apps
        BY <3>1, <3>2, <3>3
      <4>2. at[rq[i].by][2] = "response"
        BY <4>1
      <4>3. at'[rq[i].by] = at[rq[i].by]
        BY <1>1, <4>1, <4>2
      <4>4. QED
        BY <4>1, <4>3
    <3>4. ASSUME NEW i \in 1 .. Len(sq), sq[i].by # None
          PROVE  at'[sq[i].by] = <<sq[i].kind, "response">>
      <4>1. at[sq[i].by] = <<sq[i].kind, "response">> /\ sq[i].by \in Apps
        BY <3>1, <3>2, <3>4
      <4>2. at[sq[i].by][2] = "response"
        BY <4>1
      <4>3. at'[sq[i].by] = at[sq[i].by]
        BY <1>1, <4>1, <4>2
      <4>4. QED
        BY <4>1, <4>3
    <3>5. QED
      BY <1>1, <3>3, <3>4 DEF Waits
  <2>4. \A u \in Apps : at'[u] = <<"read", "response">> => at[u] = <<"read", "response">>
    BY <1>1
  <2>5. QED
    BY <1>1, <2>1, <2>3, <2>4 DEF Base, Waiting
<1>6. QED
  BY <1>2, <1>3, <1>4, <1>5 DEF Base

LEMMA WaitingFrame ==
  ASSUME Base, UNCHANGED pipeVars, \A t \in Apps : at'[t] = at[t]
  PROVE  Waiting'
<1>1. rq' = rq /\ sq' = sq
  BY DEF pipeVars
<1>2. OneEach(rq)' /\ OneEach(sq)'
  BY <1>1 DEF Base, Waiting, OneEach
<1>3. \A i \in 1 .. Len(rq) : rq[i].by \in Apps \cup {None}
  BY QueuedAre DEF Base, Types
<1>4. \A i \in 1 .. Len(sq) : sq[i].by \in Apps \cup {None}
  BY QueuedAre DEF Base, Types
<1>5. Waits(rq)' /\ Waits(sq)'
  BY <1>1, <1>3, <1>4 DEF Base, Waiting, Waits
<1>6. QED
  BY <1>1, <1>2, <1>5 DEF Base, Waiting

(* A step of the receive thread that leaves the queues alone. *)
LEMMA BaseRecv ==
  ASSUME Base, NEW v \in RecvAt, at' = [at EXCEPT ![Recv] = v], UNCHANGED pipeVars,
         in_use' = in_use \/ in_use' \in {Recv, None},
         v # Idle /\ v[2] # "end" =>
           /\ rq # <<>> /\ Head(rq).kind = IF v[1] \in {"connected", "failed"} THEN "connect" ELSE v[1],
         BitsOK', RestOK'
  PROVE  Base'
<1>1. /\ AtOK' /\ at'[Recv] = v /\ at'[Send] = at[Send] /\ \A u \in Apps : at'[u] = at[u]
      /\ rq' = rq /\ sq' = sq
  BY RecvGoes DEF Base, Types, pipeVars
<1>2. Types'
  BY <1>1 DEF Base, Types, QueuesOK
<1>3. HeadIs'
  BY <1>1 DEF Base, HeadIs
<1>4. Owner'
  BY <1>1, ThreadsAre DEF Base, Owner
<1>5. Waiting'
  BY <1>1, WaitingFrame
<1>6. QED
  BY <1>2, <1>3, <1>4, <1>5 DEF Base

(* And of the send thread. *)
LEMMA BaseSend ==
  ASSUME Base, NEW v \in SendAt, at' = [at EXCEPT ![Send] = v], UNCHANGED <<rq, sq, in_use>>,
         v[1] = "write" => sq # <<>> /\ Head(sq).kind = "write",
         BitsOK', RestOK'
  PROVE  Base'
<1>1. AtOK' /\ at'[Send] = v /\ at'[Recv] = at[Recv] /\ \A u \in Apps : at'[u] = at[u]
  BY SendGoes DEF Base, Types
<1>2. Types'
  BY <1>1 DEF Base, Types, QueuesOK
<1>3. HeadIs'
  BY <1>1 DEF Base, HeadIs
<1>4. Owner'
  BY <1>1 DEF Base, Owner
<1>5. Waiting'
  BY <1>1, WaitingFrame DEF pipeVars
<1>6. QED
  BY <1>2, <1>3, <1>4, <1>5 DEF Base

(* Loads and stores keep bits what they are. *)
LEMMA BitsStay ==
  ASSUME BitsOK, NEW t \in Threads
  PROVE  /\ UNCHANGED bitVars => BitsOK'
         /\ Load(t) => BitsOK'
         /\ \A del, add \in SUBSET Bits : Store(t, del, add) => BitsOK'
BY DEF BitsOK, bitVars, Load, Store

LEMMA BitSets ==
  /\ Joined \in SUBSET Bits /\ Joined \cup {"CLOSING"} \in SUBSET Bits /\ {} \in SUBSET Bits
  /\ \A b \in Bits : {b} \in SUBSET Bits
  /\ {"CLOSING", "WAIT_CLOSE"} \in SUBSET Bits
BY DEF Joined, Bits

LEMMA BaseCall ==
  ASSUME Base, NEW t \in Apps, NEW o \in Calls, Call(t, o)
  PROVE  Base'
<1> DEFINE v == <<o, CASE o \in {"ssl", "write"} -> "exec" [] o = "read" -> "in_use" [] OTHER -> "load">>
<1>1. v \in AppAt /\ v[2] # "response"
  BY DEF AppAt, Shared, Calls
<1>2. at[t] = Idle /\ at' = [at EXCEPT ![t] = v] /\ UNCHANGED <<bitVars, in_use, pipeVars, cpsVars, restVars, race>>
  BY DEF Call, Go
<1> HIDE DEF v
<1>3. BitsOK' /\ RestOK'
  BY <1>2, BitsStay, ThreadsAre DEF Base, Types, RestOK, cpsVars, restVars
<1>4. at[t][2] # "response" /\ in_use' # t
  BY <1>2 DEF Idle, Base, Owner, Reading
<1>5. QED
  BY <1>1, <1>2, <1>3, <1>4, BaseApp

LEMMA BaseLoad == ASSUME Base, NEW t \in Apps, LoadInCall(t) PROVE Base'
<1>1. at[t] \in AppAt /\ at[t][2] = "load" /\ at[t][1] \in Shared
  BY AppAtIs DEF LoadInCall, Base, Types, AtOK
<1>2. PICK v \in {<<at[t][1], "store">>, Idle} : at' = [at EXCEPT ![t] = v]
  BY DEF LoadInCall, Go, Return
<1>3. v \in AppAt /\ v[2] # "response"
  BY <1>1, <1>2 DEF AppAt, Idle
<1>4. UNCHANGED <<in_use, pipeVars, cpsVars, restVars>> /\ BitsOK'
  BY BitsStay, ThreadsAre DEF LoadInCall, Base, Types
<1>5. RestOK'
  BY <1>4 DEF Base, Types, RestOK, cpsVars, restVars
<1>6. in_use' # t
  BY <1>1, <1>4 DEF Base, Owner, Reading
<1>7. QED
  BY <1>1, <1>2, <1>3, <1>4, <1>5, <1>6, BaseApp

LEMMA BaseStore == ASSUME Base, NEW t \in Apps, StoreInCall(t) PROVE Base'
<1>1. at[t] \in AppAt /\ at[t][2] = "store" /\ at[t][1] \in Shared
  BY AppAtIs DEF StoreInCall, Base, Types, AtOK
<1>2. PICK v \in {<<at[t][1], "exec">>, <<at[t][1], "null">>, Idle} :
        /\ at' = [at EXCEPT ![t] = v]
        /\ v[2] = "exec" => at[t][1] # "poll"
        /\ v[2] = "null" => at[t][1] = "close"
  BY <1>1 DEF StoreInCall, Go, Return, Idle
<1>3. v \in AppAt /\ v[2] # "response"
  BY <1>1, <1>2 DEF AppAt, Idle, Shared, Calls
<1>4. \E del, add \in SUBSET Bits : Store(t, del, add)
  <2>1. \/ Store(t, Joined, {}) \/ Store(t, {}, {"CLOSING"}) \/ Store(t, {}, {"CLOSING", "WAIT_CLOSE"})
        \/ Store(t, {}, {"CONNECTING"})
    BY <1>1 DEF StoreInCall
  <2>2. QED
    BY <2>1, BitSets DEF Bits
<1>5. UNCHANGED <<in_use, pipeVars, cpsVars, restVars>> /\ BitsOK'
  BY <1>4, BitsStay, ThreadsAre DEF StoreInCall, Base, Types
<1>6. RestOK'
  BY <1>5 DEF Base, Types, RestOK, cpsVars, restVars
<1>7. in_use' # t
  BY <1>1, <1>5 DEF Base, Owner, Reading
<1>8. QED
  BY <1>1, <1>2, <1>3, <1>5, <1>6, <1>7, BaseApp

LEMMA BaseRefused == ASSUME Base, NEW t \in Apps, ExecRefused(t) PROVE Base'
<1>1. at[t] \in AppAt /\ at[t][2] = "exec" /\ at[t][1] # "read"
  BY DEF ExecRefused, Base, Types, AtOK, Blocks
<1>2. at' = [at EXCEPT ![t] = Idle] /\ Idle \in AppAt /\ Idle[2] # "response"
  BY DEF ExecRefused, Return, AppAt, Idle
<1>3. UNCHANGED <<in_use, pipeVars, cpsVars, restVars, bitVars>>
  BY DEF ExecRefused
<1>4. RestOK' /\ BitsOK'
  BY <1>3, BitsStay, ThreadsAre DEF Base, Types, RestOK, cpsVars, restVars
<1>5. in_use' # t
  BY <1>1, <1>3 DEF Base, Owner, Reading
<1>6. QED
  BY <1>1, <1>2, <1>3, <1>4, <1>5, BaseApp

LEMMA BaseLockToRead == ASSUME Base, NEW t \in Apps, LockToRead(t) PROVE Base'
<1>1. at[t] = <<"read", "in_use">> /\ UNCHANGED <<bitVars, pipeVars, cpsVars, restVars>>
  BY DEF LockToRead
<1>2. in_use # t
  BY <1>1 DEF Base, Owner, Reading
<1>3. CASE in_use = None
  <2>1. in_use' = t /\ at' = [at EXCEPT ![t] = <<"read", "copy">>]
    BY <1>3 DEF LockToRead, Go
  <2>2. <<"read", "copy">> \in AppAt /\ <<"read", "copy">> \in Reading /\ <<"read", "copy">>[2] # "response"
    BY DEF AppAt, Reading
  <2>3. RestOK' /\ BitsOK'
    BY <1>1, <2>1, BitsStay, ThreadsAre DEF Base, Types, RestOK, cpsVars, restVars
  <2>4. at[t][2] # "response"
    BY <1>1
  <2>5. QED
    BY <1>1, <2>1, <2>2, <2>3, <2>4, BaseApp
<1>4. CASE in_use # None
  <2>1. in_use' = in_use /\ at' = [at EXCEPT ![t] = Idle]
    BY <1>4 DEF LockToRead, Return
  <2>2. Idle \in AppAt /\ Idle[2] # "response"
    BY DEF AppAt, Idle
  <2>3. RestOK' /\ BitsOK'
    BY <1>1, <2>1, BitsStay, ThreadsAre DEF Base, Types, RestOK, cpsVars, restVars
  <2>4. at[t][2] # "response"
    BY <1>1
  <2>5. QED
    BY <1>1, <1>2, <2>1, <2>2, <2>3, <2>4, BaseApp
<1>5. QED
  BY <1>3, <1>4

LEMMA BaseCopy == ASSUME Base, NEW t \in Apps, CopyCPSBuffer(t) PROVE Base'
<1>1. at[t] = <<"read", "copy">> /\ UNCHANGED <<reg, in_use, pipeVars, fin, restVars>>
  BY DEF CopyCPSBuffer
<1>2. PICK v \in {<<"read", "exec">>, <<"read", "unlock">>} : at' = [at EXCEPT ![t] = v]
  BY DEF CopyCPSBuffer, Go
<1>3. v \in AppAt /\ v[2] # "response" /\ v \in Reading /\ at[t][2] # "response"
  BY <1>1, <1>2 DEF AppAt, Reading, Calls
<1>4. BitsOK'
  BY <1>1 DEF CopyCPSBuffer, Base, Types, BitsOK
<1>5. RestOK'
  BY <1>1 DEF CopyCPSBuffer, Base, Types, RestOK, restVars
<1>6. QED
  BY <1>1, <1>2, <1>3, <1>4, <1>5, BaseApp

LEMMA BaseUnlockReader == ASSUME Base, NEW t \in Apps, UnlockReader(t) PROVE Base'
<1>1. at[t] = <<"read", "unlock">> /\ UNCHANGED <<bitVars, pipeVars, cpsVars, restVars>> /\ in_use' = None
  BY DEF UnlockReader
<1>2. at' = [at EXCEPT ![t] = Idle] /\ Idle \in AppAt /\ Idle[2] # "response"
  BY DEF UnlockReader, Return, AppAt, Idle
<1>3. RestOK' /\ BitsOK'
  BY <1>1, BitsStay, ThreadsAre DEF Base, Types, RestOK, cpsVars, restVars
<1>4. at[t][2] # "response" /\ in_use' # t
  BY <1>1, ThreadsAre
<1>5. QED
  BY <1>1, <1>2, <1>3, <1>4, BaseApp

(* Nobody waits in both queues. *)
LEMMA WaitsApart ==
  ASSUME Base
  PROVE  /\ \A i \in 1 .. Len(rq) : rq[i].by # None =>
              /\ rq[i].by \in Apps /\ at[rq[i].by] = <<rq[i].kind, "response">>
              /\ rq[i].kind \in {"connect", "accept", "ssl", "read"}
         /\ \A i \in 1 .. Len(sq) : sq[i].by # None =>
              /\ sq[i].by \in Apps /\ at[sq[i].by] = <<sq[i].kind, "response">>
              /\ sq[i].kind = "shutdown"
         /\ \A i \in 1 .. Len(rq), j \in 1 .. Len(sq) : rq[i].by # None => rq[i].by # sq[j].by
<1>1. ASSUME NEW i \in 1 .. Len(rq), rq[i].by # None
      PROVE  /\ rq[i].by \in Apps /\ at[rq[i].by] = <<rq[i].kind, "response">>
             /\ rq[i].kind \in {"connect", "accept", "ssl", "read"}
  <2>1. rq[i].by \in Apps /\ at[rq[i].by] = <<rq[i].kind, "response">> /\ rq[i].kind \in RecvKinds
    BY <1>1, QueuedAre DEF Base, Types, Waiting, Waits
  <2>2. at[rq[i].by][2] = "response" /\ at[rq[i].by][1] = rq[i].kind
    BY <2>1
  <2>3. rq[i].kind \in Calls \ {"poll", "write", "close"}
    BY <2>1, <2>2, AppAtIs DEF Base, Types, AtOK
  <2>4. QED
    BY <2>1, <2>3 DEF Calls, RecvKinds
<1>2. ASSUME NEW i \in 1 .. Len(sq), sq[i].by # None
      PROVE  /\ sq[i].by \in Apps /\ at[sq[i].by] = <<sq[i].kind, "response">>
             /\ sq[i].kind = "shutdown"
  <2>1. sq[i].by \in Apps /\ at[sq[i].by] = <<sq[i].kind, "response">> /\ sq[i].kind \in SendKinds
    BY <1>2, QueuedAre DEF Base, Types, Waiting, Waits
  <2>2. at[sq[i].by][2] = "response" /\ at[sq[i].by][1] = sq[i].kind
    BY <2>1
  <2>3. sq[i].kind \in Calls \ {"poll", "write", "close"}
    BY <2>1, <2>2, AppAtIs DEF Base, Types, AtOK
  <2>4. QED
    BY <2>1, <2>3 DEF Calls, SendKinds
<1>3. ASSUME NEW i \in 1 .. Len(rq), NEW j \in 1 .. Len(sq), rq[i].by # None, rq[i].by = sq[j].by PROVE FALSE
  <2>1. at[rq[i].by][1] = rq[i].kind /\ at[sq[j].by][1] = sq[j].kind
    BY <1>1, <1>2, <1>3
  <2>2. QED
    BY <1>1, <1>2, <1>3, <2>1
<1>4. QED
  BY <1>1, <1>2, <1>3

(* The receive pipe's head is answered, or the send pipe's. *)
LEMMA AnswerRecv ==
  ASSUME Base, rq # <<>>, rq' = Tail(rq), sq' = sq,
         \A t \in Apps : at'[t] = Answer(Head(rq).by)[t]
  PROVE  /\ Waiting' /\ QueuesOK' /\ \A t \in Apps : at'[t] \in AppAt
         /\ \A t \in Apps : at'[t] # at[t] => /\ at[t][2] = "response" /\ at'[t] \in {Idle, <<"read", "unlock">>}
                                              /\ (at[t] \in Reading => at'[t] \in Reading)
<1> DEFINE e == Head(rq)
<1>1. /\ rq' \in Seq(RecvCommand) /\ Len(rq') = Len(rq) - 1 /\ Len(rq) \in Nat /\ Len(rq) >= 1
      /\ e = rq[1] /\ e \in RecvCommand
      /\ \A i \in 1 .. Len(rq') : rq'[i] = rq[i + 1] /\ i + 1 \in 1 .. Len(rq)
      /\ Len(rq') <= RecvMax
  <2>1. rq \in Seq(RecvCommand) /\ Len(rq) <= RecvMax /\ RecvMax \in Nat
    BY ThreadsAre DEF Base, Types, QueuesOK
  <2>2. QED
    BY <2>1, Shrunk
<1>2. 1 \in 1 .. Len(rq)
  BY <1>1
<1>3. e.by \in Apps \cup {None} /\ (e.by # None => at[e.by] = <<e.kind, "response">>)
  BY <1>1, <1>2, WaitsApart DEF RecvCommand
<1>4. /\ \A t \in Apps : at'[t] \in AppAt
      /\ \A t \in Apps : t # e.by => at'[t] = at[t]
      /\ e.by # None => at'[e.by] \in {Idle, <<"read", "unlock">>}
      /\ e.by # None /\ e.kind = "read" => at'[e.by] = <<"read", "unlock">>
  BY <1>3, Answered DEF Base, Types
<1>5. OneEach(rq') /\ \A i \in 1 .. Len(rq') : rq'[i].by # None => rq'[i].by # e.by
  BY WaitsShrunk DEF Base, Types, QueuesOK, Waiting
<1> HIDE DEF e
<1>6. Waits(rq)'
  <2>1. ASSUME NEW i \in 1 .. Len(rq'), rq'[i].by # None
        PROVE  at'[rq'[i].by] = <<rq'[i].kind, "response">>
    <3>1. rq[i + 1].by \in Apps /\ at[rq[i + 1].by] = <<rq[i + 1].kind, "response">>
      BY <1>1, <2>1, WaitsApart
    <3>2. rq[i + 1].by # e.by
      BY <1>1, <1>5, <2>1
    <3>3. QED
      BY <1>1, <1>4, <2>1, <3>1, <3>2
  <2>2. QED
    BY <2>1 DEF Waits
<1>7. Waits(sq)' /\ OneEach(sq)'
  <2>1. ASSUME NEW i \in 1 .. Len(sq), sq[i].by # None
        PROVE  at'[sq[i].by] = <<sq[i].kind, "response">>
    <3>1. sq[i].by \in Apps /\ at[sq[i].by] = <<sq[i].kind, "response">> /\ sq[i].by # e.by
      BY <1>1, <1>2, <1>3, <2>1, WaitsApart
    <3>2. QED
      BY <1>4, <3>1
  <2>2. QED
    BY <2>1 DEF Waits, Base, Waiting, OneEach
<1>8. \A t \in Apps : at'[t] = <<"read", "response">> =>
        \E i \in 1 .. Len(rq') : rq'[i].by = t /\ rq'[i].kind = "read"
  <2>1. SUFFICES ASSUME NEW t \in Apps, at'[t] = <<"read", "response">>
                 PROVE  \E i \in 1 .. Len(rq') : rq'[i].by = t /\ rq'[i].kind = "read"
    OBVIOUS
  <2>2. t # e.by
    BY <1>4, <2>1, ThreadsAre DEF Idle
  <2>3. PICK i \in 1 .. Len(rq) : rq[i].by = t /\ rq[i].kind = "read"
    BY <1>4, <2>1, <2>2 DEF Base, Waiting
  <2>4. i # 1
    BY <1>1, <2>2, <2>3
  <2>5. i - 1 \in 1 .. Len(rq') /\ (i - 1) + 1 = i
    BY <1>1, <2>3, <2>4
  <2>6. rq'[i - 1] = rq[i]
    BY <1>1, <2>5
  <2>7. QED
    BY <2>3, <2>5, <2>6
<1>9. Waiting'
  BY <1>5, <1>6, <1>7, <1>8 DEF Waiting
<1>10. QueuesOK'
  BY <1>1 DEF Base, Types, QueuesOK
<1>11. ASSUME NEW t \in Apps, at'[t] # at[t]
       PROVE  /\ at[t][2] = "response" /\ at'[t] \in {Idle, <<"read", "unlock">>}
              /\ (at[t] \in Reading => at'[t] \in Reading)
  <2>1. t = e.by /\ at[t] = <<e.kind, "response">> /\ at[t][2] = "response" /\ at'[t] \in {Idle, <<"read", "unlock">>}
    BY <1>3, <1>4, <1>11, ThreadsAre
  <2>2. at[t] \in Reading => e.kind = "read"
    BY <2>1 DEF Reading
  <2>3. QED
    BY <1>4, <2>1, <2>2, ThreadsAre DEF Reading
<1>12. QED
  BY <1>4, <1>9, <1>10, <1>11

LEMMA AnswerSend ==
  ASSUME Base, sq # <<>>, sq' = Tail(sq), rq' = rq,
         \A t \in Apps : at'[t] = Answer(Head(sq).by)[t]
  PROVE  /\ Waiting' /\ QueuesOK' /\ \A t \in Apps : at'[t] \in AppAt
         /\ \A t \in Apps : at'[t] # at[t] => at[t] = <<"shutdown", "response">> /\ at'[t] \in {Idle, <<"read", "unlock">>}
<1> DEFINE e == Head(sq)
<1>1. /\ sq' \in Seq(SendCommand) /\ Len(sq') = Len(sq) - 1 /\ Len(sq) \in Nat /\ Len(sq) >= 1
      /\ e = sq[1] /\ e \in SendCommand
      /\ \A i \in 1 .. Len(sq') : sq'[i] = sq[i + 1] /\ i + 1 \in 1 .. Len(sq)
      /\ Len(sq') <= SendMax
  <2>1. sq \in Seq(SendCommand) /\ Len(sq) <= SendMax /\ SendMax \in Nat
    BY ThreadsAre DEF Base, Types, QueuesOK
  <2>2. QED
    BY <2>1, Shrunk
<1>2. 1 \in 1 .. Len(sq)
  BY <1>1
<1>3. /\ e.by \in Apps \cup {None} /\ (e.by # None => at[e.by] = <<e.kind, "response">>)
      /\ e.by # None => e.kind = "shutdown"
  BY <1>1, <1>2, WaitsApart DEF SendCommand
<1>4. /\ \A t \in Apps : at'[t] \in AppAt
      /\ \A t \in Apps : t # e.by => at'[t] = at[t]
      /\ e.by # None => at'[e.by] \in {Idle, <<"read", "unlock">>}
  BY <1>3, Answered DEF Base, Types
<1>5. OneEach(sq') /\ \A i \in 1 .. Len(sq') : sq'[i].by # None => sq'[i].by # e.by
  BY WaitsShrunk DEF Base, Types, QueuesOK, Waiting
<1> HIDE DEF e
<1>6. Waits(sq)'
  <2>1. ASSUME NEW i \in 1 .. Len(sq'), sq'[i].by # None
        PROVE  at'[sq'[i].by] = <<sq'[i].kind, "response">>
    <3>1. sq[i + 1].by \in Apps /\ at[sq[i + 1].by] = <<sq[i + 1].kind, "response">>
      BY <1>1, <2>1, WaitsApart
    <3>2. sq[i + 1].by # e.by
      BY <1>1, <1>5, <2>1
    <3>3. QED
      BY <1>1, <1>4, <2>1, <3>1, <3>2
  <2>2. QED
    BY <2>1 DEF Waits
<1>7. Waits(rq)' /\ OneEach(rq)'
  <2>1. ASSUME NEW i \in 1 .. Len(rq), rq[i].by # None
        PROVE  at'[rq[i].by] = <<rq[i].kind, "response">>
    <3>1. rq[i].by \in Apps /\ at[rq[i].by] = <<rq[i].kind, "response">> /\ rq[i].by # e.by
      BY <1>1, <1>2, <1>3, <2>1, WaitsApart
    <3>2. QED
      BY <1>4, <3>1
  <2>2. QED
    BY <2>1 DEF Waits, Base, Waiting, OneEach
<1>8. \A t \in Apps : at'[t] = <<"read", "response">> => at[t] = <<"read", "response">>
  BY <1>4, ThreadsAre DEF Idle
<1>9. Waiting'
  BY <1>5, <1>6, <1>7, <1>8 DEF Base, Waiting
<1>10. QueuesOK'
  BY <1>1 DEF Base, Types, QueuesOK
<1>11. \A t \in Apps : at'[t] # at[t] =>
         at[t] = <<"shutdown", "response">> /\ at'[t] \in {Idle, <<"read", "unlock">>}
  BY <1>3, <1>4, ThreadsAre
<1>12. QED
  BY <1>4, <1>9, <1>10, <1>11

(* A command is queued, by nobody or by the one who goes to wait for it. *)
LEMMA WaitingRecvGrown ==
  ASSUME Base, NEW e \in RecvCommand, rq' = Append(rq, e), Len(rq) < RecvMax, sq' = sq,
         e.by # None => at'[e.by] = <<e.kind, "response">> /\ at[e.by][2] # "response",
         \A t \in Apps : at'[t] # at[t] => at[t][2] # "response" /\ (at'[t][2] = "response" => t = e.by)
  PROVE  Waiting' /\ QueuesOK'
<1>1. rq \in Seq(RecvCommand) /\ sq \in Seq(SendCommand) /\ Len(rq) \in Nat /\ RecvMax \in Nat
  BY LenProperties, ThreadsAre DEF Base, Types, QueuesOK
<1>2. /\ rq' \in Seq(RecvCommand) /\ Len(rq') = Len(rq) + 1 /\ rq'[Len(rq) + 1] = e
      /\ \A i \in 1 .. Len(rq) : rq'[i] = rq[i]
  BY <1>1, Grown
<1>3. ASSUME NEW i \in 1 .. Len(rq), rq[i].by # None
      PROVE  at'[rq[i].by] = <<rq[i].kind, "response">> /\ rq[i].by # e.by
  <2>1. rq[i].by \in Apps /\ at[rq[i].by] = <<rq[i].kind, "response">>
    BY <1>3, WaitsApart
  <2>2. at[rq[i].by][2] = "response"
    BY <2>1
  <2>3. QED
    BY <1>3, <2>1, <2>2
<1>4. OneEach(rq)'
  <2>1. e.by # None => \A i \in 1 .. Len(rq) : rq[i].by # e.by
    BY <1>3
  <2>2. QED
    BY <1>1, <2>1, WaitsGrown DEF Base, Waiting
<1>5. Waits(rq)'
  <2>1. ASSUME NEW i \in 1 .. Len(rq'), rq'[i].by # None
        PROVE  at'[rq'[i].by] = <<rq'[i].kind, "response">>
    <3>1. CASE i = Len(rq) + 1
      BY <1>2, <2>1, <3>1
    <3>2. CASE i # Len(rq) + 1
      <4>1. i \in 1 .. Len(rq)
        BY <1>1, <1>2, <3>2
      <4>2. rq'[i] = rq[i]
        BY <1>2, <4>1
      <4>3. QED
        BY <1>3, <2>1, <4>1, <4>2
    <3>3. QED
      BY <3>1, <3>2
  <2>2. QED
    BY <2>1 DEF Waits
<1>6. Waits(sq)' /\ OneEach(sq)'
  <2>1. ASSUME NEW i \in 1 .. Len(sq), sq[i].by # None
        PROVE  at'[sq[i].by] = <<sq[i].kind, "response">>
    <3>1. sq[i].by \in Apps /\ at[sq[i].by] = <<sq[i].kind, "response">>
      BY <2>1, WaitsApart
    <3>2. at[sq[i].by][2] = "response"
      BY <3>1
    <3>3. QED
      BY <3>1, <3>2
  <2>2. QED
    BY <2>1 DEF Base, Waiting, Waits, OneEach
<1>7. ASSUME NEW t \in Apps, at'[t] = <<"read", "response">>
      PROVE  \E i \in 1 .. Len(rq') : rq'[i].by = t /\ rq'[i].kind = "read"
  <2>1. CASE at'[t] = at[t]
    <3>1. PICK i \in 1 .. Len(rq) : rq[i].by = t /\ rq[i].kind = "read"
      BY <1>7, <2>1 DEF Base, Waiting
    <3>2. i \in 1 .. Len(rq') /\ rq'[i] = rq[i]
      BY <1>1, <1>2
    <3>3. QED
      BY <3>1, <3>2
  <2>2. CASE at'[t] # at[t]
    <3>1. at'[t][2] = "response" /\ at'[t][1] = "read"
      BY <1>7
    <3>2. t = e.by /\ t # None
      BY <2>2, <3>1, ThreadsAre
    <3>3. e.kind = "read"
      BY <3>1, <3>2
    <3>4. Len(rq) + 1 \in 1 .. Len(rq')
      BY <1>1, <1>2
    <3>5. QED
      BY <1>2, <3>2, <3>3, <3>4
  <2>3. QED
    BY <2>1, <2>2
<1>8. QueuesOK'
  BY <1>1, <1>2 DEF Base, Types, QueuesOK
<1>9. QED
  BY <1>4, <1>5, <1>6, <1>7, <1>8 DEF Waiting

(* A command is queued, by nobody or by the one who goes to wait for it. *)
LEMMA WaitingSendGrown ==
  ASSUME Base, NEW e \in SendCommand, sq' = Append(sq, e), Len(sq) < SendMax, rq' = rq,
         e.by # None => at'[e.by] = <<e.kind, "response">> /\ at[e.by][2] # "response",
         \A t \in Apps : at'[t] # at[t] => at[t][2] # "response" /\ (at'[t][2] = "response" => t = e.by)
  PROVE  Waiting' /\ QueuesOK'
<1>1. rq \in Seq(RecvCommand) /\ sq \in Seq(SendCommand) /\ Len(sq) \in Nat /\ SendMax \in Nat
  BY LenProperties, ThreadsAre DEF Base, Types, QueuesOK
<1>2. /\ sq' \in Seq(SendCommand) /\ Len(sq') = Len(sq) + 1 /\ sq'[Len(sq) + 1] = e
      /\ \A i \in 1 .. Len(sq) : sq'[i] = sq[i]
  BY <1>1, Grown
<1>3. ASSUME NEW i \in 1 .. Len(sq), sq[i].by # None
      PROVE  at'[sq[i].by] = <<sq[i].kind, "response">> /\ sq[i].by # e.by
  <2>1. sq[i].by \in Apps /\ at[sq[i].by] = <<sq[i].kind, "response">>
    BY <1>3, WaitsApart
  <2>2. at[sq[i].by][2] = "response"
    BY <2>1
  <2>3. QED
    BY <1>3, <2>1, <2>2
<1>4. OneEach(sq)'
  <2>1. e.by # None => \A i \in 1 .. Len(sq) : sq[i].by # e.by
    BY <1>3
  <2>2. QED
    BY <1>1, <2>1, WaitsGrown DEF Base, Waiting
<1>5. Waits(sq)'
  <2>1. ASSUME NEW i \in 1 .. Len(sq'), sq'[i].by # None
        PROVE  at'[sq'[i].by] = <<sq'[i].kind, "response">>
    <3>1. CASE i = Len(sq) + 1
      BY <1>2, <2>1, <3>1
    <3>2. CASE i # Len(sq) + 1
      <4>1. i \in 1 .. Len(sq)
        BY <1>1, <1>2, <3>2
      <4>2. sq'[i] = sq[i]
        BY <1>2, <4>1
      <4>3. QED
        BY <1>3, <2>1, <4>1, <4>2
    <3>3. QED
      BY <3>1, <3>2
  <2>2. QED
    BY <2>1 DEF Waits
<1>6. Waits(rq)' /\ OneEach(rq)'
  <2>1. ASSUME NEW i \in 1 .. Len(rq), rq[i].by # None
        PROVE  at'[rq[i].by] = <<rq[i].kind, "response">>
    <3>1. rq[i].by \in Apps /\ at[rq[i].by] = <<rq[i].kind, "response">>
      BY <2>1, WaitsApart
    <3>2. at[rq[i].by][2] = "response"
      BY <3>1
    <3>3. QED
      BY <3>1, <3>2
  <2>2. QED
    BY <2>1 DEF Base, Waiting, Waits, OneEach
<1>7. ASSUME NEW t \in Apps, at'[t] = <<"read", "response">>
      PROVE  \E i \in 1 .. Len(rq') : rq'[i].by = t /\ rq'[i].kind = "read"
  <2>1. CASE at'[t] = at[t]
    BY <1>7, <2>1 DEF Base, Waiting
  <2>2. CASE at'[t] # at[t]
    <3>1. at'[t][2] = "response" /\ at'[t][1] = "read"
      BY <1>7
    <3>2. t = e.by /\ t # None
      BY <2>2, <3>1, ThreadsAre
    <3>3. e.kind = "read"
      BY <3>1, <3>2
    <3>4. QED
      BY <3>3 DEF SendCommand, SendKinds
  <2>3. QED
    BY <2>1, <2>2
<1>8. QueuesOK'
  BY <1>1, <1>2 DEF Base, Types, QueuesOK
<1>9. QED
  BY <1>4, <1>5, <1>6, <1>7, <1>8 DEF Waiting


LEMMA BaseSendNull == ASSUME Base, NEW t \in Apps, SendNull(t) PROVE Base'
<1> DEFINE e == [kind |-> "null", by |-> None]
<1>1. /\ at[t] = <<"close", "null">> /\ at[t][2] # "response" /\ Len(sq) < SendMax /\ sq' = Append(sq, e)
      /\ at' = [at EXCEPT ![t] = <<"close", "exec">>]
      /\ UNCHANGED <<bitVars, in_use, rq, cpsVars, restVars>>
  BY DEF SendNull, Go
<1>2. e \in SendCommand /\ e.by = None
  BY DEF SendCommand, SendKinds
<1>3. <<"close", "exec">> \in AppAt /\ <<"close", "exec">>[2] # "response"
  BY DEF AppAt, Calls
<1>4. /\ AtOK' /\ at'[t] = <<"close", "exec">> /\ at'[Recv] = at[Recv] /\ at'[Send] = at[Send]
      /\ \A u \in Apps : u # t => at'[u] = at[u]
  BY <1>1, <1>3, AppGoes, ThreadsAre DEF Base, Types
<1>5. \A u \in Apps : at'[u] # at[u] => at[u][2] # "response" /\ at'[u][2] # "response"
  BY <1>1, <1>3, <1>4
<1> HIDE DEF e
<1>6. Waiting' /\ QueuesOK'
  BY <1>1, <1>2, <1>5, WaitingSendGrown
<1>7. RestOK' /\ BitsOK'
  BY <1>1, BitsStay, ThreadsAre DEF Base, Types, RestOK, cpsVars, restVars
<1>8. HeadIs'
  <2>1. sq \in Seq(SendCommand)
    BY DEF Base, Types, QueuesOK
  <2>2. sq' # <<>> /\ (sq # <<>> => Head(sq') = Head(sq))
    BY <1>1, <1>2, <2>1, Grown
  <2>3. QED
    BY <1>1, <1>4, <2>2 DEF Base, HeadIs
<1>9. Owner'
  BY <1>1, <1>4 DEF Base, Owner, Reading
<1>10. QED
  BY <1>4, <1>6, <1>7, <1>8, <1>9 DEF Base, Types

LEMMA BaseExec == ASSUME Base, NEW t \in Apps, ExecCommandPacket(t) PROVE Base'
<1> DEFINE o == at[t][1]
<1> DEFINE e == [kind |-> o, by |-> IF Answers(o) THEN t ELSE None]
<1> DEFINE v == IF Answers(o) THEN <<o, "response">> ELSE Idle
<1>1. /\ at[t][2] = "exec" /\ ~Full(o)
      /\ sq' = IF ToSend(o) THEN Append(sq, e) ELSE sq
      /\ rq' = IF ToSend(o) THEN rq ELSE Append(rq, e)
      /\ at' = [at EXCEPT ![t] = v]
      /\ closes' = IF o = "close" THEN closes + 1 ELSE closes
      /\ UNCHANGED <<bitVars, in_use, cpsVars, block, listed>>
  BY DEF ExecCommandPacket, Go, Return
<1>2. at[t] = <<o, "exec">> /\ o \in Calls \ {"poll"} /\ at[t] \in AppAt
  BY <1>1, AppAtIs DEF Base, Types, AtOK
<1>3. /\ ToSend(o) => o \in SendKinds
      /\ ~ToSend(o) => o \in RecvKinds
      /\ Answers(o) => o \notin {"write", "close"}
  BY <1>2 DEF ToSend, SendKinds, RecvKinds, Calls, Answers
<1>4. v \in AppAt /\ (v[2] = "response" => Answers(o)) /\ (Answers(o) => v = <<o, "response">>)
  BY <1>2, <1>3 DEF AppAt, Idle
<1>5. /\ AtOK' /\ at'[t] = v /\ at'[Recv] = at[Recv] /\ at'[Send] = at[Send]
      /\ \A u \in Apps : u # t => at'[u] = at[u]
  BY <1>1, <1>4, AppGoes, ThreadsAre DEF Base, Types
<1>6. /\ ToSend(o) => e \in SendCommand
      /\ ~ToSend(o) => e \in RecvCommand
      /\ e.by = (IF Answers(o) THEN t ELSE None) /\ e.kind = o
  BY <1>3 DEF SendCommand, RecvCommand
<1>7. /\ ToSend(o) => Len(sq) < SendMax
      /\ ~ToSend(o) => Len(rq) < RecvMax
  <2>1. Len(sq) \in Nat /\ Len(rq) \in Nat /\ Len(sq) <= SendMax /\ Len(rq) <= RecvMax
    BY LenProperties DEF Base, Types, QueuesOK
  <2>2. QED
    BY <1>1, <2>1, ThreadsAre DEF Full
<1> HIDE DEF e, v, o
<1>8. e.by # None => e.by = t /\ at'[e.by] = <<e.kind, "response">> /\ at[e.by][2] # "response"
  BY <1>1, <1>4, <1>5, <1>6
<1>9. \A u \in Apps : at'[u] # at[u] => at[u][2] # "response" /\ (at'[u][2] = "response" => u = e.by)
  BY <1>1, <1>4, <1>5, <1>6
<1>10. Waiting' /\ QueuesOK'
  <2>1. CASE ToSend(o)
    <3>1. sq' = Append(sq, e) /\ rq' = rq /\ e \in SendCommand /\ Len(sq) < SendMax
      BY <1>1, <1>6, <1>7, <2>1
    <3>2. QED
      BY <1>8, <1>9, <3>1, WaitingSendGrown
  <2>2. CASE ~ToSend(o)
    <3>1. rq' = Append(rq, e) /\ sq' = sq /\ e \in RecvCommand /\ Len(rq) < RecvMax
      BY <1>1, <1>6, <1>7, <2>2
    <3>2. QED
      BY <1>8, <1>9, <3>1, WaitingRecvGrown
  <2>3. QED
    BY <2>1, <2>2
<1>11. BitsOK'
  BY <1>1, BitsStay, ThreadsAre DEF Base, Types
<1>12. RestOK'
  <2>1. closes' \in Nat
    BY <1>1 DEF Base, Types, RestOK
  <2>2. QED
    BY <1>1, <2>1 DEF Base, Types, RestOK, cpsVars
<1>13. HeadIs'
  <2>1. sq \in Seq(SendCommand) /\ rq \in Seq(RecvCommand)
    BY DEF Base, Types, QueuesOK
  <2>2. sq # <<>> => sq' # <<>> /\ Head(sq') = Head(sq)
    <3>1. CASE ToSend(o)
      BY <1>1, <1>6, <2>1, <3>1, Grown
    <3>2. QED
      BY <1>1, <3>1
  <2>3. rq # <<>> => rq' # <<>> /\ Head(rq') = Head(rq)
    <3>1. CASE ~ToSend(o)
      BY <1>1, <1>6, <2>1, <3>1, Grown
    <3>2. QED
      BY <1>1, <3>1
  <2>4. QED
    BY <1>5, <2>2, <2>3 DEF Base, HeadIs
<1>14. Owner'
  <2>1. in_use = t => o = "read" /\ Answers(o)
    BY <1>2 DEF Base, Owner, Reading, Answers, Blocks
  <2>2. in_use = t => at'[t] \in Reading
    BY <1>4, <1>5, <2>1 DEF Reading
  <2>3. QED
    BY <1>1, <1>5, <2>2, ThreadsAre DEF Base, Owner
<1>15. QED
  BY <1>5, <1>10, <1>11, <1>12, <1>13, <1>14 DEF Base, Types

LEMMA RestFrame ==
  ASSUME Base, UNCHANGED <<bitVars, cpsVars, restVars>>, in_use' \in Threads \cup {None}
  PROVE  RestOK' /\ BitsOK'
BY BitsStay, ThreadsAre DEF Base, Types, RestOK, cpsVars, restVars

(* The receive thread at a command finds it at the head. *)
LEMMA AtCommand ==
  ASSUME Base, at[Recv] # Idle, at[Recv][2] # "end"
  PROVE  /\ rq # <<>> /\ at[Recv] \in RecvAt
         /\ Head(rq).kind = IF at[Recv][1] \in {"connected", "failed"} THEN "connect" ELSE at[Recv][1]
BY DEF Base, HeadIs, Types, AtOK

LEMMA BaseReadMessage == ASSUME Base, ReadMessage PROVE Base'
<1> DEFINE k == Head(rq).kind
<1> DEFINE v == <<k, CASE k \in {"connect", "accept", "ssl"} -> "in_use"
                        [] k = "close" -> "join" [] k = "null" -> "end" [] OTHER -> "wait">>
<1>1. rq # <<>> /\ at' = [at EXCEPT ![Recv] = v] /\ UNCHANGED <<bitVars, in_use, pipeVars, cpsVars, restVars>>
  BY DEF ReadMessage, Go
<1>2. k \in RecvKinds
  <2>1. Head(rq) \in RecvCommand
    BY <1>1, Shrunk DEF Base, Types, QueuesOK
  <2>2. QED
    BY <2>1 DEF RecvCommand
<1>3. v \in RecvAt /\ v[1] = k
  BY <1>2 DEF RecvAt, RecvKinds
<1>4. k \notin {"connected", "failed"}
  BY <1>2 DEF RecvKinds
<1> HIDE DEF v
<1>5. RestOK' /\ BitsOK'
  BY <1>1, RestFrame DEF Base, Types, RestOK
<1>6. QED
  BY <1>1, <1>3, <1>4, <1>5, BaseRecv

LEMMA BaseLockInHandler == ASSUME Base, LockInHandler PROVE Base'
<1>1. at[Recv] \in RecvAt /\ at[Recv][2] = "in_use" /\ at[Recv][1] \in {"connect", "accept", "ssl"}
  BY RecvAtIs DEF LockInHandler, Base, Types, AtOK
<1> DEFINE v == <<at[Recv][1], IF at[Recv][1] = "ssl" THEN "unlock" ELSE "bind">>
<1>2. v \in RecvAt /\ v[1] = at[Recv][1]
  BY <1>1 DEF RecvAt
<1>3. at' = [at EXCEPT ![Recv] = v] /\ in_use' = Recv /\ UNCHANGED <<bitVars, pipeVars, cpsVars, restVars>>
  BY DEF LockInHandler, Go
<1>4. rq # <<>> /\ Head(rq).kind = IF at[Recv][1] \in {"connected", "failed"} THEN "connect" ELSE at[Recv][1]
  BY <1>1, AtCommand DEF Idle
<1> HIDE DEF v
<1>5. RestOK' /\ BitsOK'
  BY <1>3, RestFrame, ThreadsAre
<1>6. QED
  BY <1>2, <1>3, <1>4, <1>5, BaseRecv

LEMMA BaseTcp == ASSUME Base, TcpConnect \/ TcpListen PROVE Base'
<1>1. PICK v \in {<<"connected", "unlock">>, <<"failed", "unlock">>, <<"accept", "load">>} :
        /\ at' = [at EXCEPT ![Recv] = v]
        /\ v[1] = "accept" => at[Recv] = <<"accept", "bind">>
        /\ v[1] # "accept" => at[Recv] = <<"connect", "bind">>
  BY DEF TcpConnect, TcpListen, Go
<1>2. /\ UNCHANGED <<bitVars, in_use, pipeVars, fin, restVars>> /\ data' = FALSE
      /\ at[Recv] # Idle /\ at[Recv][2] # "end"
  BY DEF TcpConnect, TcpListen, Idle
<1>3. v \in RecvAt
  BY <1>1 DEF RecvAt
<1>4. rq # <<>> /\ Head(rq).kind = IF v[1] \in {"connected", "failed"} THEN "connect" ELSE v[1]
  BY <1>1, <1>2, AtCommand
<1>5. RestOK'
  BY <1>2 DEF Base, Types, RestOK, restVars
<1>6. BitsOK'
  BY <1>2, BitsStay, ThreadsAre DEF Base, Types
<1>7. QED
  BY <1>2, <1>1, <1>3, <1>4, <1>5, <1>6, BaseRecv

LEMMA BaseUnlockInHandler == ASSUME Base, UnlockInHandler PROVE Base'
<1>1. at[Recv] \in RecvAt /\ at[Recv][2] = "unlock" /\ at[Recv][1] \in {"connected", "failed", "accept", "ssl"}
  BY RecvAtIs DEF UnlockInHandler, Base, Types, AtOK
<1> DEFINE v == <<at[Recv][1], IF at[Recv][1] \in {"connected", "failed"} THEN "load" ELSE "reply">>
<1>2. v \in RecvAt /\ v[1] = at[Recv][1]
  BY <1>1 DEF RecvAt
<1>3. at' = [at EXCEPT ![Recv] = v] /\ in_use' = None /\ UNCHANGED <<bitVars, pipeVars, cpsVars, restVars>>
  BY DEF UnlockInHandler, Go
<1>4. rq # <<>> /\ Head(rq).kind = IF at[Recv][1] \in {"connected", "failed"} THEN "connect" ELSE at[Recv][1]
  BY <1>1, AtCommand DEF Idle
<1> HIDE DEF v
<1>5. RestOK' /\ BitsOK'
  BY <1>3, RestFrame, ThreadsAre
<1>6. QED
  BY <1>2, <1>3, <1>4, <1>5, BaseRecv

LEMMA BaseLoadInHandler == ASSUME Base, LoadInHandler PROVE Base'
<1>1. at[Recv] \in RecvAt /\ at[Recv][2] \in {"load", "load_release"}
  BY DEF LoadInHandler, Base, Types, AtOK
<1> DEFINE v == <<at[Recv][1], IF at[Recv][2] = "load" THEN "store" ELSE "store_release">>
<1>2. v \in RecvAt /\ v[1] = at[Recv][1]
  BY <1>1, RecvAtIs DEF RecvAt
<1>3. at' = [at EXCEPT ![Recv] = v] /\ Load(Recv) /\ UNCHANGED <<in_use, pipeVars, cpsVars, restVars>>
  BY DEF LoadInHandler, Go
<1>4. rq # <<>> /\ Head(rq).kind = IF at[Recv][1] \in {"connected", "failed"} THEN "connect" ELSE at[Recv][1]
  BY <1>1, AtCommand DEF Idle
<1> HIDE DEF v
<1>5. RestOK' /\ BitsOK'
  BY <1>3, BitsStay, ThreadsAre DEF Base, Types, RestOK, cpsVars, restVars
<1>6. QED
  BY <1>2, <1>3, <1>4, <1>5, BaseRecv

LEMMA BaseStoreInHandler == ASSUME Base, StoreInHandler PROVE Base'
<1>1. at[Recv] \in RecvAt /\ at[Recv][2] \in {"store", "store_release"}
      /\ (at[Recv][2] = "store" => at[Recv][1] \in {"connected", "failed", "accept", "close"})
      /\ (at[Recv][2] = "store_release" => at[Recv][1] = "close")
  BY RecvAtIs DEF StoreInHandler, Base, Types, AtOK
<1>2. PICK s \in {"reply", "unlock", "null"} :
        /\ at' = [at EXCEPT ![Recv] = <<at[Recv][1], s>>]
        /\ s = "unlock" => at[Recv][1] = "accept"
        /\ s = "null" => at[Recv][1] = "close"
  BY <1>1 DEF StoreInHandler, Go
<1> DEFINE v == <<at[Recv][1], s>>
<1>3. v \in RecvAt /\ v[1] = at[Recv][1]
  BY <1>1, <1>2 DEF RecvAt
<1>4. \E del, add \in SUBSET Bits : Store(Recv, del, add)
  <2>1. \/ Store(Recv, {}, {"CONNECTED"}) \/ Store(Recv, {}, {"ERROR"}) \/ Store(Recv, {}, {"WAIT_RELEASE"})
        \/ Store(Recv, Joined, {})
    BY <1>1 DEF StoreInHandler
  <2>2. QED
    BY <2>1, BitSets DEF Bits
<1>5. UNCHANGED <<in_use, pipeVars, cpsVars, restVars>> /\ at' = [at EXCEPT ![Recv] = v]
  BY <1>2 DEF StoreInHandler
<1>6. rq # <<>> /\ Head(rq).kind = IF at[Recv][1] \in {"connected", "failed"} THEN "connect" ELSE at[Recv][1]
  BY <1>1, AtCommand DEF Idle
<1> HIDE DEF v
<1>7. RestOK' /\ BitsOK'
  BY <1>4, <1>5, BitsStay, ThreadsAre DEF Base, Types, RestOK, cpsVars, restVars
<1>8. QED
  BY <1>3, <1>5, <1>6, <1>7, BaseRecv

LEMMA BaseReadCallBack == ASSUME Base, ReadCallBack PROVE Base'
<1>1. at[Recv] = <<"read", "wait">> /\ UNCHANGED <<bitVars, in_use, pipeVars, fin, restVars>>
      /\ data' = (data /\ Has("RESET")) /\ at' = [at EXCEPT ![Recv] = <<"read", "reply">>]
  BY DEF ReadCallBack, Go
<1>2. rq # <<>> /\ Head(rq).kind = "read"
  BY <1>1, AtCommand DEF Idle
<1>3. <<"read", "reply">> \in RecvAt
  BY DEF RecvAt
<1>4. data' \in BOOLEAN
  BY <1>1
<1>5. RestOK'
  BY <1>1, <1>4 DEF Base, Types, RestOK, restVars
<1>6. BitsOK'
  BY <1>1, BitsStay, ThreadsAre DEF Base, Types
<1>7. QED
  BY <1>1, <1>2, <1>3, <1>5, <1>6, BaseRecv

LEMMA BaseJoin == ASSUME Base, JoinSendThread PROVE Base'
<1>1. at[Recv] = <<"close", "join">> /\ UNCHANGED <<bitVars, in_use, pipeVars, restVars>>
      /\ data' = FALSE /\ fin' = TRUE /\ at' = [at EXCEPT ![Recv] = <<"close", "load">>]
  BY DEF JoinSendThread, Go
<1>2. rq # <<>> /\ Head(rq).kind = "close"
  BY <1>1, AtCommand DEF Idle
<1>3. <<"close", "load">> \in RecvAt
  BY DEF RecvAt
<1>4. RestOK'
  BY <1>1 DEF Base, Types, RestOK, restVars
<1>5. BitsOK'
  BY <1>1, BitsStay, ThreadsAre DEF Base, Types
<1>6. QED
  BY <1>1, <1>2, <1>3, <1>4, <1>5, BaseRecv

LEMMA BaseMoveToTrash == ASSUME Base, MoveToTrash PROVE Base'
<1>1. at[Recv] = <<"close", "trash">> /\ UNCHANGED <<bitVars, in_use, pipeVars, cpsVars, block, closes>>
      /\ listed' = FALSE /\ at' = [at EXCEPT ![Recv] = <<"close", "load_release">>]
  BY DEF MoveToTrash, Go
<1>2. rq # <<>> /\ Head(rq).kind = "close"
  BY <1>1, AtCommand DEF Idle
<1>3. <<"close", "load_release">> \in RecvAt
  BY DEF RecvAt
<1>4. RestOK'
  BY <1>1 DEF Base, Types, RestOK, cpsVars
<1>5. BitsOK'
  BY <1>1, BitsStay, ThreadsAre DEF Base, Types
<1>6. QED
  BY <1>1, <1>2, <1>3, <1>4, <1>5, BaseRecv

LEMMA BasePeer == ASSUME Base, Peer PROVE Base'
<1>1. UNCHANGED <<bitVars, at, in_use, pipeVars, fin, restVars>> /\ data' \in BOOLEAN
  BY DEF Peer, Base, Types, RestOK
<1>2. BitsOK'
  BY <1>1, BitsStay, ThreadsAre DEF Base, Types
<1>3. RestOK'
  BY <1>1 DEF Base, Types, RestOK, restVars
<1>4. at' = at /\ rq' = rq /\ sq' = sq /\ in_use' = in_use
  BY <1>1 DEF pipeVars
<1>5. Waiting'
  BY <1>1, <1>4, WaitingFrame
<1>6. AtOK' /\ QueuesOK' /\ HeadIs' /\ Owner'
  BY <1>4 DEF Base, Types, AtOK, QueuesOK, HeadIs, Owner
<1>7. QED
  BY <1>2, <1>3, <1>5, <1>6 DEF Base, Types

LEMMA BaseEndOwnPipe == ASSUME Base, EndOwnPipe PROVE Base'
<1> DEFINE e == [kind |-> "null", by |-> None]
<1>1. /\ at[Recv] = <<"close", "null">> /\ Len(rq) < RecvMax /\ rq' = Append(rq, e)
      /\ at' = [at EXCEPT ![Recv] = <<"close", "trash">>]
      /\ UNCHANGED <<bitVars, in_use, sq, cpsVars, restVars>>
  BY DEF EndOwnPipe, Go
<1>2. e \in RecvCommand /\ e.by = None
  BY DEF RecvCommand, RecvKinds
<1>3. <<"close", "trash">> \in RecvAt
  BY DEF RecvAt
<1>4. /\ AtOK' /\ at'[Recv] = <<"close", "trash">> /\ at'[Send] = at[Send]
      /\ \A u \in Apps : at'[u] = at[u]
  BY <1>1, <1>3, RecvGoes DEF Base, Types
<1> HIDE DEF e
<1>6. Waiting' /\ QueuesOK'
  BY <1>1, <1>2, <1>4, WaitingRecvGrown
<1>7. RestOK' /\ BitsOK'
  BY <1>1, RestFrame DEF Base, Types, RestOK
<1>8. HeadIs'
  <2>1. rq \in Seq(RecvCommand)
    BY DEF Base, Types, QueuesOK
  <2>2. rq # <<>> /\ Head(rq).kind = "close"
    BY <1>1, AtCommand DEF Idle
  <2>3. rq' # <<>> /\ Head(rq') = Head(rq)
    BY <1>1, <1>2, <2>1, <2>2, Grown
  <2>4. QED
    BY <1>1, <1>4, <2>2, <2>3 DEF Base, HeadIs
<1>9. Owner'
  BY <1>1, <1>4 DEF Base, Owner
<1>10. QED
  BY <1>4, <1>6, <1>7, <1>8, <1>9 DEF Base, Types

(* An answered application that reads keeps in_use. *)
LEMMA OwnerAnswered ==
  ASSUME Base, in_use' = in_use,
         \A t \in Apps : at'[t] # at[t] => (at[t] \in Reading => at'[t] \in Reading)
  PROVE  Owner'
BY DEF Base, Owner

LEMMA BaseReply == ASSUME Base, Reply PROVE Base'
<1>1. /\ at[Recv][2] = "reply" /\ at' = [Answer(Head(rq).by) EXCEPT ![Recv] = Idle] /\ rq' = Tail(rq)
      /\ UNCHANGED <<bitVars, in_use, sq, cpsVars, restVars>>
  BY DEF Reply
<1>2. rq # <<>>
  BY <1>1, AtCommand DEF Idle
<1>3. /\ Answer(Head(rq).by) \in [Threads -> AppAt \cup RecvAt \cup SendAt]
      /\ Answer(Head(rq).by)[Send] = at[Send]
  <2>1. rq \in Seq(RecvCommand)
    BY DEF Base, Types, QueuesOK
  <2>2. Head(rq) \in RecvCommand /\ Head(rq) = rq[1] /\ 1 \in 1 .. Len(rq)
    BY <1>2, <2>1, Shrunk
  <2>3. Head(rq).by \in Apps \cup {None} /\ (Head(rq).by # None => at[Head(rq).by] = <<Head(rq).kind, "response">>)
    BY <2>2, WaitsApart DEF RecvCommand
  <2>4. QED
    BY <2>3, Answered DEF Base, Types
<1>4. /\ \A t \in Apps : at'[t] = Answer(Head(rq).by)[t]
      /\ at'[Recv] = Idle /\ at'[Send] = at[Send]
      /\ at' \in [Threads -> AppAt \cup RecvAt \cup SendAt]
  BY <1>1, <1>3, ThreadsAre DEF RecvAt
<1>5. /\ Waiting' /\ QueuesOK' /\ \A t \in Apps : at'[t] \in AppAt
      /\ \A t \in Apps : at'[t] # at[t] => (at[t] \in Reading => at'[t] \in Reading)
  BY <1>1, <1>2, <1>4, AnswerRecv
<1>6. AtOK'
  BY <1>4, <1>5 DEF AtOK, Base, Types, RecvAt
<1>7. RestOK' /\ BitsOK'
  BY <1>1, RestFrame DEF Base, Types, RestOK
<1>8. HeadIs'
  BY <1>1, <1>4 DEF Base, HeadIs
<1>9. Owner'
  BY <1>1, <1>5, OwnerAnswered
<1>10. QED
  BY <1>5, <1>6, <1>7, <1>8, <1>9 DEF Base, Types

(* What the head of the send pipe is, and the answer to it. *)
LEMMA SendAnswered ==
  ASSUME Base, sq # <<>>
  PROVE  /\ Answer(Head(sq).by) \in [Threads -> AppAt \cup RecvAt \cup SendAt]
         /\ Answer(Head(sq).by)[Send] = at[Send] /\ Answer(Head(sq).by)[Recv] = at[Recv]
         /\ Head(sq).by # None => Head(sq).kind = "shutdown"
<1>1. sq \in Seq(SendCommand)
  BY DEF Base, Types, QueuesOK
<1>2. Head(sq) \in SendCommand /\ Head(sq) = sq[1] /\ 1 \in 1 .. Len(sq)
  BY <1>1, Shrunk
<1>3. Head(sq).by \in Apps \cup {None} /\ (Head(sq).by # None => at[Head(sq).by] = <<Head(sq).kind, "response">>)
      /\ (Head(sq).by # None => Head(sq).kind = "shutdown")
  BY <1>2, WaitsApart DEF SendCommand
<1>4. QED
  BY <1>3, Answered DEF Base, Types

LEMMA RecvAnswered ==
  ASSUME Base, rq # <<>>
  PROVE  /\ Answer(Head(rq).by) \in [Threads -> AppAt \cup RecvAt \cup SendAt]
         /\ Answer(Head(rq).by)[Send] = at[Send] /\ Answer(Head(rq).by)[Recv] = at[Recv]
<1>1. rq \in Seq(RecvCommand)
  BY DEF Base, Types, QueuesOK
<1>2. Head(rq) \in RecvCommand /\ Head(rq) = rq[1] /\ 1 \in 1 .. Len(rq)
  BY <1>1, Shrunk
<1>3. Head(rq).by \in Apps \cup {None} /\ (Head(rq).by # None => at[Head(rq).by] = <<Head(rq).kind, "response">>)
  BY <1>2, WaitsApart DEF RecvCommand
<1>4. QED
  BY <1>3, Answered DEF Base, Types

(* The send thread takes a command out and answers it. *)
LEMMA BaseSendAnswers ==
  ASSUME Base, sq # <<>>, sq' = Tail(sq), rq' = rq, in_use' = in_use,
         at' = Answer(Head(sq).by), at[Send][1] # "write", BitsOK', RestOK'
  PROVE  Base'
<1>1. /\ at' \in [Threads -> AppAt \cup RecvAt \cup SendAt]
      /\ at'[Send] = at[Send] /\ at'[Recv] = at[Recv]
  BY SendAnswered
<1>2. /\ Waiting' /\ QueuesOK' /\ \A t \in Apps : at'[t] \in AppAt
      /\ \A t \in Apps : at'[t] # at[t] => at[t] = <<"shutdown", "response">>
  BY AnswerSend
<1>3. AtOK'
  BY <1>1, <1>2 DEF AtOK, Base, Types
<1>4. HeadIs'
  BY <1>1 DEF Base, HeadIs
<1>5. \A t \in Apps : at'[t] # at[t] => (at[t] \in Reading => at'[t] \in Reading)
  BY <1>2 DEF Reading
<1>6. Owner'
  BY <1>5, OwnerAnswered
<1>7. QED
  BY <1>2, <1>3, <1>4, <1>6 DEF Base, Types

LEMMA BaseSendThread == ASSUME Base, SendThread PROVE Base'
<1>1. at[Send] = Idle /\ sq # <<>> /\ UNCHANGED <<bitVars, in_use, rq, cps, data, restVars>>
  BY DEF SendThread
<1>2. BitsOK'
  BY <1>1, BitsStay, ThreadsAre DEF Base, Types
<1>3. ASSUME Go(Send, "null", "end"), UNCHANGED <<sq, fin>> PROVE Base'
  <2>1. <<"null", "end">> \in SendAt /\ at' = [at EXCEPT ![Send] = <<"null", "end">>]
    BY <1>3 DEF SendAt, Go
  <2>2. RestOK'
    BY <1>1, <1>3 DEF Base, Types, RestOK, restVars
  <2>3. QED
    BY <1>1, <1>2, <1>3, <2>1, <2>2, BaseSend
<1>4. ASSUME Head(sq).kind = "write", Go(Send, "write", "load"), UNCHANGED <<sq, fin>> PROVE Base'
  <2>1. <<"write", "load">> \in SendAt /\ at' = [at EXCEPT ![Send] = <<"write", "load">>]
    BY <1>4 DEF SendAt, Go
  <2>2. RestOK'
    BY <1>1, <1>4 DEF Base, Types, RestOK, restVars
  <2>3. QED
    BY <1>1, <1>2, <1>4, <2>1, <2>2, BaseSend
<1>5. ASSUME fin' = (fin \/ Head(sq).kind = "shutdown"), sq' = Tail(sq), at' = Answer(Head(sq).by) PROVE Base'
  <2>1. fin' \in BOOLEAN
    BY <1>5
  <2>2. RestOK'
    BY <1>1, <2>1 DEF Base, Types, RestOK, restVars
  <2>3. at[Send][1] # "write"
    BY <1>1 DEF Idle
  <2>4. QED
    BY <1>1, <1>2, <1>5, <2>2, <2>3, BaseSendAnswers
<1>6. QED
  BY <1>3, <1>4, <1>5 DEF SendThread

LEMMA BaseWriteFails == ASSUME Base, WriteFails PROVE Base'
<1>1. at[Send] \in SendAt /\ at[Send][2] \in {"load", "store", "load_reset", "store_reset"} /\ at[Send][1] = "write"
      /\ UNCHANGED <<in_use, pipeVars, cps, data, restVars>>
  BY SendAtIs DEF WriteFails, Base, Types, AtOK
<1>2. PICK s \in {"store", "load_reset", "store_reset", "close"} : at' = [at EXCEPT ![Send] = <<"write", s>>]
  BY <1>1 DEF WriteFails, Go
<1>3. <<"write", s>> \in SendAt
  BY <1>2 DEF SendAt
<1>4. sq # <<>> /\ Head(sq).kind = "write"
  BY <1>1 DEF Base, HeadIs
<1>5. BitsOK'
  <2>1. \/ Load(Send) \/ Store(Send, Joined \cup {"CLOSING"}, {}) \/ Store(Send, {}, {"RESET"})
    BY <1>1 DEF WriteFails
  <2>2. QED
    BY <2>1, BitSets, BitsStay, ThreadsAre DEF Bits, Base, Types
<1>6. fin' \in BOOLEAN
  BY <1>1 DEF WriteFails, Base, Types, RestOK
<1>7. RestOK'
  BY <1>1, <1>6 DEF Base, Types, RestOK, restVars
<1>8. QED
  BY <1>1, <1>2, <1>3, <1>4, <1>5, <1>7, BaseSend DEF pipeVars

LEMMA BaseTcpClose == ASSUME Base, TcpClose PROVE Base'
<1>1. /\ at[Send] = <<"write", "close">> /\ sq' = Tail(sq) /\ at' = [at EXCEPT ![Send] = Idle]
      /\ UNCHANGED <<bitVars, in_use, rq, data, fin, restVars>>
  BY DEF TcpClose
<1>2. sq # <<>> /\ Head(sq).kind = "write"
  BY <1>1 DEF Base, HeadIs
<1>3. Answer(Head(sq).by) = at
  BY <1>2, SendAnswered DEF Answer
<1>4. AtOK' /\ at'[Send] = Idle /\ at'[Recv] = at[Recv] /\ \A t \in Apps : at'[t] = at[t]
  <2>1. Idle \in SendAt
    BY DEF SendAt
  <2>2. QED
    BY <1>1, <2>1, SendGoes DEF Base, Types
<1>5. Waiting' /\ QueuesOK'
  BY <1>1, <1>2, <1>3, <1>4, AnswerSend
<1>6. HeadIs'
  BY <1>1, <1>4 DEF Base, HeadIs, Idle
<1>7. Owner'
  BY <1>1, <1>4 DEF Base, Owner
<1>8. BitsOK'
  BY <1>1, BitsStay, ThreadsAre DEF Base, Types
<1>9. RestOK'
  BY <1>1 DEF Base, Types, RestOK, restVars
<1>10. QED
  BY <1>4, <1>5, <1>6, <1>7, <1>8, <1>9 DEF Base, Types

(* What is drained has nobody at work on it. *)
LEMMA BaseDrain ==
  ASSUME Base, Drain, at[Send][1] # "write"
  PROVE  Base'
<1>1. at[Recv][2] = "end" /\ UNCHANGED <<bitVars, in_use, cpsVars, restVars>>
  BY DEF Drain
<1>2. RestOK' /\ BitsOK'
  BY <1>1, RestFrame DEF Base, Types, RestOK
<1>3. ASSUME sq # <<>>, at' = Answer(Head(sq).by), sq' = Tail(sq), rq' = rq PROVE Base'
  BY <1>1, <1>2, <1>3, BaseSendAnswers
<1>4. ASSUME rq # <<>>, at' = Answer(Head(rq).by), rq' = Tail(rq), sq' = sq PROVE Base'
  <2>1. /\ at' \in [Threads -> AppAt \cup RecvAt \cup SendAt]
        /\ at'[Send] = at[Send] /\ at'[Recv] = at[Recv]
    BY <1>4, RecvAnswered
  <2>2. /\ Waiting' /\ QueuesOK' /\ \A t \in Apps : at'[t] \in AppAt
        /\ \A t \in Apps : at'[t] # at[t] => (at[t] \in Reading => at'[t] \in Reading)
    BY <1>4, AnswerRecv
  <2>3. AtOK'
    BY <2>1, <2>2 DEF AtOK, Base, Types
  <2>4. HeadIs'
    BY <1>1, <1>4, <2>1 DEF Base, HeadIs
  <2>5. Owner'
    BY <1>1, <2>2, OwnerAnswered
  <2>6. QED
    BY <1>2, <2>2, <2>3, <2>4, <2>5 DEF Base, Types
<1>5. QED
  BY <1>3, <1>4 DEF Drain

(* What a close leaves behind, in its order: the send thread has ended, the *)
(* socket is off the list, the receive thread finds its NULL.               *)
Ended ==
  /\ ~listed \/ at[Recv] \in {"close"} \X {"load", "store", "null", "trash", "load_release", "store_release", "reply"}
       => at[Send][2] = "end"
  /\ \A i \in 1 .. Len(rq) : rq[i].kind = "null" => ~listed \/ at[Recv] = <<"close", "trash">>
  /\ at[Recv][2] = "end" => ~listed
  /\ at[Recv] \in {"close"} \X {"load_release", "store_release", "reply"} => ~listed

AcceptBlocks == \A t \in Apps : at[t][1] = "accept" => block

LEMMA HeadOne ==
  ASSUME Base, rq # <<>>
  PROVE  1 \in 1 .. Len(rq) /\ Head(rq) = rq[1] /\ rq[1].kind \in RecvKinds
<1>1. rq \in Seq(RecvCommand)
  BY DEF Base, Types, QueuesOK
<1>2. 1 \in 1 .. Len(rq) /\ Head(rq) = rq[1]
  BY <1>1, Shrunk
<1>3. QED
  BY <1>2, QueuedAre DEF Base, Types

(* The queue after a command more, and without its head. *)
LEMMA RecvGrown ==
  ASSUME Base, NEW k \in RecvKinds, NEW by \in Apps \cup {None},
         rq' = Append(rq, [kind |-> k, by |-> by])
  PROVE  /\ Len(rq) \in Nat /\ Len(rq') = Len(rq) + 1 /\ rq'[Len(rq) + 1].kind = k
         /\ \A i \in 1 .. Len(rq) : rq'[i] = rq[i]
         /\ \A i \in 1 .. Len(rq') : i \in 1 .. Len(rq) \/ i = Len(rq) + 1
<1> DEFINE e == [kind |-> k, by |-> by]
<1>1. e \in RecvCommand /\ e.kind = k
  BY DEF RecvCommand
<1> HIDE DEF e
<1>2. rq \in Seq(RecvCommand) /\ rq' = Append(rq, e)
  BY DEF Base, Types, QueuesOK, e
<1>3. /\ Len(rq) \in Nat /\ Len(rq') = Len(rq) + 1 /\ rq'[Len(rq) + 1] = e
      /\ \A i \in 1 .. Len(rq) : rq'[i] = rq[i]
  BY <1>1, <1>2, Grown
<1>4. QED
  BY <1>1, <1>3

LEMMA RecvShrunk ==
  ASSUME Base, rq # <<>>, rq' = Tail(rq)
  PROVE  /\ Len(rq') = Len(rq) - 1 /\ Len(rq) \in Nat
         /\ \A i \in 1 .. Len(rq') : rq'[i] = rq[i + 1] /\ i + 1 \in 1 .. Len(rq)
<1>1. rq \in Seq(RecvCommand)
  BY DEF Base, Types, QueuesOK
<1>2. QED
  BY <1>1, Shrunk

(* An application's step. *)
AppSteps(t) == CallSteps(t) \/ \E o \in Calls : Call(t, o)

LEMMA AppStays ==
  ASSUME Base, NEW t \in Apps, AppSteps(t)
  PROVE  /\ at'[Recv] = at[Recv] /\ at'[Send] = at[Send] /\ listed' = listed /\ block' = block
         /\ \A u \in Apps : u # t => at'[u] = at[u]
         /\ rq' = rq \/ ExecCommandPacket(t)
<1>1. \E v : at' = [at EXCEPT ![t] = v]
  <2>1. CASE ExecCommandPacket(t)
    BY <2>1 DEF ExecCommandPacket, Go, Return
  <2>2. CASE LockToRead(t)
    BY <2>2 DEF LockToRead, Go, Return
  <2>3. CASE StoreInCall(t)
    BY <2>3 DEF StoreInCall, Go, Return
  <2>4. QED
    BY <2>1, <2>2, <2>3 DEF AppSteps, CallSteps, Call, LoadInCall, SendNull, ExecRefused, CopyCPSBuffer,
       UnlockReader, Go, Return
<1>2. /\ at'[Recv] = at[Recv] /\ at'[Send] = at[Send]
      /\ \A u \in Apps : u # t => at'[u] = at[u]
  BY <1>1, ThreadsAre DEF Base, Types, AtOK
<1>3. listed' = listed /\ block' = block /\ (rq' = rq \/ ExecCommandPacket(t))
  BY DEF AppSteps, CallSteps, Call, LoadInCall, StoreInCall, SendNull, ExecCommandPacket, ExecRefused,
     LockToRead, CopyCPSBuffer, UnlockReader, restVars, pipeVars
<1>4. QED
  BY <1>2, <1>3

LEMMA ExecIs ==
  ASSUME Base, NEW t \in Apps, ExecCommandPacket(t)
  PROVE  /\ at[t] = <<at[t][1], "exec">> /\ at[t][1] \in Calls \ {"poll"}
         /\ UNCHANGED <<bitVars, in_use, cpsVars, block, listed>>
         /\ ToSend(at[t][1]) => /\ rq' = rq
                                /\ \E by \in Apps \cup {None} : sq' = Append(sq, [kind |-> at[t][1], by |-> by])
         /\ ~ToSend(at[t][1]) => /\ sq' = sq /\ at[t][1] \in {"connect", "accept", "ssl", "read", "close"}
                                 /\ \E by \in Apps \cup {None} : rq' = Append(rq, [kind |-> at[t][1], by |-> by])
         /\ closes' = IF at[t][1] = "close" THEN closes + 1 ELSE closes
         /\ at'[t] \in {<<at[t][1], "response">>, Idle}
<1> DEFINE o == at[t][1]
<1>1. at[t] = <<o, "exec">> /\ o \in Calls \ {"poll"}
  BY AppAtIs DEF ExecCommandPacket, Base, Types, AtOK
<1>2. ~ToSend(o) => o \in {"connect", "accept", "ssl", "read", "close"}
  BY <1>1 DEF ToSend, Calls
<1>3. at'[t] \in {<<o, "response">>, Idle}
  BY ThreadsAre DEF ExecCommandPacket, Go, Return, Base, Types, AtOK
<1>4. PICK by \in Apps \cup {None} : by = IF Answers(o) THEN t ELSE None
  OBVIOUS
<1>5. /\ sq' = IF ToSend(o) THEN Append(sq, [kind |-> o, by |-> by]) ELSE sq
      /\ rq' = IF ToSend(o) THEN rq ELSE Append(rq, [kind |-> o, by |-> by])
  BY <1>4 DEF ExecCommandPacket
<1>6. UNCHANGED <<bitVars, in_use, cpsVars, block, listed>> /\ closes' = IF o = "close" THEN closes + 1 ELSE closes
  BY DEF ExecCommandPacket
<1> HIDE DEF o
<1>7. QED
  BY <1>1, <1>2, <1>3, <1>5, <1>6 DEF o

LEMMA EndedFrame ==
  ASSUME Ended, at'[Recv] = at[Recv], at'[Send] = at[Send], listed' = listed,
         \A i \in 1 .. Len(rq') : rq'[i].kind = "null" => \E j \in 1 .. Len(rq) : rq[j].kind = "null"
  PROVE  Ended'
BY DEF Ended

LEMMA EndedApp == ASSUME Base, Ended, NEW t \in Apps, AppSteps(t) PROVE Ended'
<1>1. /\ at'[Recv] = at[Recv] /\ at'[Send] = at[Send] /\ listed' = listed
      /\ rq' = rq \/ ExecCommandPacket(t)
  BY AppStays
<1>2. ASSUME NEW i \in 1 .. Len(rq'), rq'[i].kind = "null" PROVE \E j \in 1 .. Len(rq) : rq[j].kind = "null"
  <2>1. CASE rq' = rq
    BY <1>2, <2>1
  <2>2. CASE rq' # rq
    <3>1. /\ at[t][1] \in {"connect", "accept", "ssl", "read", "close"} /\ at[t][1] \in RecvKinds
          /\ \E by \in Apps \cup {None} : rq' = Append(rq, [kind |-> at[t][1], by |-> by])
      BY <1>1, <2>2, ExecIs DEF RecvKinds
    <3>2. /\ Len(rq) \in Nat /\ Len(rq') = Len(rq) + 1 /\ rq'[Len(rq) + 1].kind = at[t][1]
          /\ \A k \in 1 .. Len(rq) : rq'[k] = rq[k]
          /\ i \in 1 .. Len(rq) \/ i = Len(rq) + 1
      BY <3>1, RecvGrown
    <3>3. i # Len(rq) + 1
      BY <1>2, <3>1, <3>2
    <3>4. QED
      BY <1>2, <3>2, <3>3
  <2>3. QED
    BY <2>1, <2>2
<1>3. QED
  BY <1>1, <1>2, EndedFrame

(* Where the receive thread goes. *)
LEMMA RecvGoesTo ==
  ASSUME Base, NEW v \in RecvAt, at' = [at EXCEPT ![Recv] = v]
  PROVE  at'[Recv] = v /\ at'[Send] = at[Send] /\ \A t \in Apps : at'[t] = at[t]
BY RecvGoes DEF Base, Types

LEMMA EndedRecv ==
  ASSUME Base, Ended, NEW v, at'[Recv] = v, at'[Send] = at[Send], rq' = rq, listed' = listed,
         at[Recv][1] # "close", v[1] # "close", v[2] = "end" => ~listed
  PROVE  Ended'
BY DEF Ended

LEMMA EndedReadMessage == ASSUME Base, Ended, ReadMessage PROVE Ended'
<1> DEFINE k == Head(rq).kind
<1> DEFINE v == <<k, CASE k \in {"connect", "accept", "ssl"} -> "in_use"
                        [] k = "close" -> "join" [] k = "null" -> "end" [] OTHER -> "wait">>
<1>1. rq # <<>> /\ at[Recv] = Idle /\ at' = [at EXCEPT ![Recv] = v] /\ rq' = rq /\ listed' = listed
  BY DEF ReadMessage, Go, pipeVars, restVars
<1>2. k \in RecvKinds /\ k = rq[1].kind /\ 1 \in 1 .. Len(rq)
  BY <1>1, HeadOne
<1>3. v \in RecvAt /\ v[1] = k /\ (v[2] = "end" => k = "null") /\ (k = "close" => v = <<"close", "join">>)
  BY <1>2 DEF RecvAt, RecvKinds
<1> HIDE DEF v, k
<1>4. at'[Recv] = v /\ at'[Send] = at[Send]
  BY <1>1, <1>3, RecvGoesTo
<1>5. v[2] = "end" => ~listed
  BY <1>1, <1>2, <1>3 DEF Ended, Idle
<1>6. CASE k # "close"
  BY <1>1, <1>3, <1>4, <1>5, <1>6, EndedRecv DEF Idle
<1>7. CASE k = "close"
  <2>1. v = <<"close", "join">>
    BY <1>3, <1>7
  <2>2. QED
    BY <1>1, <1>4, <2>1 DEF Ended, Idle
<1>8. QED
  BY <1>6, <1>7

LEMMA EndedReply == ASSUME Base, Ended, Reply PROVE Ended'
<1>1. /\ at[Recv][2] = "reply" /\ at' = [Answer(Head(rq).by) EXCEPT ![Recv] = Idle] /\ rq' = Tail(rq)
      /\ listed' = listed
  BY DEF Reply, restVars
<1>2. rq # <<>>
  BY <1>1, AtCommand DEF Idle
<1>3. at'[Recv] = Idle /\ at'[Send] = at[Send]
  BY <1>1, <1>2, RecvAnswered, ThreadsAre
<1>4. \A i \in 1 .. Len(rq') : rq'[i] = rq[i + 1] /\ i + 1 \in 1 .. Len(rq)
  BY <1>1, <1>2, RecvShrunk
<1>5. at[Recv] # <<"close", "trash">>
  BY <1>1
<1>6. QED
  BY <1>1, <1>3, <1>4, <1>5 DEF Ended, Idle

LEMMA EndedEndOwnPipe == ASSUME Base, Ended, EndOwnPipe PROVE Ended'
<1>1. /\ at[Recv] = <<"close", "null">> /\ at' = [at EXCEPT ![Recv] = <<"close", "trash">>] /\ listed' = listed
  BY DEF EndOwnPipe, Go, restVars
<1>2. at'[Recv] = <<"close", "trash">> /\ at'[Send] = at[Send]
  BY <1>1, RecvGoesTo DEF RecvAt
<1>3. QED
  BY <1>1, <1>2 DEF Ended

LEMMA EndedMoveToTrash == ASSUME Base, Ended, MoveToTrash PROVE Ended'
<1>1. /\ at[Recv] = <<"close", "trash">> /\ at' = [at EXCEPT ![Recv] = <<"close", "load_release">>]
      /\ listed' = FALSE /\ rq' = rq
  BY DEF MoveToTrash, Go, pipeVars
<1>2. at'[Recv] = <<"close", "load_release">> /\ at'[Send] = at[Send]
  BY <1>1, RecvGoesTo DEF RecvAt
<1>3. QED
  BY <1>1, <1>2 DEF Ended

LEMMA EndedJoin == ASSUME Base, Ended, JoinSendThread PROVE Ended'
<1>1. /\ at[Recv] = <<"close", "join">> /\ at' = [at EXCEPT ![Recv] = <<"close", "load">>]
      /\ listed' = listed /\ rq' = rq /\ at[Send][2] = "end"
  BY DEF JoinSendThread, Go, pipeVars, restVars
<1>2. at'[Recv] = <<"close", "load">> /\ at'[Send] = at[Send]
  BY <1>1, RecvGoesTo DEF RecvAt
<1>3. QED
  BY <1>1, <1>2 DEF Ended

(* The handlers of connect, accept, SSL and read. *)
LEMMA EndedHandler ==
  ASSUME Base, Ended, LockInHandler \/ TcpConnect \/ TcpListen \/ UnlockInHandler \/ ReadCallBack
  PROVE  Ended'
<1>1. at[Recv] \in RecvAt
  BY DEF Base, Types, AtOK
<1>2. at[Recv][1] \in {"connect", "connected", "failed", "accept", "ssl", "read"}
  BY <1>1, RecvAtIs DEF LockInHandler, TcpConnect, TcpListen, UnlockInHandler, ReadCallBack
<1>3. PICK o \in {"connect", "connected", "failed", "accept", "ssl", "read"}, s \in {"unlock", "bind", "load", "reply"} :
        at' = [at EXCEPT ![Recv] = <<o, s>>]
  BY <1>2 DEF LockInHandler, TcpConnect, TcpListen, UnlockInHandler, ReadCallBack, Go
<1>4. at'[Recv] = <<o, s>> /\ at'[Send] = at[Send]
  BY <1>3, ThreadsAre DEF Base, Types, AtOK
<1>5. rq' = rq /\ listed' = listed
  BY DEF LockInHandler, TcpConnect, TcpListen, UnlockInHandler, ReadCallBack, pipeVars, restVars
<1>6. QED
  BY <1>2, <1>3, <1>4, <1>5, EndedRecv

LEMMA EndedLoad == ASSUME Base, Ended, LoadInHandler PROVE Ended'
<1>1. at[Recv] \in RecvAt /\ at[Recv][2] \in {"load", "load_release"} /\ at[Recv] = <<at[Recv][1], at[Recv][2]>>
      /\ rq' = rq /\ listed' = listed
  BY RecvAtIs DEF LoadInHandler, Base, Types, AtOK, pipeVars, restVars
<1>2. at'[Send] = at[Send] /\
      at'[Recv] = <<at[Recv][1], IF at[Recv][2] = "load" THEN "store" ELSE "store_release">>
  BY ThreadsAre DEF LoadInHandler, Go, Base, Types, AtOK
<1>3. CASE at[Recv][1] # "close"
  BY <1>1, <1>2, <1>3, EndedRecv
<1>4. CASE at[Recv] = <<"close", "load">>
  BY <1>1, <1>2, <1>4 DEF Ended
<1>5. CASE at[Recv] = <<"close", "load_release">>
  BY <1>1, <1>2, <1>5 DEF Ended
<1>6. QED
  BY <1>1, <1>3, <1>4, <1>5

LEMMA EndedStore == ASSUME Base, Ended, StoreInHandler PROVE Ended'
<1>1. at[Recv] \in RecvAt /\ at[Recv][2] \in {"store", "store_release"} /\ at[Recv] = <<at[Recv][1], at[Recv][2]>>
      /\ at[Recv][1] \in {"connected", "failed", "accept", "close"}
      /\ (at[Recv][2] = "store_release" => at[Recv][1] = "close")
      /\ rq' = rq /\ listed' = listed
  BY RecvAtIs DEF StoreInHandler, Base, Types, AtOK, pipeVars, restVars
<1>2. at'[Send] = at[Send] /\
      at'[Recv] = <<at[Recv][1], IF at[Recv][2] = "store_release" THEN "reply"
                                 ELSE IF at[Recv][1] = "accept" THEN "unlock"
                                 ELSE IF at[Recv][1] = "close" THEN "null" ELSE "reply">>
  BY <1>1, ThreadsAre DEF StoreInHandler, Go, Base, Types, AtOK
<1>3. CASE at[Recv][1] # "close"
  BY <1>1, <1>2, <1>3, EndedRecv
<1>4. CASE at[Recv] = <<"close", "store">>
  BY <1>1, <1>2, <1>4 DEF Ended
<1>5. CASE at[Recv] = <<"close", "store_release">>
  BY <1>1, <1>2, <1>5 DEF Ended
<1>6. QED
  BY <1>1, <1>3, <1>4, <1>5

(* The send thread that has ended does nothing more. *)
LEMMA EndedSend == ASSUME Base, Ended, SendSteps PROVE Ended'
<1>1. at[Send] \in SendAt
  BY DEF Base, Types, AtOK
<1>2. at[Send][2] # "end"
  BY DEF SendSteps, SendThread, WriteFails, TcpClose, Idle
<1>3. rq' = rq /\ listed' = listed
  BY DEF SendSteps, SendThread, WriteFails, TcpClose, pipeVars, restVars
<1>4. at'[Recv] = at[Recv]
  <2>1. CASE SendThread
    <3>1. sq # <<>> /\ (at' = Answer(Head(sq).by) \/ \E v : at' = [at EXCEPT ![Send] = v])
      BY <2>1 DEF SendThread, Go
    <3>2. QED
      BY <3>1, SendAnswered, ThreadsAre DEF Base, Types, AtOK
  <2>2. CASE WriteFails \/ TcpClose
    <3>1. \E v : at' = [at EXCEPT ![Send] = v]
      BY <2>2 DEF WriteFails, TcpClose, Go
    <3>2. QED
      BY <3>1, ThreadsAre DEF Base, Types, AtOK
  <2>3. QED
    BY <2>1, <2>2 DEF SendSteps
<1>5. QED
  BY <1>2, <1>3, <1>4 DEF Ended

LEMMA EndedDrain == ASSUME Base, Ended, Drain PROVE Ended'
<1>1. at[Recv][2] = "end" /\ listed' = listed
  BY DEF Drain, restVars
<1>2. at'[Recv] = at[Recv] /\ at'[Send] = at[Send]
  BY SendAnswered, RecvAnswered DEF Drain
<1>3. QED
  BY <1>1, <1>2 DEF Ended

LEMMA EndedStep == ASSUME Base, Ended, Next PROVE Ended'
<1>1. ASSUME NEW t \in Apps, AppSteps(t) PROVE Ended'
  BY <1>1, EndedApp
<1>2. CASE RecvSteps \/ TcpListen
  BY <1>2, EndedReadMessage, EndedReply, EndedHandler, EndedLoad, EndedStore, EndedJoin, EndedEndOwnPipe,
     EndedMoveToTrash DEF RecvSteps
<1>3. CASE Peer
  BY <1>3 DEF Peer, Ended, pipeVars, restVars
<1>4. QED
  BY <1>1, <1>2, <1>3, EndedSend, EndedDrain DEF Next, AppSteps

LEMMA BaseStep == ASSUME Base, Ended, Next PROVE Base'
<1>1. ASSUME NEW t \in Apps, AppSteps(t) PROVE Base'
  BY <1>1, BaseCall, BaseLoad, BaseStore, BaseRefused, BaseLockToRead, BaseCopy, BaseUnlockReader,
     BaseSendNull, BaseExec DEF AppSteps, CallSteps
<1>2. CASE RecvSteps \/ TcpListen
  BY <1>2, BaseReadMessage, BaseReply, BaseLockInHandler, BaseTcp, BaseUnlockInHandler, BaseLoadInHandler,
     BaseStoreInHandler, BaseReadCallBack, BaseJoin, BaseEndOwnPipe, BaseMoveToTrash DEF RecvSteps
<1>3. CASE Drain
  <2>1. at[Send][2] = "end" /\ at[Send] \in SendAt
    BY <1>3 DEF Drain, Ended, Base, Types, AtOK
  <2>2. at[Send][1] # "write"
    BY <2>1, SendAtIs
  <2>3. QED
    BY <1>3, <2>2, BaseDrain
<1>4. QED
  BY <1>1, <1>2, <1>3, BaseSendThread, BaseWriteFails, BaseTcpClose, BasePeer DEF Next, SendSteps, AppSteps

(* The other threads change the place of an application only by answering it. *)
Others == RecvSteps \/ TcpListen \/ SendSteps \/ Drain \/ Peer

LEMMA AnswersOnly ==
  ASSUME Base, Others
  PROVE  /\ block' = block
         /\ \A t \in Apps : \/ at'[t] = at[t]
                            \/ at[t][2] = "response" /\ at'[t] \in {Idle, <<"read", "unlock">>}
<1>1. block' = block
  BY DEF Others, RecvSteps, SendSteps, ReadMessage, Reply, LockInHandler, TcpConnect, TcpListen, UnlockInHandler,
     LoadInHandler, StoreInHandler, ReadCallBack, JoinSendThread, EndOwnPipe, MoveToTrash, SendThread,
     WriteFails, TcpClose, Drain, Peer, restVars
<1>2. ASSUME NEW t \in Apps
      PROVE  at'[t] = at[t] \/ (at[t][2] = "response" /\ at'[t] \in {Idle, <<"read", "unlock">>})
  <2>1. ASSUME NEW by \in Apps \cup {None}, NEW k, by # None => at[by] = <<k, "response">>, at'[t] = Answer(by)[t]
        PROVE  at'[t] = at[t] \/ (at[t][2] = "response" /\ at'[t] \in {Idle, <<"read", "unlock">>})
    <3>1. CASE t = by
      BY <2>1, <3>1, Answered, ThreadsAre DEF Base, Types
    <3>2. CASE t # by
      BY <2>1, <3>2, Answered DEF Base, Types
    <3>3. QED
      BY <3>1, <3>2
  <2>2. ASSUME rq # <<>>, at'[t] = Answer(Head(rq).by)[t]
        PROVE  at'[t] = at[t] \/ (at[t][2] = "response" /\ at'[t] \in {Idle, <<"read", "unlock">>})
    <3>1. Head(rq) = rq[1] /\ 1 \in 1 .. Len(rq)
      BY <2>2, HeadOne
    <3>2. Head(rq).by \in Apps \cup {None} /\ (Head(rq).by # None => at[Head(rq).by] = <<Head(rq).kind, "response">>)
      BY <3>1, WaitsApart
    <3>3. QED
      BY <2>1, <2>2, <3>2
  <2>3. ASSUME sq # <<>>, at'[t] = Answer(Head(sq).by)[t]
        PROVE  at'[t] = at[t] \/ (at[t][2] = "response" /\ at'[t] \in {Idle, <<"read", "unlock">>})
    <3>1. Head(sq) = sq[1] /\ 1 \in 1 .. Len(sq)
      BY <2>3, Shrunk DEF Base, Types, QueuesOK
    <3>2. Head(sq).by \in Apps \cup {None} /\ (Head(sq).by # None => at[Head(sq).by] = <<Head(sq).kind, "response">>)
      BY <3>1, WaitsApart
    <3>3. QED
      BY <2>1, <2>3, <3>2
  <2>4. CASE Reply
    <3>1. rq # <<>>
      BY <2>4, AtCommand DEF Reply, Idle
    <3>2. at'[t] = Answer(Head(rq).by)[t]
      BY <2>4, <3>1, RecvAnswered, ThreadsAre DEF Reply
    <3>3. QED
      BY <2>2, <3>1, <3>2
  <2>5. CASE SendThread
    <3>1. sq # <<>> /\ (at' = Answer(Head(sq).by) \/ \E v : at' = [at EXCEPT ![Send] = v])
      BY <2>5 DEF SendThread, Go
    <3>2. QED
      BY <2>3, <3>1, ThreadsAre DEF Base, Types, AtOK
  <2>6. CASE Drain
    BY <2>2, <2>3, <2>6 DEF Drain
  <2>7. CASE WriteFails \/ TcpClose \/ Peer
    BY <2>7, ThreadsAre DEF WriteFails, TcpClose, Peer, Go, Base, Types, AtOK
  <2>8. CASE (RecvSteps /\ ~Reply) \/ TcpListen
    <3>1. \E v : at' = [at EXCEPT ![Recv] = v]
      <4>1. CASE StoreInHandler
        <5>1. at[Recv] \in RecvAt
          BY DEF Base, Types, AtOK
        <5>2. at[Recv][2] = "store" => at[Recv][1] \in {"connected", "failed", "accept", "close"}
          BY <5>1, RecvAtIs
        <5>3. QED
          BY <4>1, <5>2 DEF StoreInHandler, Go
      <4>2. CASE ReadMessage
        BY <4>2 DEF ReadMessage, Go
      <4>3. CASE LockInHandler \/ UnlockInHandler \/ LoadInHandler
        BY <4>3 DEF LockInHandler, UnlockInHandler, LoadInHandler, Go
      <4>4. CASE TcpConnect \/ TcpListen \/ ReadCallBack
        BY <4>4 DEF TcpConnect, TcpListen, ReadCallBack, Go
      <4>5. CASE JoinSendThread \/ EndOwnPipe \/ MoveToTrash
        BY <4>5 DEF JoinSendThread, EndOwnPipe, MoveToTrash, Go
      <4>6. QED
        BY <2>8, <4>1, <4>2, <4>3, <4>4, <4>5 DEF RecvSteps
    <3>2. QED
      BY <3>1, ThreadsAre DEF Base, Types, AtOK
  <2>9. QED
    BY <2>4, <2>5, <2>6, <2>7, <2>8 DEF Others, SendSteps
<1>3. QED
  BY <1>1, <1>2

LEMMA AcceptBlocksStep == ASSUME Base, Ended, AcceptBlocks, Next PROVE AcceptBlocks'
<1>1. ASSUME NEW t \in Apps, AppSteps(t) PROVE AcceptBlocks'
  <2>1. block' = block /\ \A u \in Apps : u # t => at'[u] = at[u]
    BY <1>1, AppStays
  <2>2. at'[t][1] = "accept" => block
    <3>1. ASSUME NEW o \in Calls, Call(t, o), at'[t][1] = "accept" PROVE block
      <4>1. at'[t][1] = o
        BY <3>1, ThreadsAre DEF Call, Go, Base, Types, AtOK
      <4>2. QED
        BY <3>1, <4>1 DEF Call, MayCall, MayAccept
    <3>2. ASSUME CallSteps(t) PROVE at'[t][1] \in {at[t][1], "none", "read", "close"}
      <4>1. PICK v : at' = [at EXCEPT ![t] = v] /\ v[1] \in {at[t][1], "none", "read", "close"}
        <5>1. CASE ExecCommandPacket(t)
          BY <5>1 DEF ExecCommandPacket, Go, Return, Idle
        <5>2. CASE StoreInCall(t)
          BY <5>2 DEF StoreInCall, Go, Return, Idle
        <5>3. CASE LoadInCall(t) \/ SendNull(t) \/ ExecRefused(t)
          BY <5>3 DEF LoadInCall, SendNull, ExecRefused, Go, Return, Idle
        <5>4. CASE LockToRead(t) \/ CopyCPSBuffer(t) \/ UnlockReader(t)
          BY <5>4 DEF LockToRead, CopyCPSBuffer, UnlockReader, Go, Return, Idle
        <5>5. QED
          BY <3>2, <5>1, <5>2, <5>3, <5>4 DEF CallSteps
      <4>2. QED
        BY <4>1, ThreadsAre DEF Base, Types, AtOK
    <3>3. QED
      BY <1>1, <3>1, <3>2 DEF AppSteps, AcceptBlocks
  <2>3. QED
    BY <2>1, <2>2 DEF AcceptBlocks
<1>2. CASE Others
  BY <1>2, AnswersOnly DEF AcceptBlocks, Idle
<1>3. QED
  BY <1>1, <1>2 DEF Next, AppSteps, Others

(* What a call or the send thread has tested holds of what it has loaded. *)
Tested ==
  /\ \A t \in Apps :
       /\ at[t] = <<"connect", "store">> => reg[t] \cap {"CLOSING", "CONNECTED", "CONNECTING"} = {}
       /\ at[t] = <<"accept", "store">> => "CONNECTING" \notin reg[t]
       /\ at[t] = <<"poll", "store">> => "CONNECTED" \in reg[t]
       /\ at[t] = <<"close", "store">> => "WAIT_CLOSE" \notin reg[t] \/ "close" \in race
  /\ at[Send] = <<"write", "store">> => "CONNECTED" \in reg[Send]

(* A store that is not torn. *)
LEMMA StoreWhole ==
  ASSUME BitsOK, NEW t \in Threads, NEW del, NEW add, Store(t, del, add), Followed'
  PROVE  /\ reg[t] = status /\ status' = (status \ del) \cup add /\ race' = race
         /\ \A u \in Threads : u # t => reg'[u] = reg[u]
<1>1. reg[t] = status
  <2>1. SUFFICES ASSUME reg[t] # status PROVE FALSE
    OBVIOUS
  <2>2. "torn" \in race'
    BY <2>1 DEF Store
  <2>3. QED
    BY <2>2 DEF Followed
<1>2. QED
  BY <1>1 DEF Store, BitsOK

LEMMA LoadWhole ==
  ASSUME BitsOK, NEW t \in Threads, Load(t)
  PROVE  /\ reg'[t] = status /\ status' = status /\ \A u \in Threads : u # t => reg'[u] = reg[u]
BY DEF Load, BitsOK

(* The history only grows. *)
LEMMA RaceGrows == ASSUME Base, Next PROVE race \subseteq race'
<1>1. ASSUME NEW t \in Apps, CallSteps(t) PROVE race \subseteq race'
  <2>1. CASE StoreInCall(t)
    BY <2>1 DEF StoreInCall, Store
  <2>2. CASE ExecCommandPacket(t) \/ ExecRefused(t)
    BY <2>2 DEF ExecCommandPacket, ExecRefused
  <2>3. CASE LoadInCall(t) \/ SendNull(t) \/ LockToRead(t) \/ CopyCPSBuffer(t) \/ UnlockReader(t)
    BY <2>3 DEF LoadInCall, SendNull, LockToRead, CopyCPSBuffer, UnlockReader
  <2>4. QED
    BY <1>1, <2>1, <2>2, <2>3 DEF CallSteps
<1>2. ASSUME NEW t \in Apps, NEW o \in Calls, Call(t, o) PROVE race \subseteq race'
  BY <1>2 DEF Call
<1>4. CASE StoreInHandler
  <2>1. at[Recv] \in RecvAt
    BY DEF Base, Types, AtOK
  <2>2. at[Recv][2] = "store" => at[Recv][1] \in {"connected", "failed", "accept", "close"}
    BY <2>1, RecvAtIs
  <2>3. race' = race \/ race' = race \cup {"torn"}
    BY <1>4, <2>2 DEF StoreInHandler, Store
  <2>4. QED
    BY <2>3
<1>5. CASE WriteFails
  BY <1>5 DEF WriteFails, Store
<1>6. CASE ReadMessage \/ Reply \/ LockInHandler \/ TcpConnect \/ UnlockInHandler \/ LoadInHandler
  BY <1>6 DEF ReadMessage, Reply, LockInHandler, TcpConnect, UnlockInHandler, LoadInHandler
<1>7. CASE ReadCallBack \/ JoinSendThread \/ EndOwnPipe \/ MoveToTrash \/ TcpListen
  BY <1>7 DEF ReadCallBack, JoinSendThread, EndOwnPipe, MoveToTrash, TcpListen
<1>8. CASE SendThread \/ TcpClose \/ Drain \/ Peer
  BY <1>8 DEF SendThread, TcpClose, Drain, Peer
<1>9. QED
  BY <1>1, <1>2, <1>4, <1>5, <1>6, <1>7, <1>8 DEF Next, RecvSteps, SendSteps

(* A thread's step leaves what the others have loaded. *)
LEMMA RegsStay ==
  ASSUME Base
  PROVE  /\ \A t \in Apps : AppSteps(t) => \A u \in Threads : u # t => reg'[u] = reg[u]
         /\ RecvSteps \/ TcpListen => \A u \in Threads : u # Recv => reg'[u] = reg[u]
         /\ SendSteps => \A u \in Threads : u # Send => reg'[u] = reg[u]
         /\ Drain \/ Peer => \A u \in Threads : reg'[u] = reg[u]
<1>1. reg \in [Threads -> SUBSET Bits]
  BY DEF Base, Types, BitsOK
<1>2. ASSUME NEW t \in Threads, reg' = reg \/ \E v : reg' = [reg EXCEPT ![t] = v]
      PROVE  \A u \in Threads : u # t => reg'[u] = reg[u]
  BY <1>1, <1>2
<1>3. ASSUME NEW t \in Apps, AppSteps(t) PROVE \A u \in Threads : u # t => reg'[u] = reg[u]
  <2>1. reg' = reg \/ \E v : reg' = [reg EXCEPT ![t] = v]
    <3>1. CASE LoadInCall(t)
      BY <3>1 DEF LoadInCall, Load, bitVars
    <3>2. CASE StoreInCall(t)
      BY <3>2 DEF StoreInCall, Store
    <3>3. CASE \E o \in Calls : Call(t, o)
      BY <3>3 DEF Call, bitVars
    <3>4. CASE SendNull(t) \/ ExecCommandPacket(t) \/ ExecRefused(t) \/ LockToRead(t) \/ CopyCPSBuffer(t) \/ UnlockReader(t)
      BY <3>4 DEF SendNull, ExecCommandPacket, ExecRefused, LockToRead, CopyCPSBuffer, UnlockReader, bitVars
    <3>5. QED
      BY <1>3, <3>1, <3>2, <3>3, <3>4 DEF AppSteps, CallSteps
  <2>2. QED
    BY <1>2, <2>1, ThreadsAre
<1>4. ASSUME RecvSteps \/ TcpListen PROVE \A u \in Threads : u # Recv => reg'[u] = reg[u]
  <2>1. reg' = reg \/ \E v : reg' = [reg EXCEPT ![Recv] = v]
    <3>1. CASE StoreInHandler
      <4>1. at[Recv] \in RecvAt
        BY DEF Base, Types, AtOK
      <4>2. at[Recv][2] = "store" => at[Recv][1] \in {"connected", "failed", "accept", "close"}
        BY <4>1, RecvAtIs
      <4>3. QED
        BY <3>1, <4>2 DEF StoreInHandler, Store
    <3>2. CASE LoadInHandler
      BY <3>2 DEF LoadInHandler, Load
    <3>3. CASE RecvSteps /\ ~StoreInHandler /\ ~LoadInHandler
      BY <3>3 DEF RecvSteps, ReadMessage, Reply, LockInHandler, TcpConnect, UnlockInHandler, ReadCallBack,
         JoinSendThread, EndOwnPipe, MoveToTrash, bitVars
    <3>4. QED
      BY <1>4, <3>1, <3>2, <3>3 DEF TcpListen, bitVars
  <2>2. QED
    BY <1>2, <2>1, ThreadsAre
<1>5. ASSUME SendSteps PROVE \A u \in Threads : u # Send => reg'[u] = reg[u]
  <2>1. reg' = reg \/ \E v : reg' = [reg EXCEPT ![Send] = v]
    BY <1>5 DEF SendSteps, SendThread, WriteFails, TcpClose, Load, Store, bitVars
  <2>2. QED
    BY <1>2, <2>1, ThreadsAre
<1>6. ASSUME Drain \/ Peer PROVE \A u \in Threads : reg'[u] = reg[u]
  BY <1>6 DEF Drain, Peer, bitVars
<1>7. QED
  BY <1>3, <1>4, <1>5, <1>6

LEMMA TestedFrame ==
  ASSUME Tested, race \subseteq race',
         \A t \in Apps : (at'[t] = at[t] /\ reg'[t] = reg[t]) \/ at'[t][2] # "store",
         (at'[Send] = at[Send] /\ reg'[Send] = reg[Send]) \/ at'[Send] # <<"write", "store">>
  PROVE  Tested'
<1>1. \A t \in Apps :
        /\ at'[t] = <<"connect", "store">> => reg'[t] \cap {"CLOSING", "CONNECTED", "CONNECTING"} = {}
        /\ at'[t] = <<"accept", "store">> => "CONNECTING" \notin reg'[t]
        /\ at'[t] = <<"poll", "store">> => "CONNECTED" \in reg'[t]
        /\ at'[t] = <<"close", "store">> => "WAIT_CLOSE" \notin reg'[t] \/ "close" \in race'
  <2>1. SUFFICES ASSUME NEW t \in Apps
        PROVE /\ at'[t] = <<"connect", "store">> => reg'[t] \cap {"CLOSING", "CONNECTED", "CONNECTING"} = {}
              /\ at'[t] = <<"accept", "store">> => "CONNECTING" \notin reg'[t]
              /\ at'[t] = <<"poll", "store">> => "CONNECTED" \in reg'[t]
              /\ at'[t] = <<"close", "store">> => "WAIT_CLOSE" \notin reg'[t] \/ "close" \in race'
    OBVIOUS
  <2>2. CASE at'[t] = at[t] /\ reg'[t] = reg[t]
    BY <2>2 DEF Tested
  <2>3. CASE at'[t][2] # "store"
    BY <2>3
  <2>4. QED
    BY <2>2, <2>3
<1>2. at'[Send] = <<"write", "store">> => "CONNECTED" \in reg'[Send]
  BY DEF Tested
<1>3. QED
  BY <1>1, <1>2 DEF Tested

LEMMA TestedLoad ==
  ASSUME Base, Tested, NEW t \in Apps, LoadInCall(t), Followed'
  PROVE  Tested'
<1>1. /\ at'[Send] = at[Send] /\ \A u \in Apps : u # t => at'[u] = at[u]
      /\ \A u \in Threads : u # t => reg'[u] = reg[u]
  BY AppStays, RegsStay DEF AppSteps, CallSteps
<1> DEFINE o == at[t][1]
<1>2. at[t] = <<o, "load">> /\ o \in Shared
  BY AppAtIs DEF LoadInCall, Base, Types, AtOK
<1>3. CASE Return(t)
  <2>1. at'[t][2] # "store" /\ race' = race
    BY <1>3, ThreadsAre DEF LoadInCall, Go, Return, Idle, Base, Types, AtOK
  <2>2. QED
    BY <1>1, <2>1, ThreadsAre, TestedFrame
<1>4. CASE Go(t, o, "store") /\ Load(t) /\ race' = race \cup Overtaken(o)
  <2>1. at'[t] = <<o, "store">>
    BY <1>4, ThreadsAre DEF Go, Base, Types, AtOK
  <2>2. reg'[t] = status
    BY <1>4, LoadWhole, ThreadsAre DEF Base, Types
  <2>3. o = "connect" => status \cap {"CLOSING", "CONNECTED", "CONNECTING"} = {}
    BY <1>4 DEF Followed, Overtaken, MayCall, MayConnect
  <2>4. o = "accept" => "CONNECTING" \notin status
    BY <1>4 DEF Followed, Overtaken, MayCall, MayAccept, Has
  <2>5. o = "poll" => "CONNECTED" \in status
    BY <1>4 DEF Followed, Overtaken, MayCall, SeesEnd, Has
  <2>6. o = "close" => "WAIT_CLOSE" \notin status \/ "close" \in race'
    BY <1>4 DEF Overtaken, MayCall, MayClose, Has
  <2>7. race \subseteq race' /\ at'[t][1] = o
    BY <1>4, <2>1
  <2> HIDE DEF o
  <2>8. /\ at'[t] = <<"connect", "store">> => reg'[t] \cap {"CLOSING", "CONNECTED", "CONNECTING"} = {}
        /\ at'[t] = <<"accept", "store">> => "CONNECTING" \notin reg'[t]
        /\ at'[t] = <<"poll", "store">> => "CONNECTED" \in reg'[t]
        /\ at'[t] = <<"close", "store">> => "WAIT_CLOSE" \notin reg'[t] \/ "close" \in race'
    <3>1. /\ at'[t] = <<"connect", "store">> => o = "connect"
          /\ at'[t] = <<"accept", "store">> => o = "accept"
          /\ at'[t] = <<"poll", "store">> => o = "poll"
          /\ at'[t] = <<"close", "store">> => o = "close"
      BY <2>1
    <3>2. QED
      BY <2>2, <2>3, <2>4, <2>5, <2>6, <3>1
  <2>9. ASSUME NEW u \in Apps, u # t
        PROVE  /\ at'[u] = <<"connect", "store">> => reg'[u] \cap {"CLOSING", "CONNECTED", "CONNECTING"} = {}
               /\ at'[u] = <<"accept", "store">> => "CONNECTING" \notin reg'[u]
               /\ at'[u] = <<"poll", "store">> => "CONNECTED" \in reg'[u]
               /\ at'[u] = <<"close", "store">> => "WAIT_CLOSE" \notin reg'[u] \/ "close" \in race'
    <3>1. at'[u] = at[u] /\ reg'[u] = reg[u]
      BY <1>1, <2>9, ThreadsAre
    <3>2. QED
      BY <2>7, <3>1 DEF Tested
  <2>10. at'[Send] = <<"write", "store">> => "CONNECTED" \in reg'[Send]
    BY <1>1, ThreadsAre DEF Tested
  <2>11. QED
    BY <2>8, <2>9, <2>10 DEF Tested
<1>5. QED
  BY <1>3, <1>4 DEF LoadInCall

(* A thread of the socket is moved by its own steps alone. *)
LEMMA RecvGoesOnly ==
  ASSUME Base, RecvSteps \/ TcpListen, ~Reply
  PROVE  \E v : at' = [at EXCEPT ![Recv] = v]
<1>1. CASE StoreInHandler
  <2>1. at[Recv] \in RecvAt
    BY DEF Base, Types, AtOK
  <2>2. at[Recv][2] = "store" => at[Recv][1] \in {"connected", "failed", "accept", "close"}
    BY <2>1, RecvAtIs
  <2>3. QED
    BY <1>1, <2>2 DEF StoreInHandler, Go
<1>2. CASE ReadMessage
  BY <1>2 DEF ReadMessage, Go
<1>3. CASE LockInHandler \/ UnlockInHandler \/ LoadInHandler
  BY <1>3 DEF LockInHandler, UnlockInHandler, LoadInHandler, Go
<1>4. CASE TcpConnect \/ TcpListen \/ ReadCallBack
  BY <1>4 DEF TcpConnect, TcpListen, ReadCallBack, Go
<1>5. CASE JoinSendThread \/ EndOwnPipe \/ MoveToTrash
  BY <1>5 DEF JoinSendThread, EndOwnPipe, MoveToTrash, Go
<1>6. QED
  BY <1>1, <1>2, <1>3, <1>4, <1>5 DEF RecvSteps

LEMMA SendStays ==
  ASSUME Base, RecvSteps \/ TcpListen \/ Drain \/ Peer
  PROVE  at'[Send] = at[Send]
<1>1. CASE Reply
  <2>1. rq # <<>>
    BY <1>1, AtCommand DEF Reply, Idle
  <2>2. QED
    BY <1>1, <2>1, RecvAnswered, ThreadsAre DEF Reply
<1>2. CASE (RecvSteps \/ TcpListen) /\ ~Reply
  BY <1>2, RecvGoesOnly, ThreadsAre DEF Base, Types, AtOK
<1>3. CASE Drain
  BY <1>3, SendAnswered, RecvAnswered DEF Drain
<1>4. CASE Peer
  BY <1>4 DEF Peer
<1>5. QED
  BY <1>1, <1>2, <1>3, <1>4

LEMMA RecvStays ==
  ASSUME Base, SendSteps \/ Drain \/ Peer
  PROVE  at'[Recv] = at[Recv]
<1>1. CASE SendThread
  <2>1. sq # <<>> /\ (at' = Answer(Head(sq).by) \/ \E v : at' = [at EXCEPT ![Send] = v])
    BY <1>1 DEF SendThread, Go
  <2>2. QED
    BY <2>1, SendAnswered, ThreadsAre DEF Base, Types, AtOK
<1>2. CASE WriteFails \/ TcpClose
  <2>1. \E v : at' = [at EXCEPT ![Send] = v]
    BY <1>2 DEF WriteFails, TcpClose, Go
  <2>2. QED
    BY <2>1, ThreadsAre DEF Base, Types, AtOK
<1>3. CASE Drain
  BY <1>3, SendAnswered, RecvAnswered DEF Drain
<1>4. CASE Peer
  BY <1>4 DEF Peer
<1>5. QED
  BY <1>1, <1>2, <1>3, <1>4 DEF SendSteps

LEMMA TestedStep ==
  ASSUME Base, Tested, Next, Followed'
  PROVE  Tested'
<1>R. race \subseteq race'
  BY RaceGrows
<1>1. ASSUME NEW t \in Apps, AppSteps(t), ~LoadInCall(t) PROVE Tested'
  <2>1. /\ at'[Send] = at[Send] /\ \A u \in Apps : u # t => at'[u] = at[u]
        /\ \A u \in Threads : u # t => reg'[u] = reg[u]
    BY <1>1, AppStays, RegsStay
  <2>2. at'[t][2] # "store"
    <3>1. PICK v : at' = [at EXCEPT ![t] = v] /\ v[2] # "store"
      <4>1. CASE ExecCommandPacket(t)
        BY <4>1 DEF ExecCommandPacket, Go, Return, Idle
      <4>2. CASE StoreInCall(t)
        <5>1. PICK v \in {<<at[t][1], "exec">>, <<at[t][1], "null">>, Idle} : at' = [at EXCEPT ![t] = v]
          BY <4>2 DEF StoreInCall, Go, Return
        <5>2. v[2] # "store"
          BY <5>1 DEF Idle
        <5>3. QED
          BY <5>1, <5>2
      <4>3. CASE SendNull(t) \/ ExecRefused(t)
        BY <4>3 DEF SendNull, ExecRefused, Go, Return, Idle
      <4>4. CASE LockToRead(t) \/ CopyCPSBuffer(t) \/ UnlockReader(t)
        <5>1. PICK v \in {<<"read", "copy">>, <<"read", "exec">>, <<"read", "unlock">>, Idle} : at' = [at EXCEPT ![t] = v]
          BY <4>4 DEF LockToRead, CopyCPSBuffer, UnlockReader, Go, Return
        <5>2. v[2] # "store"
          BY <5>1 DEF Idle
        <5>3. QED
          BY <5>1, <5>2
      <4>5. CASE \E o \in Calls : Call(t, o)
        <5>1. PICK o \in Calls, s \in {"exec", "in_use", "load"} : at' = [at EXCEPT ![t] = <<o, s>>]
          BY <4>5 DEF Call, Go
        <5>2. <<o, s>>[2] # "store"
          OBVIOUS
        <5>3. QED
          BY <5>1, <5>2
      <4>6. QED
        BY <1>1, <4>1, <4>2, <4>3, <4>4, <4>5 DEF AppSteps, CallSteps
    <3>2. QED
      BY <3>1, ThreadsAre DEF Base, Types, AtOK
  <2>3. QED
    BY <1>R, <2>1, <2>2, ThreadsAre, TestedFrame
<1>2. ASSUME NEW t \in Apps, LoadInCall(t) PROVE Tested'
  BY <1>2, TestedLoad
<1>3. CASE Others
  <2>1. \A t \in Apps : at'[t] = at[t] \/ at'[t][2] # "store"
    BY <1>3, AnswersOnly DEF Idle
  <2>2. \A t \in Apps : reg'[t] = reg[t]
    BY <1>3, RegsStay, ThreadsAre DEF Others
  <2>3. CASE ~WriteFails
    <3>1. (at'[Send] = at[Send] /\ reg'[Send] = reg[Send]) \/ at'[Send] # <<"write", "store">>
      <4>1. CASE RecvSteps \/ TcpListen
        <5>1. reg'[Send] = reg[Send]
          BY <4>1, RegsStay, ThreadsAre
        <5>2. at'[Send] = at[Send]
          BY <4>1, SendStays
        <5>3. QED
          BY <5>1, <5>2
      <4>2. CASE SendThread
        <5>1. /\ sq # <<>>
              /\ \/ at' = Answer(Head(sq).by)
                 \/ at' = [at EXCEPT ![Send] = <<"null", "end">>] \/ at' = [at EXCEPT ![Send] = <<"write", "load">>]
          BY <4>2 DEF SendThread, Go
        <5>2. at[Send] = Idle
          BY <4>2 DEF SendThread
        <5>3. at'[Send] = Idle \/ at'[Send][2] # "store"
          BY <5>1, <5>2, SendAnswered, ThreadsAre DEF Base, Types, AtOK
        <5>4. QED
          BY <5>3 DEF Idle
      <4>3. CASE TcpClose
        BY <4>3, ThreadsAre DEF TcpClose, Idle, Base, Types, AtOK
      <4>4. CASE Drain
        BY <4>4, SendStays DEF Drain, bitVars
      <4>5. CASE Peer
        BY <4>5 DEF Peer, bitVars
      <4>6. QED
        BY <1>3, <2>3, <4>1, <4>2, <4>3, <4>4, <4>5 DEF Others, SendSteps
    <3>2. QED
      BY <1>R, <2>1, <2>2, <3>1, TestedFrame
  <2>4. CASE WriteFails
    <3>1. CASE at[Send][2] = "load"
      <4>1. Load(Send) /\ (Has("CONNECTED") \/ race' = race \cup {"write"})
        BY <2>4, <3>1 DEF WriteFails
      <4>2. reg'[Send] = status /\ "CONNECTED" \in status
        BY <4>1, LoadWhole, ThreadsAre DEF Base, Types, Followed, Has
      <4>3. QED
        BY <1>R, <2>1, <2>2, <4>2 DEF Tested
    <3>2. CASE at[Send][2] # "load"
      <4>1. at'[Send] # <<"write", "store">>
        BY <2>4, <3>2, ThreadsAre DEF WriteFails, Go, Base, Types, AtOK
      <4>2. QED
        BY <1>R, <2>1, <2>2, <4>1, TestedFrame
    <3>3. QED
      BY <3>1, <3>2
  <2>5. QED
    BY <2>3, <2>4
<1>4. QED
  BY <1>1, <1>2, <1>3 DEF Next, AppSteps, Others

(* Attempts to connect: calls that have announced one and not yet queued   *)
(* its command, commands queued and not yet done.                          *)
Attempts == {"connect", "accept"}
Done == at[Recv] \in ({"connected", "failed"} \X {"reply"}) \cup ({"accept"} \X {"unlock", "reply"})
Starting == {t \in Apps : at[t] \in Attempts \X {"exec"}}
Queued == {i \in 1 .. Len(rq) : rq[i].kind \in Attempts /\ (i = 1 => ~Done)}

(* The receive thread has yet to lock in_use for the command at the head.  *)
YetToLock == at[Recv] = Idle \/ at[Recv][2] = "in_use"
Lockers == {"connect", "accept", "ssl"}
ReadsAhead ==
  \A i, j \in 1 .. Len(rq) :
    i < j /\ rq[j].kind = "read" /\ rq[i].kind \in Lockers => i = 1 /\ ~YetToLock

(* The close handler has not cleared the bits. *)
Live == listed /\ at[Recv] \notin {"close"} \X {"null", "trash"}

(* At most one attempt is under way, on a socket that is not connected.    *)
Attempting ==
  /\ Live /\ (Starting # {} \/ Queued # {}) => Has("CONNECTING") /\ ~Has("CONNECTED")
  /\ Live => /\ \A t, u \in Starting : t = u
             /\ \A i, j \in Queued : i = j
             /\ Starting = {} \/ Queued = {}
  /\ Live /\ Has("CONNECTED") => Has("CONNECTING")
  /\ listed /\ ~Live => ~Has("CONNECTED")
  /\ Live /\ Has("CONNECTED") => \A i \in 1 .. Len(rq) : rq[i].kind # "ssl"
  /\ Live => \A i \in Queued : \A j \in 1 .. Len(rq) : i < j => rq[j].kind # "ssl"

(* A step that changes nothing of that. *)
Calm ==
  /\ rq' = rq /\ listed' = listed /\ Live' = Live /\ Done' = Done /\ (YetToLock' => YetToLock)
  /\ Starting' \subseteq Starting

LEMMA PlaceCalm ==
  ASSUME at'[Recv] = at[Recv], listed' = listed
  PROVE  Live' = Live /\ Done' = Done /\ YetToLock' = YetToLock
BY DEF Live, Done, YetToLock

LEMMA StartingStays ==
  ASSUME \A t \in Apps : at'[t] = at[t] \/ at'[t] \notin Attempts \X {"exec"}
  PROVE  Starting' \subseteq Starting
BY DEF Starting

LEMMA AppCalm ==
  ASSUME Base, NEW t \in Apps, AppSteps(t), ~ExecCommandPacket(t),
         StoreInCall(t) => at[t][1] \notin Attempts
  PROVE  Calm
<1>1. /\ at'[Recv] = at[Recv] /\ listed' = listed /\ rq' = rq
      /\ \A u \in Apps : u # t => at'[u] = at[u]
  BY AppStays
<1>2. at'[t] \notin Attempts \X {"exec"}
  <2>1. PICK v : at' = [at EXCEPT ![t] = v] /\ v \notin Attempts \X {"exec"}
    <3>1. CASE \E o \in Calls : Call(t, o)
      <4>1. PICK o \in Calls, s \in {"exec", "in_use", "load"} :
              at' = [at EXCEPT ![t] = <<o, s>>] /\ (s = "exec" => o \in {"ssl", "write"})
        BY <3>1 DEF Call, Go
      <4>2. <<o, s>> \notin Attempts \X {"exec"}
        BY <4>1 DEF Attempts
      <4>3. QED
        BY <4>1, <4>2
    <3>2. CASE LoadInCall(t)
      <4>1. PICK v \in {<<at[t][1], "store">>, Idle} : at' = [at EXCEPT ![t] = v]
        BY <3>2 DEF LoadInCall, Go, Return
      <4>2. v \notin Attempts \X {"exec"}
        BY <4>1 DEF Attempts, Idle
      <4>3. QED
        BY <4>1, <4>2
    <3>3. CASE StoreInCall(t)
      <4>1. PICK v \in {<<at[t][1], "exec">>, <<at[t][1], "null">>, Idle} : at' = [at EXCEPT ![t] = v]
        BY <3>3 DEF StoreInCall, Go, Return
      <4>2. v \notin Attempts \X {"exec"}
        BY <3>3, <4>1 DEF Attempts, Idle
      <4>3. QED
        BY <4>1, <4>2
    <3>4. CASE SendNull(t) \/ ExecRefused(t) \/ LockToRead(t) \/ CopyCPSBuffer(t) \/ UnlockReader(t)
      <4>1. PICK v \in {<<"close", "exec">>, <<"read", "copy">>, <<"read", "exec">>, <<"read", "unlock">>, Idle} :
              at' = [at EXCEPT ![t] = v]
        BY <3>4 DEF SendNull, ExecRefused, LockToRead, CopyCPSBuffer, UnlockReader, Go, Return
      <4>2. v \notin Attempts \X {"exec"}
        BY <4>1 DEF Attempts, Idle
      <4>3. QED
        BY <4>1, <4>2
    <3>5. QED
      BY <3>1, <3>2, <3>3, <3>4 DEF AppSteps, CallSteps
  <2>2. QED
    BY <2>1, ThreadsAre DEF Base, Types, AtOK
<1>3. \A u \in Apps : at'[u] = at[u] \/ at'[u] \notin Attempts \X {"exec"}
  BY <1>1, <1>2
<1>4. QED
  BY <1>1, <1>3, PlaceCalm, StartingStays DEF Calm

LEMMA OthersStart ==
  ASSUME Base, Others
  PROVE  Starting' \subseteq Starting
<1>1. \A t \in Apps : at'[t] = at[t] \/ at'[t] \notin Attempts \X {"exec"}
  BY AnswersOnly DEF Attempts, Idle
<1>2. QED
  BY <1>1, StartingStays

LEMMA SendCalm ==
  ASSUME Base, SendSteps \/ Peer
  PROVE  Calm
<1>1. at'[Recv] = at[Recv] /\ Starting' \subseteq Starting
  BY RecvStays, OthersStart DEF Others
<1>2. rq' = rq /\ listed' = listed
  BY DEF SendSteps, SendThread, WriteFails, TcpClose, Peer, pipeVars, restVars
<1>3. QED
  BY <1>1, <1>2, PlaceCalm DEF Calm

(* The steps of the receive thread that only go on. *)
OnlyGoes ==
  \/ ReadMessage \/ LockInHandler \/ TcpConnect \/ TcpListen \/ UnlockInHandler \/ LoadInHandler
  \/ ReadCallBack \/ JoinSendThread \/ (StoreInHandler /\ at[Recv][2] = "store_release")

LEMMA GoesCalm ==
  ASSUME Base, OnlyGoes
  PROVE  Calm
<1>1. rq' = rq /\ listed' = listed /\ Starting' \subseteq Starting
  <2>1. Others
    BY DEF OnlyGoes, Others, RecvSteps
  <2>2. rq' = rq /\ listed' = listed
    BY DEF OnlyGoes, ReadMessage, LockInHandler, TcpConnect, TcpListen, UnlockInHandler, LoadInHandler,
       ReadCallBack, JoinSendThread, StoreInHandler, pipeVars, restVars
  <2>3. QED
    BY <2>1, <2>2, OthersStart
<1>2. at[Recv] \in RecvAt /\ at[Recv] = <<at[Recv][1], at[Recv][2]>>
  BY RecvAtIs DEF Base, Types, AtOK
<1>3. ASSUME NEW v, at' = [at EXCEPT ![Recv] = v] PROVE at'[Recv] = v
  BY <1>3, ThreadsAre DEF Base, Types, AtOK
<1>4. Live' = Live /\ Done' = Done /\ (YetToLock' => YetToLock)
  <2>1. CASE ReadMessage
    <3>1. PICK s \in {"in_use", "join", "end", "wait"} : at'[Recv] = <<Head(rq).kind, s>>
      BY <1>3, <2>1 DEF ReadMessage, Go
    <3>2. at[Recv] = Idle
      BY <2>1 DEF ReadMessage
    <3>3. QED
      BY <1>1, <3>1, <3>2 DEF Live, Done, YetToLock, Idle
  <2>2. CASE LockInHandler
    <3>1. PICK s \in {"unlock", "bind"} : at'[Recv] = <<at[Recv][1], s>> /\ (s = "unlock" => at[Recv][1] = "ssl")
      BY <1>3, <2>2 DEF LockInHandler, Go
    <3>2. at[Recv][2] = "in_use"
      BY <2>2 DEF LockInHandler
    <3>3. QED
      BY <1>1, <3>1, <3>2 DEF Live, Done, YetToLock, Idle
  <2>3. CASE TcpConnect \/ TcpListen
    <3>1. at'[Recv] \in {<<"connected", "unlock">>, <<"failed", "unlock">>, <<"accept", "load">>} /\ at[Recv][2] = "bind"
      BY <1>3, <2>3 DEF TcpConnect, TcpListen, Go
    <3>2. QED
      BY <1>1, <3>1 DEF Live, Done, YetToLock, Idle
  <2>4. CASE UnlockInHandler
    <3>1. at[Recv][1] \in {"connected", "failed", "accept", "ssl"} /\ at[Recv][2] = "unlock"
      BY <1>2, <2>4, RecvAtIs DEF UnlockInHandler
    <3>2. at'[Recv] = <<at[Recv][1], IF at[Recv][1] \in {"connected", "failed"} THEN "load" ELSE "reply">>
      BY <1>3, <2>4 DEF UnlockInHandler, Go
    <3>3. Live' = Live
      BY <1>1, <3>1, <3>2 DEF Live
    <3>4. Done' = Done
      BY <1>2, <3>1, <3>2 DEF Done
    <3>5. ~YetToLock'
      BY <3>2 DEF YetToLock, Idle
    <3>6. QED
      BY <3>3, <3>4, <3>5
  <2>5. CASE LoadInHandler
    <3>1. at[Recv][2] \in {"load", "load_release"}
      BY <2>5 DEF LoadInHandler
    <3>2. PICK s \in {"store", "store_release"} : at'[Recv] = <<at[Recv][1], s>>
      BY <1>3, <2>5 DEF LoadInHandler, Go
    <3>3. QED
      BY <1>1, <3>1, <3>2 DEF Live, Done, YetToLock, Idle
  <2>6. CASE ReadCallBack
    <3>1. at'[Recv] = <<"read", "reply">> /\ at[Recv] = <<"read", "wait">>
      BY <1>3, <2>6 DEF ReadCallBack, Go
    <3>2. QED
      BY <1>1, <3>1 DEF Live, Done, YetToLock, Idle
  <2>7. CASE JoinSendThread
    <3>1. at'[Recv] = <<"close", "load">> /\ at[Recv] = <<"close", "join">>
      BY <1>3, <2>7 DEF JoinSendThread, Go
    <3>2. QED
      BY <1>1, <3>1 DEF Live, Done, YetToLock, Idle
  <2>8. CASE StoreInHandler /\ at[Recv][2] = "store_release"
    <3>1. at[Recv] = <<"close", "store_release">>
      BY <1>2, <2>8, RecvAtIs
    <3>2. at'[Recv] = <<"close", "reply">>
      BY <1>3, <2>8, <3>1 DEF StoreInHandler, Go
    <3>3. QED
      BY <1>1, <3>1, <3>2 DEF Live, Done, YetToLock, Idle
  <2>9. QED
    BY <2>1, <2>2, <2>3, <2>4, <2>5, <2>6, <2>7, <2>8 DEF OnlyGoes
<1>5. QED
  BY <1>1, <1>4 DEF Calm

LEMMA ReadsFrame ==
  ASSUME ReadsAhead, rq' = rq, YetToLock' => YetToLock
  PROVE  ReadsAhead'
BY DEF ReadsAhead

LEMMA ReadsShrunk ==
  ASSUME Base, ReadsAhead, rq # <<>>, rq' = Tail(rq)
  PROVE  ReadsAhead'
<1>1. /\ Len(rq') = Len(rq) - 1 /\ Len(rq) \in Nat
      /\ \A i \in 1 .. Len(rq') : rq'[i] = rq[i + 1] /\ i + 1 \in 1 .. Len(rq)
  BY RecvShrunk
<1>2. ASSUME NEW i \in 1 .. Len(rq'), NEW j \in 1 .. Len(rq'), i < j, rq'[j].kind = "read", rq'[i].kind \in Lockers
      PROVE  FALSE
  <2>1. i + 1 \in 1 .. Len(rq) /\ j + 1 \in 1 .. Len(rq) /\ i + 1 < j + 1 /\ i + 1 # 1
    BY <1>1, <1>2
  <2>2. rq[j + 1].kind = "read" /\ rq[i + 1].kind \in Lockers
    BY <1>1, <1>2
  <2>3. QED
    BY <2>1, <2>2 DEF ReadsAhead
<1>3. QED
  BY <1>2 DEF ReadsAhead

LEMMA ReadsGrown ==
  ASSUME Base, ReadsAhead, at'[Recv] = at[Recv],
         NEW k \in RecvKinds, NEW by \in Apps \cup {None}, rq' = Append(rq, [kind |-> k, by |-> by]),
         k = "read" => \A i \in 1 .. Len(rq) : rq[i].kind \in Lockers => i = 1 /\ ~YetToLock
  PROVE  ReadsAhead'
<1>1. /\ Len(rq) \in Nat /\ Len(rq') = Len(rq) + 1 /\ rq'[Len(rq) + 1].kind = k
      /\ \A i \in 1 .. Len(rq) : rq'[i] = rq[i]
      /\ \A i \in 1 .. Len(rq') : i \in 1 .. Len(rq) \/ i = Len(rq) + 1
  BY RecvGrown
<1>2. YetToLock' = YetToLock
  BY DEF YetToLock
<1>3. ASSUME NEW i \in 1 .. Len(rq'), NEW j \in 1 .. Len(rq'), i < j, rq'[j].kind = "read", rq'[i].kind \in Lockers
      PROVE  i = 1 /\ ~YetToLock
  <2>1. i \in 1 .. Len(rq)
    BY <1>1, <1>3
  <2>2. rq[i].kind \in Lockers
    BY <1>1, <1>3, <2>1
  <2>3. CASE j \in 1 .. Len(rq)
    <3>1. rq[j].kind = "read"
      BY <1>1, <1>3, <2>3
    <3>2. QED
      BY <1>3, <2>1, <2>2, <2>3, <3>1 DEF ReadsAhead
  <2>4. CASE j = Len(rq) + 1
    <3>1. k = "read"
      BY <1>1, <1>3, <2>4
    <3>2. QED
      BY <2>1, <2>2, <3>1
  <2>5. QED
    BY <1>1, <2>3, <2>4
<1>4. QED
  BY <1>2, <1>3 DEF ReadsAhead

(* A socket that can be read has no handler to come that locks in_use.     *)
LEMMA NoLockers ==
  ASSUME Base, Attempting, listed, Has("CONNECTED")
  PROVE  \A i \in 1 .. Len(rq) : rq[i].kind \in Lockers => i = 1 /\ ~YetToLock
<1>1. Live
  BY DEF Attempting
<1>2. Queued = {}
  BY <1>1 DEF Attempting
<1>3. ASSUME NEW i \in 1 .. Len(rq), rq[i].kind \in Lockers PROVE i = 1 /\ ~YetToLock
  <2>1. rq[i].kind # "ssl"
    BY <1>1 DEF Attempting
  <2>2. rq[i].kind \in Attempts
    BY <1>3, <2>1 DEF Lockers, Attempts
  <2>3. i = 1 /\ Done
    BY <1>2, <2>2 DEF Queued
  <2>4. ~YetToLock
    BY <2>3 DEF Done, YetToLock, Idle
  <2>5. QED
    BY <2>3, <2>4
<1>4. QED
  BY <1>3

LEMMA ReadsStep ==
  ASSUME Base, Ended, ReadsAhead, Attempting, Next, Followed'
  PROVE  ReadsAhead'
<1>1. ASSUME NEW t \in Apps, AppSteps(t) PROVE ReadsAhead'
  <2>1. at'[Recv] = at[Recv] /\ (rq' = rq \/ ExecCommandPacket(t))
    BY <1>1, AppStays
  <2>2. CASE rq' = rq
    BY <2>1, <2>2, ReadsFrame DEF YetToLock
  <2>3. CASE rq' # rq
    <3>1. ExecCommandPacket(t)
      BY <2>1, <2>3
    <3>2. at[t][1] \in {"connect", "accept", "ssl", "read", "close"} /\ at[t][1] \in RecvKinds
      BY <2>3, <3>1, ExecIs DEF RecvKinds
    <3>3. PICK by \in Apps \cup {None} : rq' = Append(rq, [kind |-> at[t][1], by |-> by])
      BY <2>3, <3>1, ExecIs
    <3>4. at[t][1] = "read" => listed /\ Has("CONNECTED")
      <4>1. at[t][1] = "read" => race' = race \cup Overtaken("read")
        BY <3>1 DEF ExecCommandPacket
      <4>2. at[t][1] = "read" => MayCall("read")
        BY <4>1 DEF Overtaken, Followed
      <4>3. QED
        BY <4>2 DEF MayCall, MayTransfer
    <3>5. at[t][1] = "read" => \A i \in 1 .. Len(rq) : rq[i].kind \in Lockers => i = 1 /\ ~YetToLock
      BY <3>4, NoLockers
    <3>6. QED
      BY <2>1, <3>2, <3>3, <3>5, ReadsGrown
  <2>4. QED
    BY <2>2, <2>3
<1>2. CASE OnlyGoes \/ SendSteps \/ Peer
  BY <1>2, GoesCalm, SendCalm, ReadsFrame DEF Calm
<1>3. CASE Reply
  <2>1. rq # <<>> /\ rq' = Tail(rq)
    BY <1>3, AtCommand DEF Reply, Idle
  <2>2. QED
    BY <2>1, ReadsShrunk
<1>4. CASE Drain
  <2>1. at'[Recv] = at[Recv]
    BY <1>4, RecvStays
  <2>2. CASE rq' = rq
    BY <2>1, <2>2, ReadsFrame DEF YetToLock
  <2>3. CASE rq' # rq
    BY <1>4, <2>3, ReadsShrunk DEF Drain
  <2>4. QED
    BY <2>2, <2>3
<1>5. CASE StoreInHandler /\ at[Recv][2] = "store"
  <2>1. \E s \in {"reply", "unlock", "null"} : at' = [at EXCEPT ![Recv] = <<at[Recv][1], s>>]
    <3>1. at[Recv] \in RecvAt
      BY DEF Base, Types, AtOK
    <3>2. at[Recv][2] = "store" => at[Recv][1] \in {"connected", "failed", "accept", "close"}
      BY <3>1, RecvAtIs
    <3>3. QED
      BY <1>5, <3>2 DEF StoreInHandler, Go
  <2>2. \E s \in {"reply", "unlock", "null"} : at'[Recv] = <<at[Recv][1], s>>
    BY <2>1, ThreadsAre DEF Base, Types, AtOK
  <2>3. ~YetToLock'
    BY <2>2 DEF YetToLock, Idle
  <2>4. rq' = rq
    BY <1>5 DEF StoreInHandler, pipeVars
  <2>5. QED
    BY <2>3, <2>4, ReadsFrame
<1>6. CASE EndOwnPipe
  <2>1. at[Recv] = <<"close", "null">> /\ at' = [at EXCEPT ![Recv] = <<"close", "trash">>]
        /\ rq' = Append(rq, [kind |-> "null", by |-> None])
    BY <1>6 DEF EndOwnPipe, Go
  <2>2. at'[Recv] = <<"close", "trash">>
    BY <2>1, RecvGoesTo DEF RecvAt
  <2>3. YetToLock' = YetToLock
    BY <2>1, <2>2 DEF YetToLock, Idle
  <2>4. /\ Len(rq) \in Nat /\ Len(rq') = Len(rq) + 1 /\ rq'[Len(rq) + 1].kind = "null"
        /\ \A i \in 1 .. Len(rq) : rq'[i] = rq[i]
        /\ \A i \in 1 .. Len(rq') : i \in 1 .. Len(rq) \/ i = Len(rq) + 1
    BY <2>1, RecvGrown DEF RecvKinds
  <2>5. ASSUME NEW i \in 1 .. Len(rq'), NEW j \in 1 .. Len(rq'), i < j, rq'[j].kind = "read", rq'[i].kind \in Lockers
        PROVE  i = 1 /\ ~YetToLock
    <3>1. j # Len(rq) + 1 /\ i # Len(rq) + 1
      BY <2>4, <2>5 DEF Lockers
    <3>2. i \in 1 .. Len(rq) /\ j \in 1 .. Len(rq)
      BY <2>4, <3>1
    <3>3. rq[j].kind = "read" /\ rq[i].kind \in Lockers
      BY <2>4, <2>5, <3>2
    <3>4. QED
      BY <2>5, <3>2, <3>3 DEF ReadsAhead
  <2>6. QED
    BY <2>3, <2>5 DEF ReadsAhead
<1>7. CASE MoveToTrash
  <2>1. at[Recv] = <<"close", "trash">> /\ at' = [at EXCEPT ![Recv] = <<"close", "load_release">>] /\ rq' = rq
    BY <1>7 DEF MoveToTrash, Go, pipeVars
  <2>2. at'[Recv] = <<"close", "load_release">>
    BY <2>1, RecvGoesTo DEF RecvAt
  <2>3. QED
    BY <2>1, <2>2, ReadsFrame DEF YetToLock, Idle
<1>8. QED
  <2>1. StoreInHandler => at[Recv][2] \in {"store", "store_release"}
    BY DEF StoreInHandler
  <2>2. QED
    BY <1>1, <1>2, <1>3, <1>4, <1>5, <1>6, <1>7, <2>1 DEF Next, AppSteps, RecvSteps, OnlyGoes

(* The lock cycle is not reached: a command that a reader waits for, which *)
(* owns in_use, is not behind a handler that waits for in_use.             *)
LEMMA NoCycle ==
  ASSUME Base, Ended, ReadsAhead
  PROVE  ~LockCycle
<1>1. SUFFICES ASSUME LockCycle PROVE FALSE
  OBVIOUS
<1>2. at[Recv][2] = "in_use" /\ in_use \in Apps /\ at[in_use][2] = "response"
  BY <1>1 DEF LockCycle
<1>3. at[in_use] = <<"read", "response">>
  BY <1>2 DEF Base, Owner, Reading
<1>4. PICK j \in 1 .. Len(rq) : rq[j].kind = "read"
  BY <1>2, <1>3 DEF Base, Waiting
<1>5. at[Recv] \in RecvAt /\ at[Recv][1] \in Lockers
  BY <1>2, RecvAtIs DEF Base, Types, AtOK, Lockers
<1>6. rq # <<>> /\ Head(rq).kind = at[Recv][1]
  BY <1>2, <1>5, AtCommand DEF Idle, Lockers
<1>7. 1 \in 1 .. Len(rq) /\ rq[1].kind \in Lockers
  BY <1>5, <1>6, HeadOne
<1>8. 1 < j
  BY <1>4, <1>7 DEF Lockers
<1>9. YetToLock
  BY <1>2 DEF YetToLock
<1>10. QED
  BY <1>4, <1>7, <1>8, <1>9 DEF ReadsAhead

LEMMA AttemptingFrame ==
  ASSUME Attempting, Calm, \A b \in Joined : b \in status' <=> b \in status
  PROVE  Attempting'
<1>1. /\ rq' = rq /\ listed' = listed /\ Live' = Live /\ Done' = Done /\ Starting' \subseteq Starting
      /\ Has("CONNECTED")' = Has("CONNECTED") /\ Has("CONNECTING")' = Has("CONNECTING")
  BY DEF Calm, Has, Joined
<1>2. Queued' = Queued
  BY <1>1 DEF Queued
<1>3. QED
  BY <1>1, <1>2 DEF Attempting

LEMMA AttemptingCleared ==
  ASSUME Attempting, Calm, Has("CONNECTED"), ~Has("CONNECTED")'
  PROVE  Attempting'
<1>1. /\ rq' = rq /\ listed' = listed /\ Live' = Live /\ Done' = Done /\ Starting' \subseteq Starting
  BY DEF Calm
<1>2. Queued' = Queued
  BY <1>1 DEF Queued
<1>3. Live => Starting = {} /\ Queued = {}
  BY DEF Attempting
<1>4. QED
  BY <1>1, <1>2, <1>3 DEF Attempting

LEMMA AttemptingOff ==
  ASSUME ~listed'
  PROVE  Attempting'
BY DEF Attempting, Live

LEMMA StoreInCallIs ==
  ASSUME Base, NEW t \in Apps, StoreInCall(t), Followed'
  PROVE  /\ at[t] = <<at[t][1], "store">> /\ at[t][1] \in Shared /\ reg[t] = status /\ race' = race
         /\ at[t][1] \in {"connect", "accept"} => status' = status \cup {"CONNECTING"} /\ at'[t] = <<at[t][1], "exec">>
         /\ at[t][1] = "poll" => status' = status \ Joined /\ at'[t] = Idle
         /\ at[t][1] = "shutdown" => status' = status \cup {"CLOSING"} /\ at'[t] = <<"shutdown", "exec">>
         /\ at[t][1] = "close" => status' = status \cup {"CLOSING", "WAIT_CLOSE"} /\ at'[t] = <<"close", "null">>
         /\ UNCHANGED <<in_use, pipeVars, cpsVars, restVars>>
<1> DEFINE o == at[t][1]
<1>1. at[t] = <<o, "store">> /\ o \in Shared
  BY AppAtIs DEF StoreInCall, Base, Types, AtOK
<1>2. UNCHANGED <<in_use, pipeVars, cpsVars, restVars>>
  BY DEF StoreInCall
<1>G. ASSUME NEW v, at' = [at EXCEPT ![t] = v] PROVE at'[t] = v
  BY <1>G, ThreadsAre DEF Base, Types, AtOK
<1>3. CASE o = "poll"
  <2>1. Store(t, Joined, {}) /\ at' = [at EXCEPT ![t] = Idle]
    BY <1>3 DEF StoreInCall, Return
  <2>2. reg[t] = status /\ race' = race /\ status' = (status \ Joined) \cup {}
    BY <2>1, StoreWhole, ThreadsAre DEF Base, Types
  <2>3. at'[t] = Idle
    BY <1>G, <2>1
  <2>4. status' = status \ Joined
    BY <2>2
  <2>5. QED
    BY <1>1, <1>2, <1>3, <2>2, <2>3, <2>4
<1>4. CASE o = "shutdown"
  <2>1. Store(t, {}, {"CLOSING"}) /\ at' = [at EXCEPT ![t] = <<"shutdown", "exec">>]
    BY <1>4 DEF StoreInCall, Go
  <2>2. reg[t] = status /\ race' = race /\ status' = (status \ {}) \cup {"CLOSING"}
    BY <2>1, StoreWhole, ThreadsAre DEF Base, Types
  <2>3. at'[t] = <<"shutdown", "exec">>
    BY <1>G, <2>1
  <2>4. status' = status \cup {"CLOSING"}
    BY <2>2
  <2>5. QED
    BY <1>1, <1>2, <1>4, <2>2, <2>3, <2>4
<1>5. CASE o = "close"
  <2>1. Store(t, {}, {"CLOSING", "WAIT_CLOSE"}) /\ at' = [at EXCEPT ![t] = <<"close", "null">>]
    BY <1>5 DEF StoreInCall, Go
  <2>2. reg[t] = status /\ race' = race /\ status' = (status \ {}) \cup {"CLOSING", "WAIT_CLOSE"}
    BY <2>1, StoreWhole, ThreadsAre DEF Base, Types
  <2>3. at'[t] = <<"close", "null">>
    BY <1>G, <2>1
  <2>4. status' = status \cup {"CLOSING", "WAIT_CLOSE"}
    BY <2>2
  <2>5. QED
    BY <1>1, <1>2, <1>5, <2>2, <2>3, <2>4
<1>6. CASE o \in {"connect", "accept"}
  <2>1. Store(t, {}, {"CONNECTING"}) /\ at' = [at EXCEPT ![t] = <<o, "exec">>]
    BY <1>6 DEF StoreInCall, Go
  <2>2. reg[t] = status /\ race' = race /\ status' = (status \ {}) \cup {"CONNECTING"}
    BY <2>1, StoreWhole, ThreadsAre DEF Base, Types
  <2>3. at'[t] = <<o, "exec">>
    BY <1>G, <2>1
  <2>4. status' = status \cup {"CONNECTING"}
    BY <2>2
  <2>5. QED
    BY <1>1, <1>2, <1>6, <2>2, <2>3, <2>4
<1>7. QED
  BY <1>1, <1>3, <1>4, <1>5, <1>6 DEF Shared

LEMMA AttemptingStart ==
  ASSUME Base, Attempting, Tested, NEW t \in Apps, StoreInCall(t), at[t][1] \in Attempts, Followed'
  PROVE  Attempting'
<1>1. /\ at[t] = <<at[t][1], "store">> /\ reg[t] = status
      /\ status' = status \cup {"CONNECTING"} /\ at'[t] = <<at[t][1], "exec">>
      /\ rq' = rq /\ listed' = listed
  BY StoreInCallIs DEF Attempts, pipeVars, restVars
<1>2. "CONNECTING" \notin status
  BY <1>1 DEF Tested, Attempts
<1>3. Has("CONNECTED")' = Has("CONNECTED") /\ Has("CONNECTING")'
  BY <1>1 DEF Has
<1>4. at'[Recv] = at[Recv] /\ \A u \in Apps : u # t => at'[u] = at[u]
  BY AppStays DEF AppSteps, CallSteps
<1>5. Live' = Live /\ Done' = Done
  BY <1>1, <1>4, PlaceCalm
<1>6. Queued' = Queued
  BY <1>1, <1>5 DEF Queued
<1>7. Starting' \subseteq Starting \cup {t}
  BY <1>4 DEF Starting
<1>8. CASE Live
  <2>1. Starting = {} /\ Queued = {} /\ ~Has("CONNECTED")
    BY <1>2, <1>8 DEF Attempting, Has
  <2>2. QED
    BY <1>3, <1>5, <1>6, <1>7, <1>8, <2>1 DEF Attempting
<1>9. CASE ~Live
  BY <1>1, <1>3, <1>5, <1>9 DEF Attempting
<1>10. QED
  BY <1>8, <1>9

(* The attempts in the queue, when a command is added. *)
LEMMA QueuedGrown ==
  ASSUME Base, NEW k \in RecvKinds, NEW by \in Apps \cup {None},
         rq' = Append(rq, [kind |-> k, by |-> by]), Done' = Done
  PROVE  Queued' = IF k \in Attempts THEN Queued \cup {Len(rq) + 1} ELSE Queued
<1>1. /\ Len(rq) \in Nat /\ Len(rq') = Len(rq) + 1 /\ rq'[Len(rq) + 1].kind = k
      /\ \A i \in 1 .. Len(rq) : rq'[i] = rq[i]
      /\ \A i \in 1 .. Len(rq') : i \in 1 .. Len(rq) \/ i = Len(rq) + 1
  BY RecvGrown
<1>2. Done => Len(rq) + 1 # 1
  <2>1. Done => at[Recv] # Idle /\ at[Recv][2] # "end"
    BY DEF Done, Idle
  <2>2. Done => 1 \in 1 .. Len(rq)
    BY <2>1, AtCommand, HeadOne
  <2>3. QED
    BY <1>1, <2>2
<1>3. ASSUME NEW i \in 1 .. Len(rq) PROVE i \in 1 .. Len(rq') /\ (i \in Queued' <=> i \in Queued)
  <2>1. i \in 1 .. Len(rq') /\ rq'[i].kind = rq[i].kind
    BY <1>1
  <2>2. QED
    BY <2>1 DEF Queued
<1>4. Len(rq) + 1 \in Queued' <=> k \in Attempts
  <2>1. Len(rq) + 1 \in 1 .. Len(rq')
    BY <1>1
  <2>2. QED
    BY <1>1, <1>2, <2>1 DEF Queued
<1>5. \A i : i \in Queued => i \in 1 .. Len(rq)
  BY DEF Queued
<1>6. \A i : i \in Queued' => i \in 1 .. Len(rq) \/ i = Len(rq) + 1
  BY <1>1 DEF Queued
<1>7. CASE k \in Attempts
  <2>1. \A i : i \in Queued' <=> i \in Queued \/ i = Len(rq) + 1
    BY <1>3, <1>4, <1>5, <1>6, <1>7
  <2>2. QED
    BY <1>7, <2>1
<1>8. CASE k \notin Attempts
  <2>1. \A i : i \in Queued' <=> i \in Queued
    BY <1>3, <1>4, <1>5, <1>6, <1>8
  <2>2. Queued' = Queued
    BY <2>1
  <2>3. QED
    BY <1>8, <2>2
<1>9. QED
  BY <1>7, <1>8

LEMMA ExecStarts ==
  ASSUME Base, NEW t \in Apps, ExecCommandPacket(t)
  PROVE  /\ Starting' = Starting \ {t}
         /\ t \in Starting <=> at[t][1] \in Attempts
<1>1. at[t] = <<at[t][1], "exec">> /\ at'[t] \in {<<at[t][1], "response">>, Idle}
  BY ExecIs
<1>2. \A u \in Apps : u # t => at'[u] = at[u]
  BY AppStays DEF AppSteps, CallSteps
<1>3. at'[t] \notin Attempts \X {"exec"}
  BY <1>1 DEF Attempts, Idle
<1>4. at[t] \in Attempts \X {"exec"} <=> at[t][1] \in Attempts
  BY <1>1 DEF Attempts
<1>5. QED
  BY <1>2, <1>3, <1>4 DEF Starting

LEMMA AttemptingExec ==
  ASSUME Base, Attempting, NEW t \in Apps, ExecCommandPacket(t), Followed'
  PROVE  Attempting'
<1> DEFINE o == at[t][1]
<1>1. /\ at'[Recv] = at[Recv] /\ listed' = listed /\ status' = status
  BY AppStays, ExecIs DEF AppSteps, CallSteps, bitVars
<1>2. Live' = Live /\ Done' = Done
  BY <1>1, PlaceCalm
<1>3. Has("CONNECTED")' = Has("CONNECTED") /\ Has("CONNECTING")' = Has("CONNECTING")
  BY <1>1 DEF Has
<1>4. Starting' = Starting \ {t} /\ (t \in Starting <=> o \in Attempts)
  BY ExecStarts
<1>5. CASE ToSend(o)
  <2>1. rq' = rq
    BY <1>5, ExecIs
  <2>2. Queued' = Queued
    BY <1>2, <2>1 DEF Queued
  <2>3. QED
    BY <1>1, <1>2, <1>3, <1>4, <2>1, <2>2 DEF Attempting
<1>6. CASE ~ToSend(o)
  <2>1. o \in {"connect", "accept", "ssl", "read", "close"} /\ o \in RecvKinds
    BY <1>6, ExecIs DEF RecvKinds
  <2>2. PICK by \in Apps \cup {None} : rq' = Append(rq, [kind |-> o, by |-> by])
    BY <1>6, ExecIs
  <2>3. Queued' = IF o \in Attempts THEN Queued \cup {Len(rq) + 1} ELSE Queued
    BY <1>2, <2>1, <2>2, QueuedGrown
  <2>4. /\ Len(rq) \in Nat /\ Len(rq') = Len(rq) + 1 /\ rq'[Len(rq) + 1].kind = o
        /\ \A i \in 1 .. Len(rq) : rq'[i] = rq[i]
        /\ \A i \in 1 .. Len(rq') : i \in 1 .. Len(rq) \/ i = Len(rq) + 1
    BY <2>1, <2>2, RecvGrown
  <2>5. o = "ssl" => ~Has("CONNECTING")
    <3>1. o = "ssl" => race' = race \cup Overtaken("ssl")
      BY DEF ExecCommandPacket
    <3>2. o = "ssl" => MayCall("ssl")
      BY <3>1 DEF Overtaken, Followed
    <3>3. QED
      BY <3>2 DEF MayCall, MayEnableSsl
  <2> HIDE DEF o
  <2>6. CASE ~Live
    BY <1>1, <1>2, <1>3, <2>6 DEF Attempting
  <2>7. CASE Live /\ o \in Attempts
    <3>1. Queued = {} /\ \A u \in Starting : u = t
      BY <1>4, <2>7 DEF Attempting
    <3>2. Starting' = {} /\ Queued' = {Len(rq) + 1} /\ Has("CONNECTING") /\ ~Has("CONNECTED")
      BY <1>4, <2>3, <2>7, <3>1 DEF Attempting
    <3>3. \A j \in 1 .. Len(rq') : ~(Len(rq) + 1 < j)
      BY <2>4
    <3>4. QED
      BY <1>1, <1>2, <1>3, <2>7, <3>2, <3>3 DEF Attempting
  <2>8. CASE Live /\ o \notin Attempts
    <3>1. Queued' = Queued /\ Starting' \subseteq Starting
      BY <1>4, <2>3, <2>8
    <3>2. o = "ssl" => Starting = {} /\ Queued = {} /\ ~Has("CONNECTED")
      BY <2>5, <2>8 DEF Attempting
    <3>3. ASSUME Has("CONNECTED"), NEW i \in 1 .. Len(rq') PROVE rq'[i].kind # "ssl"
      BY <2>4, <2>8, <3>2, <3>3 DEF Attempting
    <3>4. ASSUME NEW i \in Queued, NEW j \in 1 .. Len(rq'), i < j PROVE rq'[j].kind # "ssl"
      BY <2>4, <2>8, <3>2, <3>4 DEF Attempting
    <3>5. QED
      BY <1>1, <1>2, <1>3, <2>8, <3>1, <3>3, <3>4 DEF Attempting
  <2>9. QED
    BY <2>6, <2>7, <2>8
<1>7. QED
  BY <1>5, <1>6

(* And when the command at the head is answered. *)
LEMMA ReplyIs ==
  ASSUME Base, Reply
  PROVE  /\ rq # <<>> /\ rq' = Tail(rq) /\ at'[Recv] = Idle /\ at[Recv][2] = "reply" /\ at'[Send] = at[Send]
         /\ UNCHANGED <<bitVars, in_use, sq, cpsVars, restVars, race>>
         /\ rq[1].kind \in Attempts => Done
<1>1. /\ at[Recv][2] = "reply" /\ at' = [Answer(Head(rq).by) EXCEPT ![Recv] = Idle] /\ rq' = Tail(rq)
      /\ UNCHANGED <<bitVars, in_use, sq, cpsVars, restVars, race>>
  BY DEF Reply
<1>2. /\ rq # <<>> /\ at[Recv] \in RecvAt
      /\ Head(rq).kind = IF at[Recv][1] \in {"connected", "failed"} THEN "connect" ELSE at[Recv][1]
  BY <1>1, AtCommand DEF Idle
<1>3. at'[Recv] = Idle /\ at'[Send] = at[Send]
  BY <1>1, <1>2, RecvAnswered, ThreadsAre
<1>4. at[Recv] = <<at[Recv][1], "reply">> /\ at[Recv][1] # "connect"
  BY <1>1, <1>2, RecvAtIs
<1>5. rq[1].kind \in Attempts => at[Recv][1] \in {"connected", "failed", "accept"}
  BY <1>2, <1>4, HeadOne DEF Attempts
<1>6. rq[1].kind \in Attempts => Done
  BY <1>4, <1>5 DEF Done
<1>7. QED
  BY <1>1, <1>2, <1>3, <1>6

LEMMA QueuedShrunk ==
  ASSUME Base, Reply
  PROVE  /\ \A i \in Queued' : i + 1 \in Queued
         /\ Queued # {} => Queued' # {}
<1>1. rq # <<>> /\ rq' = Tail(rq) /\ at'[Recv] = Idle /\ (rq[1].kind \in Attempts => Done)
  BY ReplyIs
<1>2. /\ Len(rq') = Len(rq) - 1 /\ Len(rq) \in Nat
      /\ \A i \in 1 .. Len(rq') : rq'[i] = rq[i + 1] /\ i + 1 \in 1 .. Len(rq)
  BY <1>1, RecvShrunk
<1>3. ~Done'
  BY <1>1 DEF Done, Idle
<1>4. ASSUME NEW i \in Queued' PROVE i + 1 \in Queued
  <2>1. i \in 1 .. Len(rq') /\ rq'[i].kind \in Attempts
    BY <1>4 DEF Queued
  <2>2. i + 1 \in 1 .. Len(rq) /\ rq[i + 1].kind \in Attempts /\ i + 1 # 1
    BY <1>2, <2>1
  <2>3. QED
    BY <2>2 DEF Queued
<1>5. ASSUME NEW i \in Queued PROVE Queued' # {}
  <2>1. i \in 1 .. Len(rq) /\ rq[i].kind \in Attempts /\ i # 1
    BY <1>1, <1>5 DEF Queued
  <2>2. i - 1 \in 1 .. Len(rq') /\ (i - 1) + 1 = i
    BY <1>2, <2>1
  <2>3. rq'[i - 1] = rq[i]
    BY <1>2, <2>2
  <2>4. i - 1 \in Queued'
    BY <1>3, <2>1, <2>2, <2>3 DEF Queued
  <2>5. QED
    BY <2>4
<1>6. QED
  BY <1>4, <1>5

LEMMA AttemptingReply ==
  ASSUME Base, Ended, Attempting, Reply
  PROVE  Attempting'
<1>1. /\ rq # <<>> /\ rq' = Tail(rq) /\ at'[Recv] = Idle /\ at[Recv][2] = "reply" /\ listed' = listed
      /\ status' = status
  BY ReplyIs DEF restVars, bitVars
<1>2. /\ Len(rq') = Len(rq) - 1 /\ Len(rq) \in Nat
      /\ \A i \in 1 .. Len(rq') : rq'[i] = rq[i + 1] /\ i + 1 \in 1 .. Len(rq)
  BY <1>1, RecvShrunk
<1>3. \A i \in Queued' : i + 1 \in Queued
  BY QueuedShrunk
<1>4. Starting' \subseteq Starting
  BY OthersStart DEF Others, RecvSteps
<1>5. Live' = Live
  BY <1>1 DEF Live, Idle
<1>6. Has("CONNECTED")' = Has("CONNECTED") /\ Has("CONNECTING")' = Has("CONNECTING")
  BY <1>1 DEF Has
<1>7. CASE ~Live
  BY <1>1, <1>5, <1>6, <1>7 DEF Attempting
<1>8. CASE Live
  <2>1. Queued' # {} => Queued # {}
    BY <1>3
  <2>2. \A i, j \in Queued' : i = j
    <3>1. SUFFICES ASSUME NEW i \in Queued', NEW j \in Queued' PROVE i = j
      OBVIOUS
    <3>2. i + 1 = j + 1 /\ i \in Int /\ j \in Int
      <4>1. i + 1 \in Queued /\ j + 1 \in Queued
        BY <1>3
      <4>2. QED
        BY <1>8, <4>1 DEF Attempting, Queued
    <3>3. QED
      BY <3>2
  <2>3. ASSUME NEW i \in Queued', NEW j \in 1 .. Len(rq'), i < j PROVE rq'[j].kind # "ssl"
    <3>1. i + 1 \in Queued /\ j + 1 \in 1 .. Len(rq) /\ rq'[j] = rq[j + 1]
      BY <1>2, <1>3
    <3>2. i + 1 < j + 1
      BY <2>3 DEF Queued
    <3>3. QED
      BY <1>8, <3>1, <3>2 DEF Attempting
  <2>4. ASSUME Has("CONNECTED"), NEW i \in 1 .. Len(rq') PROVE rq'[i].kind # "ssl"
    BY <1>2, <1>8, <2>4 DEF Attempting
  <2>5. QED
    BY <1>4, <1>5, <1>6, <1>8, <2>1, <2>2, <2>3, <2>4 DEF Attempting
<1>9. QED
  BY <1>7, <1>8

LEMMA StoreInHandlerIs ==
  ASSUME Base, StoreInHandler, Followed'
  PROVE  /\ UNCHANGED <<in_use, pipeVars, cpsVars, restVars>> /\ reg[Recv] = status /\ race' = race
         /\ \/ at[Recv] = <<"connected", "store">> /\ at'[Recv] = <<"connected", "reply">> /\ status' = status \cup {"CONNECTED"}
            \/ at[Recv] = <<"failed", "store">> /\ at'[Recv] = <<"failed", "reply">> /\ status' = status \cup {"ERROR"}
            \/ at[Recv] = <<"accept", "store">> /\ at'[Recv] = <<"accept", "unlock">> /\ status' = status \cup {"CONNECTED"}
            \/ at[Recv] = <<"close", "store">> /\ at'[Recv] = <<"close", "null">> /\ status' = status \ Joined
            \/ at[Recv] = <<"close", "store_release">> /\ at'[Recv] = <<"close", "reply">> /\ status' = status \cup {"WAIT_RELEASE"}
<1>1. UNCHANGED <<in_use, pipeVars, cpsVars, restVars>>
  BY DEF StoreInHandler
<1>G. ASSUME NEW v, at' = [at EXCEPT ![Recv] = v] PROVE at'[Recv] = v
  BY <1>G, ThreadsAre DEF Base, Types, AtOK
<1>2. \/ at[Recv] = <<"connected", "store">> \/ at[Recv] = <<"failed", "store">> \/ at[Recv] = <<"accept", "store">>
      \/ at[Recv] = <<"close", "store">> \/ at[Recv] = <<"close", "store_release">>
  <2>1. at[Recv] \in RecvAt /\ at[Recv][2] \in {"store", "store_release"}
    BY DEF StoreInHandler, Base, Types, AtOK
  <2>2. /\ at[Recv] = <<at[Recv][1], at[Recv][2]>>
        /\ at[Recv][2] = "store" => at[Recv][1] \in {"connected", "failed", "accept", "close"}
        /\ at[Recv][2] = "store_release" => at[Recv][1] = "close"
    BY <2>1, RecvAtIs
  <2>3. QED
    BY <2>1, <2>2
<1>3. CASE at[Recv] = <<"connected", "store">>
  <2>1. Store(Recv, {}, {"CONNECTED"}) /\ at' = [at EXCEPT ![Recv] = <<"connected", "reply">>]
    BY <1>3 DEF StoreInHandler, Go
  <2>2. reg[Recv] = status /\ race' = race /\ status' = (status \ {}) \cup {"CONNECTED"}
    BY <2>1, StoreWhole, ThreadsAre DEF Base, Types
  <2>3. at'[Recv] = <<"connected", "reply">>
    BY <1>G, <2>1
  <2>4. status' = status \cup {"CONNECTED"}
    BY <2>2
  <2>5. QED
    BY <1>1, <1>3, <2>2, <2>3, <2>4
<1>4. CASE at[Recv] = <<"failed", "store">>
  <2>1. Store(Recv, {}, {"ERROR"}) /\ at' = [at EXCEPT ![Recv] = <<"failed", "reply">>]
    BY <1>4 DEF StoreInHandler, Go
  <2>2. reg[Recv] = status /\ race' = race /\ status' = (status \ {}) \cup {"ERROR"}
    BY <2>1, StoreWhole, ThreadsAre DEF Base, Types
  <2>3. at'[Recv] = <<"failed", "reply">>
    BY <1>G, <2>1
  <2>4. status' = status \cup {"ERROR"}
    BY <2>2
  <2>5. QED
    BY <1>1, <1>4, <2>2, <2>3, <2>4
<1>5. CASE at[Recv] = <<"accept", "store">>
  <2>1. Store(Recv, {}, {"CONNECTED"}) /\ at' = [at EXCEPT ![Recv] = <<"accept", "unlock">>]
    BY <1>5 DEF StoreInHandler, Go
  <2>2. reg[Recv] = status /\ race' = race /\ status' = (status \ {}) \cup {"CONNECTED"}
    BY <2>1, StoreWhole, ThreadsAre DEF Base, Types
  <2>3. at'[Recv] = <<"accept", "unlock">>
    BY <1>G, <2>1
  <2>4. status' = status \cup {"CONNECTED"}
    BY <2>2
  <2>5. QED
    BY <1>1, <1>5, <2>2, <2>3, <2>4
<1>6. CASE at[Recv] = <<"close", "store">>
  <2>1. Store(Recv, Joined, {}) /\ at' = [at EXCEPT ![Recv] = <<"close", "null">>]
    BY <1>6 DEF StoreInHandler, Go
  <2>2. reg[Recv] = status /\ race' = race /\ status' = (status \ Joined) \cup {}
    BY <2>1, StoreWhole, ThreadsAre DEF Base, Types
  <2>3. at'[Recv] = <<"close", "null">>
    BY <1>G, <2>1
  <2>4. status' = status \ Joined
    BY <2>2
  <2>5. QED
    BY <1>1, <1>6, <2>2, <2>3, <2>4
<1>7. CASE at[Recv] = <<"close", "store_release">>
  <2>1. Store(Recv, {}, {"WAIT_RELEASE"}) /\ at' = [at EXCEPT ![Recv] = <<"close", "reply">>]
    BY <1>7 DEF StoreInHandler, Go
  <2>2. reg[Recv] = status /\ race' = race /\ status' = (status \ {}) \cup {"WAIT_RELEASE"}
    BY <2>1, StoreWhole, ThreadsAre DEF Base, Types
  <2>3. at'[Recv] = <<"close", "reply">>
    BY <1>G, <2>1
  <2>4. status' = status \cup {"WAIT_RELEASE"}
    BY <2>2
  <2>5. QED
    BY <1>1, <1>7, <2>2, <2>3, <2>4
<1>8. QED
  BY <1>2, <1>3, <1>4, <1>5, <1>6, <1>7

LEMMA WriteFailsIs ==
  ASSUME Base, Tested, WriteFails, Followed'
  PROVE  /\ UNCHANGED <<in_use, pipeVars, cps, data, restVars>>
         /\ \/ at[Send] = <<"write", "load">> /\ at'[Send] = <<"write", "store">> /\ status' = status /\ fin' = fin
            \/ at[Send] = <<"write", "store">> /\ at'[Send] = <<"write", "load_reset">>
               /\ status' = status \ (Joined \cup {"CLOSING"}) /\ Has("CONNECTED")
            \/ at[Send] = <<"write", "load_reset">> /\ at'[Send] = <<"write", "store_reset">> /\ status' = status /\ fin' = fin
            \/ at[Send] = <<"write", "store_reset">> /\ at'[Send] = <<"write", "close">>
               /\ status' = status \cup {"RESET"} /\ fin' = fin
<1>1. UNCHANGED <<in_use, pipeVars, cps, data, restVars>>
  BY DEF WriteFails
<1>G. ASSUME NEW v, at' = [at EXCEPT ![Send] = v] PROVE at'[Send] = v
  BY <1>G, ThreadsAre DEF Base, Types, AtOK
<1>2. at[Send] = <<"write", at[Send][2]>> /\ at[Send][2] \in {"load", "store", "load_reset", "store_reset"}
  <2>1. at[Send] \in SendAt /\ at[Send][2] \in {"load", "store", "load_reset", "store_reset"}
    BY DEF WriteFails, Base, Types, AtOK
  <2>2. QED
    BY <2>1, SendAtIs
<1>3. CASE at[Send] = <<"write", "load">>
  <2>1. at' = [at EXCEPT ![Send] = <<"write", "store">>] /\ fin' = fin /\ Load(Send)
    BY <1>3 DEF WriteFails, Go
  <2>2. status' = status
    BY <2>1 DEF Load
  <2>3. QED
    BY <1>1, <1>3, <1>G, <2>1, <2>2
<1>4. CASE at[Send] = <<"write", "store">>
  <2>1. at' = [at EXCEPT ![Send] = <<"write", "load_reset">>] /\ Store(Send, Joined \cup {"CLOSING"}, {})
    BY <1>4 DEF WriteFails, Go
  <2>2. reg[Send] = status /\ status' = (status \ (Joined \cup {"CLOSING"})) \cup {}
    BY <2>1, StoreWhole, ThreadsAre DEF Base, Types
  <2>3. status' = status \ (Joined \cup {"CLOSING"})
    BY <2>2
  <2>4. Has("CONNECTED")
    BY <1>4, <2>2 DEF Tested, Has
  <2>5. at'[Send] = <<"write", "load_reset">>
    BY <1>G, <2>1
  <2>6. QED
    BY <1>1, <1>4, <2>3, <2>4, <2>5
<1>5. CASE at[Send] = <<"write", "load_reset">>
  <2>1. at' = [at EXCEPT ![Send] = <<"write", "store_reset">>] /\ fin' = fin /\ Load(Send)
    BY <1>5 DEF WriteFails, Go
  <2>2. status' = status
    BY <2>1 DEF Load
  <2>3. QED
    BY <1>1, <1>5, <1>G, <2>1, <2>2
<1>6. CASE at[Send] = <<"write", "store_reset">>
  <2>1. at' = [at EXCEPT ![Send] = <<"write", "close">>] /\ Store(Send, {}, {"RESET"}) /\ fin' = fin
    BY <1>6 DEF WriteFails, Go
  <2>2. status' = (status \ {}) \cup {"RESET"}
    BY <2>1, StoreWhole, ThreadsAre DEF Base, Types
  <2>3. status' = status \cup {"RESET"}
    BY <2>2
  <2>4. at'[Send] = <<"write", "close">>
    BY <1>G, <2>1
  <2>5. QED
    BY <1>1, <1>6, <2>1, <2>3, <2>4
<1>7. QED
  BY <1>2, <1>3, <1>4, <1>5, <1>6

(* What a step of an application does to the bits. *)
LEMMA AppBits ==
  ASSUME Base, Tested, NEW t \in Apps, AppSteps(t), ~StoreInCall(t), Followed'
  PROVE  status' = status \/ (CopyCPSBuffer(t) /\ status' = status \ Joined /\ listed /\ Has("CONNECTED"))
<1>1. CASE CopyCPSBuffer(t)
  <2>1. CASE ~data /\ cps # "est"
    <3>1. status' = status \ Joined /\ race' = race \cup Overtaken("read")
      BY <1>1, <2>1 DEF CopyCPSBuffer
    <3>2. MayCall("read")
      BY <3>1 DEF Overtaken, Followed
    <3>3. QED
      BY <1>1, <3>1, <3>2 DEF MayCall, MayTransfer
  <2>2. QED
    BY <1>1, <2>1 DEF CopyCPSBuffer
<1>2. CASE LoadInCall(t)
  BY <1>2 DEF LoadInCall, Load, bitVars
<1>3. CASE ~CopyCPSBuffer(t) /\ ~LoadInCall(t)
  BY <1>3 DEF AppSteps, CallSteps, Call, SendNull, ExecCommandPacket, ExecRefused, LockToRead, UnlockReader, bitVars
<1>4. QED
  BY <1>1, <1>2, <1>3

LEMMA AttemptingApp ==
  ASSUME Base, Tested, Attempting, NEW t \in Apps, AppSteps(t), Followed'
  PROVE  Attempting'
<1>1. CASE ExecCommandPacket(t)
  BY <1>1, AttemptingExec
<1>2. CASE StoreInCall(t)
  <2>1. CASE at[t][1] \in Attempts
    BY <1>2, <2>1, AttemptingStart
  <2>2. CASE at[t][1] = "poll"
    <3>1. Calm
      <4>1. ~ExecCommandPacket(t)
        BY <1>2, StoreInCallIs DEF ExecCommandPacket
      <4>2. QED
        BY <1>2, <2>2, <4>1, AppCalm DEF Attempts
    <3>2. at[t] = <<"poll", "store">> /\ reg[t] = status /\ status' = status \ Joined
      BY <1>2, <2>2, StoreInCallIs
    <3>3. Has("CONNECTED") /\ ~Has("CONNECTED")'
      BY <3>2 DEF Tested, Has, Joined
    <3>4. QED
      BY <3>1, <3>3, AttemptingCleared
  <2>3. CASE at[t][1] \in {"shutdown", "close"}
    <3>1. Calm
      <4>1. ~ExecCommandPacket(t)
        BY <1>2, StoreInCallIs DEF ExecCommandPacket
      <4>2. QED
        BY <1>2, <2>3, <4>1, AppCalm DEF Attempts
    <3>2. \A b \in Joined : b \in status' <=> b \in status
      BY <1>2, <2>3, StoreInCallIs DEF Joined
    <3>3. QED
      BY <3>1, <3>2, AttemptingFrame
  <2>4. QED
    BY <1>2, <2>1, <2>2, <2>3, StoreInCallIs DEF Shared, Attempts
<1>3. CASE ~ExecCommandPacket(t) /\ ~StoreInCall(t)
  <2>1. Calm
    BY <1>3, AppCalm
  <2>2. CASE status' = status
    BY <2>1, <2>2, AttemptingFrame
  <2>3. CASE status' # status
    <3>1. Has("CONNECTED") /\ ~Has("CONNECTED")'
      BY <1>3, <2>3, AppBits DEF Has, Joined
    <3>2. QED
      BY <2>1, <3>1, AttemptingCleared
  <2>4. QED
    BY <2>2, <2>3
<1>4. QED
  BY <1>1, <1>2, <1>3

LEMMA AttemptingStore ==
  ASSUME Base, Ended, Attempting, StoreInHandler, Followed'
  PROVE  Attempting'
<1>1. rq' = rq /\ listed' = listed /\ Starting' \subseteq Starting
  <2>1. rq' = rq /\ listed' = listed
    BY StoreInHandlerIs DEF pipeVars, restVars
  <2>2. QED
    BY <2>1, OthersStart DEF Others, RecvSteps
<1>2. ASSUME rq # <<>>, rq[1].kind \in Attempts, 1 \in 1 .. Len(rq), ~Done, Done',
             at[Recv] \notin {"close"} \X {"null", "trash"}, at'[Recv] \notin {"close"} \X {"null", "trash"},
             Has("CONNECTING")' = Has("CONNECTING"), NEW c \in BOOLEAN, Has("CONNECTED")' = (c \/ Has("CONNECTED"))
      PROVE  Attempting'
  <2>1. 1 \in Queued
    BY <1>2 DEF Queued
  <2>2. Live' = Live
    BY <1>1, <1>2 DEF Live
  <2>3. CASE Live
    <3>1. Queued = {1} /\ Starting = {} /\ Has("CONNECTING")
      BY <2>1, <2>3 DEF Attempting
    <3>2. Starting' = {}
      BY <1>1, <3>1
    <3>3. Queued' = {}
      <4>1. \A i \in Queued' : i \in Queued /\ i # 1
        BY <1>1, <1>2 DEF Queued
      <4>2. QED
        BY <3>1, <4>1
    <3>4. \A j \in 1 .. Len(rq) : 1 < j => rq[j].kind # "ssl"
      BY <2>1, <2>3 DEF Attempting
    <3>5. \A j \in 1 .. Len(rq) : rq[j].kind # "ssl"
      BY <1>2, <3>4 DEF Attempts
    <3>6. Has("CONNECTING")'
      BY <1>2, <3>1
    <3>7. QED
      BY <1>1, <2>2, <2>3, <3>2, <3>3, <3>5, <3>6 DEF Attempting
  <2>4. CASE ~Live
    <3>1. ~listed'
      BY <1>1, <1>2, <2>4 DEF Live
    <3>2. QED
      BY <3>1, AttemptingOff
  <2>5. QED
    BY <2>3, <2>4
<1>3. CASE at[Recv] \in {<<"connected", "store">>, <<"failed", "store">>, <<"accept", "store">>}
  <2>1. /\ at[Recv] # Idle /\ at[Recv][2] # "end" /\ at[Recv] \notin {"close"} \X {"null", "trash"} /\ ~Done
    BY <1>3 DEF Idle, Done
  <2>2. Head(rq).kind \in Attempts /\ rq # <<>>
    BY <1>3, <2>1, AtCommand DEF Attempts
  <2>3. /\ at'[Recv] \in {<<"connected", "reply">>, <<"failed", "reply">>, <<"accept", "unlock">>}
        /\ status' = status \cup {"CONNECTED"} \/ status' = status \cup {"ERROR"}
    BY <1>3, StoreInHandlerIs
  <2>4. Done' /\ at'[Recv] \notin {"close"} \X {"null", "trash"}
    BY <2>3 DEF Done
  <2>5. Has("CONNECTING")' = Has("CONNECTING")
    BY <2>3 DEF Has
  <2>6. \E c \in BOOLEAN : Has("CONNECTED")' = (c \/ Has("CONNECTED"))
    <3>1. CASE status' = status \cup {"CONNECTED"}
      <4>1. Has("CONNECTED")' = (TRUE \/ Has("CONNECTED"))
        BY <3>1 DEF Has
      <4>2. QED
        BY <4>1
    <3>2. CASE status' = status \cup {"ERROR"}
      <4>1. Has("CONNECTED")' = (FALSE \/ Has("CONNECTED"))
        BY <3>2 DEF Has
      <4>2. QED
        BY <4>1
    <3>3. QED
      BY <2>3, <3>1, <3>2
  <2>7. QED
    BY <1>2, <2>1, <2>2, <2>4, <2>5, <2>6, HeadOne
<1>4. CASE at[Recv] = <<"close", "store">>
  <2>1. at'[Recv] = <<"close", "null">> /\ ~Has("CONNECTED")'
    BY <1>4, StoreInHandlerIs DEF Has, Joined
  <2>2. ~Live'
    BY <2>1 DEF Live
  <2>3. QED
    BY <2>1, <2>2 DEF Attempting
<1>5. CASE at[Recv] = <<"close", "store_release">>
  <2>1. ~listed'
    BY <1>1, <1>5 DEF Ended
  <2>2. QED
    BY <2>1, AttemptingOff
<1>6. QED
  BY <1>3, <1>4, <1>5, StoreInHandlerIs

LEMMA AttemptingStep ==
  ASSUME Base, Ended, Tested, Attempting, Next, Followed'
  PROVE  Attempting'
<1>1. ASSUME NEW t \in Apps, AppSteps(t) PROVE Attempting'
  BY <1>1, AttemptingApp
<1>2. CASE OnlyGoes /\ ~StoreInHandler
  <2>1. status' = status
    BY <1>2 DEF OnlyGoes, ReadMessage, LockInHandler, TcpConnect, TcpListen, UnlockInHandler, LoadInHandler, Load,
       ReadCallBack, JoinSendThread, bitVars
  <2>2. QED
    BY <1>2, <2>1, GoesCalm, AttemptingFrame
<1>3. CASE StoreInHandler
  BY <1>3, AttemptingStore
<1>4. CASE Reply
  BY <1>4, AttemptingReply
<1>5. CASE EndOwnPipe
  <2>1. /\ at[Recv] = <<"close", "null">> /\ at' = [at EXCEPT ![Recv] = <<"close", "trash">>]
        /\ listed' = listed /\ status' = status
    BY <1>5 DEF EndOwnPipe, Go, bitVars, restVars
  <2>2. at'[Recv] = <<"close", "trash">>
    BY <2>1, RecvGoesTo DEF RecvAt
  <2>3. ~Live' /\ ~Live /\ Has("CONNECTED")' = Has("CONNECTED")
    BY <2>1, <2>2 DEF Live, Has
  <2>4. QED
    BY <2>1, <2>3 DEF Attempting
<1>6. CASE MoveToTrash
  BY <1>6, AttemptingOff DEF MoveToTrash
<1>7. CASE SendThread \/ TcpClose \/ Peer
  <2>1. status' = status
    BY <1>7 DEF SendThread, TcpClose, Peer, bitVars
  <2>2. QED
    BY <1>7, <2>1, SendCalm, AttemptingFrame DEF SendSteps
<1>8. CASE WriteFails
  <2>1. Calm
    BY <1>8, SendCalm DEF SendSteps
  <2>2. \/ \A b \in Joined : b \in status' <=> b \in status
        \/ Has("CONNECTED") /\ ~Has("CONNECTED")'
    BY <1>8, WriteFailsIs DEF Has, Joined
  <2>3. QED
    BY <2>1, <2>2, AttemptingFrame, AttemptingCleared
<1>9. CASE Drain
  <2>1. ~listed'
    BY <1>9 DEF Drain, Ended, restVars
  <2>2. QED
    BY <2>1, AttemptingOff
<1>10. QED
  BY <1>1, <1>2, <1>3, <1>4, <1>5, <1>6, <1>7, <1>8, <1>9 DEF Next, AppSteps, RecvSteps, SendSteps, OnlyGoes

(* What a step can do to the bits. *)
LEMMA StatusIs ==
  ASSUME Base, Tested, Next, Followed'
  PROVE  \/ status' = status
         \/ status' = status \ Joined
         \/ \E t \in Apps : StoreInCall(t) /\ at[t][1] \in {"connect", "accept"} /\ status' = status \cup {"CONNECTING"}
         \/ \E t \in Apps : StoreInCall(t) /\ at[t][1] = "shutdown" /\ status' = status \cup {"CLOSING"}
         \/ \E t \in Apps : StoreInCall(t) /\ at[t][1] = "close" /\ status' = status \cup {"CLOSING", "WAIT_CLOSE"}
         \/ at[Recv] \in {<<"connected", "store">>, <<"accept", "store">>} /\ status' = status \cup {"CONNECTED"}
         \/ status' = status \cup {"ERROR"}
         \/ status' = status \cup {"WAIT_RELEASE"}
         \/ WriteFails /\ at'[Send] = <<"write", "load_reset">> /\ status' = status \ (Joined \cup {"CLOSING"})
         \/ status' = status \cup {"RESET"}
<1>1. ASSUME NEW t \in Apps, AppSteps(t), ~StoreInCall(t) PROVE status' = status \/ status' = status \ Joined
  BY <1>1, AppBits
<1>2. ASSUME NEW t \in Apps, StoreInCall(t)
      PROVE  \/ status' = status \ Joined
             \/ at[t][1] \in {"connect", "accept"} /\ status' = status \cup {"CONNECTING"}
             \/ at[t][1] = "shutdown" /\ status' = status \cup {"CLOSING"}
             \/ at[t][1] = "close" /\ status' = status \cup {"CLOSING", "WAIT_CLOSE"}
  BY <1>2, StoreInCallIs DEF Shared
<1>3. CASE StoreInHandler
  BY <1>3, StoreInHandlerIs
<1>4. CASE WriteFails
  BY <1>4, WriteFailsIs
<1>5. CASE Others /\ ~StoreInHandler /\ ~WriteFails
  BY <1>5 DEF Others, RecvSteps, SendSteps, ReadMessage, Reply, LockInHandler, TcpConnect, TcpListen, UnlockInHandler,
     LoadInHandler, Load, ReadCallBack, JoinSendThread, EndOwnPipe, MoveToTrash, SendThread, TcpClose, Drain, Peer, bitVars
<1>6. QED
  BY <1>1, <1>2, <1>3, <1>4, <1>5 DEF Next, AppSteps, Others

LEMMA StatusMoves ==
  ASSUME Base, Tested, Next, Followed'
  PROVE  /\ \A b \in {"WAIT_CLOSE", "RESET", "ERROR"} : b \in status => b \in status'
         /\ Has("CLOSING") => Has("CLOSING")' \/ at'[Send] = <<"write", "load_reset">>
         /\ Has("WAIT_CLOSE")' => Has("WAIT_CLOSE") \/ \E t \in Apps : StoreInCall(t) /\ at[t][1] = "close" /\ Has("CLOSING")'
         /\ Has("CLOSING")' => Has("CLOSING") \/ \E t \in Apps : StoreInCall(t) /\ at[t][1] \in {"shutdown", "close"}
         /\ Has("CONNECTED")' => Has("CONNECTED") \/ at[Recv] \in {<<"connected", "store">>, <<"accept", "store">>}
         /\ Has("CONNECTING")' => Has("CONNECTING") \/ \E t \in Apps : StoreInCall(t) /\ at[t][1] \in {"connect", "accept"}
         /\ Has("CONNECTING")' /\ ~Has("CONNECTED")' => ~Has("CONNECTED")
<1>1. \A b \in {"WAIT_CLOSE", "RESET", "ERROR"} : b \in status => b \in status'
  BY StatusIs DEF Joined
<1>2. Has("CLOSING") => Has("CLOSING")' \/ at'[Send] = <<"write", "load_reset">>
  BY StatusIs DEF Joined, Has
<1>3. Has("WAIT_CLOSE")' => Has("WAIT_CLOSE") \/ \E t \in Apps : StoreInCall(t) /\ at[t][1] = "close" /\ Has("CLOSING")'
  BY StatusIs DEF Joined, Has
<1>4. Has("CLOSING")' => Has("CLOSING") \/ \E t \in Apps : StoreInCall(t) /\ at[t][1] \in {"shutdown", "close"}
  BY StatusIs DEF Joined, Has
<1>5. Has("CONNECTED")' => Has("CONNECTED") \/ at[Recv] \in {<<"connected", "store">>, <<"accept", "store">>}
  BY StatusIs DEF Joined, Has
<1>6. Has("CONNECTING")' => Has("CONNECTING") \/ \E t \in Apps : StoreInCall(t) /\ at[t][1] \in {"connect", "accept"}
  BY StatusIs DEF Joined, Has
<1>7. Has("CONNECTING")' /\ ~Has("CONNECTED")' => ~Has("CONNECTED")
  BY StatusIs DEF Joined, Has
<1>8. QED
  BY <1>1, <1>2, <1>3, <1>4, <1>5, <1>6, <1>7

(* Calls of SOCL_Close that have marked the socket and not yet queued the  *)
(* close command.                                                          *)
Closers == {t \in Apps : at[t] \in {"close"} \X {"null", "exec"}}
Closing ==
  /\ closes > 0 \/ Closers # {} => Has("WAIT_CLOSE")
  /\ "close" \in race \/ (closes <= 1 /\ (Closers # {} => closes = 0) /\ \A t, u \in Closers : t = u)
  /\ \A i \in 1 .. Len(rq) : rq[i].kind \in {"close", "null"} => closes > 0
  /\ ~listed => closes > 0

LEMMA ClosingFrame ==
  ASSUME Closing, Closers' \subseteq Closers, closes' = closes, race \subseteq race',
         Has("WAIT_CLOSE") => Has("WAIT_CLOSE")',
         ~listed' => closes > 0,
         \A i \in 1 .. Len(rq') : rq'[i].kind \in {"close", "null"} => closes > 0
  PROVE  Closing'
<1>1. Closers' # {} => Closers # {}
  OBVIOUS
<1>2. \A t, u \in Closers' : t \in Closers /\ u \in Closers
  OBVIOUS
<1>3. QED
  BY <1>1, <1>2 DEF Closing

LEMMA ClosersStay ==
  ASSUME \A t \in Apps : at'[t] = at[t] \/ at'[t] \notin {"close"} \X {"null", "exec"}
  PROVE  Closers' \subseteq Closers
BY DEF Closers

(* Where a call goes when it does not store. *)
LEMMA AppGoesTo ==
  ASSUME Base, NEW t \in Apps, AppSteps(t), ~ExecCommandPacket(t), ~StoreInCall(t), ~SendNull(t)
  PROVE  /\ at'[t][2] \notin {"null", "store"} \/ LoadInCall(t)
         /\ at'[t] # <<"shutdown", "exec">>
         /\ at'[t] \notin {"close"} \X {"null", "exec"}
<1>1. PICK v : at' = [at EXCEPT ![t] = v] /\ (v[2] \notin {"null", "store"} \/ LoadInCall(t)) /\ v # <<"shutdown", "exec">>
               /\ v \notin {"close"} \X {"null", "exec"}
  <2>1. CASE \E o \in Calls : Call(t, o)
    <3>1. PICK o \in Calls, s \in {"exec", "in_use", "load"} :
            at' = [at EXCEPT ![t] = <<o, s>>] /\ (s = "exec" => o \in {"ssl", "write"})
      BY <2>1 DEF Call, Go
    <3>2. <<o, s>>[2] \notin {"null", "store"} /\ <<o, s>> # <<"shutdown", "exec">> /\ <<o, s>> \notin {"close"} \X {"null", "exec"}
      BY <3>1
    <3>3. QED
      BY <3>1, <3>2
  <2>2. CASE LoadInCall(t)
    <3>1. PICK v \in {<<at[t][1], "store">>, Idle} : at' = [at EXCEPT ![t] = v]
      BY <2>2 DEF LoadInCall, Go, Return
    <3>2. v # <<"shutdown", "exec">> /\ v \notin {"close"} \X {"null", "exec"}
      BY <3>1 DEF Idle
    <3>3. QED
      BY <2>2, <3>1, <3>2
  <2>3. CASE ExecRefused(t) \/ LockToRead(t) \/ CopyCPSBuffer(t) \/ UnlockReader(t)
    <3>1. PICK v \in {<<"read", "copy">>, <<"read", "exec">>, <<"read", "unlock">>, Idle} :
            at' = [at EXCEPT ![t] = v]
      BY <2>3 DEF ExecRefused, LockToRead, CopyCPSBuffer, UnlockReader, Go, Return
    <3>2. v[2] \notin {"null", "store"} /\ v # <<"shutdown", "exec">> /\ v \notin {"close"} \X {"null", "exec"}
      BY <3>1 DEF Idle
    <3>3. QED
      BY <3>1, <3>2
  <2>4. QED
    BY <2>1, <2>2, <2>3 DEF AppSteps, CallSteps
<1>2. at'[t] = v
  BY <1>1, ThreadsAre DEF Base, Types, AtOK
<1>3. QED
  BY <1>1, <1>2

LEMMA ClosingApp ==
  ASSUME Base, Tested, Closing, Next, NEW t \in Apps, AppSteps(t), Followed'
  PROVE  Closing'
<1>A. /\ at'[Recv] = at[Recv] /\ listed' = listed /\ \A u \in Apps : u # t => at'[u] = at[u]
      /\ rq' = rq \/ ExecCommandPacket(t)
  BY AppStays
<1>R. race \subseteq race'
  BY RaceGrows
<1>W. Has("WAIT_CLOSE") => Has("WAIT_CLOSE")'
  BY StatusMoves DEF Has
<1>N. closes \in Nat
  BY DEF Base, Types, RestOK
<1>1. CASE ExecCommandPacket(t)
  <2>1. at[t] = <<at[t][1], "exec">> /\ closes' = IF at[t][1] = "close" THEN closes + 1 ELSE closes
    BY <1>1, ExecIs
  <2>2. at'[t] \notin {"close"} \X {"null", "exec"}
    BY <1>1, ExecIs DEF Idle
  <2>3. Closers' = Closers \ {t}
    BY <1>A, <2>2 DEF Closers
  <2>4. t \in Closers <=> at[t][1] = "close"
    BY <2>1 DEF Closers
  <2>5. \A i \in 1 .. Len(rq') : rq'[i].kind \in {"close", "null"} => closes' > 0
    <3>1. CASE rq' = rq
      BY <1>N, <2>1, <3>1 DEF Closing
    <3>2. CASE rq' # rq
      <4>1. at[t][1] \in {"connect", "accept", "ssl", "read", "close"} /\ at[t][1] \in RecvKinds
        BY <1>1, <3>2, ExecIs DEF RecvKinds
      <4>2. PICK by \in Apps \cup {None} : rq' = Append(rq, [kind |-> at[t][1], by |-> by])
        BY <1>1, <3>2, ExecIs
      <4>3. /\ Len(rq) \in Nat /\ Len(rq') = Len(rq) + 1 /\ rq'[Len(rq) + 1].kind = at[t][1]
            /\ \A i \in 1 .. Len(rq) : rq'[i] = rq[i]
            /\ \A i \in 1 .. Len(rq') : i \in 1 .. Len(rq) \/ i = Len(rq) + 1
        BY <4>1, <4>2, RecvGrown
      <4>4. ASSUME NEW i \in 1 .. Len(rq'), rq'[i].kind \in {"close", "null"} PROVE closes' > 0
        <5>1. CASE i \in 1 .. Len(rq)
          BY <1>N, <2>1, <4>3, <4>4, <5>1 DEF Closing
        <5>2. CASE i = Len(rq) + 1
          BY <1>N, <2>1, <4>1, <4>3, <4>4, <5>2
        <5>3. QED
          BY <4>3, <5>1, <5>2
      <4>5. QED
        BY <4>4
    <3>3. QED
      BY <3>1, <3>2
  <2>6. CASE at[t][1] # "close"
    <3>1. closes' = closes /\ Closers' \subseteq Closers
      BY <2>1, <2>3, <2>6
    <3>2. ~listed' => closes > 0
      BY <1>A DEF Closing
    <3>3. QED
      BY <1>R, <1>W, <2>5, <3>1, <3>2, ClosingFrame
  <2>7. CASE at[t][1] = "close"
    <3>1. closes' = closes + 1 /\ t \in Closers /\ Has("WAIT_CLOSE")'
      BY <1>W, <2>1, <2>4, <2>7 DEF Closing
    <3>2. "close" \in race' \/ (closes' <= 1 /\ Closers' = {})
      BY <1>R, <1>N, <2>3, <3>1 DEF Closing
    <3>3. closes' > 0
      BY <1>N, <3>1
    <3>4. QED
      BY <2>5, <3>1, <3>2, <3>3 DEF Closing
  <2>8. QED
    BY <2>6, <2>7
<1>2. CASE ~ExecCommandPacket(t)
  <2>1. rq' = rq
    BY <1>A, <1>2
  <2>2. closes' = closes
    BY <1>2 DEF AppSteps, CallSteps, Call, LoadInCall, StoreInCall, SendNull, ExecRefused,
       LockToRead, CopyCPSBuffer, UnlockReader, restVars
  <2>3. CASE StoreInCall(t) /\ at[t][1] = "close"
    <3>1. /\ at[t] = <<"close", "store">> /\ reg[t] = status /\ Has("WAIT_CLOSE")' /\ at'[t] = <<"close", "null">>
          /\ race' = race
      BY <2>3, StoreInCallIs DEF Has
    <3>2. Closers' = Closers \cup {t}
      BY <1>A, <3>1 DEF Closers
    <3>3. "close" \in race \/ ~Has("WAIT_CLOSE")
      BY <3>1 DEF Tested, Has
    <3>4. "close" \in race \/ (closes = 0 /\ Closers = {})
      BY <1>N, <3>3 DEF Closing
    <3>5. QED
      BY <1>A, <2>1, <2>2, <3>1, <3>2, <3>4 DEF Closing
  <2>4. CASE ~(StoreInCall(t) /\ at[t][1] = "close")
    <3>1. Closers' \subseteq Closers
      <4>1. CASE StoreInCall(t)
        <5>1. at'[t] \notin {"close"} \X {"null", "exec"}
          BY <2>4, <4>1, StoreInCallIs DEF Shared, Idle
        <5>2. QED
          BY <1>A, <5>1, ClosersStay
      <4>2. CASE SendNull(t)
        BY <1>A, <4>2 DEF SendNull, Closers
      <4>3. CASE ~StoreInCall(t) /\ ~SendNull(t)
        BY <1>2, <1>A, <4>3, AppGoesTo, ClosersStay
      <4>4. QED
        BY <4>1, <4>2, <4>3
    <3>2. \A i \in 1 .. Len(rq') : rq'[i].kind \in {"close", "null"} => closes > 0
      BY <2>1 DEF Closing
    <3>3. ~listed' => closes > 0
      BY <1>A DEF Closing
    <3>4. QED
      BY <1>R, <1>W, <2>2, <3>1, <3>2, <3>3, ClosingFrame
  <2>5. QED
    BY <2>3, <2>4
<1>3. QED
  BY <1>1, <1>2

LEMMA NotExec ==
  ASSUME Base, Others
  PROVE  closes' = closes
BY DEF Others, RecvSteps, SendSteps, ReadMessage, Reply, LockInHandler, TcpConnect, TcpListen, UnlockInHandler,
   LoadInHandler, StoreInHandler, ReadCallBack, JoinSendThread, EndOwnPipe, MoveToTrash, SendThread,
   WriteFails, TcpClose, Drain, Peer, restVars

(* What becomes of the receive pipe and the list in the steps of the others. *)
LEMMA OthersQueue ==
  ASSUME Base, Others
  PROVE  \/ rq' = rq /\ listed' = listed
         \/ Reply /\ rq # <<>> /\ rq' = Tail(rq) /\ listed' = listed
         \/ Drain /\ rq # <<>> /\ rq' = Tail(rq) /\ listed' = listed
         \/ EndOwnPipe /\ listed' = listed
         \/ MoveToTrash /\ rq' = rq /\ listed' = FALSE
<1>1. CASE Reply
  BY <1>1, ReplyIs DEF restVars
<1>2. CASE Drain
  BY <1>2 DEF Drain, restVars
<1>3. CASE EndOwnPipe
  BY <1>3 DEF EndOwnPipe, restVars
<1>4. CASE MoveToTrash
  BY <1>4 DEF MoveToTrash, pipeVars
<1>5. CASE Others /\ ~Reply /\ ~Drain /\ ~EndOwnPipe /\ ~MoveToTrash
  BY <1>5 DEF Others, RecvSteps, SendSteps, ReadMessage, LockInHandler, TcpConnect, TcpListen, UnlockInHandler,
     LoadInHandler, StoreInHandler, ReadCallBack, JoinSendThread, SendThread, WriteFails, TcpClose, Peer, pipeVars, restVars
<1>6. QED
  BY <1>1, <1>2, <1>3, <1>4, <1>5

LEMMA CloseAtHead ==
  ASSUME Base, at[Recv][1] = "close"
  PROVE  rq # <<>> /\ 1 \in 1 .. Len(rq) /\ rq[1].kind = "close"
<1>1. at[Recv] \in RecvAt
  BY DEF Base, Types, AtOK
<1>2. at[Recv] # Idle /\ at[Recv][2] # "end"
  BY <1>1, RecvAtIs DEF Idle
<1>3. QED
  BY <1>2, AtCommand, HeadOne

LEMMA EndOwnPipeIs ==
  ASSUME Base, EndOwnPipe
  PROVE  /\ at[Recv] = <<"close", "null">> /\ at'[Recv] = <<"close", "trash">>
         /\ Len(rq) \in Nat /\ Len(rq') = Len(rq) + 1 /\ rq'[Len(rq) + 1].kind = "null"
         /\ \A i \in 1 .. Len(rq) : rq'[i] = rq[i]
         /\ \A i \in 1 .. Len(rq') : i \in 1 .. Len(rq) \/ i = Len(rq) + 1
<1>1. at[Recv] = <<"close", "null">> /\ at' = [at EXCEPT ![Recv] = <<"close", "trash">>]
      /\ rq' = Append(rq, [kind |-> "null", by |-> None])
  BY DEF EndOwnPipe, Go
<1>2. at'[Recv] = <<"close", "trash">>
  BY <1>1, RecvGoesTo DEF RecvAt
<1>3. QED
  BY <1>1, <1>2, RecvGrown DEF RecvKinds

LEMMA ClosingStep ==
  ASSUME Base, Ended, Tested, Closing, Next, Followed'
  PROVE  Closing'
<1>1. ASSUME NEW t \in Apps, AppSteps(t) PROVE Closing'
  BY <1>1, ClosingApp
<1>2. CASE Others
  <2>1. Closers' \subseteq Closers
    <3>1. \A t \in Apps : at'[t] = at[t] \/ at'[t] \notin {"close"} \X {"null", "exec"}
      BY <1>2, AnswersOnly DEF Idle
    <3>2. QED
      BY <3>1, ClosersStay
  <2>2. closes' = closes /\ race \subseteq race' /\ (Has("WAIT_CLOSE") => Has("WAIT_CLOSE")')
    BY <1>2, NotExec, RaceGrows, StatusMoves DEF Has
  <2>3. ~listed' => closes > 0
    <3>1. CASE MoveToTrash
      <4>1. at[Recv][1] = "close"
        BY <3>1 DEF MoveToTrash
      <4>2. QED
        BY <4>1, CloseAtHead DEF Closing
    <3>2. CASE ~MoveToTrash
      BY <1>2, <3>2, OthersQueue DEF Closing
    <3>3. QED
      BY <3>1, <3>2
  <2>4. ASSUME NEW i \in 1 .. Len(rq'), rq'[i].kind \in {"close", "null"} PROVE closes > 0
    <3>1. CASE rq' = rq
      BY <2>4, <3>1 DEF Closing
    <3>2. CASE rq # <<>> /\ rq' = Tail(rq)
      BY <2>4, <3>2, RecvShrunk DEF Closing
    <3>3. CASE EndOwnPipe
      <4>1. at[Recv][1] = "close"
        BY <3>3, EndOwnPipeIs
      <4>2. QED
        BY <4>1, CloseAtHead DEF Closing
    <3>4. QED
      BY <1>2, <3>1, <3>2, <3>3, OthersQueue
  <2>5. QED
    BY <2>1, <2>2, <2>3, <2>4, ClosingFrame
<1>3. QED
  BY <1>1, <1>2 DEF Next, AppSteps, Others

(* A failed write has cleared CLOSING and marks the socket RESET.           *)
Failing == at[Send] \in {"write"} \X {"load_reset", "store_reset"}
Marked == Has("RESET") \/ Failing
Again ==
  /\ Has("WAIT_CLOSE") => Has("CLOSING") \/ Marked
  /\ \A i, j \in 1 .. Len(rq) : i < j /\ rq[i].kind = "close" /\ rq[j].kind \in Attempts => Marked
  /\ ~listed => \A j \in 1 .. Len(rq) : rq[j].kind \in Attempts => Has("RESET")
  /\ ~listed /\ Has("CONNECTED") => Has("RESET")

LEMMA MarkedStays ==
  ASSUME Base, Tested, Next, Followed'
  PROVE  /\ Has("RESET") => Has("RESET")'
         /\ Marked => Marked'
<1>1. Has("RESET") => Has("RESET")'
  BY StatusMoves DEF Has
<1>2. Failing => at'[Send] = at[Send] \/ Marked'
  <2>1. ASSUME NEW t \in Apps, AppSteps(t) PROVE at'[Send] = at[Send]
    BY <2>1, AppStays
  <2>2. CASE RecvSteps \/ TcpListen \/ Drain \/ Peer
    BY <2>2, SendStays
  <2>3. ASSUME SendThread, Failing PROVE FALSE
    BY <2>3 DEF SendThread, Failing, Idle
  <2>4. ASSUME TcpClose, Failing PROVE FALSE
    BY <2>4 DEF TcpClose, Failing
  <2>5. ASSUME WriteFails, Failing PROVE Marked'
    BY <2>5, WriteFailsIs DEF Failing, Marked, Has
  <2>6. QED
    BY <2>1, <2>2, <2>3, <2>4, <2>5 DEF Next, AppSteps, SendSteps
<1>3. QED
  BY <1>1, <1>2 DEF Marked, Failing

LEMMA NotFailing ==
  ASSUME Base, Ended, ~listed \/ at[Recv] = <<"close", "trash">>
  PROVE  Marked => Has("RESET")
<1>1. at[Send][2] = "end"
  <2>1. <<"close", "trash">> \in {"close"} \X {"load", "store", "null", "trash", "load_release", "store_release", "reply"}
    OBVIOUS
  <2>2. QED
    BY <2>1 DEF Ended
<1>2. QED
  BY <1>1 DEF Marked, Failing

(* The attempts that close and reopen meet in the queue.                   *)
LEMMA AgainQueue ==
  ASSUME Base, Ended, Tested, Attempting, Closing, Again, Next, Followed'
  PROVE  /\ \A i, j \in 1 .. Len(rq') : i < j /\ rq'[i].kind = "close" /\ rq'[j].kind \in Attempts => Marked'
         /\ ~listed' => \A j \in 1 .. Len(rq') : rq'[j].kind \in Attempts => Has("RESET")'
<1>M. (Marked => Marked') /\ (Has("RESET") => Has("RESET")')
  BY MarkedStays
<1>1. CASE rq' = rq /\ listed' = listed
  BY <1>M, <1>1 DEF Again
<1>2. CASE rq' = rq /\ MoveToTrash
  <2>1. at[Recv] = <<"close", "trash">> /\ at[Recv][1] = "close"
    BY <1>2 DEF MoveToTrash
  <2>2. 1 \in 1 .. Len(rq) /\ rq[1].kind = "close"
    BY <2>1, CloseAtHead
  <2>3. ASSUME NEW j \in 1 .. Len(rq), rq[j].kind \in Attempts PROVE Has("RESET")
    <3>1. 1 < j
      BY <2>2, <2>3 DEF Attempts
    <3>2. Marked
      BY <2>2, <2>3, <3>1 DEF Again
    <3>3. QED
      BY <2>1, <3>2, NotFailing
  <2>4. QED
    BY <1>M, <1>2, <2>3 DEF Again
<1>3. CASE rq # <<>> /\ rq' = Tail(rq) /\ listed' = listed
  <2>1. \A i \in 1 .. Len(rq') : rq'[i] = rq[i + 1] /\ i + 1 \in 1 .. Len(rq)
    BY <1>3, RecvShrunk
  <2>2. ASSUME NEW i \in 1 .. Len(rq'), NEW j \in 1 .. Len(rq'), i < j, rq'[i].kind = "close", rq'[j].kind \in Attempts
        PROVE  Marked
    <3>1. i + 1 < j + 1
      BY <2>2
    <3>2. QED
      BY <2>1, <2>2, <3>1 DEF Again
  <2>3. ASSUME ~listed, NEW j \in 1 .. Len(rq'), rq'[j].kind \in Attempts PROVE Has("RESET")
    BY <2>1, <2>3 DEF Again
  <2>4. QED
    BY <1>M, <1>3, <2>2, <2>3
<1>4. CASE EndOwnPipe /\ listed' = listed
  <2>1. /\ Len(rq) \in Nat /\ Len(rq') = Len(rq) + 1 /\ rq'[Len(rq) + 1].kind = "null"
        /\ \A i \in 1 .. Len(rq) : rq'[i] = rq[i]
        /\ \A i \in 1 .. Len(rq') : i \in 1 .. Len(rq) \/ i = Len(rq) + 1
    BY <1>4, EndOwnPipeIs
  <2>2. ASSUME NEW i \in 1 .. Len(rq'), rq'[i].kind \in Attempts \cup {"close"} PROVE i \in 1 .. Len(rq) /\ rq'[i] = rq[i]
    BY <2>1, <2>2 DEF Attempts
  <2>3. ASSUME NEW i \in 1 .. Len(rq'), NEW j \in 1 .. Len(rq'), i < j, rq'[i].kind = "close", rq'[j].kind \in Attempts
        PROVE  Marked
    BY <2>2, <2>3 DEF Again
  <2>4. ASSUME ~listed, NEW j \in 1 .. Len(rq'), rq'[j].kind \in Attempts PROVE Has("RESET")
    BY <2>2, <2>4 DEF Again
  <2>5. QED
    BY <1>M, <1>4, <2>3, <2>4
<1>5. ASSUME NEW t \in Apps, ExecCommandPacket(t), rq' # rq
      PROVE  /\ \A i, j \in 1 .. Len(rq') : i < j /\ rq'[i].kind = "close" /\ rq'[j].kind \in Attempts => Marked'
             /\ ~listed' => \A j \in 1 .. Len(rq') : rq'[j].kind \in Attempts => Has("RESET")'
  <2>1. at[t][1] \in {"connect", "accept", "ssl", "read", "close"} /\ at[t][1] \in RecvKinds
    BY <1>5, ExecIs DEF RecvKinds
  <2>2. PICK by \in Apps \cup {None} : rq' = Append(rq, [kind |-> at[t][1], by |-> by])
    BY <1>5, ExecIs
  <2>3. /\ Len(rq) \in Nat /\ Len(rq') = Len(rq) + 1 /\ rq'[Len(rq) + 1].kind = at[t][1]
        /\ \A i \in 1 .. Len(rq) : rq'[i] = rq[i]
        /\ \A i \in 1 .. Len(rq') : i \in 1 .. Len(rq) \/ i = Len(rq) + 1
    BY <2>1, <2>2, RecvGrown
  <2>4. listed' = listed
    BY <1>5, ExecIs
  <2>5. at[t][1] \in Attempts => ~Has("CLOSING")
    BY <1>5 DEF ExecCommandPacket, Followed, Attempts
  <2>6. at[t][1] \in Attempts /\ closes > 0 => Marked
    BY <2>5 DEF Closing, Again
  <2>7. ASSUME NEW i \in 1 .. Len(rq'), NEW j \in 1 .. Len(rq'), i < j, rq'[i].kind = "close", rq'[j].kind \in Attempts
        PROVE  Marked
    <3>1. i \in 1 .. Len(rq) /\ rq[i].kind = "close"
      BY <2>3, <2>7
    <3>2. CASE j \in 1 .. Len(rq)
      <4>1. rq[j].kind \in Attempts
        BY <2>3, <2>7, <3>2
      <4>2. QED
        BY <2>7, <3>1, <3>2, <4>1 DEF Again
    <3>3. CASE j = Len(rq) + 1
      <4>1. at[t][1] \in Attempts
        BY <2>3, <2>7, <3>3
      <4>2. closes > 0
        BY <3>1 DEF Closing
      <4>3. QED
        BY <2>6, <4>1, <4>2
    <3>4. QED
      BY <2>3, <3>2, <3>3
  <2>8. ASSUME ~listed, NEW j \in 1 .. Len(rq'), rq'[j].kind \in Attempts PROVE Has("RESET")
    <3>1. CASE j \in 1 .. Len(rq)
      <4>1. rq[j].kind \in Attempts
        BY <2>3, <2>8, <3>1
      <4>2. QED
        BY <2>8, <3>1, <4>1 DEF Again
    <3>2. CASE j = Len(rq) + 1
      <4>1. at[t][1] \in Attempts
        BY <2>3, <2>8, <3>2
      <4>2. Marked
        BY <2>6, <2>8, <4>1 DEF Closing
      <4>3. QED
        BY <2>8, <4>2, NotFailing
    <3>3. QED
      BY <2>3, <3>1, <3>2
  <2>9. QED
    BY <1>M, <2>4, <2>7, <2>8
<1>6. ASSUME NEW t \in Apps, AppSteps(t)
      PROVE  (rq' = rq /\ listed' = listed) \/ (ExecCommandPacket(t) /\ rq' # rq)
  BY <1>6, AppStays
<1>7. CASE Others
  BY <1>1, <1>2, <1>3, <1>4, <1>7, OthersQueue
<1>8. QED
  BY <1>1, <1>5, <1>6, <1>7 DEF Next, AppSteps, Others

LEMMA AgainStep ==
  ASSUME Base, Ended, Tested, Attempting, Closing, Again, Next, Followed'
  PROVE  Again'
<1>M. (Marked => Marked') /\ (Has("RESET") => Has("RESET")')
  BY MarkedStays
<1>1. Has("WAIT_CLOSE")' => Has("CLOSING")' \/ Marked'
  <2>1. CASE Has("WAIT_CLOSE")
    <3>1. at'[Send] = <<"write", "load_reset">> => Marked'
      BY DEF Marked, Failing
    <3>2. QED
      BY <1>M, <2>1, <3>1, StatusMoves DEF Again
  <2>2. CASE ~Has("WAIT_CLOSE")
    BY <2>2, StatusMoves
  <2>3. QED
    BY <2>1, <2>2
<1>2. ~listed' /\ Has("CONNECTED")' => Has("RESET")'
  <2>1. CASE ~listed /\ Has("CONNECTED")
    BY <1>M, <2>1 DEF Again
  <2>2. CASE listed /\ ~listed'
    <3>1. MoveToTrash
      <4>1. ASSUME NEW t \in Apps, AppSteps(t) PROVE listed' = listed
        BY <4>1, AppStays
      <4>2. QED
        BY <2>2, <4>1, OthersQueue DEF Next, AppSteps, Others
    <3>2. ~Live /\ status' = status
      BY <3>1 DEF MoveToTrash, Live, bitVars
    <3>3. QED
      BY <2>2, <3>2 DEF Attempting, Has
  <2>3. CASE ~listed /\ ~Has("CONNECTED") /\ Has("CONNECTED")'
    <3>1. at[Recv] \in {<<"connected", "store">>, <<"accept", "store">>}
      BY <2>3, StatusMoves
    <3>2. rq # <<>> /\ Head(rq).kind \in Attempts
      BY <3>1, AtCommand DEF Attempts, Idle
    <3>3. 1 \in 1 .. Len(rq) /\ rq[1].kind \in Attempts
      BY <3>2, HeadOne
    <3>4. QED
      BY <1>M, <2>3, <3>3 DEF Again
  <2>4. QED
    <3>1. listed \in BOOLEAN /\ listed' \in BOOLEAN
      BY BaseStep DEF Base, Types, RestOK
    <3>2. QED
      BY <2>1, <2>2, <2>3, <3>1
<1>3. QED
  BY <1>1, <1>2, AgainQueue DEF Again

-----------------------------------------------------------------------------
(* Calls of SOCL_Shutdown that have set CLOSING, and queued shutdowns.     *)
Shutting == {t \in Apps : at[t] = <<"shutdown", "exec">>}
Fins == {i \in 1 .. Len(sq) : sq[i].kind = "shutdown"}

(* What CONNECTING and CLOSING announce. *)
Backed ==
  /\ listed /\ Has("CONNECTING") /\ ~Has("CONNECTED") /\ ~Has("ERROR") =>
       "no_bind" \in race \/ Starting # {} \/ Queued # {}
  /\ Has("CLOSING") /\ ~Has("WAIT_CLOSE") => "no_fin" \in race \/ fin \/ Shutting # {} \/ Fins # {}

LEMMA BackedIs ==
  ASSUME Base, Backed
  PROVE  Followed => BitsBacked
<1>1. Starting # {} \/ Queued # {} => UnderWay("connect", rq) \/ UnderWay("accept", rq)
  <2>1. ASSUME NEW t \in Starting PROVE at[t][1] = "connect" \/ at[t][1] = "accept"
    BY <2>1 DEF Starting, Attempts
  <2>2. ASSUME NEW i \in Queued PROVE i \in DOMAIN rq /\ (rq[i].kind = "connect" \/ rq[i].kind = "accept")
    BY <2>2, LenProperties DEF Queued, Attempts, Base, Types, QueuesOK
  <2>3. Starting \subseteq Apps
    BY DEF Starting
  <2>4. QED
    BY <2>1, <2>2, <2>3 DEF UnderWay
<1>2. Shutting # {} \/ Fins # {} => UnderWay("shutdown", sq)
  <2>1. ASSUME NEW t \in Shutting PROVE t \in Apps /\ at[t][1] = "shutdown"
    BY <2>1 DEF Shutting
  <2>2. ASSUME NEW i \in Fins PROVE i \in DOMAIN sq /\ sq[i].kind = "shutdown"
    BY <2>2, LenProperties DEF Fins, Base, Types, QueuesOK
  <2>3. QED
    BY <2>1, <2>2 DEF UnderWay
<1>3. QED
  BY <1>1, <1>2 DEF Backed, BitsBacked

LEMMA ListedStays ==
  ASSUME Base, Next, listed'
  PROVE  listed
<1>1. ASSUME NEW t \in Apps, AppSteps(t) PROVE listed
  BY <1>1, AppStays
<1>2. QED
  BY <1>1, OthersQueue DEF Next, AppSteps, Others

(* A call that is about to send its command either sends it or is refused. *)
LEMMA AtExec ==
  ASSUME Base, NEW t \in Apps, at[t][2] = "exec", AppSteps(t)
  PROVE  ExecCommandPacket(t) \/ ExecRefused(t)
BY DEF AppSteps, CallSteps, Call, LoadInCall, StoreInCall, SendNull, LockToRead, CopyCPSBuffer, UnlockReader, Idle

LEMMA StartingGoes ==
  ASSUME Base, AcceptBlocks, Next, NEW t \in Starting, "no_bind" \notin race'
  PROVE  t \in Starting' \/ Queued' # {}
<1>1. t \in Apps /\ at[t] \in Attempts \X {"exec"} /\ at[t][2] = "exec" /\ at[t][1] \in Attempts
  BY DEF Starting
<1>2. ASSUME at'[t] = at[t] PROVE t \in Starting'
  BY <1>1, <1>2 DEF Starting
<1>3. ASSUME NEW u \in Apps, AppSteps(u), u # t PROVE t \in Starting'
  BY <1>1, <1>2, <1>3, AppStays
<1>4. ASSUME ExecCommandPacket(t) PROVE Queued' # {}
  <2>1. ~ToSend(at[t][1]) /\ at[t][1] \in RecvKinds
    BY <1>1 DEF ToSend, Attempts, RecvKinds
  <2>2. PICK by \in Apps \cup {None} : rq' = Append(rq, [kind |-> at[t][1], by |-> by])
    BY <1>1, <1>4, <2>1, ExecIs
  <2>3. at'[Recv] = at[Recv] /\ listed' = listed
    BY <1>1, <1>4, AppStays DEF AppSteps, CallSteps
  <2>4. Queued' = Queued \cup {Len(rq) + 1}
    BY <1>1, <2>1, <2>2, <2>3, QueuedGrown, PlaceCalm
  <2>5. QED
    BY <2>4
<1>5. ASSUME ExecRefused(t) PROVE FALSE
  <2>1. at[t][1] # "connect"
    BY <1>5 DEF ExecRefused
  <2>2. at[t][1] = "accept" /\ block
    BY <1>1, <2>1 DEF Attempts, AcceptBlocks
  <2>3. QED
    BY <1>5, <2>2 DEF ExecRefused, Blocks
<1>6. ASSUME AppSteps(t) PROVE Queued' # {}
  BY <1>1, <1>4, <1>5, <1>6, AtExec
<1>7. ASSUME Others PROVE t \in Starting'
  BY <1>1, <1>2, <1>7, AnswersOnly
<1>8. QED
  BY <1>3, <1>6, <1>7 DEF Next, AppSteps, Others

LEMMA DoneMoves ==
  ASSUME Base, Ended, Others, Followed', listed', Done'
  PROVE  Done \/ Has("CONNECTED")' \/ Has("ERROR")' \/ Reply
<1>1. CASE StoreInHandler
  BY <1>1, StoreInHandlerIs DEF Has, Done
<1>2. CASE OnlyGoes
  BY <1>2, GoesCalm DEF Calm
<1>3. CASE SendSteps \/ Peer
  BY <1>3, SendCalm DEF Calm
<1>4. CASE Drain
  <2>1. at'[Recv] = at[Recv]
    BY <1>4, RecvStays
  <2>2. QED
    BY <2>1 DEF Done
<1>5. CASE EndOwnPipe
  BY <1>5, EndOwnPipeIs DEF Done
<1>6. CASE MoveToTrash
  BY <1>6 DEF MoveToTrash
<1>7. QED
  BY <1>1, <1>2, <1>3, <1>4, <1>5, <1>6 DEF Others, RecvSteps, OnlyGoes

LEMMA QueuedGoes ==
  ASSUME Base, Ended, Next, Followed', listed, listed', ~Has("CONNECTED")', ~Has("ERROR")', Queued # {}
  PROVE  Queued' # {}
<1>1. ASSUME rq' = rq, Done' => Done PROVE Queued' # {}
  BY <1>1 DEF Queued
<1>2. ASSUME NEW t \in Apps, AppSteps(t) PROVE Queued' # {}
  <2>1. at'[Recv] = at[Recv] /\ listed' = listed /\ (rq' = rq \/ ExecCommandPacket(t))
    BY <1>2, AppStays
  <2>2. Done' = Done
    BY <2>1, PlaceCalm
  <2>3. CASE rq' = rq
    BY <1>1, <2>2, <2>3
  <2>4. CASE rq' # rq
    <3>1. /\ at[t][1] \in {"connect", "accept", "ssl", "read", "close"} /\ at[t][1] \in RecvKinds
          /\ \E by \in Apps \cup {None} : rq' = Append(rq, [kind |-> at[t][1], by |-> by])
      BY <2>1, <2>4, ExecIs DEF RecvKinds
    <3>2. Queued \subseteq Queued'
      BY <2>2, <3>1, QueuedGrown
    <3>3. QED
      BY <3>2
  <2>5. QED
    BY <2>3, <2>4
<1>3. CASE Reply
  BY <1>3, QueuedShrunk
<1>4. CASE Others /\ ~Reply
  <2>1. Done' => Done
    BY <1>4, DoneMoves
  <2>2. CASE rq' = rq
    BY <1>1, <2>1, <2>2
  <2>3. ~Drain
    BY DEF Drain, Ended
  <2>4. CASE EndOwnPipe
    <3>1. PICK i : i \in Queued
      OBVIOUS
    <3>2. i \in 1 .. Len(rq) /\ rq[i].kind \in Attempts
      BY <3>1 DEF Queued
    <3>3. i \in 1 .. Len(rq') /\ rq'[i] = rq[i]
      BY <2>4, <3>2, EndOwnPipeIs
    <3>4. ~Done'
      BY <2>4, EndOwnPipeIs DEF Done
    <3>5. i \in Queued'
      BY <3>2, <3>3, <3>4 DEF Queued
    <3>6. QED
      BY <3>5
  <2>5. QED
    BY <1>4, <2>2, <2>3, <2>4, OthersQueue
<1>5. QED
  BY <1>2, <1>3, <1>4 DEF Next, AppSteps, Others

LEMMA Announced ==
  ASSUME Base, Ended, AcceptBlocks, Tested, Backed, Next, Followed'
  PROVE  listed' /\ Has("CONNECTING")' /\ ~Has("CONNECTED")' /\ ~Has("ERROR")' =>
           "no_bind" \in race' \/ Starting' # {} \/ Queued' # {}
<1>1. SUFFICES ASSUME listed', Has("CONNECTING")', ~Has("CONNECTED")', ~Has("ERROR")', "no_bind" \notin race'
               PROVE  Starting' # {} \/ Queued' # {}
  OBVIOUS
<1>2. ~Has("CONNECTED")
  BY <1>1, StatusMoves
<1>3. ~Has("ERROR")
  BY <1>1, StatusMoves DEF Has
<1>4. "no_bind" \notin race /\ listed
  BY <1>1, RaceGrows, ListedStays
<1>5. CASE ~Has("CONNECTING")
  <2>1. PICK t \in Apps : StoreInCall(t) /\ at[t][1] \in {"connect", "accept"}
    BY <1>1, <1>5, StatusMoves
  <2>2. at'[t] = <<at[t][1], "exec">>
    BY <2>1, StoreInCallIs
  <2>3. t \in Starting'
    BY <2>1, <2>2 DEF Starting, Attempts
  <2>4. QED
    BY <2>3
<1>6. CASE Has("CONNECTING")
  <2>1. Starting # {} \/ Queued # {}
    BY <1>2, <1>3, <1>4, <1>6 DEF Backed
  <2>2. CASE Queued # {}
    BY <1>1, <1>4, <2>2, QueuedGoes
  <2>3. CASE Starting # {}
    BY <1>1, <2>3, StartingGoes
  <2>4. QED
    BY <2>1, <2>2, <2>3
<1>7. QED
  BY <1>5, <1>6

LEMMA ShuttingGoes ==
  ASSUME Base, Next, NEW t \in Shutting, "no_fin" \notin race'
  PROVE  t \in Shutting' \/ Fins' # {}
<1>1. t \in Apps /\ at[t] = <<"shutdown", "exec">> /\ at[t][2] = "exec" /\ at[t][1] = "shutdown"
  BY DEF Shutting
<1>2. ASSUME at'[t] = at[t] PROVE t \in Shutting'
  BY <1>1, <1>2 DEF Shutting
<1>3. ASSUME NEW u \in Apps, AppSteps(u), u # t PROVE t \in Shutting'
  BY <1>1, <1>2, <1>3, AppStays
<1>4. ASSUME ExecCommandPacket(t) PROVE Fins' # {}
  <2>1. ToSend(at[t][1])
    BY <1>1 DEF ToSend
  <2>2. PICK by \in Apps \cup {None} : sq' = Append(sq, [kind |-> "shutdown", by |-> by])
    BY <1>1, <1>4, <2>1, ExecIs
  <2> DEFINE e == [kind |-> "shutdown", by |-> by]
  <2>3. e \in SendCommand /\ e.kind = "shutdown"
    BY DEF SendCommand, SendKinds
  <2>4. sq \in Seq(SendCommand) /\ sq' = Append(sq, e)
    BY <2>2 DEF Base, Types, QueuesOK
  <2> HIDE DEF e
  <2>5. Len(sq) \in Nat /\ Len(sq') = Len(sq) + 1 /\ sq'[Len(sq) + 1] = e
    BY <2>3, <2>4, Grown
  <2>6. Len(sq) + 1 \in 1 .. Len(sq')
    BY <2>5
  <2>7. Len(sq) + 1 \in Fins'
    BY <2>3, <2>5, <2>6 DEF Fins
  <2>8. QED
    BY <2>7
<1>5. ASSUME ExecRefused(t) PROVE FALSE
  BY <1>1, <1>5 DEF ExecRefused
<1>6. ASSUME AppSteps(t) PROVE Fins' # {}
  BY <1>1, <1>4, <1>5, <1>6, AtExec
<1>7. ASSUME Others PROVE t \in Shutting'
  BY <1>1, <1>2, <1>7, AnswersOnly
<1>8. QED
  BY <1>3, <1>6, <1>7 DEF Next, AppSteps, Others

(* What becomes of the send pipe while the socket is listed. *)
LEMMA SendQueueIs ==
  ASSUME Base, Ended, listed, Next
  PROVE  \/ sq' = sq
         \/ \E e \in SendCommand : sq' = Append(sq, e)
         \/ sq # <<>> /\ sq' = Tail(sq) /\ (Head(sq).kind = "shutdown" => fin')
<1>1. ASSUME NEW t \in Apps, AppSteps(t) PROVE sq' = sq \/ \E e \in SendCommand : sq' = Append(sq, e)
  <2>1. CASE ExecCommandPacket(t)
    <3>1. \A by \in Apps \cup {None} : ToSend(at[t][1]) => [kind |-> at[t][1], by |-> by] \in SendCommand
      BY DEF ToSend, SendCommand, SendKinds
    <3>2. CASE ToSend(at[t][1])
      <4>1. PICK by \in Apps \cup {None} : sq' = Append(sq, [kind |-> at[t][1], by |-> by])
        BY <2>1, <3>2, ExecIs
      <4>2. QED
        BY <3>1, <3>2, <4>1
    <3>3. CASE ~ToSend(at[t][1])
      BY <2>1, <3>3, ExecIs
    <3>4. QED
      BY <3>2, <3>3
  <2>2. CASE SendNull(t)
    <3>1. [kind |-> "null", by |-> None] \in SendCommand
      BY DEF SendCommand, SendKinds
    <3>2. QED
      BY <2>2, <3>1 DEF SendNull
  <2>3. CASE ~ExecCommandPacket(t) /\ ~SendNull(t)
    BY <1>1, <2>3 DEF AppSteps, CallSteps, Call, LoadInCall, StoreInCall, ExecRefused, LockToRead, CopyCPSBuffer,
       UnlockReader, pipeVars
  <2>4. QED
    BY <2>1, <2>2, <2>3
<1>2. CASE SendThread
  <2>1. sq # <<>> /\ (sq' = sq \/ (sq' = Tail(sq) /\ fin' = (fin \/ Head(sq).kind = "shutdown")))
    BY <1>2 DEF SendThread
  <2>2. QED
    BY <2>1
<1>3. CASE TcpClose
  <2>1. at[Send][1] = "write" /\ sq' = Tail(sq)
    BY <1>3 DEF TcpClose
  <2>2. sq # <<>> /\ Head(sq).kind = "write"
    BY <2>1 DEF Base, HeadIs
  <2>3. QED
    BY <2>1, <2>2
<1>4. CASE Drain
  BY <1>4 DEF Drain, Ended
<1>5. CASE Others /\ ~SendThread /\ ~TcpClose /\ ~Drain
  BY <1>5 DEF Others, RecvSteps, SendSteps, ReadMessage, Reply, LockInHandler, TcpConnect, TcpListen, UnlockInHandler,
     LoadInHandler, StoreInHandler, ReadCallBack, JoinSendThread, EndOwnPipe, MoveToTrash, WriteFails, Peer, pipeVars
<1>6. QED
  BY <1>1, <1>2, <1>3, <1>4, <1>5 DEF Next, AppSteps, Others

LEMMA FinsGo ==
  ASSUME Base, Ended, listed, Next, NEW i \in Fins
  PROVE  Fins' # {} \/ fin'
<1>1. i \in 1 .. Len(sq) /\ sq[i].kind = "shutdown" /\ sq \in Seq(SendCommand)
  BY DEF Fins, Base, Types, QueuesOK
<1>2. CASE sq' = sq
  <2>1. i \in Fins'
    BY <1>1, <1>2 DEF Fins
  <2>2. QED
    BY <2>1
<1>3. CASE \E e \in SendCommand : sq' = Append(sq, e)
  <2>1. Len(sq) \in Nat /\ Len(sq') = Len(sq) + 1 /\ sq'[i] = sq[i]
    BY <1>1, <1>3, Grown
  <2>2. i \in 1 .. Len(sq')
    BY <1>1, <2>1
  <2>3. i \in Fins'
    BY <1>1, <2>1, <2>2 DEF Fins
  <2>4. QED
    BY <2>3
<1>4. CASE sq # <<>> /\ sq' = Tail(sq) /\ (Head(sq).kind = "shutdown" => fin')
  <2>1. /\ Len(sq') = Len(sq) - 1 /\ Len(sq) \in Nat /\ Head(sq) = sq[1]
        /\ \A j \in 1 .. Len(sq') : sq'[j] = sq[j + 1]
    BY <1>1, <1>4, Shrunk
  <2>2. CASE i = 1
    BY <1>1, <1>4, <2>1, <2>2
  <2>3. CASE i # 1
    <3>1. i - 1 \in 1 .. Len(sq') /\ (i - 1) + 1 = i
      BY <1>1, <2>1, <2>3
    <3>2. sq'[i - 1] = sq[i]
      BY <2>1, <3>1
    <3>3. i - 1 \in Fins'
      BY <1>1, <3>1, <3>2 DEF Fins
    <3>4. QED
      BY <3>3
  <2>4. QED
    BY <2>2, <2>3
<1>5. QED
  BY <1>2, <1>3, <1>4, SendQueueIs

(* What CPS_TcpShutdown has done is undone only with CLOSING. *)
LEMMA FinStays ==
  ASSUME Base, Tested, Next, Followed', fin
  PROVE  fin' \/ ~Has("CLOSING")'
<1>1. CASE WriteFails
  BY <1>1, WriteFailsIs DEF Has
<1>2. ASSUME NEW t \in Apps, AppSteps(t) PROVE fin'
  BY <1>2 DEF AppSteps, CallSteps, Call, LoadInCall, StoreInCall, SendNull, ExecCommandPacket, ExecRefused,
     LockToRead, CopyCPSBuffer, UnlockReader, cpsVars
<1>3. CASE SendThread
  BY <1>3 DEF SendThread
<1>4. CASE Others /\ ~WriteFails /\ ~SendThread
  BY <1>4 DEF Others, RecvSteps, SendSteps, ReadMessage, Reply, LockInHandler, TcpConnect, TcpListen, UnlockInHandler,
     LoadInHandler, StoreInHandler, ReadCallBack, JoinSendThread, EndOwnPipe, MoveToTrash, TcpClose, Drain, Peer, cpsVars
<1>5. QED
  BY <1>1, <1>2, <1>3, <1>4 DEF Next, AppSteps, Others

LEMMA FinAnnounced ==
  ASSUME Base, Ended, Tested, Closing, Backed, Next, Followed'
  PROVE  Has("CLOSING")' /\ ~Has("WAIT_CLOSE")' => "no_fin" \in race' \/ fin' \/ Shutting' # {} \/ Fins' # {}
<1>1. SUFFICES ASSUME Has("CLOSING")', ~Has("WAIT_CLOSE")', "no_fin" \notin race', ~fin'
               PROVE  Shutting' # {} \/ Fins' # {}
  OBVIOUS
<1>2. ~Has("WAIT_CLOSE")
  BY <1>1, StatusMoves DEF Has
<1>3. "no_fin" \notin race /\ listed
  BY <1>1, <1>2, RaceGrows DEF Closing
<1>4. CASE ~Has("CLOSING")
  <2>1. PICK t \in Apps : StoreInCall(t) /\ at[t][1] \in {"shutdown", "close"}
    BY <1>1, <1>4, StatusMoves
  <2>2. at[t][1] # "close"
    BY <1>1, <2>1, StoreInCallIs DEF Has
  <2>3. at'[t] = <<"shutdown", "exec">>
    BY <2>1, <2>2, StoreInCallIs
  <2>4. t \in Shutting'
    BY <2>3 DEF Shutting
  <2>5. QED
    BY <2>4
<1>5. CASE Has("CLOSING")
  <2>1. fin \/ Shutting # {} \/ Fins # {}
    BY <1>2, <1>3, <1>5 DEF Backed
  <2>2. ~fin
    BY <1>1, FinStays
  <2>3. CASE Shutting # {}
    BY <1>1, <2>3, ShuttingGoes
  <2>4. CASE Fins # {}
    BY <1>1, <1>3, <2>4, FinsGo
  <2>5. QED
    BY <2>1, <2>2, <2>3, <2>4
<1>6. QED
  BY <1>4, <1>5

LEMMA BackedStep ==
  ASSUME Base, Ended, AcceptBlocks, Tested, Closing, Backed, Next, Followed'
  PROVE  Backed'
BY Announced, FinAnnounced DEF Backed

-----------------------------------------------------------------------------
(* The inductive invariant: what holds of every behaviour, and what holds  *)
(* of one that is followed.                                                *)
Kept == Tested /\ ReadsAhead /\ Attempting /\ Closing /\ Again /\ Backed
ConnInv == Base /\ Ended /\ AcceptBlocks /\ (Followed => Kept)

LEMMA ConnInit == Init => ConnInv
<1> SUFFICES ASSUME Init PROVE ConnInv
  OBVIOUS
<1>1. /\ \A t \in Threads : at[t] = Idle /\ reg[t] = {}
      /\ at[Recv] = Idle /\ at[Send] = Idle /\ \A t \in Apps : at[t] = Idle
      /\ rq = <<>> /\ sq = <<>> /\ Len(rq) = 0 /\ Len(sq) = 0
      /\ status = {} /\ in_use = None /\ listed = TRUE /\ closes = 0 /\ fin = FALSE
  BY ThreadsAre DEF Init
<1>2. Types
  <2>1. AtOK
    BY <1>1, ThreadsAre DEF Init, AtOK, AppAt, RecvAt, SendAt
  <2>2. BitsOK
    BY DEF Init, BitsOK
  <2>3. QueuesOK
    BY <1>1, ThreadsAre DEF QueuesOK
  <2>4. RestOK
    BY DEF Init, RestOK
  <2>5. QED
    BY <2>1, <2>2, <2>3, <2>4 DEF Types
<1>3. \A i : i \notin 1 .. 0
  OBVIOUS
<1>4. HeadIs /\ Owner
  BY <1>1, ThreadsAre DEF HeadIs, Owner, Idle
<1>5. Waiting
  BY <1>1, <1>3 DEF Waiting, OneEach, Waits, Idle
<1>6. Ended /\ AcceptBlocks
  BY <1>1, <1>3 DEF Ended, AcceptBlocks, Idle
<1>7. Tested /\ ReadsAhead
  BY <1>1, <1>3 DEF Tested, ReadsAhead, Idle
<1>8. Starting = {} /\ Queued = {} /\ Closers = {}
  BY <1>1, <1>3 DEF Starting, Queued, Closers, Idle
<1>9. Attempting
  BY <1>1, <1>3, <1>8 DEF Attempting, Has
<1>10. Closing
  BY <1>1, <1>3, <1>8 DEF Closing
<1>11. Again /\ Backed
  BY <1>1, <1>3 DEF Again, Backed, Has
<1>12. QED
  BY <1>2, <1>4, <1>5, <1>6, <1>7, <1>9, <1>10, <1>11 DEF ConnInv, Base, Kept

LEMMA ConnStep == ConnInv /\ [Next]_vars => ConnInv'
<1>1. ASSUME ConnInv, Next PROVE ConnInv'
  <2>1. Followed
    BY <1>1 DEF Next
  <2>2. Base' /\ Ended' /\ AcceptBlocks'
    BY <1>1, BaseStep, EndedStep, AcceptBlocksStep DEF ConnInv
  <2>3. ASSUME Followed' PROVE Kept'
    <3>1. Base /\ Ended /\ AcceptBlocks /\ Tested /\ ReadsAhead /\ Attempting /\ Closing /\ Again /\ Backed /\ Next
      BY <1>1, <2>1 DEF ConnInv, Kept
    <3>2. Tested' /\ ReadsAhead' /\ Attempting'
      BY <2>3, <3>1, TestedStep, ReadsStep, AttemptingStep
    <3>3. Closing' /\ Again' /\ Backed'
      BY <2>3, <3>1, ClosingStep, AgainStep, BackedStep
    <3>4. QED
      BY <3>2, <3>3 DEF Kept
  <2>4. QED
    BY <2>2, <2>3 DEF ConnInv
<1>2. ASSUME ConnInv, UNCHANGED vars PROVE ConnInv'
  <2>1. /\ status' = status /\ reg' = reg /\ at' = at /\ in_use' = in_use /\ rq' = rq /\ sq' = sq /\ data' = data
        /\ fin' = fin /\ block' = block /\ listed' = listed /\ closes' = closes /\ race' = race
    BY <1>2 DEF vars, bitVars, pipeVars, cpsVars, restVars
  <2>2. Base'
    BY <1>2, <2>1 DEF ConnInv, Base, Types, AtOK, BitsOK, QueuesOK, RestOK, HeadIs, Owner, Waiting, OneEach, Waits
  <2>3. Ended' /\ AcceptBlocks' /\ Followed' = Followed
    BY <1>2, <2>1 DEF ConnInv, Ended, AcceptBlocks, Followed
  <2>4. Tested' = Tested /\ ReadsAhead' = ReadsAhead
    BY <2>1 DEF Tested, ReadsAhead, YetToLock
  <2>5. Attempting' = Attempting
    BY <2>1 DEF Attempting, Live, Starting, Queued, Done, Has
  <2>6. Closing' = Closing
    BY <2>1 DEF Closing, Closers, Has
  <2>7. Again' = Again
    BY <2>1 DEF Again, Marked, Failing, Has
  <2>8. Backed' = Backed
    BY <2>1 DEF Backed, Starting, Queued, Done, Shutting, Fins, Has
  <2>9. QED
    BY <1>2, <2>2, <2>3, <2>4, <2>5, <2>6, <2>7, <2>8 DEF ConnInv, Kept
<1>3. QED
  BY <1>1, <1>2

LEMMA ConnAlways == Spec => []ConnInv
BY ConnInit, ConnStep, PTL DEF Spec

-----------------------------------------------------------------------------
(* The variables have their types: bits that exist, queues within their    *)
(* limits, in_use owned by a thread or by nobody.                          *)
THEOREM TypeCorrect == Spec => []TypeOK
<1>1. ConnInv => TypeOK
  BY DEF ConnInv, Base, Types, AtOK, BitsOK, QueuesOK, RestOK, TypeOK
<1>2. QED
  BY <1>1, ConnAlways, PTL

(* However many threads make whatever calls, no handler of the receive     *)
(* thread waits for in_use while a reader owns it that waits for a command *)
(* behind that handler, as long as no call has overtaken another           *)
(* (socl_bind.c:108, socl_ssl.c:60, socl_read.c:60).                       *)
THEOREM LockSafe == Spec => []NoLockCycle
<1>1. ConnInv => NoLockCycle
  <2>1. ConnInv => TypeOK
    BY DEF ConnInv, Base, Types, AtOK, BitsOK, QueuesOK, RestOK, TypeOK
  <2>2. ConnInv /\ Followed => ~LockCycle
    BY NoCycle DEF ConnInv, Kept
  <2>3. QED
    BY <2>1, <2>2 DEF NoLockCycle
<1>2. QED
  BY <1>1, ConnAlways, PTL

(* A socket is closed once, stays marked, and is not connected again after *)
(* it has left the list, except after the failed write that clears the     *)
(* CLOSING of a close under way (socl_close.c:42, socl_write.c:349).       *)
THEOREM ClosedSafe == Spec => []ClosedForGood
<1>1. ConnInv => ClosedForGood
  BY DEF ConnInv, Kept, Closing, Again, ClosedForGood
<1>2. QED
  BY <1>1, ConnAlways, PTL

(* CONNECTING always announces a connect or accept under way, CLOSING a    *)
(* FIN sent or on its way, but for the two refusals of a nonblocking call  *)
(* (socl_bind.c:67, socl_shutdown.c:33).                                   *)
THEOREM BackedSafe == Spec => []BitsBacked
<1>1. ConnInv => BitsBacked
  <2>1. ConnInv /\ Followed => BitsBacked
    BY BackedIs DEF ConnInv, Kept
  <2>2. ~Followed => BitsBacked
    BY DEF BitsBacked
  <2>3. QED
    BY <2>1, <2>2
<1>2. QED
  BY <1>1, ConnAlways, PTL
=============================================================================
