--------------------------- MODULE SoclPipeProofs ---------------------------
(***************************************************************************)
(* Proofs about the command pipes: where packets are (Once, Placed), what  *)
(* they say and who waits for them (Sent, ClosePacket, Waiting, RunsOnce), *)
(* what the threads are at (Threads, Controlled, Ends).  Together with the *)
(* types these are the inductive invariant PipeInv, from which the safety  *)
(* properties of SoclPipe follow.                                          *)
(***************************************************************************)
EXTENDS SoclPipe, SequenceTheorems, FiniteSetTheorems, TLAPS

(* The packets that stand in a sequence. *)
Held(q) == {x \in Packets : \E i \in 1 .. Len(q) : q[i] = x}

(* None of them stands there twice. *)
Inj(q) == \A i, j \in 1 .. Len(q) : q[i] = q[j] /\ q[i] # Null => i = j

(* What a queue may contain. *)
Entries == Packets \cup {Null}

(* The packets in the queues, and the callers that hold one. *)
InQueue == Held(queue["recv"]) \cup Held(queue["send"])
Sending == {c \in Callers : cpc[c] = "send"}

(* A packet is in one place at most. *)
Once ==
  /\ Inj(free) /\ \A p \in Pipes : Inj(queue[p])
  /\ Held(queue["recv"]) \cap Held(queue["send"]) = {}
  /\ Held(free) \cap InQueue = {}
  /\ kpkt \notin Held(free) \cup InQueue
  /\ \A c \in Sending : call[c].packet \in Packets \ (Held(free) \cup InQueue \cup {kpkt})
  /\ \A c, d \in Sending : call[c].packet = call[d].packet => c = d

(* It is in one. *)
Placed == Packets \subseteq Held(free) \cup InQueue \cup {kpkt} \cup {call[c].packet : c \in Sending}

(* The types of TypeOK that the proofs name. *)
Kinds == {"work", "waits", "close"}
PacketSort == [by : Callers \cup {NoCaller}, kind : Kinds, reply : BOOLEAN, runs : Nat]
PcVals == {"read", "run", "join", "end", "trash", "reply", "exit"}
Answers == [told : {"none", "result", "canceled"}, runs : Nat]
CallSort == [cmd : Calls, packet : Entries]

(* A packet about to be sent tells whose command it is. *)
Sent ==
  \A c \in Sending :
    /\ pkt[call[c].packet].by = c
    /\ pkt[call[c].packet].reply = (call[c].cmd.flag = "block")
    /\ pkt[call[c].packet].kind # "close" /\ pkt[call[c].packet].runs = 0

(* SOCL_Close holds a close packet between its creation and its send. *)
ClosePacket ==
  /\ kpc = "send" <=> kpkt # Null
  /\ kpkt # Null => pkt[kpkt].kind = "close" /\ ~pkt[kpkt].reply /\ pkt[kpkt].runs = 0

(* Callers wait for packets that are queued, and these answer them. *)
Waiting ==
  /\ \A c \in Callers : cpc[c] = "wait" =>
       /\ call[c].packet \in Held(queue[call[c].cmd.pipe])
       /\ pkt[call[c].packet].by = c /\ pkt[call[c].packet].reply
  /\ \A x \in InQueue : pkt[x].reply =>
       pkt[x].by \in Callers /\ cpc[pkt[x].by] = "wait" /\ call[pkt[x].by].packet = x

(* What is queued has not run, but for the command about to be answered. *)
RunsOnce ==
  \A p \in Pipes : \A x \in Held(queue[p]) :
    pkt[x].runs = IF hpc[p] = "reply" /\ x = Head(queue[p]) THEN 1 ELSE 0

(* What the thread of a pipe finds at the head of its queue. *)
Threads ==
  \A p \in Pipes :
    /\ hpc[p] \in {"run", "join", "end", "trash", "reply"} =>
         queue[p] # <<>> /\ Head(queue[p]) # Null
    /\ hpc[p] = "run" => Head1(p).kind # "close"
    /\ hpc[p] \in {"join", "end", "trash"} => Head1(p).kind = "close"
    /\ hpc[p] = "exit" /\ p \notin drained => queue[p] # <<>> /\ Head(queue[p]) = Null

(* The close command goes to the control pipe. *)
Controlled ==
  \A p \in Pipes : \A x \in Held(queue[p]) : pkt[x].kind = "close" => p = GetCtrlPipe

(* In which order the threads end and the socket's memory goes. *)
Ends ==
  /\ mode = "TCP" /\ (~cpsOpen \/ hpc["recv"] \in {"end", "trash"}) => hpc["send"] = "exit"
  /\ \A p \in drained : hpc[p] = "exit"
  /\ place = "freed" => Stopped(mode) \subseteq drained

(* The inductive invariant. *)
PipeInv ==
  /\ TypeOK /\ Once /\ Placed
  /\ Sent /\ ClosePacket /\ Waiting /\ RunsOnce
  /\ Threads /\ Controlled /\ Ends /\ AnswerTrue

(* The parts of the invariant that say what is in the packets. *)
Rest == Sent /\ ClosePacket /\ Waiting /\ RunsOnce /\ Threads /\ Controlled /\ Ends /\ AnswerTrue

-----------------------------------------------------------------------------
(* Sequences of messages and the packets they hold. *)

(* The NULL message is no packet. *)
LEMMA NullIs == Null \notin Packets /\ Packets \subseteq Nat /\ IsFiniteSet(Packets)
BY FS_Interval, PipeAssumption DEF Null, Packets

(* An empty queue holds nothing. *)
LEMMA EmptyHeld == Held(<<>>) = {} /\ Inj(<<>>)
BY EmptySeq DEF Held, Inj

(* What a queue holds after one more message. *)
LEMMA HeldAppend ==
  ASSUME NEW q \in Seq(Entries), NEW x \in Entries
  PROVE  /\ Append(q, x) \in Seq(Entries) /\ Len(Append(q, x)) = Len(q) + 1 /\ Append(q, x) # <<>>
         /\ Held(Append(q, x)) = Held(q) \cup ({x} \cap Packets)
         /\ Inj(q) /\ x \notin Held(q) => Inj(Append(q, x))
         /\ q # <<>> => Head(Append(q, x)) = Head(q)
<1> DEFINE r == Append(q, x)
<1>1. /\ r \in Seq(Entries) /\ Len(r) = Len(q) + 1 /\ r[Len(q) + 1] = x /\ r # <<>>
      /\ \A i \in 1 .. Len(q) : r[i] = q[i]
      /\ Len(q) \in Nat
  BY AppendProperties, LenProperties
<1>2. \A i \in 1 .. Len(q) : q[i] \in Entries
  BY ElementOfSeq
<1>3. q # <<>> => Head(r) = Head(q)
  BY HeadTailAppend
<1> HIDE DEF r
<1>4. Held(r) = Held(q) \cup ({x} \cap Packets)
  BY <1>1 DEF Held
<1>5. ASSUME Inj(q), x \notin Held(q) PROVE Inj(r)
  <2>1. \A i \in 1 .. Len(q) : q[i] # Null => q[i] # x
    BY <1>2, <1>5 DEF Held, Entries
  <2>2. QED
    BY <1>1, <1>5, <2>1 DEF Inj
<1>6. QED
  BY <1>1, <1>3, <1>4, <1>5 DEF r

(* What is left of it when its head is taken. *)
LEMMA HeldTail ==
  ASSUME NEW q \in Seq(Entries), q # <<>>, Inj(q)
  PROVE  /\ Tail(q) \in Seq(Entries) /\ Len(Tail(q)) = Len(q) - 1 /\ Head(q) \in Entries
         /\ Held(Tail(q)) = Held(q) \ {Head(q)} /\ Inj(Tail(q))
         /\ Head(q) # Null => Head(q) \in Held(q)
<1> DEFINE r == Tail(q)
<1>1. /\ r \in Seq(Entries) /\ Len(r) = Len(q) - 1 /\ \A i \in 1 .. Len(r) : r[i] = q[i + 1]
      /\ Len(q) \in Nat /\ Len(q) > 0 /\ Head(q) = q[1] /\ Head(q) \in Entries
  BY HeadTailProperties, LenProperties, EmptySeq
<1> HIDE DEF r
<1>2. Inj(r)
  <2>1. SUFFICES ASSUME NEW i \in 1 .. Len(r), NEW j \in 1 .. Len(r), r[i] = r[j], r[i] # Null
                 PROVE  i = j
    BY DEF Inj
  <2>2. i + 1 \in 1 .. Len(q) /\ j + 1 \in 1 .. Len(q) /\ q[i + 1] = q[j + 1] /\ q[i + 1] # Null
    BY <1>1, <2>1
  <2>3. i + 1 = j + 1
    BY <2>2 DEF Inj
  <2>4. QED
    BY <2>3
<1>3. Held(r) = Held(q) \ {q[1]}
  <2>1. ASSUME NEW x \in Packets, NEW i \in 1 .. Len(r), r[i] = x PROVE x \in Held(q) /\ x # q[1]
    <3>1. i + 1 \in 1 .. Len(q) /\ 1 \in 1 .. Len(q) /\ q[i + 1] = x /\ i + 1 # 1 /\ x # Null
      BY <1>1, <2>1, NullIs
    <3>2. QED
      BY <3>1 DEF Held, Inj
  <2>2. ASSUME NEW x \in Packets, NEW i \in 1 .. Len(q), q[i] = x, x # q[1] PROVE x \in Held(r)
    <3>1. i # 1 /\ i - 1 \in 1 .. Len(r) /\ (i - 1) + 1 = i
      BY <1>1, <2>2
    <3>2. r[i - 1] = x
      BY <1>1, <2>2, <3>1
    <3>3. QED
      BY <3>1, <3>2 DEF Held
  <2>3. QED
    BY <2>1, <2>2 DEF Held
<1>4. Head(q) # Null => Head(q) \in Held(q)
  BY <1>1 DEF Held, Entries
<1>5. QED
  BY <1>1, <1>2, <1>3, <1>4 DEF r

(* The pool after a drained queue was put behind it. *)
LEMMA HeldConcat ==
  ASSUME NEW a \in Seq(Packets), NEW b \in Seq(Packets)
  PROVE  /\ a \o b \in Seq(Packets)
         /\ Held(a \o b) = Held(a) \cup Held(b)
         /\ Inj(a) /\ Inj(b) /\ Held(a) \cap Held(b) = {} => Inj(a \o b)
<1> DEFINE r == a \o b
<1>1. /\ r \in Seq(Packets) /\ Len(r) = Len(a) + Len(b) /\ Len(a) \in Nat /\ Len(b) \in Nat
      /\ \A i \in 1 .. Len(a) + Len(b) : r[i] = IF i <= Len(a) THEN a[i] ELSE b[i - Len(a)]
  BY ConcatProperties, LenProperties
<1>2. (\A i \in 1 .. Len(a) : a[i] \in Packets) /\ (\A i \in 1 .. Len(b) : b[i] \in Packets)
  BY ElementOfSeq
<1> HIDE DEF r
<1>3. \A i \in 1 .. Len(a) : i \in 1 .. Len(r) /\ r[i] = a[i]
  BY <1>1
<1>4. \A i \in 1 .. Len(b) : i + Len(a) \in 1 .. Len(r) /\ r[i + Len(a)] = b[i]
  BY <1>1
<1>5. \A i \in 1 .. Len(r) : i \in 1 .. Len(a) \/ (i - Len(a) \in 1 .. Len(b) /\ r[i] = b[i - Len(a)])
  BY <1>1
<1>6. Held(r) = Held(a) \cup Held(b)
  BY <1>3, <1>4, <1>5 DEF Held
<1>7. ASSUME Inj(a), Inj(b), Held(a) \cap Held(b) = {} PROVE Inj(r)
  <2>1. SUFFICES ASSUME NEW i \in 1 .. Len(r), NEW j \in 1 .. Len(r), r[i] = r[j], r[i] # Null
                 PROVE  i = j
    BY DEF Inj
  <2>2. CASE i \in 1 .. Len(a) /\ j \in 1 .. Len(a)
    BY <1>3, <1>7, <2>1, <2>2 DEF Inj
  <2>3. CASE i \notin 1 .. Len(a) /\ j \notin 1 .. Len(a)
    <3>1. i - Len(a) = j - Len(a)
      BY <1>5, <1>7, <2>1, <2>3 DEF Inj
    <3>2. QED
      BY <1>1, <3>1
  <2>4. CASE i \in 1 .. Len(a) /\ j \notin 1 .. Len(a)
    <3>1. r[i] \in Held(a) /\ r[j] \in Held(b)
      BY <1>2, <1>3, <1>5, <2>4 DEF Held
    <3>2. QED
      BY <1>7, <2>1, <3>1
  <2>5. CASE i \notin 1 .. Len(a) /\ j \in 1 .. Len(a)
    <3>1. r[i] \in Held(b) /\ r[j] \in Held(a)
      BY <1>2, <1>3, <1>5, <2>5 DEF Held
    <3>2. QED
      BY <1>7, <2>1, <3>1
  <2>6. QED
    BY <2>2, <2>3, <2>4, <2>5
<1>8. QED
  BY <1>1, <1>6, <1>7 DEF r

(* Whatever order the packets of a drained queue are freed in. *)
LEMMA HeldSetToSeq ==
  ASSUME NEW S \in SUBSET Packets
  PROVE  SetToSeq(S) \in Seq(Packets) /\ Held(SetToSeq(S)) = S /\ Inj(SetToSeq(S))
<1> DEFINE n == Cardinality(S)
           s == SetToSeq(S)
<1>1. IsFiniteSet(S)
  BY NullIs, FS_Subset
<1>2. n \in Nat /\ ExistsBijection(1 .. n, S)
  BY <1>1, FS_CardinalityType
<1>3. \E f \in [1 .. n -> S] : IsInjective(f)
  BY <1>2 DEF ExistsBijection, Bijection, Injection
<1>4. s \in [1 .. n -> S] /\ IsInjective(s)
  BY <1>3 DEF SetToSeq
<1> HIDE DEF n, s
<1>5. s \in Injection(1 .. n, S)
  BY <1>4 DEF Injection
<1>6. Cardinality(1 .. n) = Cardinality(S)
  BY <1>2, FS_Interval DEF n
<1>7. s \in Surjection(1 .. n, S)
  BY <1>1, <1>5, <1>6, FS_Injection
<1>8. s \in Seq(Packets) /\ Len(s) = n
  BY <1>2, <1>4
<1>9. Held(s) = S
  BY <1>4, <1>7, <1>8 DEF Held, Surjection
<1>10. Inj(s)
  BY <1>4, <1>8 DEF Inj, IsInjective
<1>11. QED
  BY <1>8, <1>9, <1>10 DEF s

-----------------------------------------------------------------------------
(* Queues and the pool. *)

(* Every command names a pipe of the socket. *)
LEMMA CommandsAre ==
  /\ \A cmd \in Calls : cmd.pipe \in Pipes
  /\ TypeOK => Commands(mode) \subseteq Calls
<1>1. \A m \in SocketModes : Commands(m) \subseteq Calls
  BY DEF Calls
<1>2. ASSUME NEW m \in SocketModes, NEW cmd \in Commands(m) PROVE cmd.pipe \in Pipes
  <2>1. CASE m = "TCP"
    BY <1>2, <2>1 DEF Commands, Cmd, Pipes
  <2>2. CASE m = "UDP"
    BY <1>2, <2>2 DEF Commands, Cmd, Pipes
  <2>3. CASE m = "UDPSEND"
    BY <1>2, <2>3 DEF Commands, Cmd, Pipes
  <2>4. CASE m = "PORT_UDP"
    BY <1>2, <2>4 DEF Commands, Cmd, Pipes
  <2>5. QED
    BY <2>1, <2>2, <2>3, <2>4 DEF SocketModes
<1>3. NoCmd.pipe \in Pipes
  BY DEF NoCmd, Cmd, Pipes
<1>4. ASSUME NEW cmd \in Calls
      PROVE  cmd = NoCmd \/ \E m \in SocketModes : cmd \in Commands(m)
  <2>1. cmd \in {NoCmd} \/ cmd \in UNION {Commands(m) : m \in SocketModes}
    BY DEF Calls
  <2>2. CASE cmd \in UNION {Commands(m) : m \in SocketModes}
    <3>1. PICK S \in {Commands(m) : m \in SocketModes} : cmd \in S
      BY <2>2
    <3>2. QED
      BY <3>1
  <2>3. QED
    BY <2>1, <2>2
<1>5. \A cmd \in Calls : cmd.pipe \in Pipes
  BY <1>2, <1>3, <1>4
<1>6. TypeOK => mode \in SocketModes
  BY PipeAssumption DEF TypeOK
<1>7. QED
  BY <1>1, <1>5, <1>6

(* The control pipe is a pipe, and which pipe of a socket is never stopped. *)
LEMMA PipesAre ==
  /\ TypeOK => GetCtrlPipe \in Pipes
  /\ TypeOK => \A p \in Owned(mode) \ Stopped(mode) : mode = "PORT_UDP" /\ p = "send"
<1>1. TypeOK => mode \in SocketModes
  BY PipeAssumption DEF TypeOK
<1>2. QED
  BY <1>1 DEF GetCtrlPipe, Owned, Stopped, Pipes, SocketModes

(* The message queues of a socket after one more message. *)
LEMMA Enqueue ==
  ASSUME TypeOK, NEW p \in Pipes, ~Full(p), NEW x \in Entries,
         queue' = [queue EXCEPT ![p] = Append(@, x)]
  PROVE  /\ queue' \in [Pipes -> Seq(Entries)] /\ \A r \in Pipes : Len(queue'[r]) <= QueueMax
         /\ queue'[p] # <<>> /\ \A r \in Pipes : r # p => queue'[r] = queue[r]
         /\ Held(queue'[p]) = Held(queue[p]) \cup ({x} \cap Packets)
         /\ Inj(queue[p]) /\ x \notin Held(queue[p]) => Inj(queue'[p])
         /\ queue[p] # <<>> => Head(queue'[p]) = Head(queue[p])
<1>1. queue \in [Pipes -> Seq(Entries)] /\ Len(queue[p]) <= QueueMax /\ QueueMax \in Nat
  BY PipeAssumption DEF TypeOK, Entries
<1>2. queue'[p] = Append(queue[p], x) /\ \A r \in Pipes : r # p => queue'[r] = queue[r]
  BY <1>1
<1>3. queue[p] \in Seq(Entries) /\ Len(queue[p]) \in Nat
  BY <1>1, LenProperties
<1>4. Len(queue'[p]) = Len(queue[p]) + 1 /\ Len(queue[p]) + 1 <= QueueMax
  BY <1>1, <1>2, <1>3, HeldAppend DEF Full
<1>5. queue'[p] \in Seq(Entries)
  BY <1>2, <1>3, HeldAppend
<1>6. queue' \in [Pipes -> Seq(Entries)]
  BY <1>1, <1>2, <1>3, <1>5
<1>7. \A r \in Pipes : Len(queue'[r]) <= QueueMax
  BY <1>2, <1>4 DEF TypeOK
<1>8. QED
  BY <1>2, <1>3, <1>6, <1>7, HeldAppend

(* One message less. *)
LEMMA Dequeue ==
  ASSUME TypeOK, NEW p \in Pipes, queue[p] # <<>>, Inj(queue[p]),
         queue' = [queue EXCEPT ![p] = Tail(@)]
  PROVE  /\ queue' \in [Pipes -> Seq(Entries)] /\ \A r \in Pipes : Len(queue'[r]) <= QueueMax
         /\ \A r \in Pipes : r # p => queue'[r] = queue[r]
         /\ Held(queue'[p]) = Held(queue[p]) \ {Head(queue[p])} /\ Inj(queue'[p])
         /\ Head(queue[p]) \in Entries
         /\ Head(queue[p]) # Null => Head(queue[p]) \in Held(queue[p])
<1>1. queue \in [Pipes -> Seq(Entries)] /\ Len(queue[p]) <= QueueMax /\ QueueMax \in Nat
  BY PipeAssumption DEF TypeOK, Entries
<1>2. queue'[p] = Tail(queue[p]) /\ \A r \in Pipes : r # p => queue'[r] = queue[r]
  BY <1>1
<1>3. queue[p] \in Seq(Entries) /\ Len(queue[p]) \in Nat
  BY <1>1, LenProperties
<1>4. Len(queue'[p]) <= QueueMax /\ queue'[p] \in Seq(Entries)
  BY <1>1, <1>2, <1>3, HeldTail
<1>5. queue' \in [Pipes -> Seq(Entries)]
  BY <1>1, <1>2, <1>4
<1>6. \A r \in Pipes : Len(queue'[r]) <= QueueMax
  BY <1>2, <1>4 DEF TypeOK
<1>7. QED
  BY <1>2, <1>3, <1>5, <1>6, HeldTail

(* The message at the head of a pipe is one of those it holds. *)
LEMMA HeadHeld ==
  ASSUME TypeOK, NEW p \in Pipes, queue[p] # <<>>
  PROVE  Head(queue[p]) \in Entries /\ (Head(queue[p]) # Null => Head(queue[p]) \in Held(queue[p]))
<1>1. queue[p] \in Seq(Entries)
  BY DEF TypeOK, Entries
<1>2. Len(queue[p]) > 0 /\ Head(queue[p]) = queue[p][1] /\ Head(queue[p]) \in Entries /\ Len(queue[p]) \in Nat
  BY <1>1, HeadTailProperties, LenProperties, EmptySeq
<1>3. QED
  BY <1>2 DEF Held, Entries

(* A packet taken from the pool. *)
LEMMA TakeFree ==
  ASSUME TypeOK, Inj(free), free # <<>>, free' = Tail(free)
  PROVE  /\ free' \in Seq(Packets) /\ Head(free) \in Packets /\ Head(free) \in Held(free)
         /\ Held(free') = Held(free) \ {Head(free)} /\ Inj(free')
<1>1. free \in Seq(Packets) /\ free \in Seq(Entries)
  BY SeqMonotonic DEF TypeOK, Entries
<1>2. Head(free) \in Packets /\ free' \in Seq(Packets)
  BY <1>1, HeadTailProperties
<1>3. QED
  BY <1>1, <1>2, NullIs, HeldTail

(* One put back. *)
LEMMA PutFree ==
  ASSUME TypeOK, Inj(free), NEW x \in Packets, x \notin Held(free), free' = Append(free, x)
  PROVE  free' \in Seq(Packets) /\ Held(free') = Held(free) \cup {x} /\ Inj(free')
<1>1. free \in Seq(Packets) /\ free \in Seq(Entries) /\ x \in Entries
  BY SeqMonotonic DEF TypeOK, Entries
<1>2. QED
  BY <1>1, HeldAppend, AppendProperties

(* Queued is what the queue holds. *)
LEMMA QueuedIs ==
  ASSUME TypeOK, NEW p \in Pipes
  PROVE  Queued(p) = Held(queue[p])
<1>1. queue[p] \in Seq(Entries)
  BY DEF TypeOK, Entries
<1>2. DOMAIN queue[p] = 1 .. Len(queue[p])
  BY <1>1, LenProperties
<1>3. QED
  BY <1>2 DEF Queued, Held

-----------------------------------------------------------------------------
(* What packets say. *)

(* What a step makes of the packets when it fills one. *)
LEMMA FillTyped ==
  ASSUME pkt \in [Packets -> PacketSort], NEW x \in Packets, NEW v \in PacketSort,
         pkt' = [pkt EXCEPT ![x] = v]
  PROVE  pkt' \in [Packets -> PacketSort] /\ pkt'[x] = v
         /\ \A y \in Packets : y # x => pkt'[y] = pkt[y]
OBVIOUS

(* And when the handler counts a run. *)
LEMMA RunTyped ==
  ASSUME pkt \in [Packets -> PacketSort], NEW x \in Packets,
         pkt' = [pkt EXCEPT ![x].runs = @ + 1]
  PROVE  /\ pkt' \in [Packets -> PacketSort]
         /\ pkt'[x].runs = pkt[x].runs + 1
         /\ \A y \in Packets : y # x => pkt'[y] = pkt[y]
         /\ \A y \in Packets : /\ pkt'[y].by = pkt[y].by /\ pkt'[y].kind = pkt[y].kind
                               /\ pkt'[y].reply = pkt[y].reply
<1>1. pkt[x] \in PacketSort /\ pkt[x].runs \in Nat
  BY DEF PacketSort
<1>2. pkt' = [pkt EXCEPT ![x] = [pkt[x] EXCEPT !.runs = pkt[x].runs + 1]]
  OBVIOUS
<1>3. [pkt[x] EXCEPT !.runs = pkt[x].runs + 1] \in PacketSort
  BY <1>1 DEF PacketSort
<1>4. /\ [pkt[x] EXCEPT !.runs = pkt[x].runs + 1].runs = pkt[x].runs + 1
      /\ [pkt[x] EXCEPT !.runs = pkt[x].runs + 1].by = pkt[x].by
      /\ [pkt[x] EXCEPT !.runs = pkt[x].runs + 1].kind = pkt[x].kind
      /\ [pkt[x] EXCEPT !.runs = pkt[x].runs + 1].reply = pkt[x].reply
  BY <1>1 DEF PacketSort
<1>5. /\ pkt' \in [Packets -> PacketSort] /\ pkt'[x] = [pkt[x] EXCEPT !.runs = pkt[x].runs + 1]
      /\ \A y \in Packets : y # x => pkt'[y] = pkt[y]
  BY <1>2, <1>3
<1>6. QED
  BY <1>4, <1>5

-----------------------------------------------------------------------------
(* Types. *)

(* What a woken caller waits for. *)
LEMMA WokenIs ==
  ASSUME TypeOK, Waiting, NEW x \in InQueue, NEW c \in Woken(x)
  PROVE  c \in Callers /\ cpc[c] = "wait" /\ call[c].packet = x /\ pkt[x].by = c
BY DEF Woken, Waiting

(* A caller takes the packet it will send. *)
LEMMA CarryTyped ==
  ASSUME call \in [Callers -> CallSort], NEW c \in Callers, NEW x \in Packets,
         call' = [call EXCEPT ![c].packet = x]
  PROVE  /\ call' \in [Callers -> CallSort]
         /\ call'[c].packet = x /\ call'[c].cmd = call[c].cmd
         /\ \A d \in Callers : d # c => call'[d] = call[d]
<1>1. call' = [call EXCEPT ![c] = [call[c] EXCEPT !.packet = x]] /\ call[c] \in CallSort
  OBVIOUS
<1>2. /\ [call[c] EXCEPT !.packet = x] \in CallSort
      /\ [call[c] EXCEPT !.packet = x].packet = x
      /\ [call[c] EXCEPT !.packet = x].cmd = call[c].cmd
  BY <1>1 DEF CallSort, Entries
<1>3. QED
  BY <1>1, <1>2

(* Every step keeps the types: one step of the proof per action. *)
LEMMA TypeStep ==
  ASSUME PipeInv, [Next]_vars
  PROVE  TypeOK'
<1>T. /\ TypeOK
      /\ pkt \in [Packets -> PacketSort] /\ call \in [Callers -> CallSort]
      /\ answer \in [Callers -> Answers] /\ queue \in [Pipes -> Seq(Entries)]
      /\ PipeInv
  BY DEF PipeInv, TypeOK, PacketSort, CallSort, Answers, Entries, Kinds
<1>C. cpc \in [Callers -> {"idle", "lock", "packet", "send", "wait"}]
  BY <1>T DEF TypeOK
<1>1. ASSUME NEW c \in Callers, NEW cmd \in Commands(mode), BeginCall(c, cmd) PROVE TypeOK'
  <2>1. cmd \in Calls
    BY <1>T, CommandsAre
  <2>2. call' \in [Callers -> [cmd : Calls, packet : Packets \cup {Null}]]
    BY <1>1, <2>1 DEF BeginCall, TypeOK, PipeInv
  <2>3. answer' \in [Callers -> [told : {"none", "result", "canceled"}, runs : Nat]]
    BY <1>1 DEF BeginCall, TypeOK, PipeInv, NoAnswer
  <2>4. calls' \in 0 .. MaxCalls
    BY <1>1, PipeAssumption DEF BeginCall, TypeOK, PipeInv
  <2>5. cpc' \in [Callers -> {"idle", "lock", "packet", "send", "wait"}]
    BY <1>1, <1>C DEF BeginCall
  <2>6. QED
    BY <1>1, <1>T, <2>2, <2>3, <2>4, <2>5 DEF BeginCall, TypeOK, closeVars, socketVars, cleanVars
<1>2. ASSUME NEW c \in Callers, CreateCommandPacket(c) PROVE TypeOK'
  <2>1. CASE free = <<>>
    <3>1. cpc' \in [Callers -> {"idle", "lock", "packet", "send", "wait"}]
      BY <1>2, <2>1, <1>C DEF CreateCommandPacket
    <3>2. QED
      BY <1>2, <1>T, <2>1, <3>1 DEF CreateCommandPacket, TypeOK, closeVars, socketVars, cleanVars
  <2>2. CASE free # <<>>
    <3>1. free' \in Seq(Packets) /\ Head(free) \in Packets
      BY <1>2, <2>2, TakeFree DEF PipeInv, Once, CreateCommandPacket
    <3>2. [by |-> c, kind |-> IF call[c].cmd.waits THEN "waits" ELSE "work",
           reply |-> call[c].cmd.flag = "block", runs |-> 0] \in PacketSort
      BY DEF PacketSort, Kinds
    <3>3. pkt' \in [Packets -> PacketSort]
      BY <1>2, <1>T, <2>2, <3>1, <3>2, FillTyped DEF CreateCommandPacket
    <3>4. call' \in [Callers -> CallSort]
      BY <1>2, <1>T, <2>2, <3>1, CarryTyped DEF CreateCommandPacket
    <3>5. cpc' \in [Callers -> {"idle", "lock", "packet", "send", "wait"}]
      BY <1>2, <1>C, <2>2 DEF CreateCommandPacket
    <3>6. QED
      BY <1>2, <1>T, <3>1, <3>3, <3>4, <3>5
      DEF CreateCommandPacket, TypeOK, PacketSort, Kinds, CallSort, Entries,
          closeVars, socketVars, cleanVars
  <2>3. QED
    BY <2>1, <2>2
<1>3. ASSUME NEW c \in Callers, ExecCommandPacket(c) PROVE TypeOK'
  <2>1. call[c].packet \in Packets /\ call[c].packet \in Entries /\ call[c].packet \notin Held(free)
    BY <1>3 DEF PipeInv, Once, Sending, ExecCommandPacket, Entries
  <2>2. call[c].cmd.pipe \in Pipes
    BY <1>T, CommandsAre DEF CallSort
  <2>3. cpc' \in [Callers -> {"idle", "lock", "packet", "send", "wait"}]
    BY <1>3, <1>C DEF ExecCommandPacket
  <2>4. CASE ~Full(call[c].cmd.pipe)
    <3>1. queue' = [queue EXCEPT ![call[c].cmd.pipe] = Append(@, call[c].packet)] /\ free' = free
      BY <1>3, <2>4 DEF ExecCommandPacket
    <3>2. queue' \in [Pipes -> Seq(Entries)] /\ \A r \in Pipes : Len(queue'[r]) <= QueueMax
      BY <1>T, <2>1, <2>2, <2>4, <3>1, Enqueue
    <3>3. QED
      BY <1>3, <1>T, <2>3, <3>1, <3>2
      DEF ExecCommandPacket, TypeOK, Entries, closeVars, socketVars, cleanVars
  <2>5. CASE Full(call[c].cmd.pipe)
    <3>1. free' = Append(free, call[c].packet) /\ queue' = queue
      BY <1>3, <2>5 DEF ExecCommandPacket
    <3>2. free' \in Seq(Packets)
      BY <2>1, <3>1, PutFree DEF PipeInv, Once
    <3>3. QED
      BY <1>3, <1>T, <2>3, <3>1, <3>2
      DEF ExecCommandPacket, TypeOK, closeVars, socketVars, cleanVars
  <2>6. QED
    BY <2>4, <2>5
<1>4. CASE Close
  BY <1>4, <1>T DEF Close, TypeOK, callerVars, socketVars, cleanVars
<1>5. CASE CloseNull
  <2>1. queue' \in [Pipes -> Seq(Entries)] /\ \A r \in Pipes : Len(queue'[r]) <= QueueMax
    BY <1>5, <1>T, Enqueue DEF CloseNull, Entries, Pipes
  <2>2. QED
    BY <1>5, <1>T, <2>1 DEF CloseNull, TypeOK, Entries, callerVars, socketVars, cleanVars
<1>6. CASE CreateClosePacket
  <2>1. free' \in Seq(Packets) /\ Head(free) \in Packets
    BY <1>6, TakeFree DEF PipeInv, Once, CreateClosePacket
  <2>2. [Blank EXCEPT !.kind = "close"] \in PacketSort
    BY DEF PacketSort, Kinds, Blank
  <2>3. pkt' \in [Packets -> PacketSort]
    BY <1>6, <1>T, <2>1, <2>2, FillTyped DEF CreateClosePacket
  <2>4. QED
    BY <1>6, <1>T, <2>1, <2>3
    DEF CreateClosePacket, TypeOK, PacketSort, Kinds, callerVars, socketVars, cleanVars
<1>7. CASE SendClose
  <2>1. queue' \in [Pipes -> Seq(Entries)] /\ \A r \in Pipes : Len(queue'[r]) <= QueueMax
    BY <1>7, <1>T, Enqueue, PipesAre DEF SendClose, Entries, TypeOK
  <2>2. QED
    BY <1>7, <1>T, <2>1 DEF SendClose, TypeOK, Entries, callerVars, socketVars, cleanVars
<1>8. ASSUME NEW p \in Pipes, ReadMessage(p) PROVE TypeOK'
  BY <1>8, <1>T DEF ReadMessage, TypeOK, callerVars, closeVars, socketVars, cleanVars
<1>R. ASSUME NEW p \in Pipes, hpc[p] \in {"run", "join", "end", "trash", "reply"}
      PROVE  Head(queue[p]) \in Packets /\ Head(queue[p]) \in Held(queue[p]) /\ queue[p] # <<>>
  <2>1. queue[p] # <<>> /\ Head(queue[p]) # Null
    BY <1>R DEF PipeInv, Threads
  <2>2. QED
    BY <1>T, <2>1, HeadHeld DEF Entries
<1>9. ASSUME NEW p \in Pipes, hpc[p] = "run", Ran(p) PROVE TypeOK'
  <2>1. pkt' \in [Packets -> PacketSort]
    BY <1>9, <1>T, <1>R, RunTyped DEF Ran
  <2>2. QED
    BY <1>9, <1>T, <2>1
    DEF Ran, TypeOK, PacketSort, Kinds, callerVars, closeVars, socketVars, cleanVars
<1>10. CASE JoinSendThread
  BY <1>10, <1>T DEF JoinSendThread, TypeOK, callerVars, closeVars, cleanVars
<1>11. ASSUME NEW p \in Pipes, EndOwnPipe(p) PROVE TypeOK'
  <2>1. queue' \in [Pipes -> Seq(Entries)] /\ \A r \in Pipes : Len(queue'[r]) <= QueueMax
    BY <1>11, <1>T, Enqueue DEF EndOwnPipe, Entries
  <2>2. hpc' \in [Pipes -> PcVals]
    BY <1>11, <1>T DEF EndOwnPipe, TypeOK, PcVals
  <2>3. QED
    BY <1>11, <1>T, <2>1, <2>2
    DEF EndOwnPipe, TypeOK, Entries, PcVals, callerVars, closeVars, cleanVars
<1>12. ASSUME NEW p \in Pipes, MoveToTrash(p) PROVE TypeOK'
  <2>1. pkt' \in [Packets -> PacketSort]
    BY <1>12, <1>T, <1>R, RunTyped DEF MoveToTrash
  <2>2. QED
    BY <1>12, <1>T, <2>1
    DEF MoveToTrash, TypeOK, PacketSort, Kinds, callerVars, closeVars, cleanVars
<1>13. ASSUME NEW p \in Pipes, Reply(p) PROVE TypeOK'
  <2> DEFINE x == Head(queue[p])
  <2>1. x \in Packets /\ x \in Held(queue[p]) /\ queue[p] # <<>>
    BY <1>13, <1>R DEF Reply
  <2>2. queue' \in [Pipes -> Seq(Entries)] /\ \A r \in Pipes : Len(queue'[r]) <= QueueMax
    BY <1>13, <1>T, <2>1, Dequeue DEF Reply, PipeInv, Once
  <2>3. free' \in Seq(Packets)
    BY <1>13, <2>1, PutFree DEF Reply, PipeInv, Once, InQueue, Pipes
  <2>4. cpc' \in [Callers -> {"idle", "lock", "packet", "send", "wait"}]
    BY <1>13, <1>T DEF Reply, TypeOK
  <2>5. pkt[x].runs \in Nat
    BY <2>1, <1>T DEF PacketSort
  <2>6. answer' \in [Callers -> Answers]
    BY <1>13, <1>T, <2>5 DEF Reply, Answers
  <2>7. hpc' \in [Pipes -> PcVals]
    BY <1>13, <1>T DEF Reply, TypeOK, PcVals
  <2>8. QED
    BY <1>13, <1>T, <2>2, <2>3, <2>4, <2>6, <2>7
    DEF Reply, TypeOK, Entries, Answers, PcVals, closeVars, socketVars, cleanVars
<1>14. CASE TrashSocket
  BY <1>14, <1>T DEF TrashSocket, TypeOK, callerVars, closeVars, socketVars
<1>15. ASSUME NEW p \in Pipes, FreeCommandPipe(p) PROVE TypeOK'
  <2>1. Queued(p) \in SUBSET Packets /\ Queued(p) = Held(queue[p]) /\ Queued(p) \subseteq InQueue
    BY <1>T, QueuedIs DEF Queued, InQueue, Pipes
  <2>2. free' \in Seq(Packets)
    BY <1>15, <1>T, <2>1, HeldSetToSeq, HeldConcat DEF FreeCommandPipe, Drain, TypeOK
  <2>3. queue' \in [Pipes -> Seq(Entries)] /\ \A r \in Pipes : Len(queue'[r]) <= QueueMax
    <3>1. queue' = [queue EXCEPT ![p] = <<>>]
      BY <1>15 DEF FreeCommandPipe, Drain
    <3>2. <<>> \in Seq(Entries) /\ Len(<<>>) = 0
      BY EmptySeq
    <3>3. QED
      BY <3>1, <3>2, <1>T, PipeAssumption DEF TypeOK
  <2>4. cpc' \in [Callers -> {"idle", "lock", "packet", "send", "wait"}]
    BY <1>15, <1>T DEF FreeCommandPipe, Drain, TypeOK
  <2>5. \A y \in Queued(p) : \A c \in Woken(y) : pkt[call[c].packet].runs \in Nat
    BY <1>T, <2>1, WokenIs DEF PipeInv, PacketSort
  <2>6. answer' \in [Callers -> Answers]
    BY <1>15, <1>T, <2>5 DEF FreeCommandPipe, Drain, Answers
  <2>7. drained' \subseteq Pipes
    BY <1>15, <1>T DEF FreeCommandPipe, Drain, TypeOK
  <2>8. QED
    BY <1>15, <1>T, <2>2, <2>3, <2>4, <2>6, <2>7
    DEF FreeCommandPipe, Drain, TypeOK, Entries, Answers, closeVars, socketVars
<1>16. CASE FreeSocket
  BY <1>16, <1>T DEF FreeSocket, TypeOK, callerVars, closeVars
<1>17. CASE UNCHANGED vars
  BY <1>17, <1>T DEF TypeOK, vars, callerVars, closeVars, socketVars, cleanVars
<1>18. ASSUME NEW c \in Callers, LockPipe(c) PROVE TypeOK'
  <2>1. cpc' \in [Callers -> {"idle", "lock", "packet", "send", "wait"}]
    BY <1>18, <1>C DEF LockPipe
  <2>2. QED
    BY <1>18, <1>T, <2>1 DEF LockPipe, TypeOK, closeVars, socketVars, cleanVars
<1>19. QED
  BY <1>1, <1>2, <1>3, <1>4, <1>5, <1>6, <1>7, <1>8, <1>9, <1>10, <1>11, <1>12, <1>13, <1>14,
     <1>15, <1>16, <1>17, <1>18
  DEF Next, CallerStep, CloseStep, HandlerStep, RunHandler, PeerActs, CleanerStep

-----------------------------------------------------------------------------
(* Each packet in one place. *)

(* Once and Placed see where packets are and nothing else. *)
LEMMA OnceFrame ==
  ASSUME Once, Placed, UNCHANGED <<free, queue, kpkt>>, Sending' = Sending,
         \A c \in Sending : call'[c].packet = call[c].packet
  PROVE  Once' /\ Placed'
<1>1. InQueue' = InQueue
  BY DEF InQueue, Held
<1>2. Held(free)' = Held(free)
  BY DEF Held
<1>3. Once'
  BY <1>1, <1>2 DEF Once, Inj, Held
<1>4. {call[c].packet : c \in Sending}' = {call[c].packet : c \in Sending}
  OBVIOUS
<1>5. Placed'
  BY <1>1, <1>2, <1>4 DEF Placed
<1>6. QED
  BY <1>3, <1>5

(* A NULL message is no packet. *)
LEMMA OnceNull ==
  ASSUME TypeOK, Once, Placed, NEW p \in Pipes, ~Full(p),
         queue' = [queue EXCEPT ![p] = Append(@, Null)], UNCHANGED <<free, kpkt, cpc, call>>
  PROVE  Once' /\ Placed' /\ \A r \in Pipes : Held(queue'[r]) = Held(queue[r])
<1>1. /\ \A r \in Pipes : r # p => queue'[r] = queue[r]
      /\ Held(queue'[p]) = Held(queue[p]) \cup ({Null} \cap Packets)
      /\ Inj(queue[p]) /\ Null \notin Held(queue[p]) => Inj(queue'[p])
  BY Enqueue DEF Entries
<1>2. Null \notin Held(queue[p]) /\ {Null} \cap Packets = {}
  BY NullIs DEF Held
<1>3. \A r \in Pipes : Held(queue'[r]) = Held(queue[r]) /\ Inj(queue'[r])
  BY <1>1, <1>2 DEF Once
<1>4. InQueue' = InQueue /\ Held(queue["recv"])' = Held(queue["recv"]) /\ Held(queue["send"])' = Held(queue["send"])
  BY <1>3 DEF InQueue, Pipes
<1>5. Held(free)' = Held(free) /\ Sending' = Sending
  BY DEF Sending
<1>6. Once'
  BY <1>3, <1>4, <1>5 DEF Once, Inj
<1>7. Placed'
  BY <1>4, <1>5 DEF Placed
<1>8. QED
  BY <1>3, <1>6, <1>7

(* A message that is a packet, with nowhere else to be. *)
LEMMA InQueueGrows ==
  ASSUME TypeOK, Once, NEW p \in Pipes, ~Full(p), NEW x \in Packets, x \notin InQueue,
         queue' = [queue EXCEPT ![p] = Append(@, x)]
  PROVE  /\ InQueue' = InQueue \cup {x} /\ \A r \in Pipes : Inj(queue'[r])
         /\ (Held(queue["recv"]) \cap Held(queue["send"]) = {})'
         /\ Held(queue'[p]) = Held(queue[p]) \cup {x}
         /\ \A r \in Pipes : r # p => queue'[r] = queue[r]
<1>1. x \in Entries /\ x \notin Held(queue[p]) /\ {x} \cap Packets = {x}
  BY DEF InQueue, Entries, Pipes
<1>2. /\ \A r \in Pipes : r # p => queue'[r] = queue[r]
      /\ Held(queue'[p]) = Held(queue[p]) \cup {x}
      /\ Inj(queue'[p])
  BY <1>1, Enqueue DEF Once
<1>3. \A r \in Pipes : Inj(queue'[r])
  BY <1>2 DEF Once
<1>4. InQueue' = InQueue \cup {x} /\ (Held(queue["recv"]) \cap Held(queue["send"]) = {})'
  <2>1. CASE p = "recv"
    <3>1. Held(queue'["recv"]) = Held(queue["recv"]) \cup {x} /\ queue'["send"] = queue["send"]
      BY <1>2, <2>1 DEF Pipes
    <3>2. QED
      BY <3>1 DEF InQueue, Once
  <2>2. CASE p = "send"
    <3>1. Held(queue'["send"]) = Held(queue["send"]) \cup {x} /\ queue'["recv"] = queue["recv"]
      BY <1>2, <2>2 DEF Pipes
    <3>2. QED
      BY <3>1 DEF InQueue, Once
  <2>3. QED
    BY <2>1, <2>2 DEF Pipes
<1>5. QED
  BY <1>2, <1>3, <1>4

(* Some packets leave the queue of p: its head, or all. *)
LEMMA InQueueShrinks ==
  ASSUME TypeOK, Once, NEW p \in Pipes, NEW S \in SUBSET Held(queue[p]),
         Held(queue'[p]) = Held(queue[p]) \ S, Inj(queue'[p]),
         \A r \in Pipes : r # p => queue'[r] = queue[r]
  PROVE  /\ InQueue' = InQueue \ S /\ S \subseteq InQueue /\ \A r \in Pipes : Inj(queue'[r])
         /\ (Held(queue["recv"]) \cap Held(queue["send"]) = {})'
<1>1. \A r \in Pipes : Inj(queue'[r])
  BY DEF Once
<1>2. CASE p = "recv"
  <2>1. Held(queue'["recv"]) = Held(queue["recv"]) \ S /\ queue'["send"] = queue["send"]
    BY <1>2 DEF Pipes
  <2>2. QED
    BY <1>1, <1>2, <2>1 DEF InQueue, Once
<1>3. CASE p = "send"
  <2>1. Held(queue'["send"]) = Held(queue["send"]) \ S /\ queue'["recv"] = queue["recv"]
    BY <1>3 DEF Pipes
  <2>2. QED
    BY <1>1, <1>3, <2>1 DEF InQueue, Once
<1>4. QED
  BY <1>2, <1>3 DEF Pipes

(* They go back to the pool. *)
LEMMA OnceBack ==
  ASSUME Once, Placed, NEW S \in SUBSET InQueue,
         InQueue' = InQueue \ S, \A r \in Pipes : Inj(queue'[r]),
         (Held(queue["recv"]) \cap Held(queue["send"]) = {})',
         Inj(free'), Held(free') = Held(free) \cup S,
         kpkt' = kpkt, Sending' = Sending, call' = call
  PROVE  Once' /\ Placed'
<1>1. Once'
  <2>1. (Held(free) \cap InQueue = {})'
    BY DEF Once
  <2>2. (kpkt \notin Held(free) \cup InQueue)'
    BY DEF Once
  <2>3. (\A c \in Sending : call[c].packet \in Packets \ (Held(free) \cup InQueue \cup {kpkt}))'
    BY DEF Once
  <2>4. (\A c, d \in Sending : call[c].packet = call[d].packet => c = d)'
    BY DEF Once
  <2>5. QED
    BY <2>1, <2>2, <2>3, <2>4 DEF Once
<1>2. Placed'
  BY DEF Placed
<1>3. QED
  BY <1>1, <1>2

(* Who is sending after caller c goes on to v. *)
LEMMA SendingIs ==
  ASSUME TypeOK, NEW c \in Callers, NEW v \in {"idle", "lock", "packet", "send", "wait"}, cpc' = [cpc EXCEPT ![c] = v]
  PROVE  /\ v = "send" => Sending' = Sending \cup {c}
         /\ v # "send" => Sending' = Sending \ {c}
<1>1. cpc'[c] = v /\ \A d \in Callers : d # c => cpc'[d] = cpc[d]
  BY DEF TypeOK
<1>2. QED
  BY <1>1 DEF Sending

(* No step loses a packet or puts it in two places: what leaves the pool goes *)
(* to a sender or to SOCL_Close, and from there into one queue or back.       *)
LEMMA OnceStep ==
  ASSUME PipeInv, [Next]_vars
  PROVE  Once' /\ Placed'
<1>T. /\ TypeOK /\ Once /\ Placed
      /\ pkt \in [Packets -> PacketSort] /\ call \in [Callers -> CallSort]
      /\ queue \in [Pipes -> Seq(Entries)]
      /\ PipeInv
  BY DEF PipeInv, TypeOK, PacketSort, CallSort, Entries, Kinds
<1>F. ASSUME UNCHANGED <<free, queue, kpkt, cpc, call>> PROVE Once' /\ Placed'
  BY <1>F, <1>T, OnceFrame DEF Sending
<1>1. ASSUME NEW c \in Callers, NEW cmd \in Commands(mode), BeginCall(c, cmd) PROVE Once' /\ Placed'
  <2>1. Sending' = Sending \ {c} /\ c \notin Sending
    BY <1>1, <1>T, SendingIs DEF BeginCall, Sending
  <2>2. \A d \in Sending : call'[d] = call[d]
    BY <1>1, <1>T, <2>1 DEF BeginCall, Sending
  <2>3. QED
    BY <1>1, <1>T, <2>1, <2>2, OnceFrame DEF BeginCall, closeVars
<1>2. ASSUME NEW c \in Callers, CreateCommandPacket(c) PROVE Once' /\ Placed'
  <2>0. c \notin Sending /\ UNCHANGED <<queue, kpkt>>
    BY <1>2 DEF CreateCommandPacket, Sending, closeVars
  <2>1. CASE free = <<>>
    <3>1. cpc' = [cpc EXCEPT ![c] = "idle"] /\ UNCHANGED <<free, call>>
      BY <1>2, <2>1 DEF CreateCommandPacket
    <3>2. Sending' = Sending \ {c}
      BY <1>T, <3>1, SendingIs
    <3>3. Sending' = Sending
      BY <2>0, <3>2
    <3>4. QED
      BY <1>T, <2>0, <3>1, <3>3, OnceFrame
  <2>2. CASE free # <<>>
    <3> DEFINE x == Head(free)
    <3>1. x \in Packets /\ x \in Held(free) /\ Held(free') = Held(free) \ {x} /\ Inj(free')
      BY <1>2, <1>T, <2>2, TakeFree DEF Once, CreateCommandPacket
    <3>2. Sending' = Sending \cup {c}
      BY <1>2, <1>T, <2>2, SendingIs DEF CreateCommandPacket
    <3>3. call'[c].packet = x /\ \A d \in Callers : d # c => call'[d] = call[d]
      BY <1>2, <1>T, <2>2, <3>1, CarryTyped DEF CreateCommandPacket
    <3>4. InQueue' = InQueue /\ \A p \in Pipes : Held(queue'[p]) = Held(queue[p])
      BY <2>0 DEF InQueue
    <3> HIDE DEF x
    <3>5. Sending \subseteq Callers /\ \A d \in Sending : d # c /\ call'[d] = call[d] /\ call[d].packet # x
      BY <1>T, <2>0, <3>1, <3>3 DEF Sending, Once
    <3>6. x \notin InQueue /\ x # kpkt
      BY <1>T, <3>1 DEF Once
    <3>7. (Inj(free) /\ \A p \in Pipes : Inj(queue[p]))'
      BY <1>T, <2>0, <3>1 DEF Once, Inj
    <3>8. (Held(queue["recv"]) \cap Held(queue["send"]) = {} /\ Held(free) \cap InQueue = {}
           /\ kpkt \notin Held(free) \cup InQueue)'
      BY <1>T, <2>0, <3>1, <3>4 DEF Once, Pipes
    <3>9. (\A d \in Sending : call[d].packet \in Packets \ (Held(free) \cup InQueue \cup {kpkt}))'
      BY <1>T, <2>0, <3>1, <3>2, <3>3, <3>4, <3>5, <3>6 DEF Once
    <3>10. (\A d, e \in Sending : call[d].packet = call[e].packet => d = e)'
      BY <1>T, <3>2, <3>3, <3>5 DEF Once
    <3>11. Placed'
      BY <1>T, <2>0, <3>1, <3>2, <3>3, <3>4, <3>5 DEF Placed
    <3>12. QED
      BY <3>7, <3>8, <3>9, <3>10, <3>11 DEF Once
  <2>3. QED
    BY <2>1, <2>2
<1>3. ASSUME NEW c \in Callers, ExecCommandPacket(c) PROVE Once' /\ Placed'
  <2> DEFINE x == call[c].packet
             p == call[c].cmd.pipe
  <2>1. /\ x \in Packets /\ x \notin Held(free) /\ x \notin InQueue /\ x # kpkt
        /\ \A d \in Sending : d # c => call[d].packet # x
        /\ c \in Sending /\ Sending \subseteq Callers
    BY <1>3, <1>T DEF Once, Sending, ExecCommandPacket
  <2>2. p \in Pipes
    BY <1>T, CommandsAre DEF CallSort
  <2>3. Sending' = Sending \ {c} /\ UNCHANGED <<call, kpkt>>
    <3>1. PICK v \in {"wait", "idle"} : cpc' = [cpc EXCEPT ![c] = v]
      BY <1>3 DEF ExecCommandPacket
    <3>2. Sending' = Sending \ {c}
      BY <1>T, <3>1, SendingIs
    <3>3. QED
      BY <1>3, <3>2 DEF ExecCommandPacket, closeVars
  <2>4. CASE ~Full(p)
    <3>1. queue' = [queue EXCEPT ![p] = Append(@, x)] /\ free' = free
      BY <1>3, <2>4 DEF ExecCommandPacket
    <3> HIDE DEF x, p
    <3>2. /\ InQueue' = InQueue \cup {x} /\ \A r \in Pipes : Inj(queue'[r])
          /\ (Held(queue["recv"]) \cap Held(queue["send"]) = {})'
      BY <1>T, <2>1, <2>2, <2>4, <3>1, InQueueGrows
    <3>3. (Inj(free) /\ \A r \in Pipes : Inj(queue[r]))'
      BY <1>T, <3>1, <3>2 DEF Once, Inj
    <3>4. (Held(free) \cap InQueue = {} /\ kpkt \notin Held(free) \cup InQueue)'
      BY <1>T, <2>1, <2>3, <3>1, <3>2 DEF Once
    <3>5. (\A d \in Sending : call[d].packet \in Packets \ (Held(free) \cup InQueue \cup {kpkt}))'
      BY <1>T, <2>1, <2>3, <3>1, <3>2 DEF Once
    <3>6. (\A d, e \in Sending : call[d].packet = call[e].packet => d = e)'
      BY <1>T, <2>3 DEF Once
    <3>7. Placed'
      BY <1>T, <2>1, <2>3, <3>1, <3>2 DEF Placed, x
    <3>8. QED
      BY <3>2, <3>3, <3>4, <3>5, <3>6, <3>7 DEF Once
  <2>5. CASE Full(p)
    <3>1. free' = Append(free, x) /\ queue' = queue
      BY <1>3, <2>5 DEF ExecCommandPacket
    <3> HIDE DEF x, p
    <3>2. Held(free') = Held(free) \cup {x} /\ Inj(free')
      BY <1>T, <2>1, <3>1, PutFree DEF Once
    <3>3. InQueue' = InQueue /\ \A r \in Pipes : queue'[r] = queue[r]
      BY <3>1 DEF InQueue
    <3>4. (Inj(free) /\ \A r \in Pipes : Inj(queue[r]))'
      BY <1>T, <3>1, <3>2 DEF Once, Inj
    <3>5. (Held(queue["recv"]) \cap Held(queue["send"]) = {} /\ Held(free) \cap InQueue = {}
           /\ kpkt \notin Held(free) \cup InQueue)'
      BY <1>T, <2>1, <2>3, <3>2, <3>3 DEF Once, Pipes
    <3>6. (\A d \in Sending : call[d].packet \in Packets \ (Held(free) \cup InQueue \cup {kpkt}))'
      BY <1>T, <2>1, <2>3, <3>2, <3>3 DEF Once
    <3>7. (\A d, e \in Sending : call[d].packet = call[e].packet => d = e)'
      BY <1>T, <2>3 DEF Once
    <3>8. Placed'
      BY <1>T, <2>1, <2>3, <3>2, <3>3 DEF Placed, x
    <3>9. QED
      BY <3>4, <3>5, <3>6, <3>7, <3>8 DEF Once
  <2>6. QED
    BY <2>4, <2>5
<1>4. CASE Close
  BY <1>4, <1>F DEF Close, callerVars
<1>5. CASE CloseNull
  BY <1>5, <1>T, OnceNull DEF CloseNull, Pipes, callerVars
<1>6. CASE CreateClosePacket
  <2> DEFINE x == Head(free)
  <2>1. x \in Packets /\ x \in Held(free) /\ Held(free') = Held(free) \ {x} /\ Inj(free')
    BY <1>6, <1>T, TakeFree DEF Once, CreateClosePacket
  <2>2. kpkt = Null /\ kpkt' = x
    BY <1>6, <1>T DEF CreateClosePacket, PipeInv, ClosePacket
  <2>3. Sending' = Sending /\ UNCHANGED <<call, queue>> /\ InQueue' = InQueue
    BY <1>6 DEF CreateClosePacket, callerVars, Sending, InQueue
  <2> HIDE DEF x
  <2>4. x \notin InQueue /\ \A c \in Sending : call[c].packet # x
    BY <1>T, <2>1 DEF Once
  <2>5. (Inj(free) /\ \A r \in Pipes : Inj(queue[r]))'
    BY <1>T, <2>1, <2>3 DEF Once, Inj
  <2>6. (Held(queue["recv"]) \cap Held(queue["send"]) = {} /\ Held(free) \cap InQueue = {}
         /\ kpkt \notin Held(free) \cup InQueue)'
    BY <1>T, <2>1, <2>2, <2>3, <2>4 DEF Once
  <2>7. (\A d \in Sending : call[d].packet \in Packets \ (Held(free) \cup InQueue \cup {kpkt}))'
    BY <1>T, <2>1, <2>2, <2>3, <2>4 DEF Once
  <2>8. (\A d, e \in Sending : call[d].packet = call[e].packet => d = e)'
    BY <1>T, <2>3 DEF Once
  <2>9. Placed'
    BY <1>T, <2>1, <2>2, <2>3, NullIs DEF Placed
  <2>10. QED
    BY <2>5, <2>6, <2>7, <2>8, <2>9 DEF Once
<1>7. CASE SendClose
  <2>1. kpkt \in Packets /\ kpkt \notin InQueue /\ kpkt \notin Held(free)
    BY <1>7, <1>T DEF SendClose, PipeInv, ClosePacket, TypeOK, Once
  <2>2. GetCtrlPipe \in Pipes /\ ~Full(GetCtrlPipe) /\ queue' = [queue EXCEPT ![GetCtrlPipe] = Append(@, kpkt)]
    BY <1>7, <1>T, PipesAre DEF SendClose
  <2>3. kpkt' = Null /\ Null \notin Packets /\ Sending' = Sending /\ UNCHANGED <<call, free>>
    BY <1>7, NullIs DEF SendClose, callerVars, Sending
  <2>4. /\ InQueue' = InQueue \cup {kpkt} /\ \A r \in Pipes : Inj(queue'[r])
        /\ (Held(queue["recv"]) \cap Held(queue["send"]) = {})'
    BY <1>T, <2>1, <2>2, InQueueGrows
  <2>5. InQueue \subseteq Packets /\ Held(free) \subseteq Packets
    BY DEF InQueue, Held
  <2>6. (Inj(free) /\ Held(free) \cap InQueue = {} /\ kpkt \notin Held(free) \cup InQueue)'
    BY <1>T, <2>1, <2>3, <2>4, <2>5 DEF Once, Inj
  <2>7. (\A d \in Sending : call[d].packet \in Packets \ (Held(free) \cup InQueue \cup {kpkt}))'
    BY <1>T, <2>1, <2>3, <2>4 DEF Once
  <2>8. (\A d, e \in Sending : call[d].packet = call[e].packet => d = e)'
    BY <1>T, <2>3 DEF Once
  <2>9. Placed'
    BY <1>T, <2>3, <2>4 DEF Placed
  <2>10. QED
    BY <2>4, <2>6, <2>7, <2>8, <2>9 DEF Once
<1>8. ASSUME NEW p \in Pipes, ReadMessage(p) PROVE Once' /\ Placed'
  BY <1>8, <1>F DEF ReadMessage, callerVars, closeVars
<1>9. ASSUME NEW p \in Pipes, hpc[p] = "run", Ran(p) PROVE Once' /\ Placed'
  BY <1>9, <1>F DEF Ran, callerVars, closeVars
<1>10. CASE JoinSendThread
  BY <1>10, <1>F DEF JoinSendThread, callerVars, closeVars
<1>11. ASSUME NEW p \in Pipes, EndOwnPipe(p) PROVE Once' /\ Placed'
  BY <1>11, <1>T, OnceNull DEF EndOwnPipe, callerVars, closeVars
<1>12. ASSUME NEW p \in Pipes, MoveToTrash(p) PROVE Once' /\ Placed'
  BY <1>12, <1>F DEF MoveToTrash, callerVars, closeVars
<1>13. ASSUME NEW p \in Pipes, Reply(p) PROVE Once' /\ Placed'
  <2> DEFINE x == Head(queue[p])
  <2>1. x \in Packets /\ x \in Held(queue[p]) /\ queue[p] # <<>>
    <3>1. queue[p] # <<>> /\ x # Null
      BY <1>13, <1>T DEF Reply, PipeInv, Threads
    <3>2. QED
      BY <1>T, <3>1, HeadHeld DEF Entries
  <2>2. /\ \A r \in Pipes : r # p => queue'[r] = queue[r]
        /\ Held(queue'[p]) = Held(queue[p]) \ {x} /\ Inj(queue'[p])
    BY <1>13, <1>T, <2>1, Dequeue DEF Reply, Once
  <2>3. x \notin Held(free)
    BY <1>T, <2>1 DEF Once, InQueue, Pipes
  <2>4. Held(free') = Held(free) \cup {x} /\ Inj(free')
    BY <1>13, <1>T, <2>1, <2>3, PutFree DEF Reply, Once
  <2>5. Sending' = Sending /\ UNCHANGED <<call, kpkt>>
    BY <1>13 DEF Reply, Sending, Woken, closeVars
  <2> HIDE DEF x
  <2>6. {x} \in SUBSET Held(queue[p])
    BY <2>1
  <2>7. /\ InQueue' = InQueue \ {x} /\ {x} \subseteq InQueue /\ \A r \in Pipes : Inj(queue'[r])
        /\ (Held(queue["recv"]) \cap Held(queue["send"]) = {})'
    BY <1>T, <2>2, <2>6, InQueueShrinks
  <2>8. QED
    BY <1>T, <2>4, <2>5, <2>7, OnceBack
<1>14. CASE TrashSocket
  BY <1>14, <1>F DEF TrashSocket, callerVars, closeVars
<1>15. ASSUME NEW p \in Pipes, FreeCommandPipe(p) PROVE Once' /\ Placed'
  <2> DEFINE S == Held(queue[p])
  <2>1. Queued(p) = S /\ S \subseteq Packets
    BY <1>T, QueuedIs DEF Held
  <2>2. /\ queue' = [queue EXCEPT ![p] = <<>>] /\ free' = free \o SetToSeq(Queued(p))
        /\ UNCHANGED <<call, kpkt>>
    BY <1>15 DEF FreeCommandPipe, Drain, closeVars
  <2>3. queue'[p] = <<>> /\ \A r \in Pipes : r # p => queue'[r] = queue[r]
    BY <1>T, <2>2
  <2>4. Held(queue'[p]) = S \ S /\ Inj(queue'[p])
    BY <2>3, EmptyHeld
  <2>5. Held(free) \cap S = {}
    BY <1>T DEF Once, InQueue, Pipes
  <2>6. Sending' = Sending
    BY <1>15 DEF FreeCommandPipe, Drain, Sending, Woken
  <2> HIDE DEF S
  <2>7. SetToSeq(S) \in Seq(Packets) /\ Held(SetToSeq(S)) = S /\ Inj(SetToSeq(S))
    BY <2>1, HeldSetToSeq
  <2>8. Held(free') = Held(free) \cup S /\ Inj(free')
    BY <1>T, <2>1, <2>2, <2>5, <2>7, HeldConcat DEF TypeOK, Once
  <2>9. /\ InQueue' = InQueue \ S /\ S \subseteq InQueue /\ \A r \in Pipes : Inj(queue'[r])
        /\ (Held(queue["recv"]) \cap Held(queue["send"]) = {})'
    BY <1>T, <2>3, <2>4, InQueueShrinks DEF S
  <2>10. QED
    BY <1>T, <2>2, <2>6, <2>8, <2>9, OnceBack
<1>16. CASE FreeSocket
  BY <1>16, <1>F DEF FreeSocket, callerVars, closeVars
<1>17. CASE UNCHANGED vars
  BY <1>17, <1>F DEF vars, callerVars, closeVars
<1>18. ASSUME NEW c \in Callers, LockPipe(c) PROVE Once' /\ Placed'
  <2>1. Sending' = Sending
    BY <1>18, <1>T, SendingIs DEF LockPipe, Sending
  <2>2. QED
    BY <1>18, <1>T, <2>1, OnceFrame DEF LockPipe, closeVars
<1>19. QED
  BY <1>1, <1>2, <1>3, <1>4, <1>5, <1>6, <1>7, <1>8, <1>9, <1>10, <1>11, <1>12, <1>13, <1>14,
     <1>15, <1>16, <1>17, <1>18
  DEF Next, CallerStep, CloseStep, HandlerStep, RunHandler, PeerActs, CleanerStep

-----------------------------------------------------------------------------
(* What the other parts depend on. *)

(* What each of them depends on. *)
LEMMA SentFrame ==
  ASSUME Sent, Sending' \subseteq Sending,
         \A c \in Sending : call'[c] = call[c] /\ pkt'[call[c].packet] = pkt[call[c].packet]
  PROVE  Sent'
BY DEF Sent

(* Unchanged while SOCL_Close stands still. *)
LEMMA ClosePacketFrame ==
  ASSUME ClosePacket, UNCHANGED <<kpc, kpkt>>, kpkt # Null => pkt'[kpkt] = pkt[kpkt]
  PROVE  ClosePacket'
BY DEF ClosePacket

(* Unchanged while the same callers wait for the same queued packets. *)
LEMMA WaitingFrame ==
  ASSUME Waiting, TypeOK,
         \A p \in Pipes : Held(queue'[p]) = Held(queue[p]),
         \A c \in Callers : cpc'[c] = "wait" <=> cpc[c] = "wait",
         \A c \in Callers : cpc[c] = "wait" => call'[c] = call[c],
         \A x \in InQueue : pkt'[x].by = pkt[x].by /\ pkt'[x].reply = pkt[x].reply
  PROVE  Waiting'
<1>1. InQueue' = InQueue
  BY DEF InQueue, Pipes
<1>2. ASSUME NEW c \in Callers, cpc'[c] = "wait"
      PROVE  /\ call'[c].packet \in Held(queue'[call'[c].cmd.pipe])
             /\ pkt'[call'[c].packet].by = c /\ pkt'[call'[c].packet].reply
  <2>1. /\ call'[c] = call[c] /\ call[c].packet \in Held(queue[call[c].cmd.pipe])
        /\ pkt[call[c].packet].by = c /\ pkt[call[c].packet].reply
    BY <1>2 DEF Waiting
  <2>2. call[c].cmd.pipe \in Pipes
    BY CommandsAre DEF TypeOK
  <2>3. call[c].packet \in InQueue
    BY <2>1, <2>2 DEF InQueue, Pipes
  <2>4. QED
    BY <2>1, <2>2, <2>3
<1>3. ASSUME NEW x \in InQueue, pkt'[x].reply
      PROVE  pkt'[x].by \in Callers /\ cpc'[pkt'[x].by] = "wait" /\ call'[pkt'[x].by].packet = x
  <2>1. pkt[x].by \in Callers /\ cpc[pkt[x].by] = "wait" /\ call[pkt[x].by].packet = x
    BY <1>3 DEF Waiting
  <2>2. QED
    BY <2>1
<1>4. QED
  BY <1>1, <1>2, <1>3 DEF Waiting

(* Unchanged while no packet runs, and heads stay. *)
LEMMA RunsFrame ==
  ASSUME RunsOnce,
         \A p \in Pipes : Held(queue'[p]) = Held(queue[p]) /\ (queue[p] # <<>> => Head(queue'[p]) = Head(queue[p])),
         \A p \in Pipes : hpc'[p] = "reply" <=> hpc[p] = "reply",
         \A x \in InQueue : pkt'[x].runs = pkt[x].runs
  PROVE  RunsOnce'
<1>1. ASSUME NEW p \in Pipes, NEW x \in Held(queue[p])
      PROVE  pkt'[x].runs = IF hpc'[p] = "reply" /\ x = Head(queue'[p]) THEN 1 ELSE 0
  <2>1. queue[p] # <<>> /\ x \in InQueue
    BY <1>1, EmptyHeld DEF InQueue, Pipes
  <2>2. QED
    BY <1>1, <2>1 DEF RunsOnce
<1>2. QED
  BY <1>1 DEF RunsOnce

(* Unchanged while threads and heads stay. *)
LEMMA ThreadsFrame ==
  ASSUME TypeOK, Threads, hpc' = hpc, drained \subseteq drained',
         \A p \in Pipes : queue[p] # <<>> => queue'[p] # <<>> /\ Head(queue'[p]) = Head(queue[p]),
         \A x \in InQueue : pkt'[x].kind = pkt[x].kind
  PROVE  Threads'
<1>1. ASSUME NEW p \in Pipes, hpc[p] \in {"run", "join", "end", "trash", "reply"}
      PROVE  /\ queue'[p] # <<>> /\ Head(queue'[p]) = Head(queue[p]) /\ Head(queue'[p]) # Null
             /\ pkt'[Head(queue'[p])].kind = pkt[Head(queue[p])].kind
  <2>1. queue[p] # <<>> /\ Head(queue[p]) # Null
    BY <1>1 DEF Threads
  <2>2. Head(queue[p]) \in InQueue
    BY <2>1, HeadHeld DEF InQueue, Pipes
  <2>3. QED
    BY <2>1, <2>2
<1>2. \A p \in Pipes : hpc[p] \in {"run", "join", "end", "trash", "reply"} =>
        queue'[p] # <<>> /\ Head(queue'[p]) # Null
  BY <1>1
<1>3. \A p \in Pipes : hpc[p] = "run" => pkt'[Head(queue'[p])].kind # "close"
  BY <1>1 DEF Threads, Head1
<1>4. \A p \in Pipes : hpc[p] \in {"join", "end", "trash"} => pkt'[Head(queue'[p])].kind = "close"
  BY <1>1 DEF Threads, Head1
<1>5. \A p \in Pipes : hpc[p] = "exit" /\ p \notin drained' => queue'[p] # <<>> /\ Head(queue'[p]) = Null
  BY DEF Threads
<1>6. QED
  BY <1>2, <1>3, <1>4, <1>5 DEF Threads, Head1

(* Unchanged while no close command is queued. *)
LEMMA ControlledFrame ==
  ASSUME Controlled, mode' = mode,
         \A p \in Pipes : Held(queue'[p]) \subseteq Held(queue[p]),
         \A x \in InQueue : pkt'[x].kind = pkt[x].kind
  PROVE  Controlled'
<1>1. GetCtrlPipe' = GetCtrlPipe
  BY DEF GetCtrlPipe, Owned
<1>2. \A p \in Pipes : Held(queue[p]) \subseteq InQueue
  BY DEF InQueue, Pipes
<1>3. QED
  BY <1>1, <1>2 DEF Controlled

(* Unchanged while no thread ends. *)
LEMMA EndsFrame ==
  ASSUME Ends, UNCHANGED <<mode, cpsOpen, hpc, drained, place>>
  PROVE  Ends'
BY DEF Ends, Stopped

(* Unchanged while nobody is answered. *)
LEMMA AnswerFrame == ASSUME AnswerTrue, answer' = answer PROVE AnswerTrue'
BY DEF AnswerTrue

(* The thread of a pipe holds the command at its head. *)
LEMMA AtHead ==
  ASSUME PipeInv, NEW p \in Pipes, hpc[p] \in {"run", "join", "end", "trash", "reply"}
  PROVE  /\ Head(queue[p]) \in Packets /\ Head(queue[p]) \in Held(queue[p])
         /\ Head(queue[p]) \in InQueue /\ queue[p] # <<>>
<1>1. queue[p] # <<>> /\ Head(queue[p]) # Null /\ TypeOK
  BY DEF PipeInv, Threads
<1>2. QED
  BY <1>1, HeadHeld DEF Entries, InQueue, Pipes

-----------------------------------------------------------------------------
(* The other parts, action by action: callers. *)

(* A packet that was free is in nobody's hands. *)
LEMMA FreeIsApart ==
  ASSUME PipeInv, NEW x \in Held(free)
  PROVE  x \in Packets /\ x \notin InQueue /\ x # kpkt /\ \A c \in Sending : call[c].packet # x
BY DEF PipeInv, Once, Held

(* Nor is a queued one. *)
LEMMA QueuedIsApart ==
  ASSUME PipeInv, NEW x \in InQueue
  PROVE  x \in Packets /\ x # kpkt /\ \A c \in Sending : call[c].packet # x
BY DEF PipeInv, Once, Held, InQueue

(* A step that changes neither packets, queues, threads nor senders. *)
LEMMA RestFrame ==
  ASSUME PipeInv, UNCHANGED <<pkt, queue, hpc, cpc, call, kpc, kpkt, mode, answer, cpsOpen>>
  PROVE  /\ Sent' /\ ClosePacket' /\ Waiting' /\ RunsOnce' /\ Controlled' /\ AnswerTrue'
         /\ drained \subseteq drained' => Threads'
         /\ UNCHANGED <<drained, place>> => Ends'
<1>1. Sent'
  BY SentFrame DEF PipeInv, Sending
<1>2. ClosePacket'
  BY ClosePacketFrame DEF PipeInv
<1>3. Waiting'
  BY WaitingFrame DEF PipeInv
<1>4. RunsOnce'
  BY RunsFrame DEF PipeInv
<1>5. Controlled'
  BY ControlledFrame DEF PipeInv
<1>6. drained \subseteq drained' => Threads'
  BY ThreadsFrame DEF PipeInv
<1>7. UNCHANGED <<drained, place>> => Ends'
  BY EndsFrame DEF PipeInv
<1>8. AnswerTrue'
  BY AnswerFrame DEF PipeInv
<1>9. QED
  BY <1>1, <1>2, <1>3, <1>4, <1>5, <1>6, <1>7, <1>8

(* A call begins. *)
LEMMA RestBegin ==
  ASSUME PipeInv, NEW c \in Callers, NEW cmd \in Commands(mode), BeginCall(c, cmd)
  PROVE  Rest'
<1>0. TypeOK /\ UNCHANGED <<pkt, queue, hpc, kpc, kpkt, mode, cpsOpen, drained, place>>
  BY DEF PipeInv, BeginCall, closeVars, socketVars, cleanVars
<1>1. /\ cpc[c] = "idle" /\ cpc'[c] \in {"lock", "packet"}
      /\ \A d \in Callers : d # c => cpc'[d] = cpc[d] /\ call'[d] = call[d]
  BY <1>0 DEF BeginCall, TypeOK
<1>2. Sending' = Sending /\ c \notin Sending
  BY <1>1 DEF Sending
<1>3. Sent'
  BY <1>0, <1>1, <1>2, SentFrame DEF PipeInv, Sending
<1>4. Waiting'
  BY <1>0, <1>1, WaitingFrame DEF PipeInv
<1>5. AnswerTrue'
  <2>1. answer' = [answer EXCEPT ![c] = NoAnswer] /\ answer \in [Callers -> Answers]
    BY <1>0 DEF BeginCall, TypeOK, Answers
  <2>2. NoAnswer.told = "none"
    BY DEF NoAnswer
  <2>3. QED
    BY <2>1, <2>2 DEF PipeInv, AnswerTrue
<1>6. ClosePacket' /\ RunsOnce' /\ Controlled'
  BY <1>0, ClosePacketFrame, RunsFrame, ControlledFrame DEF PipeInv
<1>7. Threads' /\ Ends'
  BY <1>0, ThreadsFrame, EndsFrame DEF PipeInv
<1>8. QED
  BY <1>3, <1>4, <1>5, <1>6, <1>7 DEF Rest

(* It gets in_use, or gives up. *)
LEMMA RestLock ==
  ASSUME PipeInv, NEW c \in Callers, LockPipe(c)
  PROVE  Rest'
<1>0. TypeOK /\ UNCHANGED <<pkt, queue, hpc, call, answer, kpc, kpkt, mode, cpsOpen, drained, place>>
  BY DEF PipeInv, LockPipe, closeVars, socketVars, cleanVars
<1>1. /\ cpc[c] = "lock" /\ cpc'[c] \in {"packet", "idle"}
      /\ \A d \in Callers : d # c => cpc'[d] = cpc[d]
  BY <1>0 DEF LockPipe, TypeOK
<1>2. Sending' = Sending
  BY <1>1 DEF Sending
<1>3. Sent'
  BY <1>0, <1>2, SentFrame DEF PipeInv
<1>4. Waiting'
  BY <1>0, <1>1, WaitingFrame DEF PipeInv
<1>5. ClosePacket' /\ RunsOnce' /\ Controlled'
  BY <1>0, ClosePacketFrame, RunsFrame, ControlledFrame DEF PipeInv
<1>6. Threads' /\ Ends' /\ AnswerTrue'
  BY <1>0, ThreadsFrame, EndsFrame, AnswerFrame DEF PipeInv
<1>7. QED
  BY <1>3, <1>4, <1>5, <1>6 DEF Rest

(* SOCLi_CreateCommandPacket: the packet names its caller, and has not run. *)
LEMMA RestCreate ==
  ASSUME PipeInv, NEW c \in Callers, CreateCommandPacket(c)
  PROVE  Rest'
<1>0. TypeOK /\ UNCHANGED <<queue, hpc, kpc, kpkt, mode, cpsOpen, drained, place, answer>>
  BY DEF PipeInv, CreateCommandPacket, closeVars, socketVars, cleanVars
<1>1. /\ cpc[c] = "packet" /\ cpc'[c] \in {"send", "idle"}
      /\ \A d \in Callers : d # c => cpc'[d] = cpc[d]
  BY <1>0 DEF CreateCommandPacket, TypeOK
<1>T. pkt \in [Packets -> PacketSort] /\ call \in [Callers -> CallSort]
  BY <1>0 DEF TypeOK, PacketSort, CallSort, Entries, Kinds
<1>2. CASE free = <<>>
  <2>1. UNCHANGED <<pkt, call>> /\ cpc'[c] = "idle"
    BY <1>0, <1>2 DEF CreateCommandPacket, TypeOK
  <2>2. Sending' = Sending
    BY <1>1, <2>1 DEF Sending
  <2>3. Sent'
    BY <2>1, <2>2, SentFrame DEF PipeInv
  <2>4. Waiting'
    BY <1>0, <1>1, <2>1, WaitingFrame DEF PipeInv
  <2>5. ClosePacket' /\ RunsOnce' /\ Controlled'
    BY <1>0, <2>1, ClosePacketFrame, RunsFrame, ControlledFrame DEF PipeInv
  <2>6. Threads' /\ Ends' /\ AnswerTrue'
    BY <1>0, <2>1, ThreadsFrame, EndsFrame, AnswerFrame DEF PipeInv
  <2>7. QED
    BY <2>3, <2>4, <2>5, <2>6 DEF Rest
<1>3. CASE free # <<>>
  <2> DEFINE x == Head(free)
             v == [by |-> c, kind |-> IF call[c].cmd.waits THEN "waits" ELSE "work",
                   reply |-> call[c].cmd.flag = "block", runs |-> 0]
  <2>1. x \in Held(free)
    BY <1>0, <1>3, TakeFree DEF CreateCommandPacket, PipeInv, Once
  <2>2. x \in Packets /\ x \notin InQueue /\ x # kpkt /\ \A d \in Sending : call[d].packet # x
    BY <2>1, FreeIsApart
  <2>3. /\ v \in PacketSort /\ v.by = c /\ v.kind # "close" /\ v.runs = 0
        /\ v.reply = (call[c].cmd.flag = "block")
    BY DEF PacketSort, Kinds
  <2>4. pkt' = [pkt EXCEPT ![x] = v] /\ call' = [call EXCEPT ![c].packet = x]
    BY <1>3 DEF CreateCommandPacket
  <2> HIDE DEF x, v
  <2>5. pkt'[x] = v /\ \A y \in Packets : y # x => pkt'[y] = pkt[y]
    BY <1>T, <2>2, <2>3, <2>4, FillTyped
  <2>6. call'[c].packet = x /\ call'[c].cmd = call[c].cmd /\ \A d \in Callers : d # c => call'[d] = call[d]
    BY <1>T, <2>2, <2>4, CarryTyped
  <2>7. \A y \in InQueue : pkt'[y] = pkt[y]
    BY <2>2, <2>5, QueuedIsApart
  <2>8. Sent'
    <3>1. SUFFICES ASSUME NEW d \in Sending'
                   PROVE  /\ pkt'[call'[d].packet].by = d
                          /\ pkt'[call'[d].packet].reply = (call'[d].cmd.flag = "block")
                          /\ pkt'[call'[d].packet].kind # "close" /\ pkt'[call'[d].packet].runs = 0
      BY DEF Sent
    <3>2. CASE d = c
      BY <2>3, <2>5, <2>6, <3>2
    <3>3. CASE d # c
      <4>1. d \in Sending /\ call'[d] = call[d]
        BY <1>1, <2>6, <3>3 DEF Sending
      <4>2. call[d].packet \in Packets /\ pkt'[call[d].packet] = pkt[call[d].packet]
        BY <2>2, <2>5, <4>1 DEF PipeInv, Once
      <4>3. QED
        BY <4>1, <4>2 DEF PipeInv, Sent
    <3>4. QED
      BY <3>2, <3>3
  <2>9. ClosePacket'
    <3>1. kpkt # Null => pkt'[kpkt] = pkt[kpkt]
      BY <1>0, <2>2, <2>5 DEF TypeOK
    <3>2. QED
      BY <1>0, <3>1, ClosePacketFrame DEF PipeInv
  <2>10. Waiting'
    BY <1>0, <1>1, <2>6, <2>7, WaitingFrame DEF PipeInv
  <2>11. RunsOnce' /\ Controlled'
    BY <1>0, <2>7, RunsFrame, ControlledFrame DEF PipeInv
  <2>12. Threads' /\ Ends' /\ AnswerTrue'
    BY <1>0, <2>7, ThreadsFrame, EndsFrame, AnswerFrame DEF PipeInv
  <2>13. QED
    BY <2>8, <2>9, <2>10, <2>11, <2>12 DEF Rest
<1>4. QED
  BY <1>2, <1>3

(* What the parts need to know of a message more in the queue of a pipe. *)
LEMMA Appended ==
  ASSUME TypeOK, Once, NEW p \in Pipes, ~Full(p), NEW x \in Entries, x \notin InQueue,
         queue' = [queue EXCEPT ![p] = Append(@, x)]
  PROVE  /\ \A r \in Pipes : queue[r] # <<>> => queue'[r] # <<>> /\ Head(queue'[r]) = Head(queue[r])
         /\ \A r \in Pipes : r # p => queue'[r] = queue[r]
         /\ Held(queue'[p]) = Held(queue[p]) \cup ({x} \cap Packets)
         /\ \A r \in Pipes : queue[r] # <<>> => Head(queue[r]) # x \/ x = Null
<1>1. /\ queue'[p] # <<>> /\ \A r \in Pipes : r # p => queue'[r] = queue[r]
      /\ Held(queue'[p]) = Held(queue[p]) \cup ({x} \cap Packets)
      /\ queue[p] # <<>> => Head(queue'[p]) = Head(queue[p])
  BY Enqueue
<1>2. \A r \in Pipes : queue[r] # <<>> => Head(queue[r]) # x \/ x = Null
  BY HeadHeld DEF InQueue, Pipes
<1>3. QED
  BY <1>1, <1>2

(* No thread is at a head it has not got. *)
LEMMA RunsAppended ==
  ASSUME PipeInv, NEW p \in Pipes, ~Full(p), NEW x \in Entries, x \notin InQueue,
         queue' = [queue EXCEPT ![p] = Append(@, x)], x # Null => pkt[x].runs = 0,
         UNCHANGED pkt, \A r \in Pipes : hpc'[r] = "reply" <=> hpc[r] = "reply"
  PROVE  RunsOnce'
<1>1. /\ \A r \in Pipes : queue[r] # <<>> => queue'[r] # <<>> /\ Head(queue'[r]) = Head(queue[r])
      /\ \A r \in Pipes : r # p => queue'[r] = queue[r]
      /\ Held(queue'[p]) = Held(queue[p]) \cup ({x} \cap Packets)
      /\ \A r \in Pipes : queue[r] # <<>> => Head(queue[r]) # x \/ x = Null
  BY Appended DEF PipeInv
<1>2. ASSUME NEW r \in Pipes, NEW y \in Held(queue'[r])
      PROVE  pkt'[y].runs = IF hpc'[r] = "reply" /\ y = Head(queue'[r]) THEN 1 ELSE 0
  <2>1. CASE y \in Held(queue[r])
    <3>1. queue[r] # <<>>
      BY <2>1, EmptyHeld
    <3>2. QED
      BY <1>1, <2>1, <3>1 DEF PipeInv, RunsOnce
  <2>2. CASE y \notin Held(queue[r])
    <3>1. r = p /\ y = x /\ x \in Packets
      BY <1>1, <1>2, <2>2
    <3>2. x # Null /\ pkt[x].runs = 0
      BY <3>1, NullIs
    <3>3. hpc[r] = "reply" => queue[r] # <<>>
      BY DEF PipeInv, Threads
    <3>4. QED
      BY <1>1, <3>1, <3>2, <3>3
  <2>3. QED
    BY <2>1, <2>2
<1>3. QED
  BY <1>2 DEF RunsOnce

(* A close command may only be put in the control pipe. *)
LEMMA ControlledAppended ==
  ASSUME PipeInv, NEW p \in Pipes, ~Full(p), NEW x \in Entries, x \notin InQueue,
         queue' = [queue EXCEPT ![p] = Append(@, x)],
         x # Null /\ pkt[x].kind = "close" => p = GetCtrlPipe,
         UNCHANGED <<pkt, mode>>
  PROVE  Controlled'
<1>1. /\ \A r \in Pipes : r # p => queue'[r] = queue[r]
      /\ Held(queue'[p]) = Held(queue[p]) \cup ({x} \cap Packets)
  BY Appended DEF PipeInv
<1>2. GetCtrlPipe' = GetCtrlPipe
  BY DEF GetCtrlPipe, Owned
<1>3. QED
  BY <1>1, <1>2, NullIs DEF PipeInv, Controlled

(* SOCLi_ExecCommandPacket: a queued packet that wants a reply has a caller *)
(* that waits, also in the step that queues it.                             *)
LEMMA RestExec ==
  ASSUME PipeInv, NEW c \in Callers, ExecCommandPacket(c)
  PROVE  Rest'
<1> DEFINE x == call[c].packet
           p == call[c].cmd.pipe
<1>0. /\ TypeOK /\ Once
      /\ UNCHANGED <<pkt, hpc, call, kpc, kpkt, mode, cpsOpen, drained, place, answer>>
  BY DEF PipeInv, ExecCommandPacket, closeVars, socketVars, cleanVars
<1>1. cpc[c] = "send" /\ \A d \in Callers : d # c => cpc'[d] = cpc[d]
  BY <1>0 DEF ExecCommandPacket, TypeOK
<1>2. /\ c \in Sending /\ x \in Packets /\ x \in Entries /\ x # Null /\ x \notin InQueue
      /\ pkt[x].by = c /\ pkt[x].reply = (call[c].cmd.flag = "block")
      /\ pkt[x].kind # "close" /\ pkt[x].runs = 0
  BY <1>0, <1>1, NullIs DEF PipeInv, Once, Sent, Sending, Entries
<1>3. p \in Pipes
  BY <1>0, CommandsAre DEF TypeOK
<1>4. cpc'[c] \in {"wait", "idle"}
  BY <1>0 DEF ExecCommandPacket, TypeOK
<1>5. Sent'
  <2>1. Sending' \subseteq Sending
    BY <1>1, <1>2 DEF Sending
  <2>2. QED
    BY <1>0, <2>1, SentFrame DEF PipeInv
<1>6. ClosePacket' /\ AnswerTrue' /\ Ends'
  BY <1>0, ClosePacketFrame, AnswerFrame, EndsFrame DEF PipeInv
<1>7. CASE ~Full(p)
  <2>1. queue' = [queue EXCEPT ![p] = Append(@, x)]
    BY <1>7 DEF ExecCommandPacket
  <2>2. cpc'[c] = "wait" <=> pkt[x].reply
    BY <1>0, <1>2, <1>7 DEF ExecCommandPacket, TypeOK
  <2>3. call[c].packet = x /\ call[c].cmd.pipe = p
    OBVIOUS
  <2> HIDE DEF x, p
  <2>4. /\ \A r \in Pipes : queue[r] # <<>> => queue'[r] # <<>> /\ Head(queue'[r]) = Head(queue[r])
        /\ \A r \in Pipes : r # p => queue'[r] = queue[r]
        /\ Held(queue'[p]) = Held(queue[p]) \cup ({x} \cap Packets)
    BY <1>0, <1>2, <1>3, <1>7, <2>1, Appended
  <2>5. RunsOnce'
    BY <1>0, <1>2, <1>3, <1>7, <2>1, RunsAppended
  <2>6. Controlled'
    BY <1>0, <1>2, <1>3, <1>7, <2>1, ControlledAppended
  <2>7. Threads'
    BY <1>0, <2>4, ThreadsFrame DEF PipeInv
  <2>8. Held(queue'[p]) = Held(queue[p]) \cup {x} /\ InQueue' = InQueue \cup {x}
    BY <1>0, <1>2, <1>3, <1>7, <2>1, InQueueGrows
  <2>9. Waiting'
    <3>1. ASSUME NEW d \in Callers, cpc'[d] = "wait"
          PROVE  /\ call[d].packet \in Held(queue'[call[d].cmd.pipe])
                 /\ pkt[call[d].packet].by = d /\ pkt[call[d].packet].reply
      <4>1. CASE d = c
        BY <1>2, <2>2, <2>3, <2>8, <3>1, <4>1
      <4>2. CASE d # c
        <5>1. /\ call[d].packet \in Held(queue[call[d].cmd.pipe])
              /\ pkt[call[d].packet].by = d /\ pkt[call[d].packet].reply
          BY <1>1, <3>1, <4>2 DEF PipeInv, Waiting
        <5>2. call[d].cmd.pipe \in Pipes
          BY <1>0, CommandsAre DEF TypeOK
        <5>3. QED
          BY <2>4, <2>8, <5>1, <5>2
      <4>3. QED
        BY <4>1, <4>2
    <3>2. ASSUME NEW y \in InQueue', pkt[y].reply
          PROVE  pkt[y].by \in Callers /\ cpc'[pkt[y].by] = "wait" /\ call[pkt[y].by].packet = y
      <4>1. CASE y = x
        BY <1>2, <2>2, <2>3, <3>2, <4>1
      <4>2. CASE y # x
        <5>1. y \in InQueue
          BY <2>8, <3>2, <4>2
        <5>2. pkt[y].by \in Callers /\ cpc[pkt[y].by] = "wait" /\ call[pkt[y].by].packet = y
          BY <3>2, <5>1 DEF PipeInv, Waiting
        <5>3. QED
          BY <1>1, <5>2
      <4>3. QED
        BY <4>1, <4>2
    <3>3. QED
      BY <1>0, <3>1, <3>2 DEF Waiting
  <2>10. QED
    BY <1>5, <1>6, <2>5, <2>6, <2>7, <2>9 DEF Rest
<1>8. CASE Full(p)
  <2>1. queue' = queue /\ cpc'[c] = "idle"
    BY <1>0, <1>8 DEF ExecCommandPacket, TypeOK
  <2>2. Waiting'
    BY <1>0, <1>1, <2>1, WaitingFrame DEF PipeInv
  <2>3. RunsOnce' /\ Controlled' /\ Threads'
    BY <1>0, <2>1, RunsFrame, ControlledFrame, ThreadsFrame DEF PipeInv
  <2>4. QED
    BY <1>5, <1>6, <2>2, <2>3 DEF Rest
<1>9. QED
  BY <1>7, <1>8

-----------------------------------------------------------------------------
(* SOCL_Close and the threads. *)

(* A NULL message changes nothing of what is queued. *)
LEMMA RestNull ==
  ASSUME PipeInv, NEW p \in Pipes, ~Full(p), queue' = [queue EXCEPT ![p] = Append(@, Null)],
         UNCHANGED <<free, pkt, cpc, call, answer, mode, kpkt>>,
         \A r \in Pipes : hpc'[r] = "reply" <=> hpc[r] = "reply"
  PROVE  /\ Sent' /\ Waiting' /\ RunsOnce' /\ Controlled' /\ AnswerTrue'
         /\ \A r \in Pipes : queue[r] # <<>> => queue'[r] # <<>> /\ Head(queue'[r]) = Head(queue[r])
<1>0. TypeOK /\ Once /\ Placed /\ Null \in Entries /\ Null \notin InQueue
  BY NullIs DEF PipeInv, Entries, InQueue, Held
<1>1. Sent'
  BY SentFrame DEF PipeInv, Sending
<1>2. \A r \in Pipes : Held(queue'[r]) = Held(queue[r])
  BY <1>0, OnceNull
<1>3. Waiting'
  BY <1>2, WaitingFrame DEF PipeInv
<1>4. RunsOnce'
  BY <1>0, RunsAppended
<1>5. Controlled'
  BY <1>2, ControlledFrame DEF PipeInv
<1>6. \A r \in Pipes : queue[r] # <<>> => queue'[r] # <<>> /\ Head(queue'[r]) = Head(queue[r])
  BY <1>0, Appended
<1>7. AnswerTrue'
  BY AnswerFrame DEF PipeInv
<1>8. QED
  BY <1>1, <1>3, <1>4, <1>5, <1>6, <1>7

(* SOCL_Close begins. *)
LEMMA RestClose == ASSUME PipeInv, Close PROVE Rest'
<1>1. UNCHANGED <<pkt, queue, hpc, cpc, call, kpkt, mode, answer, cpsOpen, drained, place>>
  BY DEF Close, callerVars, socketVars, cleanVars
<1>2. ClosePacket'
  BY <1>1 DEF Close, PipeInv, ClosePacket
<1>3. Sent' /\ Waiting' /\ RunsOnce' /\ Controlled' /\ AnswerTrue'
  BY <1>1, SentFrame, WaitingFrame, RunsFrame, ControlledFrame, AnswerFrame DEF PipeInv, Sending
<1>4. Threads' /\ Ends'
  BY <1>1, ThreadsFrame, EndsFrame DEF PipeInv
<1>5. QED
  BY <1>2, <1>3, <1>4 DEF Rest

(* Its NULL message. *)
LEMMA RestCloseNull == ASSUME PipeInv, CloseNull PROVE Rest'
<1>1. /\ UNCHANGED <<free, pkt, hpc, cpc, call, kpkt, mode, answer, cpsOpen, drained, place>>
      /\ "send" \in Pipes /\ ~Full("send") /\ queue' = [queue EXCEPT !["send"] = Append(@, Null)]
  BY DEF CloseNull, callerVars, socketVars, cleanVars, Pipes
<1>2. /\ Sent' /\ Waiting' /\ RunsOnce' /\ Controlled' /\ AnswerTrue'
      /\ \A r \in Pipes : queue[r] # <<>> => queue'[r] # <<>> /\ Head(queue'[r]) = Head(queue[r])
  BY <1>1, RestNull
<1>3. ClosePacket'
  BY <1>1 DEF CloseNull, PipeInv, ClosePacket
<1>4. Threads' /\ Ends'
  BY <1>1, <1>2, ThreadsFrame, EndsFrame DEF PipeInv
<1>5. QED
  BY <1>2, <1>3, <1>4 DEF Rest

(* Its packet, which answers nobody. *)
LEMMA RestCreateClose == ASSUME PipeInv, CreateClosePacket PROVE Rest'
<1>1. /\ UNCHANGED <<queue, hpc, cpc, call, mode, answer, cpsOpen, drained, place>>
      /\ TypeOK /\ pkt \in [Packets -> PacketSort]
  BY DEF CreateClosePacket, callerVars, socketVars, cleanVars, PipeInv, TypeOK, PacketSort, Kinds
<1> DEFINE x == Head(free)
           v == [Blank EXCEPT !.kind = "close"]
<1>2. x \in Held(free)
  BY <1>1, TakeFree DEF CreateClosePacket, PipeInv, Once
<1>3. x \in Packets /\ x \notin InQueue /\ x # kpkt /\ \A d \in Sending : call[d].packet # x
  BY <1>2, FreeIsApart
<1>4. v \in PacketSort /\ v.kind = "close" /\ ~v.reply /\ v.runs = 0
  BY DEF PacketSort, Kinds, Blank
<1>5. pkt' = [pkt EXCEPT ![x] = v] /\ kpkt' = x /\ kpc' = "send"
  BY DEF CreateClosePacket
<1> HIDE DEF x, v
<1>6. pkt'[x] = v /\ \A y \in Packets : y # x => pkt'[y] = pkt[y]
  BY <1>1, <1>3, <1>4, <1>5, FillTyped
<1>7. \A y \in InQueue : pkt'[y] = pkt[y]
  BY <1>3, <1>6, QueuedIsApart
<1>8. \A d \in Sending : pkt'[call[d].packet] = pkt[call[d].packet]
  BY <1>3, <1>6 DEF PipeInv, Once
<1>9. Sent'
  BY <1>1, <1>8, SentFrame DEF PipeInv, Sending
<1>10. ClosePacket'
  BY <1>3, <1>4, <1>5, <1>6, NullIs DEF ClosePacket
<1>11. Waiting' /\ RunsOnce' /\ Controlled'
  BY <1>1, <1>7, WaitingFrame, RunsFrame, ControlledFrame DEF PipeInv
<1>12. Threads' /\ Ends' /\ AnswerTrue'
  BY <1>1, <1>7, ThreadsFrame, EndsFrame, AnswerFrame DEF PipeInv
<1>13. QED
  BY <1>9, <1>10, <1>11, <1>12 DEF Rest

(* The close command is queued in the control pipe. *)
LEMMA RestSendClose == ASSUME PipeInv, SendClose PROVE Rest'
<1> DEFINE p == GetCtrlPipe
<1>0. /\ UNCHANGED <<free, pkt, hpc, cpc, call, mode, answer, cpsOpen, drained, place>>
      /\ TypeOK /\ Once
  BY DEF SendClose, callerVars, socketVars, cleanVars, PipeInv
<1>1. /\ kpkt \in Packets /\ kpkt \in Entries /\ kpkt # Null /\ kpkt \notin InQueue
      /\ ~pkt[kpkt].reply /\ pkt[kpkt].runs = 0
  BY <1>0 DEF SendClose, PipeInv, ClosePacket, Once, TypeOK, Entries
<1>2. p \in Pipes /\ ~Full(p) /\ queue' = [queue EXCEPT ![p] = Append(@, kpkt)]
  BY <1>0, PipesAre DEF SendClose
<1>3. ClosePacket'
  BY DEF SendClose, ClosePacket
<1>4. Sent'
  BY <1>0, SentFrame DEF PipeInv, Sending
<1>5. Ends' /\ AnswerTrue'
  BY <1>0, EndsFrame, AnswerFrame DEF PipeInv
<1>6. Controlled'
  BY <1>0, <1>1, <1>2, ControlledAppended
<1> HIDE DEF p
<1>7. RunsOnce'
  BY <1>0, <1>1, <1>2, RunsAppended
<1>8. \A r \in Pipes : queue[r] # <<>> => queue'[r] # <<>> /\ Head(queue'[r]) = Head(queue[r])
  BY <1>0, <1>1, <1>2, Appended
<1>9. Threads'
  BY <1>0, <1>8, ThreadsFrame DEF PipeInv
<1>10. /\ InQueue' = InQueue \cup {kpkt} /\ Held(queue'[p]) = Held(queue[p]) \cup {kpkt}
       /\ \A r \in Pipes : r # p => queue'[r] = queue[r]
  BY <1>0, <1>1, <1>2, InQueueGrows
<1>11. \A r \in Pipes : Held(queue[r]) \subseteq Held(queue'[r])
  BY <1>10
<1>12. Waiting'
  <2>1. \A c \in Callers : call[c].cmd.pipe \in Pipes
    BY <1>0, CommandsAre DEF TypeOK
  <2>2. \A x \in InQueue' : pkt[x].reply => x \in InQueue
    BY <1>1, <1>10
  <2>3. (\A c \in Callers : cpc[c] = "wait" =>
          /\ call[c].packet \in Held(queue[call[c].cmd.pipe])
          /\ pkt[call[c].packet].by = c /\ pkt[call[c].packet].reply)'
    BY <1>0, <1>11, <2>1 DEF PipeInv, Waiting
  <2>4. (\A x \in InQueue : pkt[x].reply =>
          pkt[x].by \in Callers /\ cpc[pkt[x].by] = "wait" /\ call[pkt[x].by].packet = x)'
    BY <1>0, <2>2 DEF PipeInv, Waiting
  <2>5. QED
    BY <2>3, <2>4 DEF Waiting
<1>13. QED
  BY <1>3, <1>4, <1>5, <1>6, <1>7, <1>9, <1>12 DEF Rest

(* OS_ReadMessage: what the thread goes on to do fits what it read. *)
LEMMA RestRead == ASSUME PipeInv, NEW p \in Pipes, ReadMessage(p) PROVE Rest'
<1>0. /\ UNCHANGED <<free, pkt, queue, cpc, call, kpkt, kpc, mode, answer, cpsOpen, drained, place>>
      /\ TypeOK
  BY DEF ReadMessage, callerVars, closeVars, socketVars, cleanVars, PipeInv
<1>1. /\ hpc[p] = "read" /\ queue[p] # <<>> /\ \A r \in Pipes : r # p => hpc'[r] = hpc[r]
      /\ hpc'[p] = IF Head(queue[p]) = Null THEN "exit"
                   ELSE IF Head1(p).kind # "close" THEN "run"
                   ELSE IF mode = "TCP" THEN "join" ELSE "end"
  BY <1>0 DEF ReadMessage, TypeOK
<1>2. Sent' /\ ClosePacket' /\ Waiting' /\ Controlled' /\ AnswerTrue'
  BY <1>0, SentFrame, ClosePacketFrame, WaitingFrame, ControlledFrame, AnswerFrame DEF PipeInv, Sending
<1>3. RunsOnce'
  <2>1. \A r \in Pipes : hpc'[r] = "reply" <=> hpc[r] = "reply"
    BY <1>1
  <2>2. QED
    BY <1>0, <2>1, RunsFrame DEF PipeInv
<1>4. Threads'
  <2>1. ASSUME NEW r \in Pipes
        PROVE  /\ hpc'[r] \in {"run", "join", "end", "trash", "reply"} =>
                    queue[r] # <<>> /\ Head(queue[r]) # Null
               /\ hpc'[r] = "run" => pkt[Head(queue[r])].kind # "close"
               /\ hpc'[r] \in {"join", "end", "trash"} => pkt[Head(queue[r])].kind = "close"
               /\ hpc'[r] = "exit" /\ r \notin drained => queue[r] # <<>> /\ Head(queue[r]) = Null
    <3>1. CASE r = p
      BY <1>1, <3>1 DEF Head1
    <3>2. CASE r # p
      BY <1>1, <3>2 DEF PipeInv, Threads, Head1
    <3>3. QED
      BY <3>1, <3>2
  <2>2. QED
    BY <1>0, <2>1 DEF Threads, Head1
<1>5. Ends'
  <2>1. "send" \in Pipes /\ "recv" \in Pipes
    BY DEF Pipes
  <2>2. \A r \in Pipes : hpc[r] = "exit" => hpc'[r] = "exit"
    BY <1>1
  <2>3. mode = "TCP" => (hpc'["recv"] \in {"end", "trash"} => hpc["recv"] \in {"end", "trash"})
    BY <1>1, <2>1
  <2>4. drained \subseteq Pipes
    BY <1>0 DEF TypeOK
  <2>5. QED
    BY <1>0, <2>1, <2>2, <2>3, <2>4 DEF PipeInv, Ends, Stopped
<1>6. QED
  BY <1>2, <1>3, <1>4, <1>5 DEF Rest

(* A handler has done its work: the command at the head ran once. *)
LEMMA RestHandled ==
  ASSUME PipeInv, NEW p \in Pipes, hpc[p] \in {"run", "trash"},
         pkt' = [pkt EXCEPT ![Head(queue[p])].runs = @ + 1], hpc' = [hpc EXCEPT ![p] = "reply"],
         UNCHANGED <<free, queue, cpc, call, answer, kpc, kpkt, mode, cpsOpen, drained>>,
         place' # "freed" \/ place' = place
  PROVE  Rest'
<1> DEFINE x == Head(queue[p])
<1>0. TypeOK /\ pkt \in [Packets -> PacketSort]
  BY DEF PipeInv, TypeOK, PacketSort, Kinds
<1>1. x \in Packets /\ x \in Held(queue[p]) /\ x \in InQueue /\ queue[p] # <<>> /\ x # Null
  BY AtHead, NullIs
<1>2. hpc'[p] = "reply" /\ hpc[p] # "reply" /\ \A r \in Pipes : r # p => hpc'[r] = hpc[r]
  BY <1>0 DEF TypeOK
<1>3. /\ pkt'[x].runs = pkt[x].runs + 1 /\ \A y \in Packets : y # x => pkt'[y] = pkt[y]
      /\ \A y \in Packets : /\ pkt'[y].by = pkt[y].by /\ pkt'[y].kind = pkt[y].kind
                            /\ pkt'[y].reply = pkt[y].reply
  BY <1>0, <1>1, RunTyped
<1>4. \A y \in InQueue : y \in Packets
  BY QueuedIsApart
<1>5. x = Head(queue[p])
  OBVIOUS
<1> HIDE DEF x
<1>6. Sent'
  <2>1. \A c \in Sending : pkt'[call[c].packet] = pkt[call[c].packet]
    BY <1>1, <1>3 DEF PipeInv, Once
  <2>2. QED
    BY <2>1, SentFrame DEF PipeInv, Sending
<1>7. ClosePacket'
  <2>1. kpkt # Null => pkt'[kpkt] = pkt[kpkt]
    BY <1>0, <1>1, <1>3, QueuedIsApart DEF TypeOK
  <2>2. QED
    BY <2>1, ClosePacketFrame DEF PipeInv
<1>8. Waiting' /\ Controlled' /\ AnswerTrue'
  BY <1>3, <1>4, WaitingFrame, ControlledFrame, AnswerFrame DEF PipeInv
<1>9. RunsOnce'
  <2>1. ASSUME NEW r \in Pipes, NEW y \in Held(queue[r])
        PROVE  pkt'[y].runs = IF hpc'[r] = "reply" /\ y = Head(queue[r]) THEN 1 ELSE 0
    <3>0. y \in Packets
      BY DEF Held
    <3>1. CASE y = x
      <4>1. r = p
        BY <1>1, <2>1, <3>1 DEF PipeInv, Once, Pipes
      <4>2. pkt[x].runs = 0
        BY <1>1, <1>2 DEF PipeInv, RunsOnce
      <4>3. QED
        BY <1>2, <1>3, <1>5, <3>1, <4>1, <4>2
    <3>2. CASE y # x
      <4>1. pkt'[y] = pkt[y]
        BY <1>3, <3>0, <3>2
      <4>2. pkt[y].runs = IF hpc[r] = "reply" /\ y = Head(queue[r]) THEN 1 ELSE 0
        BY <2>1 DEF PipeInv, RunsOnce
      <4>3. QED
        BY <1>2, <1>5, <3>2, <4>1, <4>2
    <3>3. QED
      BY <3>1, <3>2
  <2>2. QED
    BY <2>1 DEF RunsOnce
<1>10. Threads'
  <2>1. ASSUME NEW r \in Pipes
        PROVE  /\ hpc'[r] \in {"run", "join", "end", "trash", "reply"} =>
                    queue[r] # <<>> /\ Head(queue[r]) # Null
               /\ hpc'[r] = "run" => pkt'[Head(queue[r])].kind # "close"
               /\ hpc'[r] \in {"join", "end", "trash"} => pkt'[Head(queue[r])].kind = "close"
               /\ hpc'[r] = "exit" /\ r \notin drained => queue[r] # <<>> /\ Head(queue[r]) = Null
    <3>1. CASE r = p
      BY <1>1, <1>2, <1>5, <3>1
    <3>2. CASE r # p
      <4>1. hpc'[r] = hpc[r]
        BY <1>2, <3>2
      <4>2. hpc[r] \in {"run", "join", "end", "trash"} => pkt'[Head(queue[r])].kind = pkt[Head(queue[r])].kind
        BY <1>3, AtHead
      <4>3. QED
        BY <4>1, <4>2 DEF PipeInv, Threads, Head1
    <3>3. QED
      BY <3>1, <3>2
  <2>2. QED
    BY <2>1 DEF Threads, Head1
<1>11. Ends'
  <2>1. "send" \in Pipes /\ "recv" \in Pipes /\ drained \subseteq Pipes
    BY <1>0 DEF Pipes, TypeOK
  <2>2. \A r \in Pipes : hpc[r] = "exit" => hpc'[r] = "exit"
    BY <1>2
  <2>3. hpc'["recv"] \in {"end", "trash"} => hpc["recv"] \in {"end", "trash"}
    BY <1>2, <2>1
  <2>4. QED
    BY <2>1, <2>2, <2>3 DEF PipeInv, Ends, Stopped
<1>12. QED
  BY <1>6, <1>7, <1>8, <1>9, <1>10, <1>11 DEF Rest

(* The handler of an ordinary command came back. *)
LEMMA RestRan == ASSUME PipeInv, NEW p \in Pipes, hpc[p] = "run", Ran(p) PROVE Rest'
BY RestHandled DEF Ran, callerVars, closeVars, socketVars, cleanVars

(* And that of the close command. *)
LEMMA RestTrash == ASSUME PipeInv, NEW p \in Pipes, MoveToTrash(p) PROVE Rest'
BY RestHandled DEF MoveToTrash, callerVars, closeVars, cleanVars

(* SOCLi_CloseCallBack goes on once the send thread has ended. *)
LEMMA RestJoin == ASSUME PipeInv, JoinSendThread PROVE Rest'
<1>0. /\ UNCHANGED <<free, pkt, queue, cpc, call, kpkt, kpc, mode, answer, drained, place>>
      /\ TypeOK /\ "recv" \in Pipes /\ "send" \in Pipes
  BY DEF JoinSendThread, callerVars, closeVars, cleanVars, PipeInv, Pipes
<1>1. /\ hpc["recv"] = "join" /\ hpc["send"] = "exit"
      /\ hpc'["recv"] = "end" /\ \A r \in Pipes : r # "recv" => hpc'[r] = hpc[r]
  BY <1>0 DEF JoinSendThread, TypeOK
<1>2. Sent' /\ ClosePacket' /\ Waiting' /\ Controlled' /\ AnswerTrue'
  BY <1>0, SentFrame, ClosePacketFrame, WaitingFrame, ControlledFrame, AnswerFrame DEF PipeInv, Sending
<1>3. RunsOnce'
  <2>1. \A r \in Pipes : hpc'[r] = "reply" <=> hpc[r] = "reply"
    BY <1>1
  <2>2. QED
    BY <1>0, <2>1, RunsFrame DEF PipeInv
<1>4. Threads'
  <2>1. \A r \in Pipes : r # "recv" => hpc'[r] = hpc[r]
    BY <1>1
  <2>2. QED
    BY <1>0, <1>1, <2>1 DEF PipeInv, Threads, Head1
<1>5. Ends'
  <2>1. hpc'["send"] = "exit" /\ \A r \in Pipes : hpc[r] = "exit" => hpc'[r] = "exit"
    BY <1>0, <1>1
  <2>2. drained \subseteq Pipes
    BY <1>0 DEF TypeOK
  <2>3. QED
    BY <1>0, <2>1, <2>2 DEF PipeInv, Ends, Stopped
<1>6. QED
  BY <1>2, <1>3, <1>4, <1>5 DEF Rest

(* Only the control pipe's thread ends its own pipe. *)
LEMMA RestEnd == ASSUME PipeInv, NEW p \in Pipes, EndOwnPipe(p) PROVE Rest'
<1>0. /\ UNCHANGED <<free, pkt, cpc, call, kpkt, kpc, mode, answer, drained, place>>
      /\ TypeOK /\ "recv" \in Pipes /\ "send" \in Pipes
      /\ ~Full(p) /\ queue' = [queue EXCEPT ![p] = Append(@, Null)]
  BY DEF EndOwnPipe, callerVars, closeVars, cleanVars, PipeInv, Pipes
<1>1. hpc[p] = "end" /\ hpc'[p] = "trash" /\ \A r \in Pipes : r # p => hpc'[r] = hpc[r]
  BY <1>0 DEF EndOwnPipe, TypeOK
<1>2. \A r \in Pipes : hpc'[r] = "reply" <=> hpc[r] = "reply"
  BY <1>1
<1>3. /\ Sent' /\ Waiting' /\ RunsOnce' /\ Controlled' /\ AnswerTrue'
      /\ \A r \in Pipes : queue[r] # <<>> => queue'[r] # <<>> /\ Head(queue'[r]) = Head(queue[r])
  BY <1>0, <1>2, RestNull
<1>4. ClosePacket'
  BY <1>0, ClosePacketFrame DEF PipeInv
<1>5. Threads'
  <2>1. ASSUME NEW r \in Pipes
        PROVE  /\ hpc'[r] \in {"run", "join", "end", "trash", "reply"} =>
                    queue'[r] # <<>> /\ Head(queue'[r]) # Null
               /\ hpc'[r] = "run" => pkt[Head(queue'[r])].kind # "close"
               /\ hpc'[r] \in {"join", "end", "trash"} => pkt[Head(queue'[r])].kind = "close"
               /\ hpc'[r] = "exit" /\ r \notin drained => queue'[r] # <<>> /\ Head(queue'[r]) = Null
    <3>1. CASE r = p
      BY <1>1, <1>3, <3>1 DEF PipeInv, Threads, Head1
    <3>2. CASE r # p
      BY <1>1, <1>3, <3>2 DEF PipeInv, Threads, Head1
    <3>3. QED
      BY <3>1, <3>2
  <2>2. QED
    BY <1>0, <2>1 DEF Threads, Head1
<1>6. Ends'
  <2>1. pkt[Head(queue[p])].kind = "close" /\ Head(queue[p]) \in Held(queue[p])
    BY <1>1, AtHead DEF PipeInv, Threads, Head1
  <2>2. p = GetCtrlPipe
    BY <2>1 DEF PipeInv, Controlled
  <2>3. mode = "TCP" => p = "recv"
    BY <2>2 DEF GetCtrlPipe, Owned, Pipes
  <2>4. mode = "TCP" => hpc'["send"] = "exit"
    BY <1>0, <1>1, <2>3 DEF PipeInv, Ends
  <2>5. \A r \in Pipes : hpc[r] = "exit" => hpc'[r] = "exit"
    BY <1>1
  <2>6. drained \subseteq Pipes
    BY <1>0 DEF TypeOK
  <2>7. QED
    BY <1>0, <2>4, <2>5, <2>6 DEF PipeInv, Ends, Stopped
<1>7. QED
  BY <1>3, <1>4, <1>5, <1>6 DEF Rest

-----------------------------------------------------------------------------
(* Answers. *)

(* Packets that leave a queue answer those that wait for them. *)
LEMMA WaitingAnswered ==
  ASSUME PipeInv, NEW p \in Pipes, NEW S \in SUBSET Held(queue[p]),
         Held(queue'[p]) = Held(queue[p]) \ S, \A r \in Pipes : r # p => queue'[r] = queue[r],
         InQueue' = InQueue \ S,
         UNCHANGED <<pkt, call>>,
         \A c \in Callers : cpc'[c] = IF \E x \in S : c \in Woken(x) THEN "idle" ELSE cpc[c]
  PROVE  Waiting'
<1>1. S \subseteq InQueue /\ TypeOK /\ Waiting
  BY DEF InQueue, Pipes, PipeInv
<1>2. ASSUME NEW c \in Callers, cpc'[c] = "wait"
      PROVE  /\ call[c].packet \in Held(queue'[call[c].cmd.pipe])
             /\ pkt[call[c].packet].by = c /\ pkt[call[c].packet].reply
  <2>1. cpc[c] = "wait" /\ \A x \in S : c \notin Woken(x)
    BY <1>2
  <2>2. /\ call[c].packet \in Held(queue[call[c].cmd.pipe])
        /\ pkt[call[c].packet].by = c /\ pkt[call[c].packet].reply
    BY <1>1, <2>1 DEF Waiting
  <2>3. call[c].packet \notin S
    BY <2>1, <2>2 DEF Woken
  <2>4. call[c].cmd.pipe \in Pipes
    BY <1>1, CommandsAre DEF TypeOK
  <2>5. QED
    BY <2>2, <2>3, <2>4
<1>3. ASSUME NEW y \in InQueue', pkt[y].reply
      PROVE  pkt[y].by \in Callers /\ cpc'[pkt[y].by] = "wait" /\ call[pkt[y].by].packet = y
  <2>1. y \in InQueue /\ y \notin S
    BY <1>3
  <2>2. pkt[y].by \in Callers /\ cpc[pkt[y].by] = "wait" /\ call[pkt[y].by].packet = y
    BY <1>1, <1>3, <2>1 DEF Waiting
  <2>3. \A x \in S : pkt[y].by \notin Woken(x)
    BY <1>1, <2>1, <2>2, WokenIs
  <2>4. QED
    BY <2>2, <2>3
<1>4. QED
  BY <1>2, <1>3 DEF Waiting

(* The response of a command that ran. *)
LEMMA RestReply == ASSUME PipeInv, NEW p \in Pipes, Reply(p) PROVE Rest'
<1> DEFINE x == Head(queue[p])
<1>0. /\ UNCHANGED <<pkt, call, kpkt, kpc, mode, cpsOpen, drained, place>>
      /\ TypeOK /\ hpc[p] = "reply" /\ "recv" \in Pipes /\ "send" \in Pipes
      /\ answer \in [Callers -> Answers]
  BY DEF Reply, closeVars, socketVars, cleanVars, PipeInv, TypeOK, Answers, Pipes
<1>1. x \in Packets /\ x \in Held(queue[p]) /\ x \in InQueue /\ queue[p] # <<>>
  BY <1>0, AtHead
<1>2. hpc'[p] = "read" /\ \A r \in Pipes : r # p => hpc'[r] = hpc[r]
  BY <1>0 DEF Reply, TypeOK
<1>3. /\ \A r \in Pipes : r # p => queue'[r] = queue[r]
      /\ Held(queue'[p]) = Held(queue[p]) \ {x} /\ Inj(queue'[p])
  BY <1>0, <1>1, Dequeue DEF Reply, PipeInv, Once
<1>4. /\ \A c \in Callers : cpc'[c] = IF c \in Woken(x) THEN "idle" ELSE cpc[c]
      /\ \A c \in Callers : answer'[c] = IF c \in Woken(x)
                                         THEN [told |-> "result", runs |-> pkt[x].runs] ELSE answer[c]
  BY DEF Reply
<1>5. pkt[x].runs = 1
  BY <1>0, <1>1 DEF PipeInv, RunsOnce
<1> HIDE DEF x
<1>6. Sent'
  <2>1. Sending' \subseteq Sending
    BY <1>4 DEF Sending
  <2>2. QED
    BY <1>0, <2>1, SentFrame DEF PipeInv
<1>7. ClosePacket'
  BY <1>0, ClosePacketFrame DEF PipeInv
<1>8. Controlled'
  <2>1. \A r \in Pipes : Held(queue'[r]) \subseteq Held(queue[r])
    BY <1>3
  <2>2. QED
    BY <1>0, <2>1, ControlledFrame DEF PipeInv
<1>9. AnswerTrue'
  BY <1>4, <1>5 DEF PipeInv, AnswerTrue
<1>10. Waiting'
  <2>1. {x} \in SUBSET Held(queue[p])
    BY <1>1
  <2>2. InQueue' = InQueue \ {x}
    BY <1>0, <1>3, <2>1, InQueueShrinks DEF PipeInv
  <2>3. \A c \in Callers : cpc'[c] = IF \E y \in {x} : c \in Woken(y) THEN "idle" ELSE cpc[c]
    BY <1>4
  <2>4. QED
    BY <1>0, <1>3, <2>1, <2>2, <2>3, WaitingAnswered
<1>11. RunsOnce'
  <2>1. ASSUME NEW r \in Pipes, NEW y \in Held(queue'[r])
        PROVE  pkt[y].runs = IF hpc'[r] = "reply" /\ y = Head(queue'[r]) THEN 1 ELSE 0
    <3>1. CASE r = p
      <4>1. y \in Held(queue[p]) /\ y # x
        BY <1>3, <2>1, <3>1
      <4>2. QED
        BY <1>2, <3>1, <4>1 DEF PipeInv, RunsOnce, x
    <3>2. CASE r # p
      <4>1. queue'[r] = queue[r] /\ hpc'[r] = hpc[r]
        BY <1>2, <1>3, <3>2
      <4>2. QED
        BY <2>1, <4>1 DEF PipeInv, RunsOnce
    <3>3. QED
      BY <3>1, <3>2
  <2>2. QED
    BY <1>0, <2>1 DEF RunsOnce
<1>12. Threads'
  <2>1. ASSUME NEW r \in Pipes
        PROVE  /\ hpc'[r] \in {"run", "join", "end", "trash", "reply"} =>
                    queue'[r] # <<>> /\ Head(queue'[r]) # Null
               /\ hpc'[r] = "run" => pkt[Head(queue'[r])].kind # "close"
               /\ hpc'[r] \in {"join", "end", "trash"} => pkt[Head(queue'[r])].kind = "close"
               /\ hpc'[r] = "exit" /\ r \notin drained => queue'[r] # <<>> /\ Head(queue'[r]) = Null
    <3>1. CASE r = p
      BY <1>2, <3>1
    <3>2. CASE r # p
      <4>1. queue'[r] = queue[r] /\ hpc'[r] = hpc[r]
        BY <1>2, <1>3, <3>2
      <4>2. QED
        BY <4>1 DEF PipeInv, Threads, Head1
    <3>3. QED
      BY <3>1, <3>2
  <2>2. QED
    BY <1>0, <2>1 DEF Threads, Head1
<1>13. Ends'
  <2>1. \A r \in Pipes : hpc[r] = "exit" => hpc'[r] = "exit"
    BY <1>0, <1>2
  <2>2. hpc'["recv"] \in {"end", "trash"} => hpc["recv"] \in {"end", "trash"}
    BY <1>0, <1>2
  <2>3. drained \subseteq Pipes
    BY <1>0 DEF TypeOK
  <2>4. QED
    BY <1>0, <2>1, <2>2, <2>3 DEF PipeInv, Ends, Stopped
<1>14. QED
  BY <1>6, <1>7, <1>8, <1>9, <1>10, <1>11, <1>12, <1>13 DEF Rest

(* SOCLi_FreeCommandPipe: the thread has ended, so none of its commands was *)
(* being answered and none of them ran.                                     *)
LEMMA RestDrain == ASSUME PipeInv, NEW p \in Pipes, FreeCommandPipe(p) PROVE Rest'
<1> DEFINE S == Held(queue[p])
<1>0. /\ UNCHANGED <<pkt, hpc, call, kpkt, kpc, mode, cpsOpen, place>>
      /\ TypeOK /\ hpc[p] = "exit" /\ drained' = drained \cup {p}
      /\ queue' = [queue EXCEPT ![p] = <<>>]
  BY DEF FreeCommandPipe, Drain, closeVars, socketVars, PipeInv
<1>1. Queued(p) = S /\ S \subseteq InQueue
  BY <1>0, QueuedIs DEF InQueue, Pipes
<1>2. queue'[p] = <<>> /\ \A r \in Pipes : r # p => queue'[r] = queue[r]
  BY <1>0 DEF TypeOK
<1>3. Held(queue'[p]) = S \ S /\ Inj(queue'[p])
  BY <1>2, EmptyHeld
<1>4. /\ \A c \in Callers : cpc'[c] = IF \E y \in S : c \in Woken(y) THEN "idle" ELSE cpc[c]
      /\ \A c \in Callers : answer'[c] = IF \E y \in S : c \in Woken(y)
           THEN [told |-> "canceled", runs |-> pkt[call[c].packet].runs] ELSE answer[c]
  BY <1>1 DEF FreeCommandPipe, Drain
<1>5. \A y \in S : pkt[y].runs = 0
  BY <1>0 DEF PipeInv, RunsOnce
<1>6. S = Held(queue[p])
  OBVIOUS
<1> HIDE DEF S
<1>7. Sent'
  <2>1. Sending' \subseteq Sending
    BY <1>4 DEF Sending
  <2>2. QED
    BY <1>0, <2>1, SentFrame DEF PipeInv
<1>8. ClosePacket'
  BY <1>0, ClosePacketFrame DEF PipeInv
<1>9. Controlled'
  <2>1. \A r \in Pipes : Held(queue'[r]) \subseteq Held(queue[r])
    BY <1>2, <1>3
  <2>2. QED
    BY <1>0, <2>1, ControlledFrame DEF PipeInv
<1>10. AnswerTrue'
  <2>1. ASSUME NEW c \in Callers, NEW y \in S, c \in Woken(y) PROVE pkt[call[c].packet].runs = 0
    BY <1>0, <1>1, <1>5, <2>1, WokenIs DEF PipeInv
  <2>2. ASSUME NEW c \in Callers
        PROVE  /\ answer'[c].told = "result" => answer'[c].runs = 1
               /\ answer'[c].told = "canceled" => answer'[c].runs = 0
    <3>1. CASE \E y \in S : c \in Woken(y)
      <4>1. answer'[c] = [told |-> "canceled", runs |-> 0]
        BY <1>4, <2>1, <3>1
      <4>2. QED
        BY <4>1
    <3>2. CASE ~\E y \in S : c \in Woken(y)
      <4>1. answer'[c] = answer[c]
        BY <1>4, <3>2
      <4>2. QED
        BY <4>1 DEF PipeInv, AnswerTrue
    <3>3. QED
      BY <3>1, <3>2
  <2>3. QED
    BY <2>2 DEF AnswerTrue
<1>11. Waiting'
  <2>1. InQueue' = InQueue \ S
    BY <1>0, <1>2, <1>3, <1>6, InQueueShrinks DEF PipeInv
  <2>2. QED
    BY <1>0, <1>2, <1>3, <1>4, <1>6, <2>1, WaitingAnswered
<1>12. RunsOnce'
  <2>1. ASSUME NEW r \in Pipes, NEW y \in Held(queue'[r])
        PROVE  pkt[y].runs = IF hpc[r] = "reply" /\ y = Head(queue'[r]) THEN 1 ELSE 0
    <3>1. r # p
      BY <1>3, <2>1
    <3>2. QED
      BY <1>2, <2>1, <3>1 DEF PipeInv, RunsOnce
  <2>2. QED
    BY <1>0, <2>1 DEF RunsOnce
<1>13. Threads'
  <2>1. ASSUME NEW r \in Pipes
        PROVE  /\ hpc[r] \in {"run", "join", "end", "trash", "reply"} =>
                    queue'[r] # <<>> /\ Head(queue'[r]) # Null
               /\ hpc[r] = "run" => pkt[Head(queue'[r])].kind # "close"
               /\ hpc[r] \in {"join", "end", "trash"} => pkt[Head(queue'[r])].kind = "close"
               /\ hpc[r] = "exit" /\ r \notin drained' => queue'[r] # <<>> /\ Head(queue'[r]) = Null
    <3>1. CASE r = p
      BY <1>0, <3>1
    <3>2. CASE r # p
      BY <1>0, <1>2, <3>2 DEF PipeInv, Threads, Head1
    <3>3. QED
      BY <3>1, <3>2
  <2>2. QED
    BY <1>0, <2>1 DEF Threads, Head1
<1>14. Ends'
  BY <1>0 DEF PipeInv, Ends, Stopped
<1>15. QED
  BY <1>7, <1>8, <1>9, <1>10, <1>11, <1>12, <1>13, <1>14 DEF Rest

(* The socket is freed when its pipes are drained. *)
LEMMA RestFree == ASSUME PipeInv, FreeSocket PROVE Rest'
<1>1. /\ UNCHANGED <<pkt, queue, hpc, cpc, call, kpc, kpkt, mode, answer, cpsOpen, drained>>
      /\ Stopped(mode) \subseteq drained
  BY DEF FreeSocket, callerVars, closeVars
<1>2. Ends'
  BY <1>1 DEF PipeInv, Ends, Stopped
<1>3. QED
  BY <1>1, <1>2, RestFrame DEF Rest

-----------------------------------------------------------------------------
(* The invariant. *)

(* Every step keeps the parts of the invariant that speak of what packets say. *)
LEMMA RestStep == ASSUME PipeInv, [Next]_vars PROVE Rest'
<1>1. CASE TrashSocket \/ UNCHANGED vars
  BY <1>1, RestFrame DEF TrashSocket, vars, callerVars, closeVars, socketVars, cleanVars, Rest
<1>2. QED
  BY <1>1, RestBegin, RestLock, RestCreate, RestExec, RestClose, RestCloseNull, RestCreateClose, RestSendClose,
     RestRead, RestRan, RestJoin, RestEnd, RestTrash, RestReply, RestDrain, RestFree
  DEF Next, CallerStep, CloseStep, HandlerStep, RunHandler, PeerActs, CleanerStep

(* The invariant holds at first. *)
LEMMA PipeInitial == Init => PipeInv
<1> SUFFICES ASSUME Init PROVE PipeInv
  OBVIOUS
<1> USE DEF Init
<1>1. /\ free \in Seq(Packets) /\ Len(free) = PoolSize /\ \A i \in Packets : free[i] = i
  BY PipeAssumption DEF Packets
<1>2. pkt \in [Packets -> PacketSort] /\ \A x \in Packets : pkt[x] = Blank
  BY DEF PacketSort, Kinds, Blank
<1>3. queue \in [Pipes -> Seq(Entries)] /\ \A p \in Pipes : queue[p] = <<>> /\ Len(queue[p]) = 0
  BY EmptySeq
<1>4. call \in [Callers -> CallSort] /\ answer \in [Callers -> Answers]
  BY DEF CallSort, Calls, Answers, NoAnswer, Entries
<1>5. hpc \in [Pipes -> PcVals] /\ \A p \in Pipes : hpc[p] = "read"
  BY DEF PcVals
<1>6. TypeOK
  <2>1. calls \in 0 .. MaxCalls /\ QueueMax \in Nat
    BY PipeAssumption
  <2>2. \A p \in Pipes : Len(queue[p]) <= QueueMax
    BY <1>3, <2>1
  <2>3. cpc \in [Callers -> {"idle", "lock", "packet", "send", "wait"}]
    OBVIOUS
  <2>4. kpkt \in Packets \cup {Null} /\ drained \subseteq Pipes
    OBVIOUS
  <2>5. QED
    BY <1>1, <1>2, <1>3, <1>4, <1>5, <2>1, <2>2, <2>3, <2>4
    DEF TypeOK, PacketSort, Kinds, CallSort, Entries, Answers, PcVals
<1>7. Held(free) = Packets /\ Inj(free)
  BY <1>1 DEF Held, Inj, Packets
<1>8. InQueue = {} /\ \A p \in Pipes : Held(queue[p]) = {} /\ Inj(queue[p])
  BY <1>3, EmptyHeld DEF InQueue, Pipes
<1>9. Sending = {} /\ \A c \in Callers : cpc[c] = "idle"
  BY DEF Sending
<1>10. Once /\ Placed
  BY <1>7, <1>8, <1>9, NullIs DEF Once, Placed, Pipes
<1>11. Sent /\ ClosePacket /\ Waiting
  BY <1>8, <1>9 DEF Sent, ClosePacket, Waiting
<1>12. RunsOnce /\ Threads /\ Controlled
  BY <1>5, <1>8 DEF RunsOnce, Threads, Controlled
<1>13. Ends /\ AnswerTrue
  BY <1>5, <1>9 DEF Ends, AnswerTrue, NoAnswer, Pipes
<1>14. QED
  BY <1>6, <1>10, <1>11, <1>12, <1>13 DEF PipeInv

(* Every step preserves it. *)
LEMMA PipeInductive == PipeInv /\ [Next]_vars => PipeInv'
BY TypeStep, OnceStep, RestStep DEF PipeInv, Rest

(* So it holds in every behaviour. *)
LEMMA PipeAlways == Spec => []PipeInv
BY PipeInitial, PipeInductive, PTL DEF Spec

-----------------------------------------------------------------------------
(* The properties. *)

(* A packet stands in a queue once, or not at all. *)
LEMMA HoldCount ==
  ASSUME NEW q \in Seq(Entries), NEW x \in Packets, Inj(q)
  PROVE  /\ x \notin Held(q) => {i \in DOMAIN q : q[i] = x} = {}
         /\ x \in Held(q) => \E i \in 1 .. Len(q) : {j \in DOMAIN q : q[j] = x} = {i}
<1>1. DOMAIN q = 1 .. Len(q) /\ x # Null
  BY LenProperties, NullIs
<1>2. x \notin Held(q) => {i \in DOMAIN q : q[i] = x} = {}
  BY <1>1 DEF Held
<1>3. ASSUME x \in Held(q) PROVE \E i \in 1 .. Len(q) : {j \in DOMAIN q : q[j] = x} = {i}
  <2>1. PICK i \in 1 .. Len(q) : q[i] = x
    BY <1>3 DEF Held
  <2>2. \A j \in 1 .. Len(q) : q[j] = x => j = i
    BY <1>1, <2>1 DEF Inj
  <2>3. {j \in DOMAIN q : q[j] = x} = {i}
    BY <1>1, <2>1, <2>2
  <2>4. QED
    BY <2>3
<1>4. QED
  BY <1>2, <1>3

(* The entries of packet x in the pool. *)
LEMMA FreeCount ==
  ASSUME PipeInv, NEW x \in Packets
  PROVE  Cardinality({i \in DOMAIN free : free[i] = x}) = IF x \in Held(free) THEN 1 ELSE 0
<1>1. free \in Seq(Entries) /\ Inj(free)
  BY SeqMonotonic DEF PipeInv, TypeOK, Once, Entries
<1>2. QED
  BY <1>1, HoldCount, FS_EmptySet, FS_Singleton

(* The callers that hold it. *)
LEMMA HolderCount ==
  ASSUME PipeInv, NEW x \in Packets
  PROVE  Cardinality(Holders(x)) = IF \E c \in Sending : call[c].packet = x THEN 1 ELSE 0
<1>1. Holders(x) = {c \in Sending : call[c].packet = x}
  BY DEF Holders, Sending
<1>2. CASE \E c \in Sending : call[c].packet = x
  <2>1. PICK c \in Sending : call[c].packet = x
    BY <1>2
  <2>2. Holders(x) = {c}
    BY <1>1, <2>1 DEF PipeInv, Once
  <2>3. QED
    BY <1>2, <2>2, FS_Singleton
<1>3. CASE ~\E c \in Sending : call[c].packet = x
  <2>1. Holders(x) = {}
    BY <1>1, <1>3
  <2>2. QED
    BY <1>3, <2>1, FS_EmptySet
<1>4. QED
  BY <1>2, <1>3

(* Its entries in the queues. *)
LEMMA QueueCount ==
  ASSUME PipeInv, NEW x \in Packets
  PROVE  Cardinality(InQueues(x)) = IF x \in InQueue THEN 1 ELSE 0
<1>T. /\ \A p \in Pipes : /\ queue[p] \in Seq(Entries) /\ Len(queue[p]) \in Nat
                          /\ Len(queue[p]) <= QueueMax /\ Inj(queue[p])
      /\ QueueMax \in Nat /\ x # Null
  BY NullIs, LenProperties, PipeAssumption DEF PipeInv, TypeOK, Once, Entries
<1>1. \A p \in Pipes : DOMAIN queue[p] = 1 .. Len(queue[p])
  BY <1>T, LenProperties
<1>2. \A p \in Pipes, i \in 1 .. QueueMax :
        <<p, i>> \in InQueues(x) <=> i \in 1 .. Len(queue[p]) /\ queue[p][i] = x
  BY <1>1 DEF InQueues
<1>3. \A e \in InQueues(x) : \E p \in Pipes, i \in 1 .. QueueMax : e = <<p, i>>
  BY DEF InQueues
<1>4. CASE x \in InQueue
  <2>1. PICK p \in Pipes : x \in Held(queue[p])
    BY <1>4 DEF InQueue, Pipes
  <2>2. PICK i \in 1 .. Len(queue[p]) : queue[p][i] = x
    BY <2>1 DEF Held
  <2>3. i \in 1 .. QueueMax
    BY <1>T, <2>2
  <2>4. <<p, i>> \in InQueues(x)
    BY <1>2, <2>2, <2>3
  <2>5. ASSUME NEW e \in InQueues(x) PROVE e = <<p, i>>
    <3>1. PICK r \in Pipes, j \in 1 .. QueueMax : e = <<r, j>>
      BY <1>3
    <3>2. j \in 1 .. Len(queue[r]) /\ queue[r][j] = x
      BY <1>2, <2>5, <3>1
    <3>3. x \in Held(queue[r])
      BY <3>2 DEF Held
    <3>4. r = p
      BY <2>1, <3>3 DEF PipeInv, Once, Pipes
    <3>5. j = i
      BY <1>T, <2>2, <3>2, <3>4 DEF Inj
    <3>6. QED
      BY <3>1, <3>4, <3>5
  <2>6. InQueues(x) = {<<p, i>>}
    BY <2>4, <2>5
  <2>7. QED
    BY <1>4, <2>6, FS_Singleton
<1>5. CASE x \notin InQueue
  <2>1. InQueues(x) = {}
    <3>1. SUFFICES ASSUME NEW e \in InQueues(x) PROVE FALSE
      OBVIOUS
    <3>2. PICK r \in Pipes, j \in 1 .. QueueMax : e = <<r, j>>
      BY <1>3
    <3>3. j \in 1 .. Len(queue[r]) /\ queue[r][j] = x
      BY <1>2, <3>1, <3>2
    <3>4. QED
      BY <1>5, <3>3 DEF Held, InQueue, Pipes
  <2>2. QED
    BY <1>5, <2>1, FS_EmptySet
<1>6. QED
  BY <1>4, <1>5

(* Once and Placed, counted. *)
LEMMA ConservedByInv == PipeInv => PacketsConserved
<1> SUFFICES ASSUME PipeInv PROVE PacketsConserved
  OBVIOUS
<1>1. ASSUME NEW x \in Packets
      PROVE  Cardinality(InQueues(x)) + Cardinality(Holders(x))
               + (IF kpkt = x THEN 1 ELSE 0) + Cardinality({i \in DOMAIN free : free[i] = x}) = 1
  <2> DEFINE f == x \in Held(free)
             q == x \in InQueue
             h == \E c \in Sending : call[c].packet = x
             k == kpkt = x
  <2>1. /\ f \/ q \/ h \/ k
        /\ ~(f /\ q) /\ ~(f /\ h) /\ ~(f /\ k) /\ ~(q /\ h) /\ ~(q /\ k) /\ ~(h /\ k)
    BY DEF PipeInv, Once, Placed
  <2>2. /\ Cardinality(InQueues(x)) = IF q THEN 1 ELSE 0
        /\ Cardinality(Holders(x)) = IF h THEN 1 ELSE 0
        /\ Cardinality({i \in DOMAIN free : free[i] = x}) = IF f THEN 1 ELSE 0
    BY QueueCount, HolderCount, FreeCount
  <2> HIDE DEF f, q, h
  <2>3. QED
    BY <2>1, <2>2
<1>2. QED
  BY <1>1 DEF PacketsConserved, PipeInv

(* Waiting, for the property. *)
LEMMA WaitersByInv == PipeInv => WaitersQueued
<1> SUFFICES ASSUME PipeInv PROVE WaitersQueued
  OBVIOUS
<1>1. \A p \in Pipes : Queued(p) = Held(queue[p]) /\ Queued(p) \subseteq InQueue
  BY QueuedIs DEF PipeInv, InQueue, Pipes
<1>2. \A c \in Callers : call[c].cmd.pipe \in Pipes
  BY CommandsAre DEF PipeInv, TypeOK
<1>3. QED
  BY <1>1, <1>2 DEF PipeInv, Waiting, WaitersQueued

(* Threads and Ends, for the property. *)
LEMMA CloseByInv == PipeInv => CloseInOrder
BY PipesAre DEF PipeInv, Threads, Ends, CloseInOrder, Pipes

(* The variables have their types and no queue outgrows its array, for any pool, *)
(* any queue size and any number of callers (socl_command.c:91-143, 169-205).    *)
THEOREM TypeCorrect == Spec => []TypeOK
BY PipeAlways, PTL DEF PipeInv

(* Every packet is in exactly one place: none is lost and none is freed twice by *)
(* a handler, a full queue or the drain (socl_command.c:79-106, 184-194,         *)
(* socl_close.c:151-158).                                                        *)
THEOREM PacketsSafe == Spec => []PacketsConserved
BY PipeAlways, ConservedByInv, PTL

(* A caller that waits has its packet queued, and a queued packet that wants a *)
(* reply has its caller waiting: no response is lost and none is sent to a     *)
(* frame that is gone (socl_command.c:127-135, 190, socl_close.c:153).         *)
THEOREM WaitersSafe == Spec => []WaitersQueued
BY PipeAlways, WaitersByInv, PTL

(* A result means that the command ran once, SOCL_ECANCELED that it did not run *)
(* (socl_command.c:180-191, socl_close.c:151-154).                              *)
THEOREM AnswersSafe == Spec => []AnswerTrue
BY PipeAlways, PTL DEF PipeInv

(* The connection is closed only behind every command accepted before the     *)
(* SOCL_Close, and no thread is left when a pipe is emptied and the socket is *)
(* freed, but for one: the send thread that a UDP socket has outside the      *)
(* console's build (socl_close.c:48-50, 66-71, 97-118, 129, 146).             *)
THEOREM CloseSafe == Spec => []CloseInOrder
BY PipeAlways, CloseByInv, PTL

=============================================================================
