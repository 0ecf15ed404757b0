--------------------------- MODULE SoclRecvProofs ---------------------------
(***************************************************************************)
(* For every buffer, queue, threshold and set of readers: what is behind    *)
(* the consumed bytes of the receive buffer is what no reader was given,    *)
(* readers get the stream in order (SoclRecv implements ByteStream) and are *)
(* told of its end only then, and a full buffer is left only by a refusal;  *)
(* the datagrams of a UDP socket are queued in order and nobody sleeps on   *)
(* them (SoclUdp).                                                          *)
(***************************************************************************)
EXTENDS SoclUdp, SequenceTheorems, WellFoundedInduction, TLAPS

Held == {"copy", "send", "wait", "test", "post", "unlock"}

(* flag_noconsume is that of the reader that holds in_use.                   *)
Holder ==
  /\ \A r \in Readers : pc[r] \in Held <=> owner = r
  /\ \A r \in Readers : owner = r => (noconsume <=> req[r].peek)
  /\ owner = NoReader => ~noconsume
  /\ \A r \in Readers : pc[r] # "idle" => req[r].len \in Lens

(* Who is in the queue waits, so that only one reader is; the receive thread *)
(* works on the first entry.                                                 *)
Line ==
  /\ \A i \in 1 .. Len(queue) : queue[i] # Consume => pc[queue[i]] = "wait"
  /\ \A i, j \in 1 .. Len(queue) : queue[i] # Consume /\ queue[j] # Consume => i = j
  /\ hpc # "read" => queue # <<>>
  /\ hpc \in {"poll", "check", "copy", "null"} => Head(queue) # Consume

(* RestIsUnread, byte by byte.                                               *)
Rest ==
  /\ Len(rcvbuf) - consumed = arrived - next
  /\ \A i \in 1 .. arrived - next : rcvbuf[consumed + i] = next + i

IInv == TypeOK /\ Holder /\ Line /\ Rest

LEMMA RecvInit == Init => IInv
<1> SUFFICES ASSUME Init PROVE IInv
  OBVIOUS
<1>1. TypeOK
  <2>1. {established, connected, noconsume, late, refused} \subseteq BOOLEAN
    BY Zenon DEF Init
  <2>2. /\ pc \in [Readers -> {"idle", "lock", "copy", "send", "wait", "test", "post", "unlock"}]
        /\ req \in [Readers -> [len : Lens \cup {0}, block : BOOLEAN, peek : BOOLEAN]]
        /\ result \in [Readers -> Invalid .. RcvSize]
        /\ owner \in Readers \cup {NoReader}
    BY RecvAssumption DEF Init, NoReq, Invalid
  <2>3. rcvbuf \in Seq(1 .. MaxBytes) /\ queue \in Seq(Readers \cup {Consume})
        /\ Len(rcvbuf) = 0 /\ Len(queue) = 0
    BY DEF Init
  <2>4. QED
    BY RecvAssumption, <2>1, <2>2, <2>3 DEF Init, TypeOK
<1>2. Holder
  BY RecvAssumption DEF Init, Holder, Held
<1>3. Line
  BY DEF Init, Line
<1>4. Rest
  BY DEF Init, Rest
<1>5. QED
  BY <1>1, <1>2, <1>3, <1>4 DEF IInv

(* The bytes a copy takes are the next of the stream.                        *)
LEMMA Copied ==
  ASSUME TypeOK, Rest, NEW n \in 0 .. Unread
  PROVE  SubSeq(rcvbuf, consumed + 1, consumed + n) = [i \in 1 .. n |-> next + i]
<1>1. /\ rcvbuf \in Seq(1 .. MaxBytes) /\ consumed \in Nat /\ next \in Nat /\ arrived \in Nat
      /\ n \in Nat /\ consumed + n <= Len(rcvbuf) /\ n <= arrived - next
  BY RecvAssumption DEF TypeOK, Rest, Unread
<1>2. SubSeq(rcvbuf, consumed + 1, consumed + n)
        = [i \in 1 .. n |-> rcvbuf[consumed + 1 + i - 1]]
  BY <1>1
<1>3. \A i \in 1 .. n : rcvbuf[consumed + 1 + i - 1] = next + i
  <2>1. SUFFICES ASSUME NEW i \in 1 .. n PROVE rcvbuf[consumed + 1 + i - 1] = next + i
    OBVIOUS
  <2>2. consumed + 1 + i - 1 = consumed + i /\ i \in 1 .. arrived - next
    BY <1>1
  <2>3. QED
    BY <2>2 DEF Rest
<1>4. QED
  BY <1>2, <1>3

LEMMA RestIs == TypeOK /\ Rest => RestIsUnread
<1> SUFFICES ASSUME TypeOK, Rest PROVE RestIsUnread
  OBVIOUS
<1>1. Unread \in 0 .. Unread /\ consumed + Unread = Len(rcvbuf) /\ Unread = arrived - next
  BY RecvAssumption DEF TypeOK, Rest, Unread
<1>2. SubSeq(rcvbuf, consumed + 1, consumed + Unread) = [i \in 1 .. Unread |-> next + i]
  BY <1>1, Copied
<1>3. QED
  BY <1>1, <1>2 DEF RestIsUnread

(* SOCLi_CopyCPSBuffer for the reader that holds in_use.                     *)
LEMMA CopyStep ==
  ASSUME TypeOK, Rest, NEW r \in Readers, CopyCPSBuffer(r), req[r].len \in Lens,
         noconsume <=> req[r].peek, UNCHANGED <<rcvbuf, arrived>>
  PROVE  /\ Rest'
         /\ consumed' \in 0 .. Len(rcvbuf) /\ next' \in 0 .. arrived
         /\ connected' \in BOOLEAN
         /\ result' \in [Readers -> Invalid .. RcvSize]
         /\ \/ UNCHANGED <<next, got>>
            \/ /\ next' \in next + 1 .. arrived
               /\ got' = got \o [i \in 1 .. next' - next |-> next + i]
<1>1. /\ rcvbuf \in Seq(1 .. MaxBytes) /\ Len(rcvbuf) \in Nat /\ RcvSize \in Nat
      /\ Len(rcvbuf) <= RcvSize /\ consumed \in 0 .. Len(rcvbuf)
      /\ next \in 0 .. arrived /\ arrived \in Nat /\ Unread \in Nat
      /\ Unread = Len(rcvbuf) - consumed /\ Unread = arrived - next
      /\ result \in [Readers -> Invalid .. RcvSize] /\ connected \in BOOLEAN
      /\ Invalid = -2 /\ WouldBlock = -1
  BY RecvAssumption DEF TypeOK, Rest, Unread, Invalid, WouldBlock
<1>2. PICK n : n = Least(req[r].len, Unread)
  OBVIOUS
<1>3. req[r].len \in Nat \ {0}
  BY RecvAssumption
<1>4. n \in 0 .. Unread /\ (Unread > 0 => n > 0)
  BY <1>1, <1>2, <1>3 DEF Least
<1>5. CASE Unread > 0
  <2>0. Unread # 0 /\ ~(Unread < 0)
    BY <1>1, <1>5
  <2>1. /\ result' = [result EXCEPT ![r] = n]
        /\ consumed' = (IF noconsume THEN consumed ELSE consumed + n)
        /\ connected' = connected
    BY <1>2, <2>0, Zenon DEF CopyCPSBuffer
  <2>2. /\ req[r].peek => next' = next /\ got' = got
        /\ ~req[r].peek => /\ next' = next + n
                           /\ got' = got \o SubSeq(rcvbuf, consumed + 1, consumed + n)
    BY <1>2, <2>0 DEF CopyCPSBuffer
  <2>3. CASE req[r].peek
    <3>1. UNCHANGED <<consumed, next, got>>
      BY <2>1, <2>2, <2>3
    <3>2. Rest'
      BY <3>1 DEF Rest
    <3>3. QED
      BY <1>1, <1>4, <2>1, <3>1, <3>2
  <2>4. CASE ~req[r].peek
    <3>1. consumed' = consumed + n /\ next' = next + n
      BY <2>1, <2>2, <2>4
    <3>2. got' = got \o [i \in 1 .. n |-> next + i]
      BY <2>2, <2>4, <1>4, Copied
    <3>3. Rest'
      <4>1. Len(rcvbuf') - consumed' = arrived' - next'
        BY <1>1, <1>4, <3>1
      <4>2. SUFFICES ASSUME NEW i \in 1 .. arrived' - next'
                     PROVE  rcvbuf'[consumed' + i] = next' + i
        BY <4>1 DEF Rest
      <4>3. n + i \in 1 .. arrived - next
        BY <1>1, <1>4, <3>1
      <4>4. rcvbuf[consumed + (n + i)] = next + (n + i)
        BY <4>3 DEF Rest
      <4>5. QED
        BY <1>1, <1>4, <3>1, <4>4
    <3>4. next' - next = n /\ next' \in next + 1 .. arrived
      BY <1>1, <1>4, <1>5, <3>1
    <3>5. QED
      BY <1>1, <1>4, <2>1, <3>1, <3>2, <3>3, <3>4
  <2>5. QED
    BY <2>3, <2>4
<1>6. CASE Unread = 0
  <2>0. ~(Unread > 0) /\ ~(Unread < 0)
    BY <1>1, <1>6
  <2>1. consumed' = consumed /\ next' = next /\ got' = got
    BY <2>0 DEF CopyCPSBuffer
  <2>2. connected' = connected \/ connected' = FALSE
    BY <2>0 DEF CopyCPSBuffer
  <2>3. result' = [result EXCEPT ![r] = WouldBlock] \/ result' = [result EXCEPT ![r] = 0]
    BY <1>6, <2>0 DEF CopyCPSBuffer
  <2>4. Rest'
    BY <2>1 DEF Rest
  <2>5. connected' \in BOOLEAN
    BY <1>1, <2>2
  <2>6. result' \in [Readers -> Invalid .. RcvSize]
    BY <1>1, <2>3
  <2>7. QED
    BY <1>1, <2>1, <2>4, <2>5, <2>6
<1>7. Unread > 0 \/ Unread = 0
  BY <1>1
<1>8. QED
  BY <1>5, <1>6, <1>7, Zenon

-----------------------------------------------------------------------------
(* What an action leaves alone.                                              *)
LEMMA RestFrame == Rest /\ UNCHANGED <<rcvbuf, arrived, consumed, next>> => Rest'
BY DEF Rest

LEMMA HolderFrame == Holder /\ UNCHANGED <<pc, owner, noconsume, req>> => Holder'
BY DEF Holder

LEMMA LineFrame == Line /\ UNCHANGED <<queue, pc, hpc>> => Line'
BY DEF Line

LEMMA BoolFrame ==
  ASSUME TypeOK
  PROVE  /\ established \in BOOLEAN /\ connected \in BOOLEAN /\ noconsume \in BOOLEAN
         /\ late \in BOOLEAN /\ refused \in BOOLEAN
BY Zenon DEF TypeOK

(* The parts of TypeOK.                                                      *)
BufType ==
  /\ rcvbuf \in Seq(1 .. MaxBytes) /\ Len(rcvbuf) <= RcvSize
  /\ consumed \in 0 .. Len(rcvbuf)
  /\ arrived \in 0 .. MaxBytes /\ next \in 0 .. arrived
BoolType == {established, connected, noconsume, late, refused} \subseteq BOOLEAN
CallType ==
  /\ owner \in Readers \cup {NoReader}
  /\ queue \in Seq(Readers \cup {Consume}) /\ Len(queue) <= QueueMax
  /\ pc \in [Readers -> {"idle", "lock"} \cup Held]
  /\ req \in [Readers -> [len : Lens \cup {0}, block : BOOLEAN, peek : BOOLEAN]]
  /\ result \in [Readers -> Invalid .. RcvSize]
  /\ hpc \in {"read", "poll", "check", "copy", "null", "consume", "reply"}
  /\ seen \in 0 .. RcvSize

LEMMA TypeIs == TypeOK <=> BufType /\ BoolType /\ CallType
<1>1. {"idle", "lock"} \cup Held
        = {"idle", "lock", "copy", "send", "wait", "test", "post", "unlock"}
  BY DEF Held
<1>2. QED
  BY <1>1, Zenon DEF TypeOK, BufType, BoolType, CallType

LEMMA TypeNext ==
  ASSUME BufType', BoolType', CallType'
  PROVE  TypeOK'
BY TypeIs, PTL

LEMMA BoolStep ==
  ASSUME established' \in BOOLEAN, connected' \in BOOLEAN, noconsume' \in BOOLEAN,
         late' \in BOOLEAN, refused' \in BOOLEAN
  PROVE  BoolType'
BY Zenon DEF BoolType

LEMMA BoolStay ==
  ASSUME TypeOK, UNCHANGED <<established, connected, noconsume, late, refused>>
  PROVE  BoolType'
BY BoolFrame, BoolStep

LEMMA BufStay ==
  ASSUME TypeOK, UNCHANGED <<rcvbuf, consumed, arrived, next>>
  PROVE  BufType'
BY TypeIs DEF BufType

LEMMA CallStay ==
  ASSUME TypeOK, UNCHANGED <<owner, queue, pc, req, result, hpc, seen>>
  PROVE  CallType'
BY TypeIs DEF CallType

(* Bytes behind the buffer continue the stream.                              *)
LEMMA ArriveStep ==
  ASSUME IInv, NEW n \in 1 .. RcvSize, Arrive(n)
  PROVE  IInv'
<1>1. /\ rcvbuf' = rcvbuf \o [i \in 1 .. n |-> arrived + i]
      /\ arrived' = arrived + n /\ UNCHANGED <<consumed, next>>
      /\ n <= RcvSize - Len(rcvbuf) /\ n <= MaxBytes - arrived
  BY RecvAssumption DEF IInv, TypeOK, Arrive, Least, copyVars, gotVars
<1>2. /\ rcvbuf \in Seq(1 .. MaxBytes) /\ consumed \in 0 .. Len(rcvbuf)
      /\ arrived \in Nat /\ next \in 0 .. arrived /\ n \in Nat
      /\ Len(rcvbuf) - consumed = arrived - next
  BY RecvAssumption DEF IInv, TypeOK, Rest
<1>3. /\ rcvbuf' \in Seq(1 .. MaxBytes) /\ Len(rcvbuf') = Len(rcvbuf) + n
      /\ \A k \in 1 .. Len(rcvbuf') :
           rcvbuf'[k] = IF k <= Len(rcvbuf) THEN rcvbuf[k] ELSE arrived + (k - Len(rcvbuf))
  <2> DEFINE new == [i \in 1 .. n |-> arrived + i]
  <2>1. new \in Seq(1 .. MaxBytes) /\ Len(new) = n
    BY <1>1, <1>2, RecvAssumption
  <2>2. QED
    BY <1>1, <1>2, <2>1
<1>4. TypeOK'
  <2>1. BufType'
    BY <1>1, <1>2, <1>3, RecvAssumption DEF BufType
  <2>2. BoolType'
    <3>1. late' = (hpc = "check") /\ UNCHANGED <<established, connected, noconsume, refused>>
      BY DEF Arrive, copyVars, gotVars
    <3>2. QED
      BY <3>1, BoolFrame, BoolStep DEF IInv
  <2>3. CallType'
    BY CallStay DEF IInv, Arrive, copyVars, gotVars
  <2>4. QED
    BY <2>1, <2>2, <2>3, TypeNext
<1>5. Holder'
  BY HolderFrame DEF IInv, Arrive
<1>6. Line'
  BY LineFrame DEF IInv, Arrive
<1>7. Rest'
  <2>1. Len(rcvbuf') - consumed' = arrived' - next'
    BY <1>1, <1>2, <1>3
  <2>2. SUFFICES ASSUME NEW i \in 1 .. arrived' - next'
                 PROVE  rcvbuf'[consumed' + i] = next' + i
    BY <2>1 DEF Rest
  <2>3. CASE i <= arrived - next
    <3>1. rcvbuf[consumed + i] = next + i
      BY <1>2, <2>3 DEF IInv, Rest
    <3>2. consumed + i \in 1 .. Len(rcvbuf') /\ consumed + i <= Len(rcvbuf)
      BY <1>1, <1>2, <1>3, <2>3
    <3>3. QED
      BY <1>1, <1>3, <3>1, <3>2
  <2>4. CASE i > arrived - next
    <3>1. /\ consumed + i \in 1 .. Len(rcvbuf') /\ ~(consumed + i <= Len(rcvbuf))
          /\ arrived + ((consumed + i) - Len(rcvbuf)) = next + i
      BY <1>1, <1>2, <1>3, <2>4
    <3>2. QED
      BY <1>1, <1>3, <3>1
  <2>5. QED
    BY <1>1, <1>2, <2>3, <2>4
<1>8. QED
  BY <1>4, <1>5, <1>6, <1>7 DEF IInv

(* SOCLi_ConsumeCPSBuffer drops what was copied, and nothing else.           *)
LEMMA ConsumeStep ==
  ASSUME IInv, ConsumeCPSBuffer
  PROVE  IInv'
<1>1. /\ rcvbuf \in Seq(1 .. MaxBytes) /\ consumed \in 0 .. Len(rcvbuf)
      /\ arrived \in Nat /\ next \in 0 .. arrived
      /\ Len(rcvbuf) - consumed = arrived - next
  BY DEF IInv, TypeOK, Rest
<1>2. /\ consumed' = 0 /\ UNCHANGED <<arrived, next>>
      /\ rcvbuf' = IF consumed < Len(rcvbuf) THEN SubSeq(rcvbuf, consumed + 1, Len(rcvbuf))
                                             ELSE <<>>
  BY DEF ConsumeCPSBuffer, SocConsumeRaw, copyVars, gotVars
<1>3. /\ rcvbuf' \in Seq(1 .. MaxBytes) /\ Len(rcvbuf') = Len(rcvbuf) - consumed
      /\ \A i \in 1 .. Len(rcvbuf') : rcvbuf'[i] = rcvbuf[consumed + i]
  <2>1. CASE consumed < Len(rcvbuf)
    <3>1. rcvbuf' = [i \in 1 .. Len(rcvbuf) - consumed |-> rcvbuf[consumed + 1 + i - 1]]
      BY <1>1, <1>2, <2>1
    <3>2. ASSUME NEW i \in 1 .. Len(rcvbuf) - consumed
          PROVE  consumed + 1 + i - 1 = consumed + i /\ rcvbuf[consumed + i] \in 1 .. MaxBytes
      <4>1. consumed + i \in 1 .. Len(rcvbuf)
        BY <1>1
      <4>2. consumed + 1 + i - 1 = consumed + i
        BY <1>1
      <4>3. rcvbuf \in Seq(1 .. MaxBytes)
        BY <1>1
      <4>4. QED
        BY <4>1, <4>2, <4>3, ElementOfSeq
    <3>3. QED
      BY <1>1, <2>1, <3>1, <3>2
  <2>2. CASE ~(consumed < Len(rcvbuf))
    BY <1>1, <1>2, <2>2
  <2>3. QED
    BY <2>1, <2>2
<1>4. TypeOK'
  <2>1. BufType'
    BY <1>1, <1>2, <1>3, RecvAssumption DEF BufType, IInv, TypeOK
  <2>2. BoolType'
    BY BoolStay DEF IInv, ConsumeCPSBuffer, copyVars, gotVars
  <2>3. CallType'
    BY TypeIs DEF IInv, CallType, ConsumeCPSBuffer, copyVars, gotVars
  <2>4. QED
    BY <2>1, <2>2, <2>3, TypeNext
<1>5. Holder'
  BY HolderFrame DEF IInv, ConsumeCPSBuffer
<1>6. Line'
  BY DEF IInv, Line, ConsumeCPSBuffer
<1>7. Rest'
  <2>1. Len(rcvbuf') - consumed' = arrived' - next'
    BY <1>1, <1>2, <1>3
  <2>2. SUFFICES ASSUME NEW i \in 1 .. arrived' - next'
                 PROVE  rcvbuf'[consumed' + i] = next' + i
    BY <2>1 DEF Rest
  <2>3. i \in 1 .. Len(rcvbuf') /\ consumed' + i = i /\ i \in 1 .. arrived - next
    BY <1>1, <1>2, <1>3
  <2>4. rcvbuf[consumed + i] = next + i
    BY <2>3 DEF IInv, Rest
  <2>5. QED
    BY <1>2, <1>3, <2>3, <2>4
<1>8. QED
  BY <1>4, <1>5, <1>6, <1>7 DEF IInv

(* The lock, and commands that join the queue.                            *)
LEMMA LockStep ==
  ASSUME IInv, NEW r \in Readers, Lock(r)
  PROVE  IInv'
<1>1. CASE owner = NoReader
  <2>1. /\ pc[r] = "lock" /\ owner' = r /\ pc' = [pc EXCEPT ![r] = "copy"]
        /\ UNCHANGED <<req, result>> /\ noconsume' = (noconsume \/ req[r].peek)
    BY <1>1 DEF Lock
  <2>2. BoolType'
    <3>1. UNCHANGED <<established, connected, late, refused>>
      BY DEF Lock, cpsVars, gotVars
    <3>2. QED
      BY <2>1, <3>1, BoolFrame, BoolStep DEF IInv
  <2>3. CallType'
    BY <2>1, TypeIs DEF IInv, CallType, Lock, Held
  <2>4. BufType'
    BY BufStay DEF IInv, Lock, cpsVars, gotVars
  <2>5. Holder'
    BY <1>1, <2>1, TypeIs, RecvAssumption DEF IInv, Holder, CallType, Held
  <2>6. Line'
    BY <2>1, TypeIs DEF IInv, Line, Lock, CallType
  <2>7. Rest'
    BY RestFrame DEF IInv, Lock, cpsVars, gotVars
  <2>8. QED
    BY <2>2, <2>3, <2>4, <2>5, <2>6, <2>7, TypeNext DEF IInv
<1>2. CASE owner # NoReader
  <2>1. /\ pc[r] = "lock" /\ pc' = [pc EXCEPT ![r] = "idle"] /\ UNCHANGED <<owner, noconsume>>
        /\ req' = [req EXCEPT ![r] = NoReq] /\ result' = [result EXCEPT ![r] = 0]
    BY <1>2 DEF Lock, Return
  <2>2. BoolType'
    BY <2>1, BoolStay DEF IInv, Lock, cpsVars, gotVars
  <2>3. CallType'
    BY <2>1, TypeIs, RecvAssumption DEF IInv, CallType, Lock, Held, NoReq, Invalid
  <2>4. BufType'
    BY BufStay DEF IInv, Lock, cpsVars, gotVars
  <2>5. Holder'
    BY <1>2, <2>1, TypeIs DEF IInv, Holder, CallType, Held
  <2>6. Line'
    BY <2>1, TypeIs DEF IInv, Line, Lock, CallType
  <2>7. Rest'
    BY RestFrame DEF IInv, Lock, cpsVars, gotVars
  <2>8. QED
    BY <2>2, <2>3, <2>4, <2>5, <2>6, <2>7, TypeNext DEF IInv
<1>3. QED
  BY <1>1, <1>2

(* An entry at the end of the queue.                                         *)
LEMMA LineAppend ==
  ASSUME IInv, NEW r \in Readers, NEW x \in Readers \cup {Consume},
         pc[r] \in Held \ {"wait"}, queue' = Append(queue, x), UNCHANGED hpc,
         x # Consume => x = r /\ pc' = [pc EXCEPT ![r] = "wait"],
         x = Consume => pc' = [pc EXCEPT ![r] = "unlock"]
  PROVE  Line'
<1>1. /\ queue \in Seq(Readers \cup {Consume}) /\ Consume \notin Readers
      /\ pc \in [Readers -> {"idle", "lock"} \cup Held] /\ owner = r
  BY TypeIs, RecvAssumption DEF IInv, CallType, Holder, Consume
<1>2. /\ Len(queue') = Len(queue) + 1 /\ queue' # <<>>
      /\ queue'[Len(queue) + 1] = x
      /\ \A i \in 1 .. Len(queue) : queue'[i] = queue[i]
      /\ queue # <<>> => Head(queue') = Head(queue)
  BY <1>1
<1>3. \A i \in 1 .. Len(queue) : queue[i] \in Readers \cup {Consume}
  BY <1>1
<1>4. \A i \in 1 .. Len(queue) : queue[i] # Consume => FALSE
  <2>1. SUFFICES ASSUME NEW i \in 1 .. Len(queue), queue[i] # Consume PROVE FALSE
    OBVIOUS
  <2>2. queue[i] \in Readers /\ pc[queue[i]] = "wait"
    BY <1>3, <2>1 DEF IInv, Line
  <2>3. owner = queue[i]
    BY <2>2 DEF IInv, Holder, Held
  <2>4. QED
    BY <1>1, <2>2, <2>3
<1>5. \A i \in 1 .. Len(queue') : queue'[i] # Consume => i = Len(queue) + 1 /\ x # Consume
  BY <1>1, <1>2, <1>4
<1>6. \A i \in 1 .. Len(queue') : queue'[i] # Consume => pc'[queue'[i]] = "wait"
  BY <1>1, <1>2, <1>5
<1>7. hpc # "read" => queue # <<>>
  BY DEF IInv, Line
<1>8. hpc \in {"poll", "check", "copy", "null"} => Head(queue') # Consume
  BY <1>2, <1>7 DEF IInv, Line
<1>9. QED
  BY <1>2, <1>5, <1>6, <1>7, <1>8 DEF Line

LEMMA SendStep ==
  ASSUME IInv, NEW r \in Readers, ExecReadCommand(r)
  PROVE  IInv'
<1>1. /\ pc[r] = "send" /\ Len(queue) < QueueMax /\ queue' = Append(queue, r)
      /\ pc' = [pc EXCEPT ![r] = "wait"] /\ UNCHANGED hpc
  BY DEF ExecReadCommand
<1>2. CallType'
  BY <1>1, TypeIs, RecvAssumption DEF IInv, CallType, ExecReadCommand, Held, copyVars
<1>3. BoolType' /\ BufType'
  BY BoolStay, BufStay DEF IInv, ExecReadCommand, cpsVars, copyVars, gotVars
<1>4. Holder'
  BY <1>1, TypeIs DEF IInv, Holder, CallType, Held, ExecReadCommand
<1>5. Line'
  BY <1>1, LineAppend, RecvAssumption DEF Held, Consume
<1>6. Rest'
  BY RestFrame DEF IInv, ExecReadCommand, cpsVars, copyVars, gotVars
<1>7. QED
  BY <1>2, <1>3, <1>4, <1>5, <1>6, TypeNext DEF IInv

LEMMA PostStep ==
  ASSUME IInv, NEW r \in Readers, ConsumePost(r)
  PROVE  IInv'
<1>1. /\ pc[r] = "post" /\ pc' = [pc EXCEPT ![r] = "unlock"] /\ UNCHANGED hpc
      /\ \/ Len(queue) < QueueMax /\ queue' = Append(queue, Consume) /\ refused' = FALSE
         \/ refused' = TRUE /\ UNCHANGED queue
  BY DEF ConsumePost
<1>2. CallType'
  <2>1. pc' \in [Readers -> {"idle", "lock"} \cup Held]
    BY <1>1, TypeIs DEF IInv, CallType, Held
  <2>2. queue' \in Seq(Readers \cup {Consume}) /\ Len(queue') <= QueueMax
    <3>1. queue \in Seq(Readers \cup {Consume}) /\ Len(queue) <= QueueMax
      BY DEF IInv, TypeOK
    <3>2. ASSUME Len(queue) < QueueMax, queue' = Append(queue, Consume)
          PROVE  queue' \in Seq(Readers \cup {Consume}) /\ Len(queue') <= QueueMax
      BY <3>1, <3>2, RecvAssumption
    <3>3. QED
      BY <1>1, <3>1, <3>2
  <2>3. QED
    BY <2>1, <2>2, TypeIs DEF IInv, CallType, ConsumePost, copyVars
<1>3. BoolType'
  <2>1. refused' \in BOOLEAN /\ UNCHANGED <<established, connected, noconsume, late>>
    BY <1>1 DEF ConsumePost, cpsVars, copyVars, gotVars
  <2>2. QED
    BY <2>1, BoolFrame, BoolStep DEF IInv
<1>4. BufType'
  BY BufStay DEF IInv, ConsumePost, cpsVars, copyVars, gotVars
<1>5. Holder'
  BY <1>1, TypeIs DEF IInv, Holder, CallType, Held, ConsumePost
<1>6. Line'
  <2>1. CASE queue' = Append(queue, Consume)
    BY <1>1, <2>1, LineAppend DEF Held
  <2>2. CASE UNCHANGED queue
    BY <1>1, <2>2, TypeIs DEF IInv, Line, CallType
  <2>3. QED
    BY <1>1, <2>1, <2>2
<1>7. Rest'
  BY RestFrame DEF IInv, ConsumePost, cpsVars, copyVars, gotVars
<1>8. QED
  BY <1>2, <1>3, <1>4, <1>5, <1>6, <1>7, TypeNext DEF IInv

(* Readers move on their own, and hand the lock to nobody.                   *)
LEMMA LineOther ==
  ASSUME IInv, NEW r \in Readers, pc[r] # "wait", NEW p, pc' = [pc EXCEPT ![r] = p],
         UNCHANGED <<queue, hpc>>
  PROVE  Line'
BY TypeIs DEF IInv, Line, CallType

LEMMA HolderOther ==
  ASSUME IInv, NEW r \in Readers, pc[r] \in Held, NEW p \in Held,
         pc' = [pc EXCEPT ![r] = p], UNCHANGED <<owner, noconsume, req>>
  PROVE  Holder'
BY TypeIs DEF IInv, Holder, CallType, Held

LEMMA ReadFromStep ==
  ASSUME IInv, NEW r \in Readers, NEW n \in Lens, NEW block \in BOOLEAN, NEW peek \in BOOLEAN,
         ReadFrom(r, n, block, peek)
  PROVE  IInv'
<1>1. /\ pc[r] = "idle" /\ pc' = [pc EXCEPT ![r] = "lock"]
      /\ req' = [req EXCEPT ![r] = [len |-> n, block |-> block, peek |-> peek]]
      /\ UNCHANGED <<owner, noconsume, queue, hpc>>
  BY DEF ReadFrom
<1>2. BoolType' /\ BufType'
  BY BoolStay, BufStay DEF IInv, ReadFrom, cpsVars, copyVars, gotVars
<1>3. CallType'
  <2>1. pc' \in [Readers -> {"idle", "lock"} \cup Held]
    BY <1>1, TypeIs DEF IInv, CallType
  <2>2. req' \in [Readers -> [len : Lens \cup {0}, block : BOOLEAN, peek : BOOLEAN]]
    BY <1>1, TypeIs DEF IInv, CallType
  <2>3. QED
    BY <2>1, <2>2, TypeIs DEF IInv, CallType, ReadFrom, copyVars
<1>4. Holder'
  BY <1>1, TypeIs DEF IInv, Holder, CallType, Held
<1>5. Line'
  BY <1>1, LineOther
<1>6. Rest'
  BY RestFrame DEF IInv, ReadFrom, cpsVars, copyVars, gotVars
<1>7. QED
  BY <1>2, <1>3, <1>4, <1>5, <1>6, TypeNext DEF IInv

(* A copy for reader r, which holds in_use, by whichever thread.             *)
LEMMA CopyKeeps ==
  ASSUME IInv, NEW r \in Readers, owner = r, pc[r] # "idle", CopyCPSBuffer(r),
         UNCHANGED <<cpsVars, noconsume, late, refused>>
  PROVE  Rest' /\ BufType' /\ BoolType' /\ result' \in [Readers -> Invalid .. RcvSize]
<1>1. req[r].len \in Lens /\ (noconsume <=> req[r].peek)
  BY DEF IInv, Holder
<1>2. UNCHANGED <<rcvbuf, arrived, established>>
  BY DEF cpsVars
<1>3. /\ Rest'
      /\ consumed' \in 0 .. Len(rcvbuf) /\ next' \in 0 .. arrived
      /\ connected' \in BOOLEAN
      /\ result' \in [Readers -> Invalid .. RcvSize]
  BY <1>1, <1>2, CopyStep DEF IInv
<1>4. BufType'
  BY <1>2, <1>3, TypeIs DEF IInv, BufType
<1>5. BoolType'
  BY <1>2, <1>3, BoolFrame, BoolStep DEF IInv
<1>6. QED
  BY <1>3, <1>4, <1>5

LEMMA ReadBufferStep ==
  ASSUME IInv, NEW r \in Readers, ReadBuffer(r)
  PROVE  IInv'
<1>1. PICK p \in {"send", "test", "unlock"} : pc' = [pc EXCEPT ![r] = p]
  BY DEF ReadBuffer, AfterRead
<1>2. pc[r] = "copy" /\ CopyCPSBuffer(r) /\ p \in Held
  BY DEF ReadBuffer, Held
<1>3. pc[r] \in Held /\ owner = r /\ pc[r] # "idle" /\ pc[r] # "wait"
  BY <1>2 DEF IInv, Holder, Held
<1>4. /\ UNCHANGED <<owner, queue, req, hpc, seen>>
      /\ UNCHANGED <<cpsVars, noconsume, late, refused>>
  BY DEF ReadBuffer
<1>5. Rest' /\ BufType' /\ BoolType' /\ result' \in [Readers -> Invalid .. RcvSize]
  BY <1>2, <1>3, <1>4, CopyKeeps
<1>6. CallType'
  BY <1>1, <1>2, <1>4, <1>5, TypeIs DEF IInv, CallType
<1>7. Holder'
  BY <1>1, <1>2, <1>3, <1>4, HolderOther
<1>8. Line'
  BY <1>1, <1>3, <1>4, LineOther
<1>9. QED
  BY <1>5, <1>6, <1>7, <1>8, TypeNext DEF IInv

LEMMA ConsumeTestStep ==
  ASSUME IInv, NEW r \in Readers, ConsumeTest(r)
  PROVE  IInv'
<1>1. PICK p \in {"unlock", "post"} : pc' = [pc EXCEPT ![r] = p]
  BY DEF ConsumeTest
<1>2. /\ pc[r] = "test" /\ pc[r] \in Held /\ p \in Held
      /\ UNCHANGED <<owner, noconsume, req, queue, hpc>>
  BY DEF ConsumeTest, Held
<1>3. BoolType' /\ BufType'
  BY BoolStay, BufStay DEF IInv, ConsumeTest, cpsVars, copyVars, gotVars
<1>4. CallType'
  BY <1>1, <1>2, TypeIs DEF IInv, CallType, ConsumeTest, copyVars
<1>5. Holder' /\ Line'
  BY <1>1, <1>2, HolderOther, LineOther
<1>6. Rest'
  BY RestFrame DEF IInv, ConsumeTest, cpsVars, copyVars, gotVars
<1>7. QED
  BY <1>3, <1>4, <1>5, <1>6, TypeNext DEF IInv

LEMMA UnlockStep ==
  ASSUME IInv, NEW r \in Readers, Unlock(r)
  PROVE  IInv'
<1>1. /\ pc[r] = "unlock" /\ pc' = [pc EXCEPT ![r] = "idle"]
      /\ owner' = NoReader /\ noconsume' = FALSE
      /\ req' = [req EXCEPT ![r] = NoReq] /\ result' = [result EXCEPT ![r] = 0]
      /\ UNCHANGED <<queue, hpc>>
  BY DEF Unlock, Return
<1>2. BoolType'
  <2>1. noconsume' \in BOOLEAN /\ UNCHANGED <<established, connected, late, refused>>
    BY <1>1 DEF Unlock, cpsVars, gotVars
  <2>2. QED
    BY <2>1, BoolFrame, BoolStep DEF IInv
<1>3. BufType'
  BY BufStay DEF IInv, Unlock, cpsVars, gotVars
<1>4. CallType'
  <2>1. pc' \in [Readers -> {"idle", "lock"} \cup Held]
    BY <1>1, TypeIs DEF IInv, CallType
  <2>2. /\ req' \in [Readers -> [len : Lens \cup {0}, block : BOOLEAN, peek : BOOLEAN]]
        /\ result' \in [Readers -> Invalid .. RcvSize]
    BY <1>1, TypeIs, RecvAssumption DEF IInv, CallType, NoReq, Invalid
  <2>3. QED
    BY <1>1, <2>1, <2>2, TypeIs DEF IInv, CallType, Unlock
<1>5. Holder'
  <2>1. owner = r /\ r # NoReader
    BY <1>1, RecvAssumption DEF IInv, Holder, Held
  <2>2. QED
    BY <1>1, <2>1, TypeIs, RecvAssumption DEF IInv, Holder, CallType, Held
<1>6. Line'
  BY <1>1, LineOther
<1>7. Rest'
  BY RestFrame DEF IInv, Unlock, cpsVars, gotVars
<1>8. QED
  BY <1>2, <1>3, <1>4, <1>5, <1>6, <1>7, TypeNext DEF IInv

-----------------------------------------------------------------------------
(* The receive thread.                                                       *)
LEMMA ReadMessageStep ==
  ASSUME IInv, ReadMessage
  PROVE  IInv'
<1>1. /\ queue # <<>> /\ UNCHANGED <<queue, pc>>
      /\ \/ Head(queue) = Consume /\ hpc' = "consume" /\ UNCHANGED seen
         \/ Head(queue) # Consume /\ hpc' = "poll" /\ seen' = consumed
  BY DEF ReadMessage
<1>2. BoolType' /\ BufType'
  BY BoolStay, BufStay DEF IInv, ReadMessage, hpcVars, cpsVars, copyVars, gotVars
<1>3. CallType'
  <2>1. consumed \in 0 .. RcvSize
    BY RecvAssumption DEF IInv, TypeOK
  <2>2. hpc' \in {"consume", "poll"} /\ seen' \in 0 .. RcvSize
    BY <1>1, <2>1 DEF IInv, TypeOK
  <2>3. QED
    BY <2>2, TypeIs DEF IInv, CallType, ReadMessage, hpcVars, copyVars
<1>4. Holder'
  BY HolderFrame DEF IInv, ReadMessage, hpcVars
<1>5. Line'
  BY <1>1 DEF IInv, Line
<1>6. Rest'
  BY RestFrame DEF IInv, ReadMessage, hpcVars, cpsVars, copyVars, gotVars
<1>7. QED
  BY <1>2, <1>3, <1>4, <1>5, <1>6, TypeNext DEF IInv

(* The thread looks for something to copy for the reader.                    *)
LEMMA LookStep ==
  ASSUME IInv, SocRead \/ Check
  PROVE  IInv'
<1>1. /\ hpc \in {"poll", "check"} /\ hpc' \in {"poll", "check", "copy", "null"}
      /\ UNCHANGED <<hpcVars, copyVars, consumed, seen, queue, pc>>
      /\ late' = FALSE \/ late' = late
  BY DEF SocRead, Check
<1>2. BoolType'
  <2>1. late' \in BOOLEAN /\ UNCHANGED <<established, connected, noconsume, refused>>
    BY <1>1, BoolFrame DEF IInv, hpcVars, cpsVars, copyVars, gotVars
  <2>2. QED
    BY <2>1, BoolFrame, BoolStep DEF IInv
<1>3. BufType'
  BY <1>1, BufStay DEF IInv, hpcVars, cpsVars, copyVars, gotVars
<1>4. CallType'
  BY <1>1, TypeIs DEF IInv, CallType, hpcVars, copyVars
<1>5. Holder'
  BY <1>1, HolderFrame DEF IInv, hpcVars
<1>6. Line'
  BY <1>1 DEF IInv, Line
<1>7. Rest'
  BY <1>1, RestFrame DEF IInv, hpcVars, cpsVars, copyVars, gotVars
<1>8. QED
  BY <1>2, <1>3, <1>4, <1>5, <1>6, <1>7, TypeNext DEF IInv

(* The reader whose command is first holds in_use.                           *)
LEMMA Served ==
  ASSUME IInv, queue # <<>>, Head(queue) # Consume
  PROVE  Head(queue) \in Readers /\ owner = Head(queue) /\ pc[Head(queue)] = "wait"
<1>1. queue \in Seq(Readers \cup {Consume}) /\ 1 \in 1 .. Len(queue) /\ Head(queue) = queue[1]
  BY DEF IInv, TypeOK
<1>2. Head(queue) \in Readers
  BY <1>1
<1>3. pc[Head(queue)] = "wait"
  BY <1>1 DEF IInv, Line
<1>4. QED
  BY <1>2, <1>3 DEF IInv, Holder, Held

LEMMA CopyForReaderStep ==
  ASSUME IInv, CopyForReader
  PROVE  IInv'
<1>1. queue # <<>> /\ Head(queue) # Consume
  BY DEF IInv, Line, CopyForReader
<1>2. /\ Head(queue) \in Readers /\ owner = Head(queue) /\ pc[Head(queue)] # "idle"
  BY <1>1, Served
<1>3. /\ CopyCPSBuffer(Head(queue)) /\ UNCHANGED <<owner, queue, req, pc, seen>>
      /\ UNCHANGED <<cpsVars, noconsume, late, refused>> /\ hpc' \in {"consume", "reply"}
  BY DEF CopyForReader, hpcVars
<1>4. Rest' /\ BufType' /\ BoolType' /\ result' \in [Readers -> Invalid .. RcvSize]
  BY <1>2, <1>3, CopyKeeps
<1>5. CallType'
  BY <1>3, <1>4, TypeIs DEF IInv, CallType
<1>6. Holder'
  BY <1>3, HolderFrame DEF IInv
<1>7. Line'
  BY <1>1, <1>3 DEF IInv, Line
<1>8. QED
  BY <1>4, <1>5, <1>6, <1>7, TypeNext DEF IInv

LEMMA EndOfStreamStep ==
  ASSUME IInv, EndOfStream
  PROVE  IInv'
<1>1. queue # <<>> /\ Head(queue) # Consume
  BY DEF IInv, Line, EndOfStream
<1>2. /\ result' = [result EXCEPT ![Head(queue)] = 0] /\ hpc' = "reply"
      /\ UNCHANGED <<queue, pc, seen, hpcVars>>
  BY DEF EndOfStream
<1>3. BoolType' /\ BufType'
  BY BoolStay, BufStay DEF IInv, EndOfStream, hpcVars, cpsVars, gotVars
<1>4. CallType'
  <2>1. result' \in [Readers -> Invalid .. RcvSize]
    BY <1>1, <1>2, TypeIs, RecvAssumption DEF IInv, CallType, Invalid
  <2>2. QED
    BY <1>2, <2>1, TypeIs DEF IInv, CallType, hpcVars
<1>5. Holder'
  BY <1>2, HolderFrame DEF IInv, hpcVars
<1>6. Line'
  BY <1>1, <1>2 DEF IInv, Line
<1>7. Rest'
  BY RestFrame DEF IInv, EndOfStream, hpcVars, cpsVars, gotVars
<1>8. QED
  BY <1>3, <1>4, <1>5, <1>6, <1>7, TypeNext DEF IInv

LEMMA ReplyStep ==
  ASSUME IInv, Reply
  PROVE  IInv'
<1>1. /\ queue \in Seq(Readers \cup {Consume}) /\ queue # <<>>
      /\ pc \in [Readers -> {"idle", "lock"} \cup Held] /\ Head(queue) = queue[1]
  BY TypeIs DEF IInv, CallType, Line, Reply
<1>2. /\ queue' = Tail(queue) /\ hpc' = "read" /\ seen' = 0 /\ late' = FALSE
      /\ UNCHANGED <<hpcVars, copyVars, consumed>>
      /\ pc' = [r \in Readers |->
           IF r # Head(queue) THEN pc[r] ELSE IF result[r] >= 0 THEN "test" ELSE "unlock"]
  BY DEF Reply
<1>3. /\ Len(queue') = Len(queue) - 1 /\ queue' \in Seq(Readers \cup {Consume})
      /\ \A i \in 1 .. Len(queue') : queue'[i] = queue[i + 1] /\ i + 1 \in 1 .. Len(queue)
  BY <1>1, <1>2
<1>4. BoolType'
  <2>1. late' \in BOOLEAN /\ UNCHANGED <<established, connected, noconsume, refused>>
    BY <1>2 DEF hpcVars, cpsVars, copyVars, gotVars
  <2>2. QED
    BY <2>1, BoolFrame, BoolStep DEF IInv
<1>5. BufType'
  BY <1>2, BufStay DEF IInv, hpcVars, cpsVars, copyVars, gotVars
<1>6. CallType'
  <2>1. pc' \in [Readers -> {"idle", "lock"} \cup Held]
    BY <1>1, <1>2 DEF Held
  <2>2. Len(queue') <= QueueMax
    BY <1>1, <1>3, RecvAssumption DEF IInv, TypeOK
  <2>3. seen' \in 0 .. RcvSize
    BY <1>2, RecvAssumption
  <2>4. QED
    BY <1>2, <1>3, <2>1, <2>2, <2>3, TypeIs DEF IInv, CallType, hpcVars, copyVars
<1>7. Holder'
  <2>1. \A r \in Readers : (pc'[r] \in Held <=> pc[r] \in Held) /\ (pc'[r] # "idle" <=> pc[r] # "idle")
    <3>1. ASSUME NEW r \in Readers, r = Head(queue)
          PROVE  pc[r] = "wait"
      BY <3>1, <1>1, Served, RecvAssumption DEF Consume
    <3>2. QED
      BY <1>1, <1>2, <3>1 DEF Held
  <2>2. QED
    BY <1>2, <2>1 DEF IInv, Holder, hpcVars
<1>8. Line'
  <2>1. \A i \in 1 .. Len(queue') : queue'[i] # Consume => pc'[queue'[i]] = "wait"
    <3>1. SUFFICES ASSUME NEW i \in 1 .. Len(queue'), queue'[i] # Consume
                   PROVE  pc'[queue'[i]] = "wait"
      OBVIOUS
    <3>2. /\ queue'[i] = queue[i + 1] /\ i + 1 \in 1 .. Len(queue) /\ i + 1 # 1
          /\ 1 \in 1 .. Len(queue)
      BY <1>1, <1>3
    <3>3. pc[queue'[i]] = "wait" /\ queue'[i] \in Readers
      BY <1>1, <3>1, <3>2 DEF IInv, Line
    <3>4. queue'[i] # Head(queue)
      BY <1>1, <3>1, <3>2 DEF IInv, Line
    <3>5. QED
      BY <1>2, <3>3, <3>4
  <2>2. \A i, j \in 1 .. Len(queue') : queue'[i] # Consume /\ queue'[j] # Consume => i = j
    <3>1. SUFFICES ASSUME NEW i \in 1 .. Len(queue'), NEW j \in 1 .. Len(queue'),
                          queue'[i] # Consume, queue'[j] # Consume
                   PROVE  i = j
      OBVIOUS
    <3>2. i + 1 = j + 1
      BY <1>3, <3>1 DEF IInv, Line
    <3>3. QED
      BY <1>1, <1>3, <3>2
  <2>3. QED
    BY <1>2, <2>1, <2>2 DEF Line
<1>9. Rest'
  BY <1>2, RestFrame DEF IInv, hpcVars, cpsVars, copyVars, gotVars
<1>10. QED
  BY <1>4, <1>5, <1>6, <1>7, <1>8, <1>9, TypeNext DEF IInv

LEMMA PeerEndsStep ==
  ASSUME IInv, PeerEnds
  PROVE  IInv'
<1>1. BoolType'
  <2>1. established' \in BOOLEAN /\ UNCHANGED <<connected, noconsume, late, refused>>
    BY DEF PeerEnds, copyVars, gotVars
  <2>2. QED
    BY <2>1, BoolFrame, BoolStep DEF IInv
<1>2. BufType' /\ CallType'
  BY BufStay, CallStay DEF IInv, PeerEnds, copyVars, gotVars
<1>3. Holder' /\ Line' /\ Rest'
  BY HolderFrame, LineFrame, RestFrame DEF IInv, PeerEnds, copyVars, gotVars
<1>4. QED
  BY <1>1, <1>2, <1>3, TypeNext DEF IInv

LEMMA QuietStep ==
  ASSUME IInv, UNCHANGED vars
  PROVE  IInv'
<1>1. BoolType' /\ BufType' /\ CallType'
  BY BoolStay, BufStay, CallStay DEF IInv, vars, cpsVars, copyVars, gotVars
<1>2. Holder' /\ Line' /\ Rest'
  BY HolderFrame, LineFrame, RestFrame DEF IInv, vars, cpsVars, copyVars, gotVars
<1>3. QED
  BY <1>1, <1>2, TypeNext DEF IInv

LEMMA InvStep == IInv /\ [Next]_vars => IInv'
<1> SUFFICES ASSUME IInv, [Next]_vars PROVE IInv'
  OBVIOUS
<1>1. ASSUME NEW n \in 1 .. RcvSize, Arrive(n) PROVE IInv'
  BY <1>1, ArriveStep
<1>2. CASE PeerEnds
  BY <1>2, PeerEndsStep
<1>3. ASSUME NEW r \in Readers, NEW n \in Lens, NEW block \in BOOLEAN, NEW peek \in BOOLEAN,
             ReadFrom(r, n, block, peek)
      PROVE  IInv'
  BY <1>3, ReadFromStep
<1>4. ASSUME NEW r \in Readers, ReaderStep(r) PROVE IInv'
  BY <1>4, LockStep, ReadBufferStep, SendStep, ConsumeTestStep, PostStep, UnlockStep
     DEF ReaderStep
<1>5. CASE HandlerStep
  BY <1>5, ReadMessageStep, LookStep, CopyForReaderStep, EndOfStreamStep, ConsumeStep, ReplyStep
     DEF HandlerStep
<1>6. CASE UNCHANGED vars
  BY <1>6, QuietStep
<1>7. QED
  BY <1>1, <1>2, <1>3, <1>4, <1>5, <1>6 DEF Next

(* The unread part of the receive buffer is what arrived and no reader was   *)
(* given, for every buffer, queue, set of readers and mixture of calls       *)
(* (socl_read.c:94-111, 170-173, 356-360).                                   *)
THEOREM RecvSafe == Spec => []RestIsUnread
<1>1. IInv => RestIsUnread
  BY RestIs DEF IInv
<1>2. QED
  BY <1>1, RecvInit, InvStep, PTL DEF Spec

-----------------------------------------------------------------------------
(* SoclRecv implements ByteStream: arrivals are its posts, copies that are   *)
(* no peeks its passes.                                                      *)
LEMMA StreamInit == Init => Stream!Init
BY DEF Init, Stream!Init

LEMMA Between ==
  ASSUME NEW a \in Nat, NEW b \in Nat, NEW c \in a + 1 .. b
  PROVE  c - a \in 0 .. c - a /\ ~(c - a < c - a)
OBVIOUS

LEMMA CopyPasses ==
  ASSUME IInv, NEW r \in Readers, owner = r, pc[r] # "idle", CopyCPSBuffer(r),
         UNCHANGED cpsVars
  PROVE  [Stream!Next]_(Stream!streamVars)
<1>1. req[r].len \in Lens /\ (noconsume <=> req[r].peek)
  BY DEF IInv, Holder
<1>2. /\ UNCHANGED <<rcvbuf, arrived>>
      /\ arrived \in Nat /\ next \in Nat
  BY DEF cpsVars, IInv, TypeOK
<1>3. \/ UNCHANGED <<next, got>>
      \/ /\ next' \in next + 1 .. arrived
         /\ got' = got \o [i \in 1 .. next' - next |-> next + i]
  BY <1>1, <1>2, CopyStep DEF IInv
<1>4. CASE UNCHANGED <<next, got>>
  BY <1>2, <1>4 DEF Stream!streamVars
<1>5. CASE /\ next' \in next + 1 .. arrived
           /\ got' = got \o [i \in 1 .. next' - next |-> next + i]
  <2>0. next' \in next + 1 .. arrived /\ next \in Nat /\ arrived \in Nat
    BY <1>2, <1>5
  <2>1. next' - next \in 0 .. next' - next /\ ~(next' - next < next' - next)
    BY <2>0, Between
  <2>2. Stream!Pass
    BY <1>2, <1>5, <2>1 DEF Stream!Pass
  <2>3. QED
    BY <2>2 DEF Stream!Next
<1>6. QED
  BY <1>3, <1>4, <1>5

LEMMA StreamStep == IInv /\ [Next]_vars => [Stream!Next]_(Stream!streamVars)
<1> SUFFICES ASSUME IInv, [Next]_vars PROVE [Stream!Next]_(Stream!streamVars)
  OBVIOUS
<1>1. ASSUME NEW n \in 1 .. RcvSize, Arrive(n)
      PROVE  [Stream!Next]_(Stream!streamVars)
  <2>1. arrived' > arrived /\ UNCHANGED <<next, got>>
    BY <1>1, RecvAssumption DEF Arrive, copyVars, gotVars, IInv, TypeOK
  <2>2. QED
    BY <2>1 DEF Stream!Next, Stream!Post
<1>2. ASSUME NEW r \in Readers, ReadBuffer(r)
      PROVE  [Stream!Next]_(Stream!streamVars)
  <2>1. pc[r] = "copy" /\ CopyCPSBuffer(r) /\ UNCHANGED cpsVars
    BY <1>2 DEF ReadBuffer
  <2>2. owner = r /\ pc[r] # "idle"
    BY <2>1 DEF IInv, Holder, Held
  <2>3. QED
    BY <2>1, <2>2, CopyPasses
<1>3. CASE CopyForReader
  <2>1. queue # <<>> /\ Head(queue) # Consume
    BY <1>3 DEF IInv, Line, CopyForReader
  <2>2. /\ Head(queue) \in Readers /\ owner = Head(queue) /\ pc[Head(queue)] # "idle"
    BY <2>1, Served
  <2>3. CopyCPSBuffer(Head(queue)) /\ UNCHANGED cpsVars
    BY <1>3 DEF CopyForReader, hpcVars
  <2>4. QED
    BY <2>2, <2>3, CopyPasses
<1>4. CASE UNCHANGED <<arrived, next, got>>
  BY <1>4 DEF Stream!streamVars
<1>5. ASSUME NEW r \in Readers, NEW n \in Lens, NEW block \in BOOLEAN, NEW peek \in BOOLEAN,
             ReadFrom(r, n, block, peek)
      PROVE  UNCHANGED <<arrived, next, got>>
  BY <1>5 DEF ReadFrom, cpsVars, copyVars, gotVars
<1>6. ASSUME NEW r \in Readers, ReaderStep(r), ~ReadBuffer(r)
      PROVE  UNCHANGED <<arrived, next, got>>
  BY <1>6 DEF ReaderStep, Lock, ExecReadCommand, ConsumeTest, ConsumePost, Unlock,
              cpsVars, copyVars, gotVars
<1>7. ASSUME HandlerStep, ~CopyForReader
      PROVE  UNCHANGED <<arrived, next, got>>
  BY <1>7 DEF HandlerStep, ReadMessage, SocRead, Check, EndOfStream, ConsumeCPSBuffer, Reply,
              hpcVars, cpsVars, copyVars, gotVars
<1>8. ASSUME PeerEnds \/ UNCHANGED vars
      PROVE  UNCHANGED <<arrived, next, got>>
  BY <1>8 DEF PeerEnds, vars, cpsVars, copyVars, gotVars
<1>9. QED
  BY <1>1, <1>2, <1>3, <1>4, <1>5, <1>6, <1>7, <1>8 DEF Next

(* Readers get the bytes that arrived, each once and in order, for every     *)
(* buffer, queue and set of readers (socl_read.c:138-204, 344-371).          *)
THEOREM RecvImplements == Spec => StreamSpec
<1>1. Init => Stream!Init
  BY StreamInit
<1>2. IInv /\ [Next]_vars => [Stream!Next]_(Stream!streamVars)
  BY StreamStep
<1>3. QED
  BY <1>1, <1>2, RecvInit, InvStep, PTL DEF Spec, StreamSpec, Stream!Spec

-----------------------------------------------------------------------------
(* The end of the stream.  While the receive thread looks, nobody counts in  *)
(* consumed, so that what it compares is the unread part.                    *)
Looks ==
  /\ hpc \in {"poll", "check", "copy"} => seen = consumed
  /\ hpc = "check" /\ ~late => Len(rcvbuf) <= consumed
  /\ hpc = "null" => ~established /\ (Len(rcvbuf) <= consumed \/ late)

LEMMA LooksStep == IInv /\ Looks /\ [Next]_vars => Looks'
<1> SUFFICES ASSUME IInv, Looks, [Next]_vars PROVE Looks'
  OBVIOUS
<1>1. ASSUME NEW n \in 1 .. RcvSize, Arrive(n) PROVE Looks'
  <2>1. /\ established /\ late' = (hpc = "check") /\ UNCHANGED <<hpc, seen, consumed>>
    BY <1>1 DEF Arrive
  <2>2. QED
    BY <2>1 DEF Looks
<1>2. CASE PeerEnds
  BY <1>2 DEF PeerEnds, Looks
<1>3. ASSUME UNCHANGED <<hpc, seen, consumed, rcvbuf, established, late>> PROVE Looks'
  BY <1>3 DEF Looks
<1>4. ASSUME NEW r \in Readers, NEW n \in Lens, NEW block \in BOOLEAN, NEW peek \in BOOLEAN,
             ReadFrom(r, n, block, peek)
      PROVE  Looks'
  BY <1>3, <1>4 DEF ReadFrom, cpsVars
<1>5. ASSUME NEW r \in Readers, ReadBuffer(r) PROVE Looks'
  <2>1. pc[r] = "copy" /\ owner = r /\ UNCHANGED hpc
    BY <1>5 DEF ReadBuffer, IInv, Holder, Held
  <2>2. hpc \notin {"poll", "check", "copy", "null"}
    <3>1. SUFFICES ASSUME hpc \in {"poll", "check", "copy", "null"} PROVE FALSE
      OBVIOUS
    <3>2. queue # <<>> /\ Head(queue) # Consume
      BY <3>1 DEF IInv, Line
    <3>3. QED
      BY <2>1, <3>2, Served
  <2>3. QED
    BY <2>1, <2>2 DEF Looks
<1>6. ASSUME NEW r \in Readers, ReaderStep(r), ~ReadBuffer(r) PROVE Looks'
  <2>1. UNCHANGED <<hpc, seen, consumed, rcvbuf, established, late>>
    BY <1>6 DEF ReaderStep, Lock, ExecReadCommand, ConsumeTest, ConsumePost, Unlock, cpsVars
  <2>2. QED
    BY <1>3, <2>1
<1>7. CASE ReadMessage
  BY <1>7 DEF ReadMessage, Looks
<1>8. CASE SocRead
  <2>1. /\ hpc = "poll" /\ seen = consumed /\ (rcvbuf # <<>> \/ ~established)
        /\ hpc' = IF rcvbuf = <<>> THEN "null"
                  ELSE IF Len(rcvbuf) > seen THEN "copy" ELSE "check"
        /\ UNCHANGED <<consumed, seen, rcvbuf, established>>
    BY <1>8 DEF SocRead, Looks, hpcVars, cpsVars
  <2>2. rcvbuf \in Seq(1 .. MaxBytes) /\ consumed \in Nat
    BY DEF IInv, TypeOK
  <2>3. CASE rcvbuf = <<>>
    BY <2>1, <2>2, <2>3 DEF Looks
  <2>4. CASE rcvbuf # <<>>
    BY <2>1, <2>2, <2>4 DEF Looks
  <2>5. QED
    BY <2>3, <2>4
<1>9. CASE Check
  BY <1>9 DEF Check, Looks, hpcVars, cpsVars
<1>10. CASE CopyForReader \/ EndOfStream \/ ConsumeCPSBuffer \/ Reply
  <2>1. hpc' \in {"consume", "reply", "read"}
    BY <1>10 DEF CopyForReader, EndOfStream, ConsumeCPSBuffer, Reply
  <2>2. QED
    BY <2>1 DEF Looks
<1>11. CASE UNCHANGED vars
  BY <1>3, <1>11 DEF vars, cpsVars
<1>12. QED
  BY <1>1, <1>2, <1>4, <1>5, <1>6, <1>7, <1>8, <1>9, <1>10, <1>11 DEF Next, HandlerStep

(* A reader is told that the stream has ended only when it was given all of  *)
(* it, or the last bytes and the end came between two looks of the receive   *)
(* thread (socl_read.c:268-281).                                             *)
THEOREM EofSafe == Spec => []EofTrue
<1>1. Init => Looks
  BY DEF Init, Looks
<1>2. IInv /\ Looks => EofTrue
  BY DEF IInv, TypeOK, Looks, EofTrue, Unread
<1>3. QED
  BY <1>1, <1>2, RecvInit, InvStep, LooksStep, PTL DEF Spec

-----------------------------------------------------------------------------
(* A full buffer.  Who will empty it: a consume command not yet carried out, *)
(* a reader that is going to send one, or the answer that makes a reader go  *)
(* there.                                                                    *)
Coming ==
  \/ \E i \in 1 .. Len(queue) : queue[i] = Consume /\ (hpc = "reply" => i # 1)
  \/ \E r \in Readers : pc[r] \in {"test", "post"}
  \/ hpc = "consume"
  \/ hpc = "reply" /\ Head(queue) # Consume
Drained == Len(rcvbuf) = RcvSize /\ consumed = RcvSize
Stall == Drained => Coming \/ refused

(* The answer to a read command is a number of bytes.                        *)
Answers ==
  /\ hpc = "copy" => Len(rcvbuf) > consumed
  /\ hpc \in {"consume", "reply"} /\ Head(queue) # Consume => result[Head(queue)] >= 0

(* What a copy gives, and when nothing has moved.                            *)
LEMMA CopyGives ==
  ASSUME IInv, NEW r \in Readers, owner = r, pc[r] # "idle", CopyCPSBuffer(r)
  PROVE  /\ Len(rcvbuf) > consumed => result'[r] > 0
         /\ result'[r] < 0 => UNCHANGED consumed
         /\ \A q \in Readers \ {r} : result'[q] = result[q]
<1>1. /\ Len(rcvbuf) \in Nat /\ consumed \in 0 .. Len(rcvbuf)
      /\ Unread = Len(rcvbuf) - consumed /\ Unread \in Nat
      /\ result \in [Readers -> Invalid .. RcvSize] /\ req[r].len \in Nat \ {0}
  <2>1. Len(rcvbuf) \in Nat /\ consumed \in 0 .. Len(rcvbuf)
        /\ result \in [Readers -> Invalid .. RcvSize]
    BY DEF IInv, TypeOK
  <2>2. req[r].len \in Lens
    BY DEF IInv, Holder
  <2>3. req[r].len \in Nat \ {0}
    BY <2>2, RecvAssumption
  <2>4. Unread = Len(rcvbuf) - consumed /\ Unread \in Nat
    BY <2>1 DEF Unread
  <2>5. QED
    BY <2>1, <2>3, <2>4
<1>2. PICK n : n = Least(req[r].len, Unread)
  OBVIOUS
<1>3. CASE Unread > 0
  <2>1. result' = [result EXCEPT ![r] = n]
    BY <1>1, <1>2, <1>3 DEF CopyCPSBuffer
  <2>2. n \in Nat /\ n > 0
    BY <1>1, <1>2, <1>3 DEF Least
  <2>3. QED
    BY <1>1, <2>1, <2>2
<1>4. CASE ~(Unread > 0)
  <2>1. UNCHANGED consumed /\ \E x : result' = [result EXCEPT ![r] = x]
    BY <1>4 DEF CopyCPSBuffer
  <2>2. QED
    BY <1>1, <1>4, <2>1
<1>5. QED
  BY <1>3, <1>4

LEMMA AnswersStep == IInv /\ Looks /\ Answers /\ [Next]_vars => Answers'
<1> SUFFICES ASSUME IInv, Looks, Answers, [Next]_vars PROVE Answers'
  OBVIOUS
<1>0. /\ Len(rcvbuf) \in Nat /\ consumed \in Nat /\ RcvSize \in Nat
      /\ result \in [Readers -> Invalid .. RcvSize]
  BY RecvAssumption DEF IInv, TypeOK
<1>1. ASSUME NEW n \in 1 .. RcvSize, Arrive(n) PROVE Answers'
  <2>1. Len(rcvbuf') >= Len(rcvbuf) /\ Len(rcvbuf') \in Nat
    <3>1. IInv' /\ UNCHANGED <<consumed, next>> /\ arrived' = arrived + n
      BY <1>1, ArriveStep DEF Arrive, copyVars, gotVars
    <3>2. rcvbuf' \in Seq(1 .. MaxBytes) /\ Len(rcvbuf') - consumed' = arrived' - next'
      BY <3>1 DEF IInv, TypeOK, Rest
    <3>3. /\ consumed \in Nat /\ arrived \in Nat /\ next \in Nat /\ n \in Nat
          /\ Len(rcvbuf) - consumed = arrived - next
      BY RecvAssumption DEF IInv, TypeOK, Rest
    <3>4. QED
      BY <1>0, <3>1, <3>2, <3>3
  <2>2. UNCHANGED <<hpc, queue, result, consumed>>
    BY <1>1 DEF Arrive, copyVars
  <2>3. QED
    BY <1>0, <2>1, <2>2 DEF Answers
<1>2. ASSUME UNCHANGED <<hpc, queue, result, consumed, rcvbuf>> PROVE Answers'
  BY <1>2 DEF Answers
<1>3. CASE PeerEnds \/ UNCHANGED vars
  BY <1>2, <1>3 DEF PeerEnds, vars, copyVars, cpsVars
<1>4. ASSUME NEW r \in Readers, NEW n \in Lens, NEW block \in BOOLEAN, NEW peek \in BOOLEAN,
             ReadFrom(r, n, block, peek)
      PROVE  Answers'
  BY <1>2, <1>4 DEF ReadFrom, cpsVars, copyVars
<1>5. ASSUME NEW r \in Readers, pc[r] # "wait",
             \A q \in Readers \ {r} : result'[q] = result[q],
             UNCHANGED <<hpc, queue, rcvbuf>>, hpc = "copy" => UNCHANGED consumed
      PROVE  Answers'
  <2>1. hpc \in {"consume", "reply"} /\ Head(queue) # Consume => result'[Head(queue)] >= 0
    <3>1. SUFFICES ASSUME hpc \in {"consume", "reply"}, Head(queue) # Consume
                   PROVE  result'[Head(queue)] >= 0
      OBVIOUS
    <3>2. queue # <<>>
      BY <3>1 DEF IInv, Line
    <3>3. Head(queue) \in Readers \ {r}
      BY <1>5, <3>1, <3>2, Served
    <3>4. QED
      BY <1>5, <3>1, <3>3 DEF Answers
  <2>2. QED
    BY <1>5, <2>1 DEF Answers
<1>6. ASSUME NEW r \in Readers, ReaderStep(r) PROVE Answers'
  <2>1. CASE Lock(r)
    <3>1. /\ pc[r] # "wait" /\ UNCHANGED <<hpc, queue, rcvbuf, consumed>>
          /\ \/ result' = result
             \/ result' = [result EXCEPT ![r] = 0]
      BY <2>1 DEF Lock, Return, cpsVars
    <3>2. /\ \A q \in Readers \ {r} : result'[q] = result[q]
          /\ UNCHANGED <<hpc, queue, rcvbuf>> /\ (hpc = "copy" => UNCHANGED consumed)
      BY <1>0, <3>1
    <3>3. QED
      BY <1>5, <3>1, <3>2
  <2>2. CASE Unlock(r)
    <3>1. /\ pc[r] # "wait" /\ UNCHANGED <<hpc, queue, rcvbuf, consumed>>
          /\ result' = [result EXCEPT ![r] = 0]
      BY <2>2 DEF Unlock, Return, cpsVars
    <3>2. /\ \A q \in Readers \ {r} : result'[q] = result[q]
          /\ UNCHANGED <<hpc, queue, rcvbuf>> /\ (hpc = "copy" => UNCHANGED consumed)
      BY <1>0, <3>1
    <3>3. QED
      BY <1>5, <3>1, <3>2
  <2>3. CASE ReadBuffer(r)
    <3>1. /\ pc[r] = "copy" /\ CopyCPSBuffer(r) /\ owner = r
          /\ UNCHANGED <<hpc, queue, rcvbuf>>
      BY <2>3 DEF ReadBuffer, IInv, Holder, Held, cpsVars
    <3>2. hpc # "copy"
      <4>1. SUFFICES ASSUME hpc = "copy" PROVE FALSE
        OBVIOUS
      <4>2. queue # <<>> /\ Head(queue) # Consume
        BY <4>1 DEF IInv, Line
      <4>3. QED
        BY <3>1, <4>2, Served
    <3>3. \A q \in Readers \ {r} : result'[q] = result[q]
      BY <3>1, CopyGives
    <3>4. QED
      BY <1>5, <3>1, <3>2, <3>3
  <2>4. CASE ExecReadCommand(r) \/ ConsumePost(r)
    <3>1. /\ UNCHANGED <<hpc, result, consumed, rcvbuf>>
          /\ \E x \in Readers \cup {Consume} : queue' = Append(queue, x) \/ queue' = queue
      BY <2>4 DEF ExecReadCommand, ConsumePost, copyVars, cpsVars
    <3>2. queue # <<>> => Head(queue') = Head(queue)
      <4>1. queue \in Seq(Readers \cup {Consume})
        BY DEF IInv, TypeOK
      <4>2. ASSUME NEW x \in Readers \cup {Consume}, queue' = Append(queue, x)
            PROVE  queue # <<>> => Head(queue') = Head(queue)
        BY <4>1, <4>2
      <4>3. QED
        BY <3>1, <4>2
    <3>3. hpc # "read" => queue # <<>>
      BY DEF IInv, Line
    <3>4. QED
      BY <3>1, <3>2, <3>3 DEF Answers
  <2>5. CASE ConsumeTest(r)
    BY <1>2, <2>5 DEF ConsumeTest, cpsVars, copyVars
  <2>6. QED
    BY <1>6, <2>1, <2>2, <2>3, <2>4, <2>5 DEF ReaderStep
<1>7. CASE ReadMessage
  <2>1. \/ Head(queue) = Consume /\ hpc' = "consume" /\ UNCHANGED queue
        \/ hpc' = "poll"
    BY <1>7 DEF ReadMessage
  <2>2. QED
    BY <2>1 DEF Answers
<1>8. CASE SocRead
  <2>1. /\ hpc = "poll" /\ seen = consumed /\ UNCHANGED <<rcvbuf, consumed>>
        /\ hpc' \in {"null", "copy", "check"} /\ (hpc' = "copy" => Len(rcvbuf) > seen)
    BY <1>8 DEF SocRead, Looks, hpcVars, cpsVars
  <2>2. QED
    BY <2>1 DEF Answers
<1>9. CASE Check \/ Reply
  BY <1>9 DEF Check, Reply, Answers
<1>10. CASE CopyForReader
  <2>1. queue # <<>> /\ Head(queue) # Consume
    BY <1>10 DEF IInv, Line, CopyForReader
  <2>2. Head(queue) \in Readers /\ owner = Head(queue) /\ pc[Head(queue)] # "idle"
    BY <2>1, Served
  <2>3. result'[Head(queue)] > 0
    BY <1>10, <2>2, CopyGives DEF CopyForReader, Answers
  <2>4. hpc' # "copy" /\ UNCHANGED queue
    BY <1>10 DEF CopyForReader
  <2>5. result'[Head(queue)] >= 0
    <3>1. result' \in [Readers -> Invalid .. RcvSize]
      BY <1>10, CopyForReaderStep DEF IInv, TypeOK
    <3>2. QED
      BY <2>2, <2>3, <3>1 DEF Invalid
  <2>6. QED
    BY <2>4, <2>5 DEF Answers
<1>11. CASE EndOfStream
  <2>1. queue # <<>> /\ Head(queue) # Consume
    BY <1>11 DEF IInv, Line, EndOfStream
  <2>2. Head(queue) \in Readers
    BY <2>1, Served
  <2>3. hpc' = "reply" /\ UNCHANGED queue /\ result' = [result EXCEPT ![Head(queue)] = 0]
    BY <1>11 DEF EndOfStream
  <2>4. QED
    BY <1>0, <2>2, <2>3 DEF Answers
<1>12. CASE ConsumeCPSBuffer
  BY <1>12 DEF ConsumeCPSBuffer, copyVars, Answers
<1>13. QED
  BY <1>1, <1>3, <1>4, <1>6, <1>7, <1>8, <1>9, <1>10, <1>11, <1>12 DEF Next, HandlerStep

(* A reader that is going to send a consume command goes on to do so.        *)
LEMMA ComingStays ==
  ASSUME IInv, Coming, NEW r \in Readers, NEW p, pc' = [pc EXCEPT ![r] = p],
         pc[r] \notin {"test", "post"}, UNCHANGED <<queue, hpc>>
  PROVE  Coming'
BY TypeIs DEF IInv, CallType, Coming

LEMMA StallStep == IInv /\ Looks /\ Answers /\ Stall /\ [Next]_vars => Stall'
<1> SUFFICES ASSUME IInv, Looks, Answers, Stall, [Next]_vars PROVE Stall'
  OBVIOUS
<1>0. /\ Len(rcvbuf) \in Nat /\ consumed \in 0 .. Len(rcvbuf) /\ RcvSize \in Nat /\ RcvSize > 0
      /\ queue \in Seq(Readers \cup {Consume}) /\ (hpc # "read" => queue # <<>>)
      /\ pc \in [Readers -> {"idle", "lock"} \cup Held]
      /\ Len(rcvbuf) <= RcvSize
  BY TypeIs, RecvAssumption DEF IInv, TypeOK, CallType, Line
<1>1. ASSUME NEW n \in 1 .. RcvSize, Arrive(n) PROVE Stall'
  <2>1. consumed < RcvSize /\ UNCHANGED consumed
    BY <1>0, <1>1, RecvAssumption DEF Arrive, Least, IInv, TypeOK
  <2>2. QED
    BY <1>0, <2>1 DEF Stall, Drained
<1>2. ASSUME UNCHANGED <<rcvbuf, consumed, refused>>, Coming => Coming' PROVE Stall'
  BY <1>2 DEF Stall, Drained
<1>3. CASE PeerEnds \/ UNCHANGED vars
  <2>1. UNCHANGED <<rcvbuf, consumed, refused, queue, hpc, pc>>
    BY <1>3 DEF PeerEnds, vars, cpsVars
  <2>2. Coming => Coming'
    BY <2>1 DEF Coming
  <2>3. QED
    BY <1>2, <2>1, <2>2
<1>4. ASSUME NEW r \in Readers, NEW p, pc' = [pc EXCEPT ![r] = p],
             pc[r] \notin {"test", "post"}, UNCHANGED <<rcvbuf, consumed, refused, queue, hpc>>
      PROVE  Stall'
  BY <1>2, <1>4, ComingStays
<1>5. ASSUME NEW r \in Readers, NEW n \in Lens, NEW block \in BOOLEAN, NEW peek \in BOOLEAN,
             ReadFrom(r, n, block, peek)
      PROVE  Stall'
  BY <1>4, <1>5 DEF ReadFrom, cpsVars
<1>6. ASSUME NEW r \in Readers, ReaderStep(r) PROVE Stall'
  <2>1. CASE Lock(r) \/ Unlock(r)
    <3>1. /\ pc[r] \notin {"test", "post"} /\ UNCHANGED <<rcvbuf, consumed, refused, queue, hpc>>
          /\ \/ pc' = [pc EXCEPT ![r] = "copy"]
             \/ pc' = [pc EXCEPT ![r] = "idle"]
      BY <2>1 DEF Lock, Unlock, Return, cpsVars
    <3>2. QED
      BY <1>4, <3>1
  <2>2. CASE ReadBuffer(r)
    <3>1. /\ pc[r] = "copy" /\ CopyCPSBuffer(r) /\ owner = r
          /\ UNCHANGED <<rcvbuf, refused, queue, hpc>>
          /\ pc' = [pc EXCEPT ![r] =
               IF result'[r] = WouldBlock /\ req[r].block THEN "send"
               ELSE IF result'[r] >= 0 THEN "test" ELSE "unlock"]
      BY <2>2 DEF ReadBuffer, AfterRead, IInv, Holder, Held, cpsVars
    <3>2. CASE result'[r] < 0
      <4>1. UNCHANGED consumed
        BY <3>1, <3>2, CopyGives
      <4>2. QED
        BY <1>4, <3>1, <4>1
    <3>3. CASE ~(result'[r] < 0)
      <4>1. result'[r] \in Int
        <5>1. result' \in [Readers -> Invalid .. RcvSize]
          BY <2>2, ReadBufferStep DEF IInv, TypeOK
        <5>2. QED
          BY <1>0, <5>1 DEF Invalid
      <4>2. pc'[r] = "test"
        BY <1>0, <3>1, <3>3, <4>1 DEF WouldBlock
      <4>3. QED
        BY <4>2 DEF Stall, Coming
    <3>4. QED
      BY <3>2, <3>3
  <2>3. CASE ExecReadCommand(r)
    <3>1. /\ pc[r] = "send" /\ pc' = [pc EXCEPT ![r] = "wait"] /\ queue' = Append(queue, r)
          /\ UNCHANGED <<rcvbuf, consumed, refused, hpc>>
      BY <2>3 DEF ExecReadCommand, cpsVars
    <3>2. /\ \A i \in 1 .. Len(queue) : i \in 1 .. Len(queue') /\ queue'[i] = queue[i]
          /\ queue # <<>> => Head(queue') = Head(queue)
      BY <1>0, <3>1
    <3>3. Coming => Coming'
      <4>1. SUFFICES ASSUME Coming PROVE Coming'
        OBVIOUS
      <4>2. CASE \E i \in 1 .. Len(queue) : queue[i] = Consume /\ (hpc = "reply" => i # 1)
        BY <3>1, <3>2, <4>2 DEF Coming
      <4>3. CASE \E q \in Readers : pc[q] \in {"test", "post"}
        BY <1>0, <3>1, <4>3 DEF Coming
      <4>4. CASE hpc = "consume" \/ (hpc = "reply" /\ Head(queue) # Consume)
        BY <1>0, <3>1, <3>2, <4>4 DEF Coming
      <4>5. QED
        BY <4>1, <4>2, <4>3, <4>4 DEF Coming
    <3>4. QED
      BY <1>2, <3>1, <3>3
  <2>4. CASE ConsumeTest(r)
    <3>1. /\ UNCHANGED <<rcvbuf, consumed>>
          /\ pc' = [pc EXCEPT ![r] = IF consumed < ConsumedMin THEN "unlock" ELSE "post"]
      BY <2>4 DEF ConsumeTest, cpsVars
    <3>2. CASE consumed < ConsumedMin
      BY <1>0, <3>1, <3>2, RecvAssumption DEF Stall, Drained
    <3>3. CASE ~(consumed < ConsumedMin)
      BY <1>0, <3>1, <3>3 DEF Stall, Coming
    <3>4. QED
      BY <3>2, <3>3
  <2>5. CASE ConsumePost(r)
    <3>1. UNCHANGED hpc /\ (refused' \/ queue' = Append(queue, Consume))
      BY <2>5 DEF ConsumePost
    <3>2. CASE queue' = Append(queue, Consume)
      <4>1. /\ Len(queue') = Len(queue) + 1 /\ queue'[Len(queue) + 1] = Consume
            /\ Len(queue) \in Nat /\ (queue # <<>> => Len(queue) > 0)
        BY <1>0, <3>2
      <4>2. Len(queue) + 1 \in 1 .. Len(queue') /\ (hpc = "reply" => Len(queue) + 1 # 1)
        BY <1>0, <4>1
      <4>3. QED
        BY <3>1, <4>1, <4>2 DEF Stall, Coming
    <3>3. QED
      BY <3>1, <3>2 DEF Stall
  <2>6. QED
    BY <1>6, <2>1, <2>2, <2>3, <2>4, <2>5 DEF ReaderStep
<1>7. CASE ReadMessage \/ SocRead \/ Check
  <2>1. /\ hpc \notin {"consume", "reply"} /\ hpc' # "reply"
        /\ UNCHANGED <<rcvbuf, consumed, refused, queue, pc>>
    BY <1>7 DEF ReadMessage, SocRead, Check, hpcVars, cpsVars
  <2>2. Coming => Coming'
    BY <2>1 DEF Coming
  <2>3. QED
    BY <1>2, <2>1, <2>2
<1>8. CASE CopyForReader \/ EndOfStream
  <2>1. Head(queue) # Consume /\ UNCHANGED queue /\ hpc' \in {"consume", "reply"}
    BY <1>8 DEF CopyForReader, EndOfStream, IInv, Line
  <2>2. QED
    BY <2>1 DEF Stall, Coming
<1>9. CASE ConsumeCPSBuffer
  BY <1>0, <1>9 DEF ConsumeCPSBuffer, Stall, Drained
<1>10. CASE Reply
  <2>1. /\ hpc = "reply" /\ queue' = Tail(queue) /\ hpc' = "read"
        /\ UNCHANGED <<rcvbuf, consumed, refused>>
        /\ pc' = [r \in Readers |->
             IF r # Head(queue) THEN pc[r] ELSE IF result[r] >= 0 THEN "test" ELSE "unlock"]
    BY <1>10 DEF Reply, hpcVars, cpsVars
  <2>2. Coming => Coming'
    <3>1. SUFFICES ASSUME Coming PROVE Coming'
      OBVIOUS
    <3>2. ASSUME NEW i \in 1 .. Len(queue), queue[i] = Consume, i # 1 PROVE Coming'
      <4>1. i - 1 \in 1 .. Len(queue') /\ queue'[i - 1] = Consume
        BY <1>0, <2>1, <3>2
      <4>2. QED
        BY <2>1, <4>1 DEF Coming
    <3>3. ASSUME NEW r \in Readers, pc[r] \in {"test", "post"} PROVE Coming'
      <4>1. r # Head(queue)
        <5>1. r # Consume
          BY RecvAssumption DEF Consume
        <5>2. QED
          BY <1>0, <2>1, <3>3, <5>1, Served
      <4>2. pc'[r] = pc[r]
        BY <2>1, <4>1
      <4>3. QED
        BY <3>3, <4>2 DEF Coming
    <3>4. ASSUME Head(queue) # Consume PROVE Coming'
      <4>1. Head(queue) \in Readers /\ result[Head(queue)] >= 0
        BY <1>0, <2>1, <3>4, Served DEF Answers
      <4>2. pc'[Head(queue)] = "test"
        BY <2>1, <4>1
      <4>3. QED
        BY <4>1, <4>2 DEF Coming
    <3>5. QED
      BY <2>1, <3>1, <3>2, <3>3, <3>4 DEF Coming
  <2>3. QED
    BY <1>2, <2>1, <2>2
<1>11. QED
  BY <1>1, <1>3, <1>5, <1>6, <1>7, <1>8, <1>9, <1>10 DEF Next, HandlerStep

(* A buffer full of bytes already read has somebody on the way to empty it,  *)
(* unless the last consume command was refused                               *)
(* (socl_read.c:102-104, 270-281, 318-336).                                  *)
THEOREM StallSafe == Spec => []StallOnlyRefused
<1>1. Init => Looks /\ Answers /\ Stall
  BY RecvAssumption DEF Init, Looks, Answers, Stall, Drained
<1>2. IInv /\ Stall => StallOnlyRefused
  <2>1. SUFFICES ASSUME IInv, Stall, Len(rcvbuf) = RcvSize, Unread = 0 PROVE Emptying \/ refused
    BY DEF StallOnlyRefused
  <2>2. Drained
    BY <2>1 DEF IInv, TypeOK, Unread, Drained
  <2>3. Coming => Emptying
    BY DEF Coming, Emptying, IInv, TypeOK
  <2>4. QED
    BY <2>1, <2>2, <2>3 DEF Stall
<1>3. QED
  BY <1>1, <1>2, RecvInit, InvStep, LooksStep, AnswersStep, StallStep, PTL DEF Spec
-----------------------------------------------------------------------------
(* The datagrams of a UDP socket (SoclUdp).                                  *)
Gram == [id : 1 .. MaxGrams, size : 1 .. RcvSize, whole : BOOLEAN]

UdpShape ==
  /\ grams \in Seq(Gram)
  /\ rcvbufp \in 0 .. RcvSize /\ received \in 0 .. MaxGrams
  /\ accepted \in Nat /\ taken \in Nat
  /\ life \in {"open", "closed", "flushing", "cleaned", "freed"}
  /\ big \in BOOLEAN /\ dropped \in BOOLEAN

(* The queue against what was accepted and taken; a clean-up discards the    *)
(* rest.                                                                     *)
Queued ==
  /\ taken + Len(grams) <= accepted /\ accepted <= received
  /\ life \in {"open", "closed", "flushing"} =>
       Len(grams) = accepted - taken /\ \A i \in 1 .. Len(grams) : grams[i].id = taken + i
  /\ ~big /\ ~dropped =>
       2 * rcvbufp <= RcvSize /\ \A i \in 1 .. Len(grams) : grams[i].whole

(* Who sleeps or was woken holds in_use; after the clean-up began, a reader  *)
(* in the call is one of inside, or was woken, or will be by the clean-up.   *)
Asleep ==
  /\ pc \in [Readers -> {"idle", "lock", "copy", "unlock"}]
  /\ owner \in Readers \cup {NoReader}
  /\ sleeper \in Readers \cup {NoReader} /\ woken \in Readers \cup {NoReader}
  /\ inside \subseteq Readers
  /\ \A r \in Readers : pc[r] \in {"copy", "unlock"} <=> owner = r
  /\ sleeper # NoReader =>
       pc[sleeper] = "copy" /\ woken = NoReader /\ (grams = <<>> \/ life = "freed")
  /\ woken # NoReader => pc[woken] = "copy"
  /\ life \in {"flushing", "cleaned", "freed"} =>
       \A r \in Readers : pc[r] \in {"lock", "copy"} =>
         r \in inside \/ woken = r \/ (sleeper = r /\ life = "flushing")

UdpInv == UdpShape /\ HeldIsSum /\ Queued /\ Asleep
GramInv == kind \in {"TCP", "UDP"} /\ (kind = "TCP" => UdpInit) /\ (kind = "UDP" => UdpInv)

(* Induction, over a set of numbers.                                         *)
LEMMA Induction ==
  ASSUME NEW S \in SUBSET Nat, 0 \in S, \A n \in S : n + 1 \in S
  PROVE  Nat \subseteq S
<1>1. SUFFICES ASSUME Nat \ S # {} PROVE FALSE
  OBVIOUS
<1>2. PICK x \in Nat \ S : \A y \in Nat \ S : ~(<<y, x>> \in OpToRel(<, Nat))
  BY <1>1, NatLessThanWellFounded, WFMin
<1>3. \A y \in Nat \ S : ~(y < x)
  BY <1>2 DEF OpToRel
<1>4. x # 0 /\ x - 1 \in Nat
  <2>1. x \in Nat /\ x # 0
    BY <1>2
  <2>2. QED
    BY <2>1
<1>5. x - 1 \in S
  BY <1>3, <1>4
<1>6. (x - 1) + 1 = x
  BY <1>4
<1>7. QED
  BY <1>2, <1>5, <1>6

LEMMA NothingHeld == grams = <<>> /\ held = 0 => HeldIsSum
<1> SUFFICES ASSUME grams = <<>>, held = 0 PROVE HeldIsSum
  OBVIOUS
<1> DEFINE sum == [i \in 0 .. 0 |-> 0]
<1>1. Len(grams) = 0 /\ DOMAIN grams = {}
  OBVIOUS
<1>2. sum \in [0 .. Len(grams) -> 0 .. UdpMax] /\ sum[0] = 0
  BY <1>1, UdpAssumption
<1> HIDE DEF sum
<1>3. QED
  BY <1>1, <1>2 DEF HeldIsSum

LEMMA UdpInitShape == UdpInit => UdpShape /\ HeldIsSum /\ Queued
<1> SUFFICES ASSUME UdpInit PROVE UdpShape /\ HeldIsSum /\ Queued
  OBVIOUS
<1>1. UdpShape
  <2>1. grams \in Seq(Gram) /\ rcvbufp \in 0 .. RcvSize /\ received \in 0 .. MaxGrams
        /\ accepted \in Nat /\ taken \in Nat
    BY RecvAssumption, UdpAssumption DEF UdpInit
  <2>2. big \in BOOLEAN /\ dropped \in BOOLEAN
    BY DEF UdpInit
  <2>3. life \in {"open", "closed", "flushing", "cleaned", "freed"}
    BY DEF UdpInit
  <2>4. QED
    BY <2>1, <2>2, <2>3 DEF UdpShape
<1>2. Queued
  BY RecvAssumption DEF UdpInit, Queued
<1>3. QED
  BY <1>1, <1>2, NothingHeld DEF UdpInit

LEMMA GramInit == ReadInit => GramInv
<1> SUFFICES ASSUME ReadInit PROVE GramInv
  OBVIOUS
<1>1. Asleep
  BY RecvAssumption DEF ReadInit, Init, UdpInit, Asleep
<1>2. QED
  BY <1>1, UdpInitShape DEF ReadInit, GramInv, UdpInv

-----------------------------------------------------------------------------
(* The two ends of the queue.                                                *)

LEMMA GramSize == ASSUME NEW x \in Gram PROVE x.size \in 1 .. RcvSize /\ x.size \in Nat
BY RecvAssumption DEF Gram

LEMMA QueueStep ==
  ASSUME UdpShape, HeldIsSum, Queued, NEW size \in 1 .. RcvSize,
         NEW n \in 1 .. RcvSize, n = Least(size, RcvSize - rcvbufp), Queue(n, size),
         received < MaxGrams, received' = received + 1, rcvbufp' = n,
         big' = (big \/ 2 * size > RcvSize), UNCHANGED life
  PROVE  UdpShape' /\ HeldIsSum' /\ Queued'
<1> DEFINE g == [id |-> accepted + 1, size |-> n, whole |-> n = size]
<1>1. /\ grams \in Seq(Gram) /\ Len(grams) \in Nat
      /\ accepted \in Nat /\ taken \in Nat /\ received \in Nat /\ MaxGrams \in Nat
      /\ accepted <= received /\ taken + Len(grams) <= accepted /\ accepted + 1 <= MaxGrams
      /\ RcvSize \in Nat /\ rcvbufp \in 0 .. RcvSize /\ UdpMax \in Nat
  BY RecvAssumption, UdpAssumption DEF UdpShape, Queued
<1>2. g \in Gram
  BY <1>1 DEF Gram
<1>3. /\ grams' = Append(grams, g) /\ held + n <= UdpMax /\ held' = held + n
      /\ accepted' = accepted + 1 /\ taken' = taken /\ dropped' = dropped
  BY DEF Queue
<1> HIDE DEF g
<1>4. /\ grams' \in Seq(Gram) /\ Len(grams') = Len(grams) + 1 /\ grams'[Len(grams) + 1] = g
      /\ \A i \in 1 .. Len(grams) : grams'[i] = grams[i]
  BY <1>1, <1>2, <1>3
<1>5. UdpShape'
  BY <1>1, <1>3, <1>4 DEF UdpShape
<1>6. HeldIsSum'
  <2>1. PICK sum \in [0 .. Len(grams) -> 0 .. UdpMax] :
          /\ sum[0] = 0 /\ sum[Len(grams)] = held
          /\ \A i \in DOMAIN grams : sum[i] = sum[i - 1] + grams[i].size
    BY DEF HeldIsSum
  <2>2. held \in Nat /\ held + n \in 0 .. UdpMax /\ DOMAIN grams = 1 .. Len(grams)
        /\ DOMAIN grams' = 1 .. Len(grams) + 1
    <3>1. Len(grams) \in 0 .. Len(grams)
      BY <1>1
    <3>2. held \in 0 .. UdpMax
      BY <3>1, <2>1
    <3>3. held + n \in 0 .. UdpMax
      BY <3>2, <1>1, <1>3
    <3>4. QED
      BY <3>2, <3>3, <1>1, <1>4
  <2> DEFINE new == [i \in 0 .. Len(grams) + 1 |-> IF i = Len(grams) + 1 THEN held + n ELSE sum[i]]
  <2>3. new \in [0 .. Len(grams') -> 0 .. UdpMax]
    BY <1>1, <1>4, <2>1, <2>2
  <2>4. new[0] = 0 /\ new[Len(grams')] = held'
    BY <1>1, <1>3, <1>4, <2>1
  <2>5. ASSUME NEW i \in 1 .. Len(grams) + 1
        PROVE  new[i] = new[i - 1] + grams'[i].size
    <3>1. CASE i = Len(grams) + 1
      <4>1. new[i] = held + n /\ new[i - 1] = held /\ grams'[i].size = n
        BY <3>1, <1>1, <1>4, <2>1 DEF g
      <4>2. QED
        BY <4>1
    <3>2. CASE i # Len(grams) + 1
      <4>1. i \in 1 .. Len(grams) /\ i - 1 \in 0 .. Len(grams) + 1 /\ i - 1 # Len(grams) + 1
            /\ i \in 0 .. Len(grams) + 1
        BY <3>2, <1>1
      <4>2. new[i] = sum[i] /\ new[i - 1] = sum[i - 1] /\ grams'[i] = grams[i]
        BY <3>2, <4>1, <1>4
      <4>3. QED
        BY <4>1, <4>2, <2>1, <2>2
    <3>3. QED
      BY <3>1, <3>2
  <2> HIDE DEF new
  <2>6. QED
    BY <2>2, <2>3, <2>4, <2>5 DEF HeldIsSum
<1>7. Queued'
  <2>1. taken' + Len(grams') <= accepted' /\ accepted' <= received'
    BY <1>1, <1>3, <1>4
  <2>2. ASSUME life \in {"open", "closed", "flushing"}
        PROVE  /\ Len(grams') = accepted' - taken'
               /\ \A i \in 1 .. Len(grams') : grams'[i].id = taken' + i
    <3>1. Len(grams) = accepted - taken /\ \A i \in 1 .. Len(grams) : grams[i].id = taken + i
      BY <2>2 DEF Queued
    <3>2. Len(grams') = accepted' - taken'
      BY <3>1, <1>1, <1>3, <1>4
    <3>3. ASSUME NEW i \in 1 .. Len(grams') PROVE grams'[i].id = taken' + i
      <4>1. CASE i = Len(grams) + 1
        BY <4>1, <3>1, <1>1, <1>3, <1>4 DEF g
      <4>2. CASE i # Len(grams) + 1
        <5>1. i \in 1 .. Len(grams)
          BY <4>2, <1>1, <1>4
        <5>2. QED
          BY <5>1, <3>1, <1>3, <1>4
      <4>3. QED
        BY <4>1, <4>2
    <3>4. QED
      BY <3>2, <3>3
  <2>3. ASSUME ~big', ~dropped'
        PROVE  2 * rcvbufp' <= RcvSize /\ \A i \in 1 .. Len(grams') : grams'[i].whole
    <3>0. ~big /\ ~(2 * size > RcvSize) /\ ~dropped
      BY <2>3, <1>3, Zenon
    <3>1. ~big /\ 2 * size <= RcvSize /\ ~dropped
      <4>1. 2 * size <= RcvSize
        BY <3>0, <1>1
      <4>2. QED
        BY <3>0, <4>1
    <3>2. 2 * rcvbufp <= RcvSize /\ \A i \in 1 .. Len(grams) : grams[i].whole
      BY <3>1 DEF Queued
    <3>3. n = size
      BY <3>1, <3>2, <1>1 DEF Least
    <3>4. ASSUME NEW i \in 1 .. Len(grams') PROVE grams'[i].whole
      <4>1. CASE i = Len(grams) + 1
        <5>1. g.whole
          BY <3>3 DEF g
        <5>2. grams'[i] = g
          BY <4>1, <1>4
        <5>3. QED
          BY <5>1, <5>2
      <4>2. CASE i # Len(grams) + 1
        <5>1. i \in 1 .. Len(grams)
          BY <4>2, <1>1, <1>4
        <5>2. QED
          BY <5>1, <3>2, <1>4
      <4>3. QED
        BY <4>1, <4>2
    <3>5. QED
      BY <3>1, <3>3, <3>4
  <2>4. QED
    BY <2>1, <2>2, <2>3 DEF Queued
<1>8. QED
  BY <1>5, <1>6, <1>7

LEMMA TakeStep ==
  ASSUME UdpShape, HeldIsSum, Queued, grams # <<>>,
         grams' = Tail(grams), held' = held - Head(grams).size, taken' = taken + 1,
         UNCHANGED <<accepted, rcvbufp, received, big, dropped, life>>
  PROVE  UdpShape' /\ HeldIsSum' /\ Queued'
<1>1. /\ grams \in Seq(Gram) /\ Len(grams) \in Nat \ {0} /\ Head(grams) = grams[1]
      /\ accepted \in Nat /\ taken \in Nat /\ received \in Nat
      /\ accepted <= received /\ taken + Len(grams) <= accepted /\ UdpMax \in Nat
      /\ RcvSize \in Nat
  BY RecvAssumption, UdpAssumption DEF UdpShape, Queued
<1>2. /\ grams' \in Seq(Gram) /\ Len(grams') = Len(grams) - 1
      /\ \A i \in 1 .. Len(grams) - 1 : grams'[i] = grams[i + 1]
  BY <1>1
<1>3. \A i \in 1 .. Len(grams) - 1 : i + 1 \in 1 .. Len(grams)
  BY <1>1
<1>4. UdpShape'
  BY <1>1, <1>2 DEF UdpShape
<1>5. HeldIsSum'
  <2>1. PICK sum \in [0 .. Len(grams) -> 0 .. UdpMax] :
          /\ sum[0] = 0 /\ sum[Len(grams)] = held
          /\ \A i \in DOMAIN grams : sum[i] = sum[i - 1] + grams[i].size
    BY DEF HeldIsSum
  <2> DEFINE first == Head(grams).size
             new == [i \in 0 .. Len(grams) - 1 |-> sum[i + 1] - first]
  <2>2. DOMAIN grams = 1 .. Len(grams) /\ DOMAIN grams' = 1 .. Len(grams) - 1
    BY <1>1, <1>2
  <2>3. first \in Nat /\ sum[1] = first
    <3>1. grams[1] \in Gram /\ 1 \in DOMAIN grams
      BY <1>1, <2>2
    <3>2. first = grams[1].size /\ first \in 1 .. RcvSize
      BY <3>1, <1>1 DEF Gram
    <3>3. sum[1] = sum[0] + grams[1].size
      BY <3>1, <2>1
    <3>4. QED
      BY <3>2, <3>3, <2>1, <1>1
  <2> HIDE DEF first
  <2>4. ASSUME NEW i \in 0 .. Len(grams) - 1
        PROVE  /\ i + 1 \in 0 .. Len(grams) /\ sum[i + 1] \in Nat
               /\ sum[i + 1] <= UdpMax /\ new[i] = sum[i + 1] - first
    BY <1>1, <2>1
  <2>5. ASSUME NEW i \in 1 .. Len(grams) - 1
        PROVE  new[i] = new[i - 1] + grams'[i].size /\ grams'[i].size \in Nat
    <3>1. i \in 0 .. Len(grams) - 1 /\ i - 1 \in 0 .. Len(grams) - 1 /\ i + 1 \in DOMAIN grams
          /\ (i - 1) + 1 = i /\ (i + 1) - 1 = i
      BY <1>1, <2>2
    <3>2. sum[i + 1] = sum[i] + grams[i + 1].size
      BY <3>1, <2>1
    <3>3. new[i] = sum[i + 1] - first /\ new[i - 1] = sum[i] - first
      BY <3>1, <2>4
    <3>4. grams'[i] = grams[i + 1] /\ grams[i + 1] \in Gram
      BY <1>1, <1>2, <3>1
    <3>5. sum[i] \in Nat /\ sum[i + 1] \in Nat /\ grams[i + 1].size \in Nat
      <4>1. i \in 0 .. Len(grams) /\ i + 1 \in 0 .. Len(grams)
        BY <1>1
      <4>2. sum[i] \in 0 .. UdpMax /\ sum[i + 1] \in 0 .. UdpMax
        BY <4>1, <2>1
      <4>3. QED
        BY <4>2, <3>4, GramSize, <1>1
    <3>6. QED
      BY <3>2, <3>3, <3>4, <3>5, <2>3
  <2>6. \A i \in 0 .. Len(grams) - 1 : new[i] \in 0 .. UdpMax
    <3> DEFINE S == {k \in Nat : k + 1 <= Len(grams) => first <= sum[k + 1]}
    <3>1. 0 \in S
      BY <2>3
    <3>2. ASSUME NEW k \in S PROVE k + 1 \in S
      <4>1. SUFFICES ASSUME (k + 1) + 1 <= Len(grams) PROVE first <= sum[(k + 1) + 1]
        OBVIOUS
      <4>2. first <= sum[k + 1]
        BY <4>1, <1>1
      <4>3. /\ (k + 1) + 1 \in DOMAIN grams /\ ((k + 1) + 1) - 1 = k + 1
            /\ k + 1 \in 0 .. Len(grams) /\ (k + 1) + 1 \in 0 .. Len(grams)
        BY <4>1, <1>1, <2>2
      <4>4. sum[(k + 1) + 1] = sum[k + 1] + grams[(k + 1) + 1].size
        BY <4>3, <2>1
      <4>5. /\ grams[(k + 1) + 1].size \in Nat
            /\ sum[k + 1] \in Nat /\ sum[(k + 1) + 1] \in Nat
        <5>1. grams[(k + 1) + 1] \in Gram
          BY <4>3, <1>1
        <5>2. sum[k + 1] \in 0 .. UdpMax /\ sum[(k + 1) + 1] \in 0 .. UdpMax
          BY <4>3, <2>1
        <5>3. QED
          BY <5>1, <5>2, GramSize, <1>1
      <4>6. QED
        BY <4>2, <4>4, <4>5, <2>3
    <3>3. Nat \subseteq S
      <4> HIDE DEF S
      <4>1. S \in SUBSET Nat
        BY DEF S
      <4>2. QED
        BY <3>1, <3>2, <4>1, Induction
    <3>4. ASSUME NEW i \in 0 .. Len(grams) - 1 PROVE new[i] \in 0 .. UdpMax
      <4>1. i \in S /\ i + 1 <= Len(grams)
        BY <3>3, <1>1
      <4>2. first <= sum[i + 1]
        BY <4>1
      <4>3. QED
        BY <4>2, <2>3, <2>4, <1>1
    <3>5. QED
      BY <3>4
  <2>7. new \in [0 .. Len(grams') -> 0 .. UdpMax]
    BY <2>6, <1>2
  <2>8. new[0] = 0 /\ new[Len(grams')] = held'
    <3>1. 0 \in 0 .. Len(grams) - 1 /\ Len(grams) - 1 \in 0 .. Len(grams) - 1
          /\ (Len(grams) - 1) + 1 = Len(grams) /\ 0 + 1 = 1
      BY <1>1
    <3>2. new[0] = sum[1] - first /\ new[Len(grams) - 1] = sum[Len(grams)] - first
      BY <3>1, <2>4
    <3>3. QED
      BY <3>2, <2>1, <2>3, <1>2 DEF first
  <2> HIDE DEF new
  <2>9. QED
    BY <2>2, <2>5, <2>7, <2>8 DEF HeldIsSum
<1>6. Queued'
  <2>1. taken' + Len(grams') <= accepted' /\ accepted' <= received'
    BY <1>1, <1>2
  <2>2. ASSUME life \in {"open", "closed", "flushing"}
        PROVE  /\ Len(grams') = accepted' - taken'
               /\ \A i \in 1 .. Len(grams') : grams'[i].id = taken' + i
    <3>1. Len(grams) = accepted - taken /\ \A i \in 1 .. Len(grams) : grams[i].id = taken + i
      BY <2>2 DEF Queued
    <3>2. Len(grams') = accepted' - taken'
      BY <3>1, <1>1, <1>2
    <3>3. ASSUME NEW i \in 1 .. Len(grams') PROVE grams'[i].id = taken' + i
      <4>1. i + 1 \in 1 .. Len(grams) /\ grams'[i] = grams[i + 1]
        BY <1>1, <1>2
      <4>2. grams[i + 1].id = taken + (i + 1)
        BY <4>1, <3>1
      <4>3. QED
        BY <4>1, <4>2, <1>1, <1>2
    <3>4. QED
      BY <3>2, <3>3
  <2>3. ASSUME ~big', ~dropped'
        PROVE  2 * rcvbufp' <= RcvSize /\ \A i \in 1 .. Len(grams') : grams'[i].whole
    <3>1. 2 * rcvbufp <= RcvSize /\ \A i \in 1 .. Len(grams) : grams[i].whole
      BY <2>3 DEF Queued
    <3>2. QED
      BY <3>1, <1>2, <1>3
  <2>4. QED
    BY <2>1, <2>2, <2>3 DEF Queued
<1>7. QED
  BY <1>4, <1>5, <1>6

-----------------------------------------------------------------------------
(* What the queue, and the readers, make of the other actions.               *)

LEMMA UdpShapeStay ==
  ASSUME UdpShape, HeldIsSum, Queued, UNCHANGED <<queueVars, threadVars, life>>
  PROVE  UdpShape' /\ HeldIsSum' /\ Queued'
BY DEF UdpShape, HeldIsSum, Queued, queueVars, threadVars

(* A step in the life of the socket before the clean-up of the queue.        *)
LEMMA LifeMoves ==
  ASSUME UdpShape, HeldIsSum, Queued, UNCHANGED <<queueVars, threadVars>>,
         \/ life = "open" /\ life' = "closed"
         \/ life = "closed" /\ life' = "flushing"
         \/ life = "cleaned" /\ life' = "freed"
  PROVE  UdpShape' /\ HeldIsSum' /\ Queued'
BY DEF UdpShape, HeldIsSum, Queued, queueVars, threadVars

LEMMA EmptyQueueStep ==
  ASSUME UdpInv, EmptyQueue
  PROVE  UdpInv'
<1>1. /\ life = "flushing" /\ life' = "cleaned" /\ grams' = <<>> /\ held' = 0
      /\ UNCHANGED <<accepted, taken, threadVars, inside, pc, owner>>
      /\ sleeper' = NoReader
      /\ woken' = IF sleeper # NoReader THEN sleeper ELSE woken
  BY DEF EmptyQueue, Wakeup, vars
<1>2. UdpShape'
  BY <1>1 DEF UdpInv, UdpShape, threadVars
<1>3. HeldIsSum'
  <2>1. (grams = <<>> /\ held = 0)'
    BY <1>1
  <2>2. QED
    BY <2>1, NothingHeld, PTL
<1>4. Queued'
  BY <1>1 DEF UdpInv, UdpShape, Queued, threadVars
<1>5. Asleep'
  BY <1>1, RecvAssumption DEF UdpInv, Asleep
<1>6. QED
  BY <1>2, <1>3, <1>4, <1>5 DEF UdpInv

LEMMA RecvGramStep ==
  ASSUME UdpInv, NEW size \in 1 .. RcvSize, RecvGram(size)
  PROVE  UdpInv'
<1> DEFINE n == Least(size, RcvSize - rcvbufp)
<1>1. /\ life # "freed" /\ received < MaxGrams /\ received' = received + 1
      /\ big' = (big \/ 2 * size > RcvSize)
      /\ UNCHANGED <<pc, owner, life, inside>>
      /\ \/ n = 0 /\ UNCHANGED <<queueVars, sleepVars, rcvbufp, dropped>>
         \/ n > 0 /\ UdpRecvCallback(n, size) /\ Wakeup
  BY DEF RecvGram, vars
<1>2. /\ n \in 0 .. RcvSize - rcvbufp /\ RcvSize \in Nat \ {0} /\ rcvbufp \in 0 .. RcvSize
      /\ received + 1 \in 0 .. MaxGrams /\ n <= size
  BY <1>1, RecvAssumption, UdpAssumption DEF UdpInv, UdpShape, Least
<1>3. n \in 0 .. RcvSize
  BY <1>2
<1>4. CASE n = 0 /\ UNCHANGED <<queueVars, sleepVars, rcvbufp, dropped>>
  <2>1. UdpShape'
    BY <1>1, <1>2, <1>4 DEF UdpInv, UdpShape, queueVars
  <2>2. HeldIsSum'
    BY <1>4 DEF UdpInv, HeldIsSum, queueVars
  <2>3. Queued'
    BY <1>1, <1>2, <1>4 DEF UdpInv, UdpShape, Queued, queueVars
  <2>4. Asleep'
    BY <1>1, <1>4 DEF UdpInv, Asleep, queueVars, sleepVars
  <2>5. QED
    BY <2>1, <2>2, <2>3, <2>4 DEF UdpInv
<1>5. CASE n > 0 /\ UdpRecvCallback(n, size) /\ Wakeup
  <2>1. Asleep'
    <3>1. sleeper' = NoReader /\ woken' = IF sleeper # NoReader THEN sleeper ELSE woken
      BY <1>5 DEF Wakeup
    <3>2. QED
      BY <1>1, <3>1, RecvAssumption DEF UdpInv, Asleep
  <2>2. CASE Queue(n, size) /\ rcvbufp' = n
    <3>1. n \in 1 .. RcvSize
      BY <1>2, <1>3, <1>5
    <3>2. UdpShape' /\ HeldIsSum' /\ Queued'
      BY <3>1, <2>2, <1>1, QueueStep DEF UdpInv
    <3>3. QED
      BY <3>2, <2>1 DEF UdpInv
  <2>3. CASE Refuse /\ rcvbufp' = rcvbufp + n
    <3>1. rcvbufp' \in 0 .. RcvSize
      BY <2>3, <1>2
    <3>2. dropped' = TRUE /\ UNCHANGED queueVars
      BY <2>3 DEF Refuse
    <3>3. UdpShape'
      BY <3>1, <3>2, <1>1, <1>2 DEF UdpInv, UdpShape, queueVars
    <3>4. HeldIsSum'
      BY <3>2 DEF UdpInv, HeldIsSum, queueVars
    <3>5. Queued'
      BY <3>2, <1>1, <1>2 DEF UdpInv, UdpShape, Queued, queueVars
    <3>6. QED
      BY <3>3, <3>4, <3>5, <2>1 DEF UdpInv
  <2>4. QED
    BY <1>5, <2>2, <2>3 DEF UdpRecvCallback
<1>6. QED
  BY <1>1, <1>4, <1>5

LEMMA LookAtQueueStep ==
  ASSUME UdpInv, NEW r \in Readers, LookAtQueue(r), pc[r] = "copy", sleeper = NoReader,
         woken = NoReader \/ life = "open", woken' = NoReader, life # "freed",
         UNCHANGED <<owner, threadVars, life, inside>>
  PROVE  UdpInv'
<1>1. CASE grams = <<>> /\ sleeper' = r /\ UNCHANGED <<queueVars, pc>>
  <2>1. UdpShape' /\ HeldIsSum' /\ Queued'
    BY <1>1, UdpShapeStay DEF UdpInv
  <2>2. Asleep'
    BY <1>1, RecvAssumption DEF UdpInv, Asleep, queueVars
  <2>3. QED
    BY <2>1, <2>2 DEF UdpInv
<1>2. CASE pc' = [pc EXCEPT ![r] = "unlock"] /\ UNCHANGED sleeper
  <2>1. Asleep'
    BY <1>2, RecvAssumption DEF UdpInv, Asleep
  <2>2. CASE UNCHANGED queueVars
    <3>1. UdpShape' /\ HeldIsSum' /\ Queued'
      BY <2>2, UdpShapeStay DEF UdpInv
    <3>2. QED
      BY <3>1, <2>1 DEF UdpInv
  <2>3. CASE /\ grams # <<>> /\ grams' = Tail(grams) /\ held' = held - Head(grams).size
             /\ taken' = taken + 1 /\ UNCHANGED accepted
    <3>1. UdpShape' /\ HeldIsSum' /\ Queued'
      BY <2>3, TakeStep DEF UdpInv, threadVars
    <3>2. QED
      BY <3>1, <2>1 DEF UdpInv
  <2>4. UNCHANGED queueVars \/
        (/\ grams # <<>> /\ grams' = Tail(grams) /\ held' = held - Head(grams).size
         /\ taken' = taken + 1 /\ UNCHANGED accepted)
    BY DEF LookAtQueue
  <2>5. QED
    BY <2>2, <2>3, <2>4
<1>3. QED
  BY <1>1, <1>2 DEF LookAtQueue, UdpReturn

LEMMA ReadUdpBufferStep ==
  ASSUME UdpInv, NEW r \in Readers, ReadUdpBuffer(r)
  PROVE  UdpInv'
<1>1. /\ pc[r] = "copy" /\ sleeper # r /\ woken # r /\ life # "freed"
      /\ LookAtQueue(r) /\ UNCHANGED <<woken, owner, threadVars, life, inside>>
  BY DEF ReadUdpBuffer
<1>2. sleeper = NoReader /\ woken = NoReader
  BY <1>1 DEF UdpInv, Asleep
<1>3. QED
  BY <1>1, <1>2, LookAtQueueStep

LEMMA WakeStep ==
  ASSUME UdpInv, NEW r \in Readers, WakeFromSleep(r)
  PROVE  UdpInv'
<1>1. /\ woken = r /\ woken' = NoReader /\ life # "freed"
      /\ UNCHANGED <<owner, threadVars, life, inside>>
  BY DEF WakeFromSleep
<1>2. pc[r] = "copy" /\ sleeper = NoReader
  BY <1>1, RecvAssumption DEF UdpInv, Asleep
<1>3. CASE life = "open" /\ LookAtQueue(r)
  BY <1>1, <1>2, <1>3, LookAtQueueStep
<1>4. CASE pc' = [pc EXCEPT ![r] = "unlock"] /\ UNCHANGED <<sleeper, queueVars>>
  <2>1. UdpShape' /\ HeldIsSum' /\ Queued'
    BY <1>1, <1>4, UdpShapeStay DEF UdpInv
  <2>2. Asleep'
    BY <1>1, <1>2, <1>4, RecvAssumption DEF UdpInv, Asleep, queueVars
  <2>3. QED
    BY <2>1, <2>2 DEF UdpInv
<1>5. QED
  BY <1>3, <1>4 DEF WakeFromSleep, UdpReturn

LEMMA UdpCallStep ==
  ASSUME UdpInv, NEW r \in Readers, UNCHANGED udpVars,
         \/ life = "open" /\ \E block \in BOOLEAN, peek \in BOOLEAN : ReadFrom(r, 1, block, peek)
         \/ life # "freed" /\ (Lock(r) \/ Unlock(r))
  PROVE  UdpInv'
<1>1. UdpShape' /\ HeldIsSum' /\ Queued'
  BY UdpShapeStay DEF UdpInv, udpVars
<1>2. UNCHANGED <<sleeper, woken, life, inside, grams>>
  BY DEF udpVars, sleepVars, queueVars
<1>3. CASE life = "open" /\ \E block \in BOOLEAN, peek \in BOOLEAN : ReadFrom(r, 1, block, peek)
  <2>1. pc[r] = "idle" /\ pc' = [pc EXCEPT ![r] = "lock"] /\ owner' = owner
    BY <1>3 DEF ReadFrom
  <2>2. Asleep'
    BY <2>1, <1>2, <1>3 DEF UdpInv, Asleep
  <2>3. QED
    BY <1>1, <2>2 DEF UdpInv
<1>4. CASE Lock(r)
  <2>1. /\ pc[r] = "lock"
        /\ \/ owner = NoReader /\ owner' = r /\ pc' = [pc EXCEPT ![r] = "copy"]
           \/ owner' = owner /\ pc' = [pc EXCEPT ![r] = "idle"]
    BY <1>4 DEF Lock, Return
  <2>2. Asleep'
    BY <2>1, <1>2, RecvAssumption DEF UdpInv, Asleep
  <2>3. QED
    BY <1>1, <2>2 DEF UdpInv
<1>5. CASE Unlock(r)
  <2>1. pc[r] = "unlock" /\ pc' = [pc EXCEPT ![r] = "idle"] /\ owner' = NoReader
    BY <1>5 DEF Unlock, Return
  <2>2. Asleep'
    BY <2>1, <1>2, RecvAssumption DEF UdpInv, Asleep
  <2>3. QED
    BY <1>1, <2>2 DEF UdpInv
<1>6. QED
  BY <1>3, <1>4, <1>5

LEMMA LifeStep ==
  ASSUME UdpInv, CloseCallBack \/ CleanupSocket \/ FreeSocket
  PROVE  UdpInv'
<1>1. UNCHANGED <<queueVars, threadVars, sleeper, woken, pc, owner, grams>>
  BY DEF CloseCallBack, CleanupSocket, FreeSocket, vars, sleepVars, queueVars
<1>2. \/ life = "open" /\ life' = "closed" /\ inside' = inside
      \/ /\ life = "closed" /\ life' = "flushing"
         /\ inside' = {r \in Readers : pc[r] \in {"lock", "copy"} /\ r \notin {sleeper, woken}}
      \/ life = "cleaned" /\ life' = "freed" /\ inside' = inside
  BY DEF CloseCallBack, CleanupSocket, FreeSocket
<1>3. UdpShape' /\ HeldIsSum' /\ Queued'
  BY <1>1, <1>2, LifeMoves DEF UdpInv
<1>4. Asleep'
  BY <1>1, <1>2 DEF UdpInv, Asleep
<1>5. QED
  BY <1>3, <1>4 DEF UdpInv

LEMMA GramStep == GramInv /\ [ReadNext]_allVars => GramInv'
<1> SUFFICES ASSUME GramInv, [ReadNext]_allVars PROVE GramInv'
  OBVIOUS
<1>1. CASE kind = "TCP"
  <2>1. UNCHANGED <<kind, udpVars>>
    BY <1>1 DEF ReadNext, IsTCP, allVars
  <2>2. UdpInit'
    BY <1>1, <2>1 DEF GramInv, UdpInit, udpVars, queueVars, sleepVars, threadVars
  <2>3. QED
    BY <1>1, <2>1, <2>2 DEF GramInv
<1>2. CASE kind = "UDP" /\ UNCHANGED kind /\ UdpNext
  <2>1. UdpInv
    BY <1>2 DEF GramInv
  <2>2. ASSUME NEW r \in Readers,
               \/ \E block \in BOOLEAN, peek \in BOOLEAN :
                    life = "open" /\ ReadFrom(r, 1, block, peek) /\ UNCHANGED udpVars
               \/ UdpReaderStep(r)
        PROVE  UdpInv'
    BY <2>1, <2>2, ReadUdpBufferStep, WakeStep, UdpCallStep DEF UdpReaderStep
  <2>3. UdpInv'
    BY <1>2, <2>1, <2>2, RecvGramStep, LifeStep, EmptyQueueStep DEF UdpNext
  <2>4. QED
    BY <1>2, <2>3 DEF GramInv
<1>3. CASE kind = "UDP" /\ UNCHANGED allVars
  <2>1. UdpShape' /\ HeldIsSum' /\ Queued'
    BY <1>3, UdpShapeStay DEF GramInv, UdpInv, allVars, udpVars
  <2>2. Asleep'
    BY <1>3 DEF GramInv, UdpInv, Asleep, allVars, udpVars, vars, sleepVars, queueVars
  <2>3. QED
    BY <1>3, <2>1, <2>2 DEF GramInv, UdpInv, allVars
<1>4. QED
  BY <1>1, <1>2, <1>3 DEF GramInv, ReadNext, IsTCP

LEMMA UdpTypes == UdpShape /\ HeldIsSum /\ Queued => held \in Nat /\ held <= UdpMax
BY UdpAssumption DEF HeldIsSum, UdpShape

(* The datagrams of a socket are queued whole, in their order and within     *)
(* the room there is for them, and not forgotten, for every buffer, room and *)
(* set of readers (socl_read.c:406-453).                                     *)
THEOREM GramsSafe == ReadSpec => []GramsKept
<1>1. GramInv => GramsKept
  <2> SUFFICES ASSUME GramInv PROVE GramsKept
    OBVIOUS
  <2>1. UdpShape /\ HeldIsSum /\ Queued
    BY UdpInitShape DEF GramInv, UdpInv
  <2>2. {sleeper, woken} \subseteq Readers \cup {NoReader} /\ inside \subseteq Readers
    BY DEF GramInv, UdpInv, Asleep, UdpInit
  <2>3. {big, dropped} \subseteq BOOLEAN
    <3>1. big \in BOOLEAN /\ dropped \in BOOLEAN
      BY <2>1 DEF UdpShape
    <3>2. QED
      BY <3>1, Zenon
  <2>4. {received, accepted, taken} \subseteq 0 .. MaxGrams
    BY <2>1, UdpAssumption DEF UdpShape, Queued
  <2>5. UdpTypeOK
    BY <2>1, <2>2, <2>3, <2>4, UdpTypes DEF GramInv, UdpTypeOK, UdpShape, Gram
  <2>6. QED
    BY <2>1, <2>5 DEF GramsKept, Queued, UdpShape
<1>2. QED
  BY GramInit, GramStep, <1>1, PTL DEF ReadSpec

(* Nobody sleeps on a queue with a datagram in it, and nobody is asleep      *)
(* behind the clean-up of the socket but a reader that had not looked at the *)
(* queue when it began: who was asleep or just woken returns                 *)
(* (socl_read.c:380-392, socl_close.c:97-115).                               *)
THEOREM SleepSafe == ReadSpec => []NobodyForgotten
<1>1. GramInv => NobodyForgotten
  BY DEF GramInv, UdpInv, UdpInit, UdpShape, Asleep, NobodyForgotten
<1>2. QED
  BY GramInit, GramStep, <1>1, PTL DEF ReadSpec
=============================================================================
