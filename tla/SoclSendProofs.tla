--------------------------- MODULE SoclSendProofs ---------------------------
(***************************************************************************)
(* For every size of ring, send buffer, queue and packet pool, every       *)
(* number of writers and mixture of blocking and non-blocking calls: the   *)
(* ring buffer of the send side is safe, the send side is a byte stream, a *)
(* FIN follows what was written before it, a datagram stays whole and no   *)
(* packet is lost.                                                         *)
(***************************************************************************)
EXTENDS SoclSend, SequenceTheorems, FiniteSetTheorems, TLAPS

(* What SOCL_WriteTo is doing while it holds in_use. *)
Holding == {"alloc", "asleep", "packet", "copy", "send", "unlock"}

(* Exactly the owner of in_use is inside the locked part. *)
Owned == \A w \in Writers : pc[w] \in Holding <=> owner = w

(* The pieces of a write lie inside the area. *)
Shape(m) ==
  /\ m.kind = "write"
  /\ m.at1 \in Cells /\ m.after \in Cells
  /\ m.at1 + m.n1 <= WrtSize /\ m.n2 <= WrtSize
  /\ m.to - m.from = m.n1 + m.n2

(* A write that was cut in two fills the area to its end. *)
Cut(m) == m.n2 > 0 => m.at1 + m.n1 = WrtSize

(* The command being prepared stands right behind the bytes in the ring    *)
(* and fits the free cells; once copied it is the last part of them.       *)
DraftInv ==
  \A w \in Writers :
    /\ pc[w] \in {"packet", "copy", "send"} =>
         draft.from <= draft.to /\ draft.to - draft.from <= call[w].left
    /\ pc[w] \in {"packet", "copy"} =>
         /\ Shape(draft) /\ Cut(draft)
         /\ draft.from = head /\ draft.at1 = in
         /\ draft.to - tail < WrtSize
         /\ draft.after = Wrap(in + (draft.to - draft.from))
    /\ pc[w] = "send" =>
         /\ Shape(draft)
         /\ draft.from = posted /\ draft.to = head
         /\ draft.at1 = Wrap(out + (draft.from - tail))
         /\ draft.after = Wrap(out + (draft.to - tail))

(* Without a copied but unsent command, everything in the ring is queued.  *)
Positions ==
  /\ tail <= posted /\ posted <= head
  /\ (\A w \in Writers : pc[w] # "send") => head = posted

(* A message whose cells are still taken. *)
Pending(i) == ~(i = 1 /\ hpc = "reply")

(* Queued messages stand in stream order between tail and posted, and      *)
(* carry the index of their end.                                           *)
QueueInv ==
  /\ \A i \in 1 .. Len(queue) :
       /\ queue[i].kind \in {"write", "shutdown", "null"}
       /\ queue[i].from <= queue[i].to /\ queue[i].to <= posted
       /\ tail <= queue[i].to
       /\ Pending(i) => tail <= queue[i].from
       /\ queue[i].kind = "write" => Shape(queue[i])
       /\ queue[i].kind = "write" /\ Pending(i) =>
            queue[i].after = Wrap(out + (queue[i].to - tail))
  /\ \A i, j \in 1 .. Len(queue) : i < j => queue[i].to <= queue[j].from
  /\ hpc \in {"copy", "cps", "free", "reply"} => queue # <<>>
  /\ hpc \in {"copy", "cps", "free"} => queue[1].kind = "write"

(* What is left of the running command lies inside the area. *)
JobInv == hpc \in {"copy", "cps"} => job.at1 + job.n1 <= WrtSize /\ job.at2 + job.n2 <= WrtSize

IInv == TypeOK /\ Owned /\ DraftInv /\ Positions /\ QueueInv /\ JobInv /\ RingIntact

-----------------------------------------------------------------------------
(* Moving an index forward in two steps or in one is the same. *)
LEMMA WrapWrap ==
  ASSUME NEW o \in Cells, NEW a \in Nat, NEW b \in Nat, a + b < WrtSize
  PROVE  /\ Wrap(o + a) \in Cells
         /\ Wrap(Wrap(o + a) + b) = Wrap(o + (a + b))
BY SendAssumption DEF Wrap, Cells

(* The chunk limit of a TCP socket is a length. *)
LEMMA OptimumType ==
  ASSUME NEW mss \in MssVals
  PROVE  OptimumSendBufLen(mss) \in Nat
<1>1. mss \in Nat /\ mss > 0 /\ SndLen \in Nat
  BY SendAssumption
<1>2. SndLen \div (2 * mss) \in Int
  BY <1>1
<1>3. QED
  BY <1>1, <1>2 DEF OptimumSendBufLen

(* SOCLi_GetWriteBufferFreeSize counts the cells behind in, minus one. *)
LEMMA FreeSizeIs ==
  ASSUME TypeOK, RingIntact
  PROVE  FreeSize = WrtSize - 1 - (head - tail)
BY SendAssumption DEF TypeOK, RingType, RingIntact, FreeSize, Wrap, Cells

(* The split of SOCLi_ExecWriteCommand stays inside the area. *)
LEMMA WriteMsgIs ==
  ASSUME NEW at \in Cells, NEW n \in Nat, n < WrtSize, head \in Nat,
         NEW m, m = WriteMsg(at, n)
  PROVE  /\ m \in Messages /\ Shape(m) /\ Cut(m)
         /\ m.from = head /\ m.to = head + n /\ m.at1 = at
         /\ m.after = Wrap(at + n)
<1> USE SendAssumption DEF Cells
<1> DEFINE first == IF at + n < WrtSize THEN n ELSE WrtSize - at
           behind == IF at + n < WrtSize THEN at + n ELSE n - first
<1>1. first \in Nat /\ n - first \in Nat /\ behind \in Cells /\ behind \in Nat
  OBVIOUS
<1>2. m = [kind |-> "write", from |-> head, to |-> head + n, at1 |-> at, n1 |-> first,
           n2 |-> n - first, after |-> behind]
  BY DEF WriteMsg
<1>3. m \in Messages
  BY <1>1, <1>2 DEF Messages
<1>4. Shape(m) /\ Cut(m)
  BY <1>1, <1>2 DEF Shape, Cut
<1>5. behind = Wrap(at + n)
  BY DEF Wrap
<1>6. QED
  BY <1>2, <1>3, <1>4, <1>5

(* The bytes in the ring keep their cells when the next ones are copied. *)
LEMMA OldCell ==
  ASSUME NEW o \in Cells, NEW h \in Nat, NEW n1 \in Nat, NEW n2 \in Nat, h + n1 + n2 < WrtSize,
         NEW at \in Cells, at = Wrap(o + h), at + n1 <= WrtSize, n2 > 0 => at + n1 = WrtSize,
         NEW d \in Nat, d < h
  PROVE  /\ Wrap(o + d) \in Cells
         /\ ~(Wrap(o + d) >= at /\ Wrap(o + d) < at + n1)
         /\ ~(Wrap(o + d) < n2)
BY SendAssumption DEF Wrap, Cells

(* The copied bytes land on the cells behind them. *)
LEMMA NewCell ==
  ASSUME NEW o \in Cells, NEW h \in Nat, NEW n1 \in Nat, NEW n2 \in Nat, h + n1 + n2 < WrtSize,
         NEW at \in Cells, at = Wrap(o + h), at + n1 <= WrtSize, n2 > 0 => at + n1 = WrtSize,
         NEW d \in Nat, d >= h, d < h + n1 + n2
  PROVE  /\ Wrap(o + d) \in Cells
         /\ d - h < n1 => Wrap(o + d) = at + (d - h)
         /\ d - h >= n1 => Wrap(o + d) = d - h - n1 /\ Wrap(o + d) < n2 /\ ~(Wrap(o + d) >= at)
BY SendAssumption DEF Wrap, Cells

(* The initial state. *)
LEMMA InitInv == Init => IInv
<1> SUFFICES ASSUME Init PROVE IInv
  OBVIOUS
<1> USE SendAssumption
<1>1. TypeOK
  <2>1. RingType
    BY DEF Init, RingType, Cells
  <2>2. PipeType
    BY EmptySeq DEF Init, PipeType
  <2>3. StateType
    BY Zenon DEF Init, StateType
  <2>4. WriterType
    BY DEF Init, WriterType, NoMsg, Messages, NoCall, Calls
  <2>5. HandlerType
    BY EmptySeq DEF Init, HandlerType, NoJob, Jobs
  <2>6. wire \in Seq(Nat) /\ posted \in Nat /\ passed \in Nat
    BY EmptySeq DEF Init
  <2>7. lossy \in BOOLEAN
    BY Zenon DEF Init
  <2>8. EndType
    BY DEF Init, EndType
  <2>9. QED
    BY <2>1, <2>2, <2>3, <2>4, <2>5, <2>6, <2>7, <2>8 DEF TypeOK, StreamType
<1>2. Owned /\ DraftInv /\ Positions /\ JobInv
  BY DEF Init, Owned, DraftInv, Positions, JobInv, Holding
<1>3. QueueInv
  BY DEF Init, QueueInv
<1>4. RingIntact
  BY DEF Init, RingIntact, Wrap, Cells
<1>5. QED
  BY <1>1, <1>2, <1>3, <1>4 DEF IInv

-----------------------------------------------------------------------------
(* The message the send thread works on is the first of the queue. *)
LEMMA HeadIs ==
  ASSUME PipeType, queue # <<>>
  PROVE  /\ Len(queue) > 0 /\ Head(queue) = queue[1] /\ Head(queue) \in Messages
         /\ Tail(queue) \in Seq(Messages) /\ Len(Tail(queue)) = Len(queue) - 1
         /\ \A i \in 1 .. Len(queue) - 1 : Tail(queue)[i] = queue[i + 1]
<1>1. queue \in Seq(Messages)
  BY DEF PipeType
<1>2. QED
  BY <1>1, HeadTailProperties, EmptySeq, ElementOfSeq, LenProperties

(* A command is queued behind the others. *)
LEMMA AppendIs ==
  ASSUME PipeType, NEW m \in Messages, ~QueueFull
  PROVE  /\ Append(queue, m) \in Seq(Messages)
         /\ Len(Append(queue, m)) = Len(queue) + 1 /\ Len(queue) + 1 <= QueueMax
         /\ Append(queue, m)[Len(queue) + 1] = m
         /\ \A i \in 1 .. Len(queue) : Append(queue, m)[i] = queue[i]
<1>1. queue \in Seq(Messages) /\ Len(queue) \in Nat
  BY LenProperties DEF PipeType
<1>2. Len(queue) + 1 <= QueueMax
  BY <1>1, SendAssumption DEF QueueFull
<1>3. QED
  BY <1>1, <1>2, AppendProperties

(* A message without bytes stands behind everything that is queued. *)
LEMMA MarkIs ==
  ASSUME posted \in Nat, NEW k \in {"shutdown", "null"}
  PROVE  /\ Mark(k) \in Messages
         /\ Mark(k).kind = k /\ Mark(k).from = posted /\ Mark(k).to = posted
BY DEF Mark, NoMsg, Messages

-----------------------------------------------------------------------------
(* Types.                                                                  *)
LEMMA TypeStep == IInv /\ [Next]_vars => TypeOK'
<1> SUFFICES ASSUME IInv, [Next]_vars PROVE TypeOK'
  OBVIOUS
<1> USE SendAssumption
<1> USE DEF IInv, TypeOK
<1>1. ASSUME UNCHANGED ringVars PROVE RingType'
  BY <1>1 DEF ringVars, RingType
<1>2. ASSUME UNCHANGED pipeVars PROVE PipeType'
  BY <1>2 DEF pipeVars, PipeType
<1>3. ASSUME UNCHANGED stateVars PROVE StateType'
  BY <1>3 DEF stateVars, StateType
<1>4. ASSUME UNCHANGED writerVars PROVE WriterType'
  BY <1>4 DEF writerVars, WriterType
<1>5. ASSUME UNCHANGED handlerVars PROVE HandlerType'
  BY <1>5 DEF handlerVars, HandlerType
<1>6. ASSUME UNCHANGED streamVars PROVE StreamType'
  BY <1>6 DEF streamVars, StreamType
<1>7. ASSUME UNCHANGED endVars PROVE EndType'
  BY <1>7 DEF endVars, EndType
<1> USE <1>1, <1>2, <1>3, <1>4, <1>5, <1>6, <1>7
<1>8. CASE UNCHANGED vars
  BY <1>8 DEF vars
<1>9. ASSUME NEW w \in Writers, NEW n \in Lens, NEW block \in BOOLEAN, WriteTo(w, n, block)
      PROVE  TypeOK'
  BY <1>9 DEF WriteTo, WriterType, Calls, Least, StateType, writerVars
<1>10. ASSUME NEW w \in Writers, LockSendPipe(w)
       PROVE  TypeOK'
  BY <1>10 DEF LockSendPipe, WriterType
<1>11. ASSUME NEW w \in Writers, AllocWriteBuffer(w)
       PROVE  TypeOK'
  <2>1. /\ in \in Cells /\ head \in Nat /\ tail \in Nat /\ call[w] \in Calls
        /\ FreeSize = WrtSize - 1 - (head - tail)
    BY FreeSizeIs DEF RingType, WriterType
  <2>2. /\ Least(FreeSize, call[w].left) \in Nat
        /\ Least(FreeSize, call[w].left) < WrtSize
    BY <2>1 DEF RingIntact, Least, Calls
  <2>3. WriteMsg(in, Least(FreeSize, call[w].left)) \in Messages
    BY <2>1, <2>2, WriteMsgIs
  <2>4. draft' \in Messages
    BY <1>11, <2>3 DEF AllocWriteBuffer, WriterType
  <2>5. QED
    BY <1>11, <2>4 DEF AllocWriteBuffer, WriterType
<1>12. ASSUME NEW w \in Writers, CreateWritePacket(w)
       PROVE  TypeOK'
  BY <1>12 DEF CreateWritePacket, WriterType, PipeType
<1>13. ASSUME NEW w \in Writers, CopyToRing(w)
       PROVE  TypeOK'
  <2>1. draft \in Messages /\ Shape(draft) /\ pc[w] = "copy" /\ ring \in [Cells -> Nat] /\ head \in Nat
    BY <1>13 DEF CopyToRing, WriterType, DraftInv, RingType
  <2>2. /\ draft.n1 \in Nat /\ draft.at1 \in Nat /\ draft.n2 \in Nat /\ draft.to \in Nat
        /\ draft.after \in Cells
    BY <2>1 DEF Messages, Shape
  <2>3. ring' \in [Cells -> Nat]
    <3> DEFINE new(i) ==
          IF i >= draft.at1 /\ i < draft.at1 + draft.n1 THEN head + 1 + (i - draft.at1)
          ELSE IF i < draft.n2 THEN head + 1 + draft.n1 + i
          ELSE ring[i]
    <3>1. \A i \in Cells : new(i) \in Nat
      BY <2>1, <2>2, SMTT(60) DEF Cells
    <3>2. ring' = [i \in Cells |-> new(i)]
      BY <1>13 DEF CopyToRing
    <3> HIDE DEF new
    <3>3. QED
      BY <3>1, <3>2
  <2>4. RingType'
    BY <1>13, <2>2, <2>3 DEF CopyToRing, RingType
  <2>5. WriterType'
    BY <1>13 DEF CopyToRing, WriterType
  <2>6. QED
    BY <1>13, <2>4, <2>5 DEF CopyToRing
<1>14. ASSUME NEW w \in Writers, SendWrite(w)
       PROVE  TypeOK'
  <2>1. draft \in Messages /\ Shape(draft) /\ pc[w] = "send" /\ call[w] \in Calls
    BY <1>14 DEF SendWrite, WriterType, DraftInv
  <2>2. /\ draft.from \in Nat /\ draft.to \in Nat /\ draft.at1 \in Cells
    BY <2>1 DEF Messages, Shape
  <2>3. draft' \in Messages
    BY <1>14 DEF SendWrite, NoMsg, Messages
  <2>4. draft.from <= draft.to /\ draft.to - draft.from <= call[w].left
    BY <1>14, <2>1 DEF SendWrite, DraftInv
  <2>5. CASE ~QueueFull /\ queue' = Append(queue, draft)
    <3>1. PipeType'
      BY <1>14, <2>1, <2>5, AppendIs DEF SendWrite, PipeType
    <3>2. call[w].left - (draft.to - draft.from) \in Nat
      BY <2>1, <2>2, <2>4 DEF Calls
    <3>3. call' = [call EXCEPT ![w].left = @ - (draft.to - draft.from)]
      BY <1>14, <2>5 DEF SendWrite, QueueFull
    <3>4. call' \in [Writers -> Calls]
      BY <3>2, <3>3 DEF WriterType, Calls
    <3>5. WriterType'
      BY <1>14, <2>3, <2>5, <3>4 DEF SendWrite, WriterType
    <3>6. RingType' /\ StreamType'
      BY <1>14, <2>2, <2>5 DEF SendWrite, RingType, StreamType
    <3>7. QED
      BY <1>14, <3>1, <3>5, <3>6 DEF SendWrite
  <2>6. CASE QueueFull
    <3>1. PipeType' /\ RingType'
      BY <1>14, <2>2, <2>6, SMTT(60) DEF SendWrite, PipeType, RingType
    <3>2. WriterType'
      BY <1>14, <2>3, <2>6 DEF SendWrite, WriterType
    <3>3. StreamType'
      BY <1>14, <2>6 DEF SendWrite, StreamType
    <3>4. QED
      BY <1>14, <3>1, <3>2, <3>3 DEF SendWrite
  <2>7. QED
    BY <1>14, <2>5, <2>6 DEF SendWrite
<1>15. ASSUME NEW w \in Writers, UnlockSendPipe(w)
       PROVE  TypeOK'
  BY <1>15 DEF UnlockSendPipe, WriterType, EndType, NoMsg, NoCall, Messages, Calls, StreamType
<1>16. ASSUME NEW block \in BOOLEAN, Shutdown(block)
       PROVE  TypeOK'
  BY <1>16 DEF Shutdown, EndType, StateType
<1>17. CASE CreateShutdownPacket
  BY <1>17 DEF CreateShutdownPacket, PipeType, EndType
<1>18. CASE SendShutdown
  <2>1. Mark("shutdown") \in Messages
    BY MarkIs DEF StreamType
  <2>2. CASE QueueFull
    BY <1>18, <2>2 DEF SendShutdown, PipeType, EndType
  <2>3. CASE ~QueueFull
    <3>1. PipeType'
      BY <1>18, <2>1, <2>3, AppendIs, SMTT(60) DEF SendShutdown, PipeType
    <3>2. EndType'
      BY <1>18 DEF SendShutdown, EndType
    <3>3. QED
      BY <1>18, <3>1, <3>2 DEF SendShutdown
  <2>4. QED
    BY <2>2, <2>3
<1>19. CASE Close
  BY <1>19 DEF Close, EndType, StateType
<1>20. CASE SendNull
  <2>1. Mark("null") \in Messages
    BY MarkIs DEF StreamType
  <2>2. PipeType'
    BY <1>20, <2>1, AppendIs DEF SendNull, PipeType
  <2>3. QED
    BY <1>20, <2>2 DEF SendNull, EndType
<1>21. ASSUME NEW mss \in MssVals, BeginWrite(mss)
       PROVE  TypeOK'
  <2>1. Head(queue) \in Messages
    BY <1>21, HeadIs DEF BeginWrite
  <2>2. job' \in Jobs
    BY <1>21, <2>1, OptimumType DEF BeginWrite, Jobs, Messages
  <2>3. QED
    BY <1>21, <2>2 DEF BeginWrite, HandlerType
<1>22. CASE MemCpy
  <2> DEFINE k1 == Least(job.n1, job.limit)
             k2 == IF job.n1 > job.limit THEN 0 ELSE Least(job.n2, job.limit - job.n1)
  <2>1. job \in Jobs /\ ring \in [Cells -> Nat]
    BY DEF HandlerType, RingType
  <2>2. k1 \in Nat /\ k2 \in Nat /\ k1 <= job.n1 /\ k2 <= job.n2
    BY <2>1 DEF Jobs, Least
  <2>3. CASE k1 + k2 > 0 /\ hpc' = "cps"
    <3>1. chunk' = [i \in 1 .. k1 + k2 |->
                      IF i <= k1 THEN ring[job.at1 + i - 1] ELSE ring[job.at2 + i - k1 - 1]]
      BY <1>22, <2>3 DEF MemCpy
    <3>2. \A i \in 1 .. k1 + k2 :
            (IF i <= k1 THEN ring[job.at1 + i - 1] ELSE ring[job.at2 + i - k1 - 1]) \in Nat
      <4>1. /\ job.at1 \in Nat /\ job.n1 \in Nat /\ job.at2 \in Nat /\ job.n2 \in Nat
            /\ job.at1 + job.n1 <= WrtSize /\ job.at2 + job.n2 <= WrtSize
        BY <1>22, <2>1 DEF MemCpy, JobInv, Jobs
      <4> HIDE DEF k1, k2
      <4>2. ASSUME NEW i \in 1 .. k1 + k2, i <= k1 PROVE ring[job.at1 + i - 1] \in Nat
        BY <2>1, <2>2, <4>1, <4>2, SMTT(60) DEF Cells
      <4>3. ASSUME NEW i \in 1 .. k1 + k2, ~(i <= k1) PROVE ring[job.at2 + i - k1 - 1] \in Nat
        BY <2>1, <2>2, <4>1, <4>3, SMTT(60) DEF Cells
      <4>4. QED
        BY <4>2, <4>3
    <3>3. chunk' \in Seq(Nat)
      <4> HIDE DEF k1, k2
      <4>1. k1 + k2 \in Nat
        BY <2>2
      <4>2. QED
        BY <3>1, <3>2, <4>1
    <3>4. job' \in Jobs
      <4>1. job' = [job EXCEPT !.at1 = @ + k1, !.n1 = @ - k1, !.at2 = @ + k2, !.n2 = @ - k2]
        BY <1>22, <2>3 DEF MemCpy
      <4> HIDE DEF k1, k2
      <4>2. job' = [at1 |-> job.at1 + k1, n1 |-> job.n1 - k1, at2 |-> job.at2 + k2,
                    n2 |-> job.n2 - k2, limit |-> job.limit, to |-> job.to]
        BY <2>1, <4>1 DEF Jobs
      <4>3. /\ job.at1 + k1 \in Nat /\ job.n1 - k1 \in Nat /\ job.at2 + k2 \in Nat
            /\ job.n2 - k2 \in Nat /\ job.limit \in Nat /\ job.to \in Nat
        BY <2>1, <2>2 DEF Jobs
      <4>4. QED
        BY <4>2, <4>3 DEF Jobs
    <3>5. QED
      BY <1>22, <2>3, <3>3, <3>4 DEF MemCpy, HandlerType
  <2>4. CASE k1 + k2 = 0
    BY <1>22, <2>4 DEF MemCpy, HandlerType
  <2>5. QED
    BY <1>22, <2>2, <2>3, <2>4 DEF MemCpy
<1>23. ASSUME NEW r \in 0 .. SndLen, SocWrite(r)
       PROVE  TypeOK'
  <2>1. chunk \in Seq(Nat) /\ wire \in Seq(Nat) /\ Len(chunk) \in Nat /\ r \in 0 .. Len(chunk)
    BY <1>23, LenProperties DEF SocWrite, HandlerType, StreamType
  <2>2. HandlerType'
    BY <1>23, EmptySeq DEF SocWrite, HandlerType
  <2>3. CASE r > 0
    <3>1. SubSeq(chunk, 1, r) \in Seq(Nat)
      BY <2>1, <2>3, SubSeqProperties
    <3>2. wire' \in Seq(Nat)
      <4>1. wire' = wire \o SubSeq(chunk, 1, r)
        BY <1>23, <2>3 DEF SocWrite
      <4>2. QED
        BY <2>1, <3>1, <4>1, ConcatProperties
    <3>3. passed' \in Nat /\ posted' \in Nat
      BY <1>23, <2>1, <2>3 DEF SocWrite, StreamType
    <3>4. lossy' \in BOOLEAN
      BY <1>23, <2>3, Zenon DEF SocWrite, StreamType
    <3>5. StreamType'
      BY <3>2, <3>3, <3>4 DEF StreamType
    <3>6. QED
      BY <1>23, <2>2, <2>3, <3>5 DEF SocWrite
  <2>4. CASE r = 0
    <3>1. StateType'
      BY <1>23, <2>4, Zenon DEF SocWrite, StateType, stateVars
    <3>2. StreamType'
      BY <1>23, <2>4 DEF SocWrite, StreamType
    <3>3. QED
      BY <1>23, <2>2, <2>4, <3>1, <3>2 DEF SocWrite
  <2>5. QED
    BY <2>1, <2>3, <2>4
<1>24. CASE FreeCells
  <2>1. hpc = "free" /\ queue # <<>> /\ queue[1].kind = "write"
    BY <1>24 DEF FreeCells, QueueInv
  <2>2. Head(queue) = queue[1] /\ Head(queue) \in Messages /\ 1 \in 1 .. Len(queue)
    BY <2>1, HeadIs, LenProperties DEF PipeType
  <2>3. Head(queue).after \in Cells /\ Head(queue).to \in Nat
    BY <2>1, <2>2 DEF QueueInv, Shape, Messages
  <2>4. RingType'
    BY <1>24, <2>3 DEF FreeCells, RingType
  <2>5. lossy' \in BOOLEAN
    BY <1>24, Zenon DEF FreeCells, StreamType
  <2>6. StreamType'
    BY <1>24, <2>3, <2>5 DEF FreeCells, StreamType
  <2>7. WriterType'
    BY <1>24 DEF FreeCells, WriterType
  <2>8. HandlerType'
    BY <1>24 DEF FreeCells, HandlerType
  <2>9. QED
    BY <1>24, <2>4, <2>6, <2>7, <2>8 DEF FreeCells
<1>25. CASE RunShutdown
  <2>1. EndType'
    BY <1>25 DEF RunShutdown, EndType, StreamType
  <2>2. HandlerType'
    BY <1>25 DEF RunShutdown, HandlerType
  <2>3. QED
    BY <1>25, <2>1, <2>2 DEF RunShutdown
<1>26. CASE Reply
  <2>1. queue # <<>>
    BY <1>26 DEF Reply, QueueInv
  <2>2. PipeType'
    BY <1>26, <2>1, HeadIs DEF Reply, PipeType
  <2>3. EndType'
    BY <1>26 DEF Reply, EndType
  <2>4. HandlerType'
    BY <1>26 DEF Reply, HandlerType, NoJob, Jobs
  <2>5. QED
    BY <1>26, <2>2, <2>3, <2>4 DEF Reply
<1>27. CASE ExitSendThread
  BY <1>27 DEF ExitSendThread, HandlerType
<1>28. CASE LoseConnection
  BY <1>28 DEF LoseConnection, StateType
<1>29. CASE OtherTakesPacket
  BY <1>29 DEF OtherTakesPacket, PipeType
<1>30. CASE OtherReturnsPacket
  BY <1>30 DEF OtherReturnsPacket, PipeType
<1>31. QED
  BY <1>8, <1>9, <1>10, <1>11, <1>12, <1>13, <1>14, <1>15, <1>16, <1>17, <1>18, <1>19, <1>20,
     <1>21, <1>22, <1>23, <1>24, <1>25, <1>26, <1>27, <1>28, <1>29, <1>30
     DEF Next, WriterStep, ShutdownStep, HandlerStep

-----------------------------------------------------------------------------
(* The ring.                                                               *)

(* What Owned, DraftInv, Positions, QueueInv, JobInv and RingIntact read. *)
invVars == <<ringVars, queue, posted, owner, pc, call, draft, hpc, job>>

Rest == Owned /\ DraftInv /\ Positions /\ QueueInv /\ JobInv /\ RingIntact

LEMMA RestUnchanged == Rest /\ UNCHANGED invVars => Rest'
BY DEF Rest, invVars, ringVars, Owned, DraftInv, Positions, QueueInv, Pending, JobInv, RingIntact

(* Steps that leave the ring, the queue and the send thread alone. *)
LEMMA WriterRest ==
  ASSUME IInv,
         UNCHANGED <<ringVars, queue, posted, hpc, job>>
  PROVE  Owned' /\ DraftInv' /\ Positions' => Rest'
BY DEF Rest, IInv, ringVars, QueueInv, Pending, JobInv, RingIntact

(* Steps of the send thread that free nothing. *)
LEMMA HandlerRest ==
  ASSUME IInv, TypeOK', UNCHANGED <<ringVars, queue, posted, owner, pc, call, draft>>,
         hpc' \in {"copy", "cps", "free", "reply"} => queue # <<>>,
         hpc' \in {"copy", "cps", "free"} => queue[1].kind = "write",
         hpc = "reply" => hpc' = "reply",
         JobInv'
  PROVE  Rest'
<1>1. Owned' /\ DraftInv' /\ Positions' /\ RingIntact'
  BY DEF Rest, IInv, ringVars, Owned, DraftInv, Positions, RingIntact
<1>2. QueueInv'
  BY DEF IInv, ringVars, QueueInv, Pending
<1>3. QED
  BY <1>1, <1>2 DEF Rest

(* A message without bytes joins the queue. *)
LEMMA AppendMarkRest ==
  ASSUME IInv, ~QueueFull, NEW k \in {"shutdown", "null"},
         queue' = Append(queue, Mark(k)),
         UNCHANGED <<ringVars, posted, owner, pc, call, draft, hpc, job>>
  PROVE  Rest'
<1> DEFINE m == Mark(k)
<1>1. m \in Messages /\ m.kind = k /\ m.from = posted /\ m.to = posted
  BY MarkIs DEF IInv, TypeOK, StreamType
<1>2. /\ Len(queue') = Len(queue) + 1 /\ queue'[Len(queue) + 1] = m
      /\ \A i \in 1 .. Len(queue) : queue'[i] = queue[i]
      /\ Len(queue) \in Nat
  BY <1>1, AppendIs, LenProperties DEF IInv, TypeOK, PipeType
<1> HIDE DEF m
<1>3. Owned' /\ DraftInv' /\ Positions' /\ JobInv' /\ RingIntact'
  BY DEF IInv, ringVars, Owned, DraftInv, Positions, JobInv, RingIntact
<1>4. QueueInv'
  <2>1. tail <= posted /\ tail \in Nat /\ posted \in Nat
    BY DEF IInv, TypeOK, RingType, StreamType, Positions
  <2>2. ASSUME NEW i \in 1 .. Len(queue')
        PROVE  /\ queue'[i].kind \in {"write", "shutdown", "null"}
               /\ queue'[i].from <= queue'[i].to /\ queue'[i].to <= posted'
               /\ tail' <= queue'[i].to
               /\ Pending(i)' => tail' <= queue'[i].from
               /\ queue'[i].kind = "write" => Shape(queue'[i])
               /\ queue'[i].kind = "write" /\ Pending(i)' =>
                    queue'[i].after = Wrap(out' + (queue'[i].to - tail'))
    <3>1. CASE i \in 1 .. Len(queue)
      BY <1>2, <3>1 DEF IInv, QueueInv, Pending, ringVars
    <3>2. CASE i = Len(queue) + 1
      BY <1>1, <1>2, <2>1, <3>2 DEF IInv, ringVars
    <3>3. QED
      BY <1>2, <3>1, <3>2
  <2>3. \A i, j \in 1 .. Len(queue') : i < j => queue'[i].to <= queue'[j].from
    BY <1>1, <1>2 DEF IInv, QueueInv
  <2>4. queue' # <<>>
    BY <1>2, EmptySeq
  <2>5. hpc' \in {"copy", "cps", "free"} => queue'[1].kind = "write"
    BY <1>2, LenProperties, EmptySeq DEF IInv, QueueInv, TypeOK, PipeType
  <2>6. QED
    BY <2>2, <2>3, <2>4, <2>5 DEF QueueInv
<1>5. QED
  BY <1>3, <1>4 DEF Rest

-----------------------------------------------------------------------------
LEMMA RestStep == IInv /\ [Next]_vars => Rest'
<1> SUFFICES ASSUME IInv, [Next]_vars PROVE Rest'
  OBVIOUS
<1> USE SendAssumption
<1>0. TypeOK'
  BY TypeStep
<1>1. CASE UNCHANGED invVars
  BY <1>1, RestUnchanged DEF IInv, Rest
<1>2. CASE UNCHANGED vars
  BY <1>1, <1>2 DEF vars, invVars, ringVars, pipeVars, writerVars, handlerVars, streamVars
<1>3. CASE \E block \in BOOLEAN : Shutdown(block)
  BY <1>1, <1>3 DEF Shutdown, invVars, ringVars, pipeVars, writerVars, handlerVars, streamVars
<1>4. CASE CreateShutdownPacket
  BY <1>1, <1>4 DEF CreateShutdownPacket, invVars, ringVars, pipeVars, writerVars, handlerVars, streamVars
<1>5. CASE Close
  BY <1>1, <1>5 DEF Close, invVars, ringVars, pipeVars, writerVars, handlerVars, streamVars
<1>6. CASE LoseConnection \/ OtherTakesPacket \/ OtherReturnsPacket
  BY <1>1, <1>6 DEF LoseConnection, OtherTakesPacket, OtherReturnsPacket, invVars, ringVars,
                    pipeVars, writerVars, handlerVars, streamVars
<1>7. ASSUME NEW w \in Writers, NEW n \in Lens, NEW block \in BOOLEAN, WriteTo(w, n, block)
      PROVE  Rest'
  <2>1. Owned' /\ DraftInv' /\ Positions'
    BY <1>7 DEF WriteTo, IInv, TypeOK, WriterType, Owned, DraftInv, Positions, Holding, ringVars, streamVars
  <2>2. QED
    BY <1>7, <2>1, WriterRest DEF WriteTo, pipeVars, handlerVars, streamVars
<1>8. ASSUME NEW w \in Writers, LockSendPipe(w)
      PROVE  Rest'
  <2>1. Owned' /\ DraftInv' /\ Positions'
    BY <1>8 DEF LockSendPipe, IInv, TypeOK, WriterType, Owned, DraftInv, Positions, Holding, ringVars, streamVars
  <2>2. QED
    BY <1>8, <2>1, WriterRest DEF LockSendPipe, pipeVars, handlerVars, streamVars
<1>9. ASSUME NEW w \in Writers, CreateWritePacket(w)
      PROVE  Rest'
  <2>1. Owned' /\ DraftInv' /\ Positions'
    BY <1>9 DEF CreateWritePacket, IInv, TypeOK, WriterType, Owned, DraftInv, Positions, Holding, ringVars, streamVars
  <2>2. QED
    BY <1>9, <2>1, WriterRest DEF CreateWritePacket, pipeVars, handlerVars, streamVars
<1>10. ASSUME NEW w \in Writers, UnlockSendPipe(w)
       PROVE  Rest'
  <2>1. Owned' /\ DraftInv' /\ Positions'
    BY <1>10 DEF UnlockSendPipe, IInv, TypeOK, WriterType, Owned, DraftInv, Positions, Holding, ringVars, streamVars
  <2>2. QED
    BY <1>10, <2>1, WriterRest DEF UnlockSendPipe, pipeVars, handlerVars, streamVars
<1>11. CASE SendShutdown
  <2>1. CASE UNCHANGED queue
    BY <1>1, <1>11, <2>1 DEF SendShutdown, invVars, writerVars, handlerVars, streamVars
  <2>2. CASE ~QueueFull /\ queue' = Append(queue, Mark("shutdown"))
    BY <1>11, <2>2, AppendMarkRest DEF SendShutdown, writerVars, handlerVars, streamVars
  <2>3. QED
    BY <1>11, <2>1, <2>2 DEF SendShutdown
<1>12. CASE SendNull
  BY <1>12, AppendMarkRest DEF SendNull, writerVars, handlerVars, streamVars
<1>13. CASE RunShutdown \/ ExitSendThread
  <2>1. JobInv'
    BY <1>13 DEF RunShutdown, ExitSendThread, JobInv
  <2>2. QED
    BY <1>0, <1>13, <2>1, HandlerRest DEF RunShutdown, ExitSendThread, pipeVars, writerVars, streamVars
<1>14. ASSUME NEW mss \in MssVals, BeginWrite(mss)
       PROVE  Rest'
  <2>1. queue # <<>> /\ Head(queue) = queue[1] /\ queue[1].kind = "write" /\ 1 \in 1 .. Len(queue)
        /\ queue[1] \in Messages
    BY <1>14, HeadIs, LenProperties DEF BeginWrite, IInv, TypeOK, PipeType
  <2>2. Shape(queue[1])
    BY <2>1 DEF IInv, QueueInv
  <2>3. job'.at1 = queue[1].at1 /\ job'.n1 = queue[1].n1 /\ job'.at2 = 0 /\ job'.n2 = queue[1].n2
    BY <1>14, <2>1 DEF BeginWrite
  <2>4. JobInv'
    BY <2>1, <2>2, <2>3 DEF JobInv, Shape, Messages
  <2>5. QED
    BY <1>0, <1>14, <2>1, <2>4, HandlerRest DEF BeginWrite, pipeVars, writerVars, streamVars
<1>15. CASE MemCpy
  <2> DEFINE k1 == Least(job.n1, job.limit)
             k2 == IF job.n1 > job.limit THEN 0 ELSE Least(job.n2, job.limit - job.n1)
  <2>1. job \in Jobs
    BY DEF IInv, TypeOK, HandlerType
  <2>2. k1 \in Nat /\ k2 \in Nat
    BY <2>1 DEF Jobs, Least
  <2>3. JobInv'
    <3>1. CASE hpc' = "cps" /\ job' = [job EXCEPT !.at1 = @ + k1, !.n1 = @ - k1, !.at2 = @ + k2, !.n2 = @ - k2]
      <4> HIDE DEF k1, k2
      <4>1. /\ job'.at1 = job.at1 + k1 /\ job'.n1 = job.n1 - k1
            /\ job'.at2 = job.at2 + k2 /\ job'.n2 = job.n2 - k2
        BY <2>1, <3>1 DEF Jobs
      <4>2. job.at1 + job.n1 <= WrtSize /\ job.at2 + job.n2 <= WrtSize
        BY <1>15 DEF MemCpy, IInv, JobInv
      <4>3. QED
        BY <2>1, <2>2, <4>1, <4>2 DEF JobInv, Jobs
    <3>2. CASE hpc' = "free"
      BY <3>2 DEF JobInv
    <3>3. QED
      BY <1>15, <3>1, <3>2 DEF MemCpy
  <2>4. queue # <<>> /\ queue[1].kind = "write"
    BY <1>15 DEF MemCpy, IInv, QueueInv
  <2>5. hpc = "copy" /\ hpc' \in {"cps", "free"}
    BY <1>15 DEF MemCpy
  <2>6. QED
    BY <1>0, <1>15, <2>3, <2>4, <2>5, HandlerRest DEF MemCpy, pipeVars, writerVars, streamVars
<1>16. ASSUME NEW r \in 0 .. SndLen, SocWrite(r)
       PROVE  Rest'
  <2>1. hpc = "cps" /\ hpc' \in {"copy", "free"} /\ UNCHANGED <<ringVars, pipeVars, writerVars, job, posted>>
    BY <1>16 DEF SocWrite
  <2>2. JobInv'
    BY <2>1 DEF IInv, JobInv
  <2>3. queue # <<>> /\ queue[1].kind = "write"
    BY <2>1 DEF IInv, QueueInv
  <2>4. QED
    BY <1>0, <2>1, <2>2, <2>3, HandlerRest DEF pipeVars, writerVars
<1>17. ASSUME NEW w \in Writers, AllocWriteBuffer(w)
       PROVE  Rest'
  <2>1. CASE FreeSize < Least(call[w].min, call[w].left)
    <3>1. Owned' /\ DraftInv' /\ Positions'
      <4>1. /\ pc' = [pc EXCEPT ![w] = IF call[w].block THEN "asleep" ELSE "unlock"]
            /\ UNCHANGED <<in, out, head, tail, draft, owner, call, posted>>
        <5>1. ~(FreeSize >= Least(call[w].min, call[w].left))
          <6>1. FreeSize \in Int /\ Least(call[w].min, call[w].left) \in Int
            BY FreeSizeIs DEF IInv, TypeOK, RingType, WriterType, Calls, Least
          <6>2. QED
            BY <2>1, <6>1
        <5>2. QED
          BY <1>17, <5>1 DEF AllocWriteBuffer, ringVars, streamVars
      <4>2. pc[w] = "alloc" /\ pc'[w] \in {"asleep", "unlock"} /\ \A v \in Writers : v # w => pc'[v] = pc[v]
        BY <1>17, <4>1 DEF AllocWriteBuffer, IInv, TypeOK, WriterType
      <4>3. QED
        BY <4>1, <4>2 DEF IInv, Owned, DraftInv, Positions, Holding
    <3>2. QED
      BY <1>17, <3>1, WriterRest DEF AllocWriteBuffer, pipeVars, handlerVars, streamVars
  <2>2. CASE draft' = WriteMsg(in, Least(FreeSize, call[w].left)) /\ pc' = [pc EXCEPT ![w] = "packet"]
    <3> DEFINE n == Least(FreeSize, call[w].left)
    <3>1. /\ in \in Cells /\ head \in Nat /\ tail \in Nat /\ call[w].left \in Nat
          /\ FreeSize = WrtSize - 1 - (head - tail) /\ tail <= head /\ head - tail < WrtSize
      BY FreeSizeIs DEF IInv, TypeOK, RingType, WriterType, RingIntact, Calls
    <3>2. n \in Nat /\ n <= WrtSize - 1 - (head - tail) /\ n <= call[w].left /\ n < WrtSize
      BY <3>1 DEF Least
    <3> HIDE DEF n
    <3>3. draft' = WriteMsg(in, n)
      BY <2>2 DEF n
    <3>4. /\ Shape(draft') /\ Cut(draft') /\ draft'.from = head /\ draft'.to = head + n
          /\ draft'.at1 = in /\ draft'.after = Wrap(in + n)
      BY <3>1, <3>2, <3>3, WriteMsgIs
    <3>5. draft'.from <= draft'.to /\ draft'.to - draft'.from <= call[w].left /\ draft'.to - tail < WrtSize
          /\ draft'.to - draft'.from = n
      BY <3>1, <3>2, <3>4
    <3>6. owner = w /\ UNCHANGED <<in, out, head, tail, call, owner>>
      BY <1>17 DEF AllocWriteBuffer, IInv, Owned, Holding, ringVars
    <3>7. \A v \in Writers : v # w => pc'[v] = pc[v] /\ pc'[v] \notin Holding
      BY <1>17, <2>2, <3>6 DEF IInv, TypeOK, WriterType, Owned
    <3>8. pc'[w] = "packet"
      BY <2>2 DEF IInv, TypeOK, WriterType
    <3>9. Owned'
      BY <3>6, <3>7, <3>8 DEF Owned, Holding
    <3>10. DraftInv'
      BY <3>4, <3>5, <3>6, <3>7, <3>8 DEF DraftInv, Holding
    <3>11. Positions'
      BY <1>17, <3>7, <3>8 DEF AllocWriteBuffer, IInv, Positions, ringVars, streamVars
    <3>12. QED
      BY <1>17, <3>9, <3>10, <3>11, WriterRest DEF AllocWriteBuffer, pipeVars, handlerVars, streamVars
  <2>3. QED
    BY <1>17, <2>1, <2>2 DEF AllocWriteBuffer
<1>18. ASSUME NEW w \in Writers, CopyToRing(w)
       PROVE  Rest'
  <2>1. /\ pc[w] = "copy" /\ owner = w /\ draft \in Messages /\ Shape(draft) /\ Cut(draft)
        /\ draft.from = head /\ draft.at1 = in /\ draft.to - tail < WrtSize
        /\ draft.after = Wrap(in + (draft.to - draft.from))
        /\ draft.from <= draft.to /\ draft.to - draft.from <= call[w].left
    BY <1>18 DEF CopyToRing, IInv, TypeOK, WriterType, Owned, Holding, DraftInv
  <2>2. /\ draft.n1 \in Nat /\ draft.n2 \in Nat /\ draft.from \in Nat /\ draft.to \in Nat
        /\ draft.to - draft.from = draft.n1 + draft.n2 /\ in + draft.n1 <= WrtSize
        /\ draft.n2 > 0 => in + draft.n1 = WrtSize
    BY <2>1 DEF Messages, Shape, Cut
  <2>3. /\ in \in Cells /\ out \in Cells /\ head \in Nat /\ tail \in Nat
        /\ tail <= head /\ in = Wrap(out + (head - tail))
    BY DEF IInv, TypeOK, RingType, RingIntact
  <2>4. /\ in' = draft.after /\ head' = draft.to
        /\ UNCHANGED <<out, tail, queue, posted, owner, call, draft, hpc, job>>
    BY <1>18 DEF CopyToRing, pipeVars, handlerVars, streamVars
  <2>5. pc'[w] = "send" /\ \A v \in Writers : v # w => pc'[v] = pc[v] /\ pc'[v] \notin Holding
    BY <1>18, <2>1 DEF CopyToRing, IInv, TypeOK, WriterType, Owned
  <2>6. in' = Wrap(out + (draft.to - tail))
    <3>1. draft.to - tail = (head - tail) + (draft.to - head)
      BY <2>1, <2>2, <2>3
    <3>2. head - tail \in Nat /\ draft.to - head \in Nat /\ (head - tail) + (draft.to - head) < WrtSize
      BY <2>1, <2>2, <2>3
    <3>3. Wrap(Wrap(out + (head - tail)) + (draft.to - head)) = Wrap(out + ((head - tail) + (draft.to - head)))
      BY <2>3, <3>2, WrapWrap
    <3>4. QED
      BY <2>1, <2>3, <2>4, <3>1, <3>3
  <2>7. Owned'
    BY <2>1, <2>4, <2>5 DEF Owned, Holding
  <2>8. head = posted
    <3>1. \A v \in Writers : pc[v] # "send"
      BY <2>1, <2>5 DEF Holding
    <3>2. QED
      BY <3>1 DEF IInv, Positions
  <2>9. DraftInv'
    BY <2>1, <2>3, <2>4, <2>5, <2>6, <2>8 DEF DraftInv, Holding
  <2>10. Positions'
    BY <2>1, <2>2, <2>4, <2>5, <2>8 DEF IInv, Positions
  <2>11. QueueInv'
    BY <2>4 DEF IInv, QueueInv, Pending
  <2>12. JobInv'
    BY <2>4 DEF IInv, JobInv
  <2>13. RingIntact'
    <3> DEFINE h == head - tail
    <3>0. /\ h \in Nat /\ h + draft.n1 + draft.n2 < WrtSize /\ in = Wrap(out + h)
          /\ ring' = [i \in Cells |->
               IF i >= in /\ i < in + draft.n1 THEN head + 1 + (i - in)
               ELSE IF i < draft.n2 THEN head + 1 + draft.n1 + i
               ELSE ring[i]]
      BY <1>18, <2>1, <2>2, <2>3 DEF CopyToRing
    <3> HIDE DEF h
    <3>1. ASSUME NEW p \in tail + 1 .. head
          PROVE  ring'[Wrap(out + (p - tail - 1))] = p
      <4>1. p - tail - 1 \in Nat /\ p - tail - 1 < h
        BY <2>3 DEF h
      <4>2. /\ Wrap(out + (p - tail - 1)) \in Cells
            /\ ~(Wrap(out + (p - tail - 1)) >= in /\ Wrap(out + (p - tail - 1)) < in + draft.n1)
            /\ ~(Wrap(out + (p - tail - 1)) < draft.n2)
        BY <2>2, <2>3, <3>0, <4>1, OldCell
      <4>3. ring[Wrap(out + (p - tail - 1))] = p
        BY DEF IInv, RingIntact
      <4>4. QED
        BY <3>0, <4>2, <4>3
    <3>2. ASSUME NEW p \in head + 1 .. draft.to
          PROVE  ring'[Wrap(out + (p - tail - 1))] = p
      <4> DEFINE d == p - tail - 1
      <4>1. d \in Nat /\ d >= h /\ d < h + draft.n1 + draft.n2 /\ head + 1 + (d - h) = p
        BY <2>1, <2>2, <2>3 DEF h
      <4> HIDE DEF d
      <4> DEFINE j == Wrap(out + d)
      <4>2. /\ j \in Cells
            /\ d - h < draft.n1 => j = in + (d - h)
            /\ d - h >= draft.n1 => j = d - h - draft.n1 /\ j < draft.n2 /\ ~(j >= in)
        <5>1. /\ draft.n1 \in Nat /\ draft.n2 \in Nat /\ in + draft.n1 <= WrtSize
              /\ draft.n2 > 0 => in + draft.n1 = WrtSize
          BY <2>2
        <5>2. QED
          BY <2>3, <3>0, <4>1, <5>1, NewCell
      <4> HIDE DEF j
      <4>3. ring'[j] = IF j >= in /\ j < in + draft.n1 THEN head + 1 + (j - in)
                       ELSE IF j < draft.n2 THEN head + 1 + draft.n1 + j
                       ELSE ring[j]
        BY <3>0, <4>2
      <4>4. draft.n1 \in Nat /\ draft.n2 \in Nat /\ in \in Nat /\ j \in Nat /\ head \in Nat
        BY <2>2, <2>3, <4>2 DEF Cells
      <4>5. ASSUME d - h < draft.n1 PROVE ring'[j] = p
        BY <3>0, <4>1, <4>2, <4>3, <4>4, <4>5
      <4>6. ASSUME d - h >= draft.n1 PROVE ring'[j] = p
        BY <3>0, <4>1, <4>2, <4>3, <4>4, <4>6
      <4>7. QED
        BY <3>0, <4>1, <4>4, <4>5, <4>6 DEF d, j
    <3>3. QED
      BY <2>1, <2>2, <2>3, <2>4, <2>6, <3>1, <3>2 DEF RingIntact
  <2>14. QED
    BY <2>7, <2>9, <2>10, <2>11, <2>12, <2>13 DEF Rest
<1>19. ASSUME NEW w \in Writers, SendWrite(w)
       PROVE  Rest'
  <2>1. /\ pc[w] = "send" /\ owner = w /\ draft \in Messages /\ Shape(draft)
        /\ draft.from = posted /\ draft.to = head
        /\ draft.at1 = Wrap(out + (draft.from - tail))
        /\ draft.after = Wrap(out + (draft.to - tail))
        /\ draft.from <= draft.to /\ draft.to - draft.from <= call[w].left
    BY <1>19 DEF SendWrite, IInv, TypeOK, WriterType, Owned, Holding, DraftInv
  <2>2. draft.from \in Nat /\ draft.to \in Nat /\ draft.at1 \in Cells
    BY <2>1 DEF Messages, Shape
  <2>3. UNCHANGED <<ring, out, tail, owner, hpc, job>>
    BY <1>19 DEF SendWrite, handlerVars
  <2>4. pc'[w] \in {"alloc", "unlock"} /\ \A v \in Writers : v # w => pc'[v] = pc[v] /\ pc'[v] \notin Holding
    BY <1>19, <2>1 DEF SendWrite, IInv, TypeOK, WriterType, Owned
  <2>5. Owned' /\ DraftInv'
    BY <2>1, <2>3, <2>4 DEF Owned, DraftInv, Holding
  <2>6. JobInv'
    BY <2>3 DEF IInv, JobInv
  <2>7. tail <= posted /\ posted <= head /\ tail \in Nat /\ head \in Nat /\ posted \in Nat
    BY DEF IInv, Positions, TypeOK, RingType, StreamType
  <2>8. CASE ~QueueFull /\ queue' = Append(queue, draft) /\ posted' = draft.to /\ UNCHANGED <<in, head>>
    <3>1. Positions'
      BY <2>1, <2>3, <2>7, <2>8 DEF Positions
    <3>2. RingIntact'
      BY <2>3, <2>8 DEF IInv, RingIntact
    <3>3. /\ Len(queue') = Len(queue) + 1 /\ queue'[Len(queue) + 1] = draft
          /\ \A i \in 1 .. Len(queue) : queue'[i] = queue[i]
          /\ Len(queue) \in Nat
      BY <2>1, <2>8, AppendIs, LenProperties DEF IInv, TypeOK, PipeType
    <3>4. ASSUME NEW i \in 1 .. Len(queue')
          PROVE  /\ queue'[i].kind \in {"write", "shutdown", "null"}
                 /\ queue'[i].from <= queue'[i].to /\ queue'[i].to <= posted'
                 /\ tail' <= queue'[i].to
                 /\ Pending(i)' => tail' <= queue'[i].from
                 /\ queue'[i].kind = "write" => Shape(queue'[i])
                 /\ queue'[i].kind = "write" /\ Pending(i)' =>
                      queue'[i].after = Wrap(out' + (queue'[i].to - tail'))
      <4>1. CASE i \in 1 .. Len(queue)
        <5>1. queue[i] \in Messages
          BY <4>1, ElementOfSeq DEF IInv, TypeOK, PipeType
        <5>2. queue[i].to \in Nat /\ queue[i].to <= posted
          BY <4>1, <5>1 DEF IInv, QueueInv, Messages
        <5>3. queue'[i].to <= posted'
          BY <2>1, <2>2, <2>7, <2>8, <3>3, <4>1, <5>2
        <5>4. QED
          BY <2>3, <2>8, <3>3, <4>1, <5>3 DEF IInv, QueueInv, Pending
      <4>2. CASE i = Len(queue) + 1
        BY <2>1, <2>2, <2>3, <2>7, <2>8, <3>3, <4>2 DEF Shape
      <4>3. QED
        BY <3>3, <4>1, <4>2
    <3>5. \A i, j \in 1 .. Len(queue') : i < j => queue'[i].to <= queue'[j].from
      BY <2>1, <3>3, SMTT(60) DEF IInv, QueueInv
    <3>6. queue' # <<>>
      BY <3>3, EmptySeq
    <3>7. hpc' \in {"copy", "cps", "free"} => queue'[1].kind = "write"
      BY <2>3, <3>3, LenProperties, EmptySeq DEF IInv, QueueInv, TypeOK, PipeType
    <3>8. QueueInv'
      BY <3>4, <3>5, <3>6, <3>7 DEF QueueInv
    <3>9. QED
      BY <2>5, <2>6, <3>1, <3>2, <3>8 DEF Rest
  <2>9. CASE in' = draft.at1 /\ head' = draft.from /\ UNCHANGED <<queue, posted>>
    <3>1. Positions'
      BY <2>1, <2>3, <2>7, <2>9 DEF Positions
    <3>2. RingIntact'
      BY <2>1, <2>3, <2>7, <2>9 DEF IInv, RingIntact
    <3>3. QueueInv'
      BY <2>3, <2>9 DEF IInv, QueueInv, Pending
    <3>4. QED
      BY <2>5, <2>6, <3>1, <3>2, <3>3 DEF Rest
  <2>10. QED
    BY <1>19, <2>8, <2>9 DEF SendWrite
<1>20. CASE FreeCells
  <2>1. /\ hpc = "free" /\ hpc' = "reply" /\ queue # <<>> /\ Head(queue) = queue[1] /\ queue[1] \in Messages
        /\ 1 \in 1 .. Len(queue) /\ queue[1].kind = "write"
    BY <1>20, HeadIs, LenProperties DEF FreeCells, IInv, QueueInv, TypeOK, PipeType
  <2> DEFINE e == queue[1].to
  <2>2. /\ e \in Nat /\ tail <= e /\ e <= posted /\ queue[1].after = Wrap(out + (e - tail))
    BY <2>1 DEF IInv, QueueInv, Pending, Messages
  <2>3. /\ out' = Wrap(out + (e - tail)) /\ tail' = e
        /\ UNCHANGED <<ring, in, head, queue, owner, call, draft, job, posted>>
    BY <1>20, <2>1, <2>2 DEF FreeCells, pipeVars
  <2>4. /\ tail \in Nat /\ head \in Nat /\ posted \in Nat /\ out \in Cells
        /\ posted <= head /\ head - tail < WrtSize
    BY DEF IInv, TypeOK, RingType, StreamType, Positions, RingIntact
  <2> HIDE DEF e
  <2>5. ASSUME NEW p \in Int, e <= p, p - tail < WrtSize
        PROVE  Wrap(out' + (p - e)) = Wrap(out + (p - tail))
    <3>1. e - tail \in Nat /\ p - e \in Nat /\ (e - tail) + (p - e) < WrtSize /\ (e - tail) + (p - e) = p - tail
      BY <2>2, <2>4, <2>5
    <3>2. Wrap(Wrap(out + (e - tail)) + (p - e)) = Wrap(out + ((e - tail) + (p - e)))
      BY <2>4, <3>1, WrapWrap
    <3>3. QED
      BY <2>3, <3>1, <3>2
  <2>6. \A w \in Writers : pc'[w] = IF pc[w] = "asleep" THEN "alloc" ELSE pc[w]
    BY <1>20 DEF FreeCells
  <2>7. Owned'
    BY <2>3, <2>6 DEF IInv, Owned, Holding
  <2>8. DraftInv'
    <3>1. SUFFICES ASSUME NEW w \in Writers
                   PROVE  /\ pc'[w] \in {"packet", "copy", "send"} =>
                               draft.from <= draft.to /\ draft.to - draft.from <= call[w].left
                          /\ pc'[w] \in {"packet", "copy"} =>
                               /\ Shape(draft) /\ Cut(draft)
                               /\ draft.from = head /\ draft.at1 = in
                               /\ draft.to - e < WrtSize
                               /\ draft.after = Wrap(in + (draft.to - draft.from))
                          /\ pc'[w] = "send" =>
                               /\ Shape(draft)
                               /\ draft.from = posted /\ draft.to = head
                               /\ draft.at1 = Wrap(out' + (draft.from - e))
                               /\ draft.after = Wrap(out' + (draft.to - e))
      BY <2>3 DEF DraftInv
    <3>2. draft.from \in Nat /\ draft.to \in Nat
      BY DEF IInv, TypeOK, WriterType, Messages
    <3>3. CASE pc'[w] \in {"packet", "copy"}
      BY <2>2, <2>4, <2>6, <3>2, <3>3, SendAssumption DEF IInv, DraftInv
    <3>4. CASE pc'[w] = "send"
      <4>1. /\ pc[w] = "send" /\ Shape(draft) /\ draft.from = posted /\ draft.to = head
            /\ draft.at1 = Wrap(out + (draft.from - tail)) /\ draft.after = Wrap(out + (draft.to - tail))
            /\ draft.from <= draft.to /\ draft.to - draft.from <= call[w].left
        BY <2>6, <3>4 DEF IInv, DraftInv
      <4>2. Wrap(out' + (posted - e)) = Wrap(out + (posted - tail))
        BY <2>2, <2>4, <2>5
      <4>3. Wrap(out' + (head - e)) = Wrap(out + (head - tail))
        BY <2>2, <2>4, <2>5
      <4>4. QED
        BY <3>4, <4>1, <4>2, <4>3
    <3>5. QED
      BY <3>3, <3>4
  <2>9. Positions'
    BY <2>2, <2>3, <2>4, <2>6 DEF IInv, Positions
  <2>10. QueueInv'
    <3>1. ASSUME NEW i \in 1 .. Len(queue)
          PROVE  /\ e <= queue[i].to
                 /\ Pending(i)' => e <= queue[i].from
                 /\ queue[i].kind = "write" /\ Pending(i)' => queue[i].after = Wrap(out' + (queue[i].to - e))
      <4>0. queue[i] \in Messages
        BY ElementOfSeq DEF IInv, TypeOK, PipeType
      <4>1. queue[i].to \in Nat /\ queue[i].from \in Nat
        BY <4>0 DEF Messages
      <4>2. queue[i].from <= queue[i].to /\ queue[i].to <= posted
        BY DEF IInv, QueueInv
      <4>3. CASE i = 1
        BY <2>1, <2>2, <4>3 DEF Pending, e
      <4>4. CASE i # 1
        <5>1. e <= queue[i].from
          BY <2>1, <4>4 DEF IInv, QueueInv, e
        <5>2. queue[i].kind = "write" => queue[i].after = Wrap(out + (queue[i].to - tail))
          BY <2>1, <4>4 DEF IInv, QueueInv, Pending
        <5>3. Wrap(out' + (queue[i].to - e)) = Wrap(out + (queue[i].to - tail))
          <6>1. queue[i].to \in Int /\ e <= queue[i].to /\ queue[i].to - tail < WrtSize
            BY <2>2, <2>4, <4>1, <4>2, <5>1
          <6>2. QED
            BY <2>5, <6>1
        <5>4. QED
          BY <2>2, <4>1, <4>2, <5>1, <5>2, <5>3
      <4>5. QED
        BY <4>3, <4>4
    <3>2. QED
      BY <2>1, <2>3, <3>1 DEF IInv, QueueInv
  <2>11. JobInv'
    BY <2>1 DEF JobInv
  <2>12. RingIntact'
    <3>1. e <= head /\ head - e < WrtSize /\ in = Wrap(out' + (head - e))
      <4>1. Wrap(out' + (head - e)) = Wrap(out + (head - tail))
        BY <2>2, <2>4, <2>5
      <4>2. QED
        BY <2>2, <2>4, <4>1, SendAssumption DEF IInv, RingIntact
    <3>2. ASSUME NEW p \in e + 1 .. head
          PROVE  ring[Wrap(out' + (p - e - 1))] = p
      <4>1. p \in tail + 1 .. head /\ p - 1 \in Int /\ e <= p - 1 /\ (p - 1) - tail < WrtSize
            /\ (p - 1) - e = p - e - 1 /\ (p - 1) - tail = p - tail - 1
        BY <2>2, <2>4, SendAssumption
      <4>2. Wrap(out' + ((p - 1) - e)) = Wrap(out + ((p - 1) - tail))
        BY <2>5, <4>1
      <4>3. ring[Wrap(out + (p - tail - 1))] = p
        BY <4>1 DEF IInv, RingIntact
      <4>4. QED
        BY <4>1, <4>2, <4>3
    <3>3. QED
      BY <2>3, <3>1, <3>2 DEF RingIntact
  <2>13. QED
    BY <2>7, <2>8, <2>9, <2>10, <2>11, <2>12 DEF Rest
<1>21. CASE Reply
  <2>1. /\ hpc = "reply" /\ hpc' = "read" /\ queue # <<>> /\ queue' = Tail(queue)
        /\ UNCHANGED <<ringVars, posted, owner, pc, call, draft>>
    BY <1>21 DEF Reply, IInv, QueueInv, writerVars, streamVars
  <2>2. /\ Len(queue) \in Nat /\ Len(queue) > 0 /\ Len(queue') = Len(queue) - 1
        /\ \A i \in 1 .. Len(queue') : queue'[i] = queue[i + 1]
    BY <2>1, HeadIs, LenProperties DEF IInv, TypeOK, PipeType
  <2>3. Owned' /\ DraftInv' /\ Positions' /\ RingIntact'
    BY <2>1 DEF IInv, ringVars, Owned, DraftInv, Positions, RingIntact
  <2>4. JobInv'
    BY <2>1 DEF JobInv
  <2>5. QueueInv'
    <3>1. \A i \in 1 .. Len(queue') : i + 1 \in 1 .. Len(queue) /\ i + 1 # 1 /\ Pending(i + 1)
      BY <2>2 DEF Pending
    <3>2. ASSUME NEW i \in 1 .. Len(queue')
          PROVE  /\ queue'[i].kind \in {"write", "shutdown", "null"}
                 /\ queue'[i].from <= queue'[i].to /\ queue'[i].to <= posted'
                 /\ tail' <= queue'[i].to /\ tail' <= queue'[i].from
                 /\ queue'[i].kind = "write" => Shape(queue'[i])
                 /\ queue'[i].kind = "write" => queue'[i].after = Wrap(out' + (queue'[i].to - tail'))
      <4>1. queue'[i] = queue[i + 1]
        BY <2>2
      <4>2. QED
        BY <2>1, <3>1, <4>1 DEF IInv, QueueInv, ringVars
    <3>3. \A i, j \in 1 .. Len(queue') : i < j => queue'[i].to <= queue'[j].from
      <4>1. SUFFICES ASSUME NEW i \in 1 .. Len(queue'), NEW j \in 1 .. Len(queue'), i < j
                     PROVE  queue'[i].to <= queue'[j].from
        OBVIOUS
      <4>2. i + 1 \in 1 .. Len(queue) /\ j + 1 \in 1 .. Len(queue) /\ i + 1 < j + 1
        BY <2>2, <3>1, <4>1
      <4>3. queue[i + 1].to <= queue[j + 1].from
        BY <4>2 DEF IInv, QueueInv
      <4>4. QED
        BY <2>2, <4>3
    <3>4. QED
      BY <2>1, <3>2, <3>3 DEF QueueInv
  <2>6. QED
    BY <2>3, <2>4, <2>5 DEF Rest
<1>22. QED
  BY <1>2, <1>3, <1>4, <1>5, <1>6, <1>7, <1>8, <1>9, <1>10, <1>11, <1>12, <1>13, <1>14, <1>15, <1>16,
     <1>17, <1>18, <1>19, <1>20, <1>21
     DEF Next, WriterStep, ShutdownStep, HandlerStep

(* The invariant is inductive. *)
LEMMA InvStep == IInv /\ [Next]_vars => IInv'
BY TypeStep, RestStep DEF IInv, Rest

LEMMA Inductive == Spec => []IInv
BY InitInv, InvStep, PTL DEF Spec

(* Every index stays in the area, every length stays a natural number and  *)
(* the queue within its array, for every size the socket is created with   *)
(* (socl_write.c:138-284, socl_command.c:91-106).                          *)
THEOREM TypeCorrect == Spec => []TypeOK
<1>1. IInv => TypeOK
  BY DEF IInv
<1>2. QED
  BY Inductive, <1>1, PTL

(* No write of any length, blocking or not, cut at the end of the area or  *)
(* rolled back on a full queue, runs over a byte the send thread still     *)
(* needs (socl_write.c:180-284, 355-370).                                  *)
THEOREM RingSafe == Spec => []RingIntact
<1>1. IInv => RingIntact
  BY DEF IInv
<1>2. QED
  BY Inductive, <1>1, PTL

(* The two together: the invariant of the ring that TLC checks on a small  *)
(* one.                                                                    *)
THEOREM SendSafe == Spec => []SendSound
<1>1. TypeOK /\ RingIntact => SendSound
  BY DEF SendSound
<1>2. QED
  BY TypeCorrect, RingSafe, <1>1, PTL

-----------------------------------------------------------------------------
(* The byte stream.                                                        *)

(* The messages in the queue follow each other without a gap, from where   *)
(* the ring begins up to posted.                                           *)
Chain ==
  /\ queue = <<>> => tail = posted
  /\ queue # <<>> =>
       /\ queue[Len(queue)].to = posted
       /\ tail = IF hpc = "reply" THEN queue[1].to ELSE queue[1].from
  /\ \A i \in 1 .. Len(queue) - 1 : queue[i].to = queue[i + 1].from
  /\ \A i \in 1 .. Len(queue) :
       /\ queue[i].kind # "write" => queue[i].from = queue[i].to
       /\ queue[i].kind = "write" => Cut(queue[i])
       /\ queue[i].kind = "write" /\ Pending(i) =>
            queue[i].at1 = Wrap(out + (queue[i].from - tail))
  /\ hpc = "reply" => queue[1].kind # "null"

(* What was handed over lies inside the running write.                     *)
Runs ==
  /\ hpc \in {"read", "reply", "exit"} => passed = tail
  /\ hpc \in {"copy", "cps"} => job.to = queue[1].to
  /\ hpc \in {"copy", "cps", "free"} => tail <= passed /\ passed + Len(chunk) <= queue[1].to
  /\ hpc # "cps" => chunk = <<>>

(* The two pieces that are left hold the bytes behind the copied ones.     *)
Copied == passed + Len(chunk)
JobAt ==
  hpc \in {"copy", "cps"} =>
    /\ job.n1 + job.n2 = job.to - Copied
    /\ \A k \in 0 .. job.n1 - 1 : job.at1 + k = Wrap(out + (Copied + k - tail))
    /\ \A k \in 0 .. job.n2 - 1 : job.at2 + k = Wrap(out + (Copied + job.n1 + k - tail))

(* The chunk is the next part of the stream. *)
ChunkIs == \A i \in 1 .. Len(chunk) : chunk[i] = passed + i

Flow == Chain /\ Runs /\ JobAt /\ ChunkIs

(* A write that was begun has bytes left, and those in the ring are cut    *)
(* where the area ends.                                                    *)
Wants ==
  \A w \in Writers :
    /\ pc[w] \in {"lock", "alloc", "asleep", "packet", "copy", "send"} =>
         call[w].left > 0 /\ call[w].min > 0
    /\ pc[w] \in {"packet", "copy", "send"} => draft.from < draft.to
    /\ pc[w] = "send" => Cut(draft)

(* What Flow reads. *)
flowVars == <<queue, tail, out, posted, hpc, passed, job, chunk>>

(* Only the pipe, the send thread and its counters matter to the stream.   *)
LEMMA FlowFrame == Flow /\ UNCHANGED flowVars => Flow'
BY DEF Flow, Chain, Runs, JobAt, Copied, ChunkIs, Pending, flowVars

(* An open socket with an empty pipe. *)
LEMMA StreamInitInv == Init => Flow /\ Wants
<1> SUFFICES ASSUME Init PROVE Flow /\ Wants
  OBVIOUS
<1>1. queue = <<>> /\ chunk = <<>> /\ Len(queue) = 0 /\ Len(chunk) = 0
  BY EmptySeq DEF Init
<1>2. Chain /\ Runs /\ JobAt /\ ChunkIs
  BY <1>1 DEF Init, Chain, Runs, JobAt, ChunkIs
<1>3. Wants
  BY DEF Init, Wants
<1>4. QED
  BY <1>2, <1>3 DEF Flow

(* A message is queued at the end of the chain. *)
LEMMA FlowAppend ==
  ASSUME IInv, Flow, NEW m \in Messages, ~QueueFull, queue' = Append(queue, m),
         m.from = posted, posted' = m.to, m.from <= m.to,
         m.kind # "write" => m.from = m.to,
         m.kind = "write" => Cut(m) /\ m.at1 = Wrap(out + (m.from - tail)),
         UNCHANGED <<tail, out, hpc, passed, job, chunk>>
  PROVE  Flow'
<1>1. /\ Len(queue') = Len(queue) + 1 /\ queue'[Len(queue) + 1] = m /\ Len(queue) \in Nat
      /\ \A i \in 1 .. Len(queue) : queue'[i] = queue[i]
      /\ queue' # <<>>
  BY AppendIs, LenProperties, EmptySeq DEF IInv, TypeOK, PipeType
<1>2. queue # <<>> => Len(queue) > 0 /\ queue'[1] = queue[1]
  BY <1>1, LenProperties, EmptySeq DEF IInv, TypeOK, PipeType
<1>3. queue = <<>> => Len(queue) = 0 /\ queue'[1] = m
  BY <1>1, EmptySeq
<1>4. hpc \in {"copy", "cps", "free", "reply"} => queue # <<>>
  BY DEF IInv, QueueInv
<1>5. Chain'
  <2>1. tail' = IF hpc' = "reply" THEN queue'[1].to ELSE queue'[1].from
    BY <1>2, <1>3, <1>4 DEF Flow, Chain
  <2>2. ASSUME NEW i \in 1 .. Len(queue') - 1 PROVE queue'[i].to = queue'[i + 1].from
    <3>1. CASE i = Len(queue)
      BY <1>1, <1>2, <3>1, EmptySeq DEF Flow, Chain
    <3>2. CASE i # Len(queue)
      BY <1>1, <3>2 DEF Flow, Chain
    <3>3. QED
      BY <3>1, <3>2
  <2>3. ASSUME NEW i \in 1 .. Len(queue')
        PROVE  /\ queue'[i].kind # "write" => queue'[i].from = queue'[i].to
               /\ queue'[i].kind = "write" => Cut(queue'[i])
               /\ queue'[i].kind = "write" /\ Pending(i)' =>
                    queue'[i].at1 = Wrap(out' + (queue'[i].from - tail'))
    <3>1. CASE i = Len(queue) + 1
      BY <1>1, <3>1
    <3>2. CASE i # Len(queue) + 1
      BY <1>1, <3>2 DEF Flow, Chain, Pending
    <3>3. QED
      BY <3>1, <3>2
  <2>4. hpc' = "reply" => queue'[1].kind # "null"
    BY <1>2, <1>4 DEF Flow, Chain
  <2>5. queue'[Len(queue')].to = posted'
    BY <1>1
  <2>6. QED
    BY <1>1, <2>1, <2>2, <2>3, <2>4, <2>5 DEF Chain
<1>6. Runs' /\ JobAt' /\ ChunkIs'
  BY <1>2, <1>4 DEF Flow, Runs, JobAt, Copied, ChunkIs
<1>7. QED
  BY <1>5, <1>6 DEF Flow

(* What the call looks for is never zero bytes. *)
LEMMA WantsStep == IInv /\ Wants /\ [Next]_vars => Wants'
<1> SUFFICES ASSUME IInv, Wants, [Next]_vars PROVE Wants'
  OBVIOUS
<1> USE SendAssumption
<1>1. ASSUME UNCHANGED <<pc, call, draft>> PROVE Wants'
  BY <1>1 DEF Wants
<1>2. ASSUME NEW w \in Writers, NEW n \in Lens, NEW block \in BOOLEAN, WriteTo(w, n, block)
      PROVE  Wants'
  <2>1. n \in Nat /\ n > 0 /\ SndLen \in Nat /\ SndLen > 0
    OBVIOUS
  <2>2. /\ pc' = [pc EXCEPT ![w] = "lock"] /\ UNCHANGED draft
        /\ call' = [call EXCEPT ![w] =
             [left |-> n, block |-> block, min |-> IF proto = "UDP" THEN n ELSE Least(n, SndLen)]]
    BY <1>2 DEF WriteTo
  <2>3. pc'[w] = "lock" /\ call'[w].left > 0 /\ call'[w].min > 0
    BY <2>1, <2>2 DEF IInv, TypeOK, WriterType, Least
  <2>4. \A v \in Writers : v # w => pc'[v] = pc[v] /\ call'[v] = call[v]
    BY <2>2 DEF IInv, TypeOK, WriterType
  <2>5. QED
    BY <2>2, <2>3, <2>4 DEF Wants
<1>3. ASSUME NEW w \in Writers, LockSendPipe(w) PROVE Wants'
  BY <1>3 DEF LockSendPipe, Wants, IInv, TypeOK, WriterType
<1>4. ASSUME NEW w \in Writers, CreateWritePacket(w) PROVE Wants'
  BY <1>4 DEF CreateWritePacket, Wants, IInv, TypeOK, WriterType
<1>5. ASSUME NEW w \in Writers, CopyToRing(w) PROVE Wants'
  BY <1>5 DEF CopyToRing, Wants, IInv, TypeOK, WriterType, DraftInv
<1>6. ASSUME NEW w \in Writers, UnlockSendPipe(w) PROVE Wants'
  <2>1. /\ pc[w] = "unlock" /\ owner = w /\ pc'[w] = "idle"
        /\ \A v \in Writers : v # w => pc'[v] = pc[v] /\ call'[v] = call[v] /\ pc[v] \notin Holding
    BY <1>6 DEF UnlockSendPipe, IInv, TypeOK, WriterType, Owned, Holding
  <2>2. QED
    BY <2>1 DEF Wants, Holding
<1>7. ASSUME NEW w \in Writers, AllocWriteBuffer(w) PROVE Wants'
  <2>1. /\ pc[w] = "alloc" /\ owner = w /\ UNCHANGED call
        /\ call[w].left \in Nat /\ call[w].min \in Nat /\ call[w].left > 0 /\ call[w].min > 0
        /\ \A v \in Writers : v # w => pc[v] \notin Holding
    BY <1>7 DEF AllocWriteBuffer, IInv, TypeOK, WriterType, Calls, Owned, Holding, Wants
  <2> DEFINE min == Least(call[w].min, call[w].left)
             n == Least(FreeSize, call[w].left)
  <2>2. min \in Nat /\ min > 0 /\ min <= call[w].left
    BY <2>1 DEF Least
  <2>3. CASE pc' = [pc EXCEPT ![w] = IF call[w].block THEN "asleep" ELSE "unlock"] /\ UNCHANGED draft
    <3>1. pc'[w] \in {"asleep", "unlock"} /\ \A v \in Writers : v # w => pc'[v] = pc[v]
      BY <2>3 DEF IInv, TypeOK, WriterType
    <3>2. QED
      BY <2>1, <2>3, <3>1 DEF Wants, Holding
  <2>4. CASE FreeSize >= min /\ draft' = WriteMsg(in, n) /\ pc' = [pc EXCEPT ![w] = "packet"]
    <3>1. /\ in \in Cells /\ head \in Nat /\ FreeSize \in Int
          /\ FreeSize = WrtSize - 1 - (head - tail) /\ tail <= head /\ tail \in Nat
      BY FreeSizeIs DEF IInv, TypeOK, RingType, RingIntact
    <3>2. n \in Nat /\ n > 0 /\ n < WrtSize
      BY <2>1, <2>2, <2>4, <3>1 DEF Least
    <3> HIDE DEF n
    <3>3. draft'.from = head /\ draft'.to = head + n
      BY <2>4, <3>1, <3>2, WriteMsgIs
    <3>4. draft'.from < draft'.to
      BY <3>1, <3>2, <3>3
    <3>5. pc'[w] = "packet" /\ \A v \in Writers : v # w => pc'[v] = pc[v]
      BY <2>4 DEF IInv, TypeOK, WriterType
    <3>6. QED
      BY <2>1, <3>4, <3>5 DEF Wants, Holding
  <2>5. QED
    BY <1>7, <2>3, <2>4 DEF AllocWriteBuffer
<1>8. ASSUME NEW w \in Writers, SendWrite(w) PROVE Wants'
  <2>1. /\ pc[w] = "send" /\ owner = w /\ call[w] \in Calls /\ call[w].left > 0 /\ call[w].min > 0
        /\ draft.from \in Nat /\ draft.to \in Nat
        /\ \A v \in Writers : v # w => pc[v] \notin Holding
    BY <1>8 DEF SendWrite, IInv, TypeOK, WriterType, Messages, Owned, Holding, Wants
  <2>2. CASE /\ call' = [call EXCEPT ![w].left = @ - (draft.to - draft.from)]
             /\ pc' = [pc EXCEPT ![w] =
                  IF call[w].block /\ call[w].left > draft.to - draft.from THEN "alloc" ELSE "unlock"]
    <3>1. /\ pc'[w] = "alloc" => call[w].left > draft.to - draft.from
          /\ pc'[w] \in {"alloc", "unlock"}
          /\ call'[w].left = call[w].left - (draft.to - draft.from) /\ call'[w].min = call[w].min
          /\ \A v \in Writers : v # w => pc'[v] = pc[v] /\ call'[v] = call[v]
      BY <2>1, <2>2 DEF IInv, TypeOK, WriterType, Calls
    <3>2. pc'[w] = "alloc" => call'[w].left > 0
      BY <2>1, <3>1 DEF Calls
    <3>3. QED
      BY <2>1, <3>1, <3>2 DEF Wants, Holding
  <2>3. CASE pc' = [pc EXCEPT ![w] = "unlock"] /\ UNCHANGED call
    <3>1. pc'[w] = "unlock" /\ \A v \in Writers : v # w => pc'[v] = pc[v]
      BY <2>3 DEF IInv, TypeOK, WriterType
    <3>2. QED
      BY <2>1, <2>3, <3>1 DEF Wants, Holding
  <2>4. QED
    BY <1>8, <2>2, <2>3 DEF SendWrite
<1>9. CASE FreeCells
  BY <1>9 DEF FreeCells, Wants
<1>10. ASSUME HandlerStep, ~FreeCells PROVE Wants'
  BY <1>1, <1>10 DEF HandlerStep, BeginWrite, MemCpy, SocWrite, RunShutdown, Reply, ExitSendThread, writerVars
<1>11. CASE ShutdownStep \/ Close \/ SendNull \/ LoseConnection \/ OtherTakesPacket \/ OtherReturnsPacket
  BY <1>1, <1>11 DEF ShutdownStep, CreateShutdownPacket, SendShutdown, Close, SendNull, LoseConnection,
                     OtherTakesPacket, OtherReturnsPacket, writerVars
<1>12. ASSUME NEW block \in BOOLEAN, Shutdown(block) PROVE Wants'
  BY <1>1, <1>12 DEF Shutdown, writerVars
<1>13. CASE UNCHANGED vars
  BY <1>1, <1>13 DEF vars, writerVars
<1>14. QED
  BY <1>2, <1>3, <1>4, <1>5, <1>6, <1>7, <1>8, <1>9, <1>10, <1>11, <1>12, <1>13 DEF Next, WriterStep

(* What a handler finds: its message, and where the bytes of it are.       *)
LEMMA FlowHead ==
  ASSUME IInv, Flow, queue # <<>>
  PROVE  /\ Head(queue) = queue[1] /\ queue[1] \in Messages /\ 1 \in 1 .. Len(queue)
         /\ Len(queue) \in Nat
         /\ queue[1].from \in Nat /\ queue[1].to \in Nat /\ queue[1].from <= queue[1].to
         /\ queue[1].to <= posted /\ posted <= head /\ head - tail < WrtSize
         /\ tail \in Nat /\ head \in Nat /\ posted \in Nat /\ passed \in Nat /\ out \in Cells
<1>1. Head(queue) = queue[1] /\ queue[1] \in Messages /\ 1 \in 1 .. Len(queue) /\ Len(queue) \in Nat
  BY HeadIs, LenProperties DEF IInv, TypeOK, PipeType
<1>2. queue[1].from \in Nat /\ queue[1].to \in Nat
  BY <1>1 DEF Messages
<1>3. queue[1].from <= queue[1].to /\ queue[1].to <= posted
  BY <1>1 DEF IInv, QueueInv
<1>4. QED
  BY <1>1, <1>2, <1>3 DEF IInv, TypeOK, RingType, StreamType, Positions, RingIntact

(* SOCLi_WriteCallBack starts with the whole of its command to copy.       *)
LEMMA FlowBegin ==
  ASSUME IInv, Flow, NEW mss \in MssVals, BeginWrite(mss)
  PROVE  Flow'
<1>1. hpc = "read" /\ queue # <<>> /\ hpc' \in {"copy", "free"}
      /\ UNCHANGED <<queue, tail, out, posted, passed, chunk>>
  BY DEF BeginWrite, ringVars, pipeVars, streamVars
<1>H. /\ Head(queue) = queue[1] /\ queue[1] \in Messages /\ 1 \in 1 .. Len(queue)
      /\ Len(queue) \in Nat
      /\ queue[1].from \in Nat /\ queue[1].to \in Nat /\ queue[1].from <= queue[1].to
      /\ queue[1].to <= posted /\ posted <= head /\ head - tail < WrtSize
      /\ tail \in Nat /\ head \in Nat /\ posted \in Nat /\ passed \in Nat /\ out \in Cells
  BY <1>1, FlowHead
<1>T. tail \in Nat /\ passed \in Nat /\ out \in Nat /\ out < WrtSize /\ WrtSize \in Nat
  BY <1>H, SendAssumption DEF Cells
<1>2. queue[1].kind = "write"
  BY <1>1, <1>H DEF BeginWrite
<1>3. /\ job'.at1 = queue[1].at1 /\ job'.n1 = queue[1].n1 /\ job'.at2 = 0
      /\ job'.n2 = queue[1].n2 /\ job'.to = queue[1].to
  BY <1>1, <1>H DEF BeginWrite
<1>4. chunk = <<>> /\ Len(chunk) = 0 /\ passed = tail /\ tail = queue[1].from
  BY <1>1, EmptySeq DEF Flow, Runs, Chain
<1>5. Chain'
  BY <1>1 DEF Flow, Chain, Pending
<1>6. Runs'
  BY <1>1, <1>3, <1>4, <1>H DEF Flow, Runs
<1>7. JobAt'
  <2>1. /\ queue[1].at1 = Wrap(out + (queue[1].from - tail)) /\ Cut(queue[1]) /\ Shape(queue[1])
    BY <1>1, <1>2, <1>H DEF Flow, Chain, Pending, IInv, QueueInv
  <2>2. queue[1].at1 = out /\ queue[1].n1 \in Nat /\ queue[1].n2 \in Nat
    <3>1. queue[1].n1 \in Nat /\ queue[1].n2 \in Nat
      BY <1>H DEF Messages
    <3>2. out + (queue[1].from - tail) = out /\ Wrap(out) = out
      BY <1>4, <1>H, <1>T DEF Wrap
    <3>3. QED
      BY <2>1, <3>1, <3>2
  <2>3. /\ out + queue[1].n1 <= WrtSize /\ queue[1].n2 <= WrtSize
        /\ queue[1].to - queue[1].from = queue[1].n1 + queue[1].n2
        /\ queue[1].n2 > 0 => out + queue[1].n1 = WrtSize
    BY <2>1, <2>2 DEF Shape, Cut
  <2>4. Copied' = tail
    BY <1>1, <1>4, <1>H DEF Copied
  <2>5. job'.n1 + job'.n2 = job'.to - Copied'
    BY <1>1, <1>3, <1>4, <2>2, <2>3, <2>4, <1>H
  <2>6. ASSUME NEW k \in 0 .. job'.n1 - 1
        PROVE  job'.at1 + k = Wrap(out' + (Copied' + k - tail'))
    <3>1. k \in Nat /\ k < queue[1].n1
      BY <1>3, <2>2
    <3>2. tail + k - tail = k /\ out + k < WrtSize
      BY <2>2, <2>3, <3>1, <1>T
    <3>3. Wrap(out + k) = out + k
      BY <3>2 DEF Wrap
    <3>4. QED
      BY <1>1, <1>3, <2>2, <2>4, <3>2, <3>3
  <2>7. ASSUME NEW k \in 0 .. job'.n2 - 1
        PROVE  job'.at2 + k = Wrap(out' + (Copied' + job'.n1 + k - tail'))
    <3>1. k \in Nat /\ job'.n1 \in Nat /\ tail' = tail /\ out' = out /\ job'.at2 = 0
          /\ out \in Nat /\ out + job'.n1 = WrtSize
      BY <1>1, <1>3, <2>2, <2>3, <1>T DEF Cells
    <3>2. tail + job'.n1 + k - tail = job'.n1 + k /\ out + (job'.n1 + k) = WrtSize + k
      BY <3>1, <1>T
    <3>3. Wrap(WrtSize + k) = k
      BY <3>1 DEF Wrap
    <3>4. QED
      BY <2>4, <3>1, <3>2, <3>3
  <2>8. QED
    BY <2>5, <2>6, <2>7 DEF JobAt
<1>8. ChunkIs'
  BY <1>1, <1>4 DEF ChunkIs
<1>9. QED
  BY <1>5, <1>6, <1>7, <1>8 DEF Flow

(* SOCLi_MemCpy takes the next bytes of the stream, in their order, from   *)
(* whichever piece they are in.                                            *)
LEMMA FlowCopy ==
  ASSUME IInv, Flow, MemCpy
  PROVE  Flow'
<1> DEFINE k1 == Least(job.n1, job.limit)
           k2 == IF job.n1 > job.limit THEN 0 ELSE Least(job.n2, job.limit - job.n1)
<1>1. hpc = "copy" /\ queue # <<>> /\ UNCHANGED <<ring, queue, tail, out, posted, passed>>
  BY DEF MemCpy, IInv, QueueInv, ringVars, pipeVars, streamVars
<1>H. /\ Head(queue) = queue[1] /\ queue[1] \in Messages /\ 1 \in 1 .. Len(queue)
      /\ Len(queue) \in Nat
      /\ queue[1].from \in Nat /\ queue[1].to \in Nat /\ queue[1].from <= queue[1].to
      /\ queue[1].to <= posted /\ posted <= head /\ head - tail < WrtSize
      /\ tail \in Nat /\ head \in Nat /\ posted \in Nat /\ passed \in Nat /\ out \in Cells
  BY <1>1, FlowHead
<1>T. tail \in Nat /\ passed \in Nat /\ out \in Nat /\ out < WrtSize /\ WrtSize \in Nat
  BY <1>H, SendAssumption DEF Cells
<1>2. /\ job \in Jobs /\ job.at1 \in Nat /\ job.n1 \in Nat /\ job.at2 \in Nat /\ job.n2 \in Nat
      /\ job.limit \in Nat /\ job.to \in Nat
  BY DEF IInv, TypeOK, HandlerType, Jobs
<1>3. /\ k1 \in Nat /\ k2 \in Nat /\ k1 <= job.n1 /\ k2 <= job.n2
      /\ k2 > 0 => k1 = job.n1
      /\ k1 < job.n1 => k2 = 0
  BY <1>2 DEF Least
<1>4. chunk = <<>> /\ Len(chunk) = 0 /\ Copied = passed /\ tail <= passed /\ job.to = queue[1].to
  BY <1>1, EmptySeq, <1>H DEF Flow, Runs, Copied
<1>5. /\ job.n1 + job.n2 = job.to - passed
      /\ \A k \in 0 .. job.n1 - 1 : job.at1 + k = Wrap(out + (passed + k - tail))
      /\ \A k \in 0 .. job.n2 - 1 : job.at2 + k = Wrap(out + (passed + job.n1 + k - tail))
  BY <1>1, <1>4 DEF Flow, JobAt
<1>6. Chain'
  <2>1. hpc' \in {"cps", "free"}
    BY DEF MemCpy
  <2>2. QED
    BY <1>1, <2>1 DEF Flow, Chain, Pending
<1>7. CASE /\ k1 + k2 > 0
           /\ chunk' = [i \in 1 .. k1 + k2 |->
                IF i <= k1 THEN ring[job.at1 + i - 1] ELSE ring[job.at2 + i - k1 - 1]]
           /\ job' = [job EXCEPT !.at1 = @ + k1, !.n1 = @ - k1, !.at2 = @ + k2, !.n2 = @ - k2]
           /\ hpc' = "cps"
  <2> HIDE DEF k1, k2
  <2>1. /\ job'.at1 = job.at1 + k1 /\ job'.n1 = job.n1 - k1
        /\ job'.at2 = job.at2 + k2 /\ job'.n2 = job.n2 - k2 /\ job'.to = job.to
    BY <1>2, <1>7 DEF Jobs
  <2>2. Len(chunk') = k1 + k2
    BY <1>3, <1>7
  <2>3. Copied' = passed + k1 + k2
    BY <1>1, <1>3, <2>2, <1>H DEF Copied
  <2>4. Runs'
    <3>1. passed + (k1 + k2) <= queue[1].to
      BY <1>2, <1>3, <1>4, <1>5, <1>H
    <3>2. QED
      BY <1>1, <1>4, <1>7, <2>1, <2>2, <3>1 DEF Runs
  <2>5. JobAt'
    <3>1. job'.n1 + job'.n2 = job'.to - Copied'
      <4>1. (job.n1 - k1) + (job.n2 - k2) = job.to - (passed + k1 + k2)
        BY <1>2, <1>3, <1>5, <1>T
      <4>2. QED
        BY <2>1, <2>3, <4>1
    <3>2. ASSUME NEW k \in 0 .. job'.n1 - 1
          PROVE  job'.at1 + k = Wrap(out' + (Copied' + k - tail'))
      <4>1. k1 + k \in 0 .. job.n1 - 1 /\ k2 = 0
        BY <1>2, <1>3, <2>1
      <4>2. job.at1 + (k1 + k) = Wrap(out + (passed + (k1 + k) - tail))
        BY <1>5, <4>1
      <4>3. /\ passed + k1 + k2 + k - tail = passed + (k1 + k) - tail
            /\ job.at1 + k1 + k = job.at1 + (k1 + k)
        BY <1>2, <1>3, <2>1, <4>1, <1>T
      <4>4. QED
        BY <1>1, <2>1, <2>3, <4>2, <4>3
    <3>3. ASSUME NEW k \in 0 .. job'.n2 - 1
          PROVE  job'.at2 + k = Wrap(out' + (Copied' + job'.n1 + k - tail'))
      <4>1. k2 + k \in 0 .. job.n2 - 1
        BY <1>2, <1>3, <2>1
      <4>2. job.at2 + (k2 + k) = Wrap(out + (passed + job.n1 + (k2 + k) - tail))
        BY <1>5, <4>1
      <4>3. /\ passed + k1 + k2 + (job.n1 - k1) + k - tail = passed + job.n1 + (k2 + k) - tail
            /\ job.at2 + k2 + k = job.at2 + (k2 + k)
        BY <1>2, <1>3, <2>1, <4>1, <1>T
      <4>4. QED
        BY <1>1, <2>1, <2>3, <4>2, <4>3
    <3>4. QED
      BY <3>1, <3>2, <3>3 DEF JobAt
  <2>6. ChunkIs'
    <3>1. SUFFICES ASSUME NEW i \in 1 .. k1 + k2 PROVE chunk'[i] = passed + i
      BY <1>1, <2>2 DEF ChunkIs
    <3>2. ring[Wrap(out + (passed + (i - 1) - tail))] = passed + i
      <4>1. passed + i \in tail + 1 .. head
        <5>1. passed + i <= job.to
          BY <1>2, <1>3, <1>5, <1>T
        <5>2. job.to <= head
          BY <1>4, <1>H
        <5>3. QED
          BY <1>2, <1>4, <1>H, <5>1, <5>2
      <4>2. (passed + i) - tail - 1 = passed + (i - 1) - tail
        BY <1>1, <1>H
      <4>3. QED
        BY <4>1, <4>2 DEF IInv, RingIntact
    <3>3. CASE i <= k1
      <4>1. i - 1 \in 0 .. job.n1 - 1
        BY <1>2, <1>3, <3>3
      <4>2. job.at1 + (i - 1) = Wrap(out + (passed + (i - 1) - tail))
        BY <1>5, <4>1
      <4>3. chunk'[i] = ring[job.at1 + i - 1] /\ job.at1 + i - 1 = job.at1 + (i - 1)
        BY <1>2, <1>7, <3>3
      <4>4. QED
        BY <3>2, <4>2, <4>3
    <3>4. CASE ~(i <= k1)
      <4>1. i - k1 - 1 \in 0 .. job.n2 - 1 /\ k1 = job.n1
        BY <1>2, <1>3, <3>4
      <4>2. job.at2 + (i - k1 - 1) = Wrap(out + (passed + job.n1 + (i - k1 - 1) - tail))
        BY <1>5, <4>1
      <4>3. chunk'[i] = ring[job.at2 + i - k1 - 1]
        BY <1>7, <3>4
      <4>4. /\ job.at2 + i - k1 - 1 = job.at2 + (i - k1 - 1)
            /\ passed + job.n1 + (i - k1 - 1) - tail = passed + (i - 1) - tail
        BY <1>2, <1>3, <4>1, <1>T
      <4>5. QED
        BY <3>2, <4>2, <4>3, <4>4
    <3>5. QED
      BY <3>3, <3>4
  <2>7. QED
    BY <1>6, <2>4, <2>5, <2>6 DEF Flow
<1>8. CASE hpc' = "free" /\ UNCHANGED <<chunk, job>>
  BY <1>1, <1>4, <1>6, <1>8, <1>H DEF Flow, Runs, JobAt, ChunkIs
<1>9. QED
  BY <1>7, <1>8 DEF MemCpy

(* What CPS answered about a chunk moves the end of what was handed over.  *)
LEMMA FlowSocWrite ==
  ASSUME IInv, Flow, NEW r \in 0 .. SndLen, SocWrite(r)
  PROVE  Flow'
<1>1. hpc = "cps" /\ queue # <<>> /\ chunk' = <<>> /\ Len(chunk') = 0
      /\ hpc' \in {"copy", "free"} /\ UNCHANGED <<queue, tail, out, posted, job>>
      /\ Len(chunk) \in Nat
  BY EmptySeq, LenProperties DEF SocWrite, IInv, QueueInv, ringVars, pipeVars, TypeOK, HandlerType
<1>H. /\ Head(queue) = queue[1] /\ queue[1] \in Messages /\ 1 \in 1 .. Len(queue)
      /\ Len(queue) \in Nat
      /\ queue[1].from \in Nat /\ queue[1].to \in Nat /\ queue[1].from <= queue[1].to
      /\ queue[1].to <= posted /\ posted <= head /\ head - tail < WrtSize
      /\ tail \in Nat /\ head \in Nat /\ posted \in Nat /\ passed \in Nat /\ out \in Cells
  BY <1>1, FlowHead
<1>T. tail \in Nat /\ passed \in Nat /\ out \in Nat /\ out < WrtSize /\ WrtSize \in Nat
  BY <1>H, SendAssumption DEF Cells
<1>2. Chain' /\ ChunkIs'
  BY <1>1 DEF Flow, Chain, Pending, ChunkIs
<1>3. CASE hpc' = "copy" /\ passed' = passed + Len(chunk)
  <2>1. Copied' = Copied
    BY <1>1, <1>3, <1>H DEF Copied
  <2>2. JobAt'
    BY <1>1, <1>3, <2>1 DEF Flow, JobAt
  <2>3. Runs'
    BY <1>1, <1>3, <1>H DEF Flow, Runs
  <2>4. QED
    BY <1>2, <2>2, <2>3 DEF Flow
<1>4. CASE hpc' = "free" /\ passed' = passed
  BY <1>1, <1>2, <1>4, <1>H DEF Flow, Runs, JobAt
<1>5. QED
  BY <1>3, <1>4 DEF SocWrite

(* Freeing the cells moves the origin of the ring; the cells of the        *)
(* commands behind stay where they are.                                    *)
LEMMA FlowFree ==
  ASSUME IInv, Flow, FreeCells
  PROVE  Flow'
<1>1. /\ hpc = "free" /\ hpc' = "reply" /\ queue # <<>> /\ UNCHANGED <<queue, posted, chunk>>
  BY DEF FreeCells, IInv, QueueInv, pipeVars
<1>H. /\ Head(queue) = queue[1] /\ queue[1] \in Messages /\ 1 \in 1 .. Len(queue)
      /\ Len(queue) \in Nat
      /\ queue[1].from \in Nat /\ queue[1].to \in Nat /\ queue[1].from <= queue[1].to
      /\ queue[1].to <= posted /\ posted <= head /\ head - tail < WrtSize
      /\ tail \in Nat /\ head \in Nat /\ posted \in Nat /\ passed \in Nat /\ out \in Cells
  BY <1>1, FlowHead
<1> DEFINE e == queue[1].to
<1>2. /\ queue[1].kind = "write" /\ tail <= e /\ queue[1].after = Wrap(out + (e - tail))
  BY <1>1, <1>H DEF IInv, QueueInv, Pending
<1>3. /\ out' = Wrap(out + (e - tail)) /\ tail' = e /\ passed' = e
  BY <1>2, <1>H DEF FreeCells
<1>4. chunk = <<>> /\ Len(chunk) = 0
  BY <1>1, EmptySeq DEF Flow, Runs
<1>5. ASSUME NEW p \in Nat, e <= p, p <= head
      PROVE  Wrap(out' + (p - e)) = Wrap(out + (p - tail))
  <2>1. e - tail \in Nat /\ p - e \in Nat /\ (e - tail) + (p - e) < WrtSize /\ (e - tail) + (p - e) = p - tail
    BY <1>2, <1>H, <1>5, SendAssumption
  <2>2. Wrap(Wrap(out + (e - tail)) + (p - e)) = Wrap(out + ((e - tail) + (p - e)))
    BY <1>H, <2>1, WrapWrap
  <2>3. QED
    BY <1>3, <2>1, <2>2
<1>6. ASSUME NEW i \in 1 .. Len(queue), queue[i].kind = "write", i # 1
      PROVE  queue[i].at1 = Wrap(out' + (queue[i].from - tail'))
  <2>1. queue[i] \in Messages
    BY ElementOfSeq DEF IInv, TypeOK, PipeType
  <2>2. queue[i].from \in Nat /\ queue[i].to \in Nat
    BY <2>1 DEF Messages
  <2>3. queue[i].from <= queue[i].to /\ queue[i].to <= posted /\ e <= queue[i].from
    BY <1>6, <1>H DEF IInv, QueueInv
  <2>4. queue[i].at1 = Wrap(out + (queue[i].from - tail))
    BY <1>6 DEF Flow, Chain, Pending
  <2>5. queue[i].from <= head
    BY <2>2, <2>3, <1>H
  <2>6. QED
    BY <1>3, <1>5, <2>2, <2>3, <2>4, <2>5
<1>7. Chain'
  <2>1. /\ \A i \in 1 .. Len(queue) - 1 : queue[i].to = queue[i + 1].from
        /\ \A i \in 1 .. Len(queue) :
             /\ queue[i].kind # "write" => queue[i].from = queue[i].to
             /\ queue[i].kind = "write" => Cut(queue[i])
        /\ queue[Len(queue)].to = posted
    BY <1>1 DEF Flow, Chain
  <2>2. ASSUME NEW i \in 1 .. Len(queue'), queue'[i].kind = "write", Pending(i)'
        PROVE  queue'[i].at1 = Wrap(out' + (queue'[i].from - tail'))
    BY <1>1, <1>6, <2>2 DEF Pending
  <2>3. QED
    BY <1>1, <1>2, <1>3, <2>1, <2>2 DEF Chain
<1>8. Runs' /\ JobAt' /\ ChunkIs'
  BY <1>1, <1>3, <1>4 DEF Runs, JobAt, ChunkIs
<1>9. QED
  BY <1>7, <1>8 DEF Flow

(* A command without bytes ends where it begins. *)
LEMMA FlowShutdown ==
  ASSUME IInv, Flow, RunShutdown
  PROVE  Flow'
<1>1. /\ hpc = "read" /\ hpc' = "reply" /\ queue # <<>> /\ UNCHANGED <<queue, tail, out, posted, passed, job, chunk>>
  BY DEF RunShutdown, ringVars, pipeVars, streamVars
<1>2. Head(queue) = queue[1] /\ 1 \in 1 .. Len(queue)
  BY <1>1, FlowHead
<1>3. queue[1].kind = "shutdown" /\ queue[1].from = queue[1].to
  BY <1>2 DEF RunShutdown, Flow, Chain
<1>4. Chain'
  BY <1>1, <1>3 DEF Flow, Chain, Pending
<1>5. Runs' /\ JobAt' /\ ChunkIs'
  BY <1>1 DEF Flow, Runs, JobAt, ChunkIs
<1>6. QED
  BY <1>4, <1>5 DEF Flow

(* The next command begins where the answered one ended. *)
LEMMA FlowReply ==
  ASSUME IInv, Flow, Reply
  PROVE  Flow'
<1>1. /\ hpc = "reply" /\ hpc' = "read" /\ queue # <<>> /\ queue' = Tail(queue)
      /\ UNCHANGED <<tail, out, posted, passed, chunk>>
  BY DEF Reply, IInv, QueueInv, ringVars, streamVars
<1>2. /\ Len(queue) \in Nat /\ Len(queue) > 0 /\ Len(queue') = Len(queue) - 1
      /\ \A i \in 1 .. Len(queue') : queue'[i] = queue[i + 1]
      /\ queue' \in Seq(Messages)
  BY <1>1, HeadIs, LenProperties DEF IInv, TypeOK, PipeType
<1>3. tail = queue[1].to /\ queue[Len(queue)].to = posted /\ passed = tail
  BY <1>1 DEF Flow, Chain, Runs
<1>4. \A i \in 1 .. Len(queue') : i + 1 \in 1 .. Len(queue) /\ Pending(i + 1)
  BY <1>2 DEF Pending
<1>5. Chain'
  <2>1. queue' = <<>> => tail' = posted'
    <3>1. queue' = <<>> => Len(queue) = 1
      BY <1>2, EmptySeq
    <3>2. QED
      BY <1>1, <1>3, <3>1
  <2>2. ASSUME queue' # <<>>
        PROVE  queue'[Len(queue')].to = posted' /\ tail' = queue'[1].from
    <3>1. Len(queue') > 0
      BY <1>2, <2>2, EmptySeq, LenProperties
    <3>2. queue'[Len(queue')] = queue[Len(queue)] /\ queue'[1] = queue[2] /\ 1 \in 1 .. Len(queue) - 1
      BY <1>2, <3>1
    <3>3. queue[1].to = queue[1 + 1].from
      BY <3>2 DEF Flow, Chain
    <3>4. QED
      BY <1>1, <1>3, <3>2, <3>3
  <2>3. ASSUME NEW i \in 1 .. Len(queue') - 1 PROVE queue'[i].to = queue'[i + 1].from
    <3>1. i \in 1 .. Len(queue') /\ i + 1 \in 1 .. Len(queue') /\ i + 1 \in 1 .. Len(queue) - 1
      BY <1>2
    <3>2. queue[i + 1].to = queue[i + 1 + 1].from
      BY <3>1 DEF Flow, Chain
    <3>3. QED
      BY <1>2, <3>1, <3>2
  <2>4. ASSUME NEW i \in 1 .. Len(queue')
        PROVE  /\ queue'[i].kind # "write" => queue'[i].from = queue'[i].to
               /\ queue'[i].kind = "write" => Cut(queue'[i])
               /\ queue'[i].kind = "write" /\ Pending(i)' =>
                    queue'[i].at1 = Wrap(out' + (queue'[i].from - tail'))
    <3>1. queue'[i] = queue[i + 1] /\ i + 1 \in 1 .. Len(queue) /\ Pending(i + 1)
      BY <1>2, <1>4
    <3>2. QED
      BY <1>1, <3>1 DEF Flow, Chain
  <2>5. QED
    BY <1>1, <2>1, <2>2, <2>3, <2>4 DEF Chain
<1>6. Runs' /\ JobAt' /\ ChunkIs'
  BY <1>1, <1>3 DEF Flow, Runs, JobAt, ChunkIs
<1>7. QED
  BY <1>5, <1>6 DEF Flow

(* The write that was prepared joins the chain. *)
LEMMA FlowSend ==
  ASSUME IInv, Flow, Wants, NEW w \in Writers, SendWrite(w)
  PROVE  Flow'
<1>1. /\ pc[w] = "send" /\ draft \in Messages /\ draft.from <= draft.to /\ draft.from = posted
      /\ draft.at1 = Wrap(out + (draft.from - tail)) /\ Shape(draft) /\ Cut(draft)
      /\ UNCHANGED <<tail, out, hpc, passed, job, chunk>>
  BY DEF SendWrite, IInv, DraftInv, TypeOK, WriterType, Wants, handlerVars
<1>2. CASE ~QueueFull /\ queue' = Append(queue, draft) /\ posted' = draft.to
  BY <1>1, <1>2, FlowAppend DEF Shape
<1>3. CASE UNCHANGED <<queue, posted>>
  BY <1>1, <1>3, FlowFrame DEF flowVars
<1>4. QED
  BY <1>2, <1>3 DEF SendWrite

(* A shutdown or NULL joins the chain without bytes.                       *)
LEMMA FlowMark ==
  ASSUME IInv, Flow, NEW k \in {"shutdown", "null"}, ~QueueFull, queue' = Append(queue, Mark(k)),
         UNCHANGED <<tail, out, posted, hpc, passed, job, chunk>>
  PROVE  Flow'
<1> DEFINE m == Mark(k)
<1>1. m \in Messages /\ m.kind = k /\ m.from = posted /\ m.to = posted /\ posted \in Nat
  BY MarkIs DEF IInv, TypeOK, StreamType
<1> HIDE DEF m
<1>2. queue' = Append(queue, m)
  BY DEF m
<1>3. QED
  BY <1>1, <1>2, FlowAppend

(* Every step keeps the chain. *)
LEMMA FlowStep == IInv /\ Flow /\ Wants /\ [Next]_vars => Flow'
<1> SUFFICES ASSUME IInv, Flow, Wants, [Next]_vars PROVE Flow'
  OBVIOUS
<1>1. ASSUME UNCHANGED flowVars PROVE Flow'
  BY <1>1, FlowFrame
<1>2. ASSUME NEW w \in Writers, NEW n \in Lens, NEW block \in BOOLEAN, WriteTo(w, n, block) PROVE Flow'
  BY <1>1, <1>2 DEF WriteTo, flowVars, ringVars, pipeVars, handlerVars, streamVars
<1>3. ASSUME NEW w \in Writers,
             LockSendPipe(w) \/ AllocWriteBuffer(w) \/ CreateWritePacket(w) \/ UnlockSendPipe(w)
      PROVE  Flow'
  BY <1>1, <1>3 DEF LockSendPipe, AllocWriteBuffer, CreateWritePacket, UnlockSendPipe,
                    flowVars, ringVars, pipeVars, handlerVars, streamVars
<1>4. ASSUME NEW w \in Writers, CopyToRing(w) PROVE Flow'
  BY <1>1, <1>4 DEF CopyToRing, flowVars, pipeVars, handlerVars, streamVars
<1>5. ASSUME NEW w \in Writers, SendWrite(w) PROVE Flow'
  BY <1>5, FlowSend
<1>6. ASSUME NEW block \in BOOLEAN, Shutdown(block) PROVE Flow'
  BY <1>1, <1>6 DEF Shutdown, flowVars, ringVars, pipeVars, handlerVars, streamVars
<1>7. CASE CreateShutdownPacket \/ Close \/ LoseConnection \/ OtherTakesPacket \/ OtherReturnsPacket
  BY <1>1, <1>7 DEF CreateShutdownPacket, Close, LoseConnection, OtherTakesPacket, OtherReturnsPacket,
                    flowVars, ringVars, pipeVars, handlerVars, streamVars
<1>8. CASE SendShutdown
  <2>1. UNCHANGED <<tail, out, posted, hpc, passed, job, chunk>>
    BY <1>8 DEF SendShutdown, ringVars, handlerVars, streamVars
  <2>2. CASE ~QueueFull /\ queue' = Append(queue, Mark("shutdown"))
    BY <2>1, <2>2, FlowMark
  <2>3. CASE UNCHANGED queue
    BY <1>1, <2>1, <2>3 DEF flowVars
  <2>4. QED
    BY <1>8, <2>2, <2>3 DEF SendShutdown
<1>9. CASE SendNull
  <2>1. UNCHANGED <<tail, out, posted, hpc, passed, job, chunk>>
    BY <1>9 DEF SendNull, ringVars, handlerVars, streamVars
  <2>2. QED
    BY <1>9, <2>1, FlowMark DEF SendNull
<1>10. CASE HandlerStep
  <2>1. CASE ExitSendThread
    <3>1. hpc = "read" /\ hpc' = "exit" /\ UNCHANGED <<queue, tail, out, posted, passed, job, chunk>>
      BY <2>1 DEF ExitSendThread, ringVars, pipeVars, streamVars
    <3>2. QED
      BY <3>1 DEF Flow, Chain, Pending, Runs, JobAt, ChunkIs
  <2>2. QED
    BY <1>10, <2>1, FlowBegin, FlowCopy, FlowSocWrite, FlowFree, FlowShutdown, FlowReply DEF HandlerStep
<1>11. CASE UNCHANGED vars
  BY <1>1, <1>11 DEF vars, flowVars, ringVars, pipeVars, handlerVars, streamVars
<1>12. QED
  BY <1>2, <1>3, <1>4, <1>5, <1>6, <1>7, <1>8, <1>9, <1>10, <1>11 DEF Next, WriterStep, ShutdownStep

(* The three parts hold together. *)
LEMMA FlowInductive == Spec => [](IInv /\ Flow /\ Wants)
<1>1. Init => IInv /\ Flow /\ Wants
  BY InitInv, StreamInitInv
<1>2. IInv /\ Flow /\ Wants /\ [Next]_vars => (IInv /\ Flow /\ Wants)'
  BY InvStep, FlowStep, WantsStep
<1>3. QED
  BY <1>1, <1>2, PTL DEF Spec

(* The empty stream. *)
LEMMA StreamInit == Init => Stream!Init
BY DEF Init, Stream!Init

(* What CPS takes of a chunk is the next part of the stream. *)
LEMMA TakenIs ==
  ASSUME chunk \in Seq(Nat), ChunkIs, passed \in Nat, NEW r \in 0 .. Len(chunk)
  PROVE  SubSeq(chunk, 1, r) = [i \in 1 .. r |-> passed + i]
<1> DEFINE s == SubSeq(chunk, 1, r)
           t == [i \in 1 .. r |-> passed + i]
<1>1. Len(chunk) \in Nat /\ r \in Nat /\ r <= Len(chunk)
  BY LenProperties
<1>2. \A i \in 1 .. r : chunk[i] \in Nat
  BY <1>1, ElementOfSeq
<1>3. s \in Seq(Nat) /\ Len(s) = r /\ \A i \in 1 .. r : s[i] = chunk[i]
  <2>1. /\ s \in Seq(Nat) /\ Len(s) = IF 1 <= r THEN r - 1 + 1 ELSE 0
        /\ \A i \in 1 .. r - 1 + 1 : s[i] = chunk[1 + i - 1]
    BY <1>1, <1>2, SubSeqProperties
  <2>2. r - 1 + 1 = r /\ \A i \in 1 .. r : 1 + i - 1 = i
    BY <1>1
  <2>3. QED
    BY <1>1, <2>1, <2>2
<1>4. t \in Seq(Nat) /\ Len(t) = r
  <2>1. \A i \in 1 .. r : passed + i \in Nat
    OBVIOUS
  <2>2. t \in Seq(Nat)
    BY <1>1, <2>1, IsASeq
  <2>3. QED
    BY <1>1, <2>2, LenProperties
<1>5. \A i \in 1 .. r : s[i] = t[i]
  BY <1>1, <1>3 DEF ChunkIs
<1> HIDE DEF s, t
<1>6. s = t
  BY <1>3, <1>4, <1>5, SeqEqual
<1>7. QED
  BY <1>6 DEF s, t

(* Queueing a write posts it, handing over or dropping bytes passes them,  *)
(* and nothing else touches the stream.                                    *)
LEMMA StreamStep == IInv /\ Flow /\ Wants /\ [Next]_vars => [Stream!Next]_(Stream!streamVars)
<1> SUFFICES ASSUME IInv, Flow, Wants, [Next]_vars PROVE [Stream!Next]_(Stream!streamVars)
  OBVIOUS
<1>1. ASSUME UNCHANGED streamVars PROVE [Stream!Next]_(Stream!streamVars)
  BY <1>1 DEF streamVars, Stream!streamVars
<1>2. ASSUME NEW w \in Writers, SendWrite(w) PROVE [Stream!Next]_(Stream!streamVars)
  <2>1. CASE posted' = draft.to
    <3>1. draft.from = posted /\ draft.from < draft.to
      BY <1>2 DEF SendWrite, IInv, DraftInv, Wants
    <3>2. posted \in Nat /\ draft.to \in Nat
      BY DEF IInv, TypeOK, StreamType, WriterType, Messages
    <3>3. UNCHANGED <<passed, wire, lossy>>
      BY <1>2 DEF SendWrite
    <3>4. QED
      BY <2>1, <3>1, <3>2, <3>3 DEF Stream!Next, Stream!Post
  <2>2. CASE UNCHANGED posted
    BY <1>1, <1>2, <2>2 DEF SendWrite, streamVars
  <2>3. QED
    BY <1>2, <2>1, <2>2 DEF SendWrite
<1>3. ASSUME NEW r \in 0 .. SndLen, SocWrite(r) PROVE [Stream!Next]_(Stream!streamVars)
  <2>1. CASE r > 0
    <3>1. /\ hpc = "cps" /\ r \in 0 .. Len(chunk) /\ wire' = wire \o SubSeq(chunk, 1, r)
          /\ passed' = passed + Len(chunk) /\ lossy' = (lossy \/ r < Len(chunk)) /\ UNCHANGED posted
      BY <1>3, <2>1 DEF SocWrite
    <3>2. chunk \in Seq(Nat) /\ Len(chunk) \in Nat /\ passed \in Nat /\ posted \in Nat /\ ChunkIs
      BY LenProperties DEF IInv, TypeOK, HandlerType, StreamType, Flow
    <3>3. passed + Len(chunk) <= posted
      <4>1. queue # <<>>
        BY <3>1 DEF IInv, QueueInv
      <4>2. passed + Len(chunk) <= queue[1].to /\ queue[1].to <= posted /\ queue[1].to \in Nat
        BY <3>1, <4>1, FlowHead DEF Flow, Runs
      <4>3. QED
        BY <3>2, <4>2
    <3>4. wire' = wire \o [i \in 1 .. r |-> passed + i]
      BY <3>1, <3>2, TakenIs
    <3>5. /\ passed' \in passed + 1 .. posted /\ passed' - passed = Len(chunk)
          /\ r \in 0 .. passed' - passed
      BY <2>1, <3>1, <3>2, <3>3
    <3>6. Stream!Pass
      BY <3>1, <3>4, <3>5 DEF Stream!Pass
    <3>7. QED
      BY <3>6 DEF Stream!Next
  <2>2. CASE r = 0
    BY <1>1, <1>3, <2>2 DEF SocWrite, streamVars
  <2>3. QED
    BY <2>1, <2>2, SendAssumption
<1>4. CASE FreeCells
  <2>1. /\ hpc = "free" /\ queue # <<>>
    BY <1>4 DEF FreeCells, IInv, QueueInv
  <2>2. /\ Head(queue) = queue[1] /\ queue[1].to \in Nat /\ queue[1].to <= posted
        /\ passed \in Nat /\ posted \in Nat
    BY <2>1, FlowHead
  <2>3. passed <= queue[1].to
    <3>1. chunk = <<>> /\ Len(chunk) = 0 /\ passed + Len(chunk) <= queue[1].to
      BY <2>1, EmptySeq DEF Flow, Runs
    <3>2. QED
      BY <2>2, <3>1
  <2>4. /\ passed' = queue[1].to /\ lossy' = (lossy \/ passed < queue[1].to) /\ UNCHANGED <<wire, posted>>
    BY <1>4, <2>2 DEF FreeCells
  <2>5. CASE passed = queue[1].to
    <3>1. lossy' = lossy
      <4>1. lossy \in BOOLEAN /\ ~(passed < queue[1].to)
        BY <2>2, <2>5 DEF IInv, TypeOK, StreamType
      <4>2. QED
        BY <2>4, <4>1, Zenon
    <3>2. QED
      BY <1>1, <2>4, <2>5, <3>1 DEF streamVars
  <2>6. CASE passed < queue[1].to
    <3>1. wire' = wire \o [i \in 1 .. 0 |-> passed + i]
      <4>1. wire \in Seq(Nat)
        BY DEF IInv, TypeOK, StreamType
      <4>2. wire \o <<>> = wire
        BY <4>1, ConcatEmptySeq
      <4>3. [i \in 1 .. 0 |-> passed + i] = <<>>
        OBVIOUS
      <4>4. QED
        BY <2>4, <4>2, <4>3
    <3>2. passed' \in passed + 1 .. posted /\ 0 \in 0 .. passed' - passed /\ 0 < passed' - passed
      BY <2>2, <2>4, <2>6
    <3>3. lossy' = (lossy \/ 0 < passed' - passed)
      <4>1. lossy' = TRUE
        BY <2>4, <2>6, Zenon
      <4>2. QED
        BY <3>2, <4>1
    <3>4. Stream!Pass
      BY <2>4, <3>1, <3>2, <3>3 DEF Stream!Pass
    <3>5. QED
      BY <3>4 DEF Stream!Next
  <2>7. QED
    BY <2>2, <2>3, <2>5, <2>6
<1>5. ASSUME NEW w \in Writers, NEW n \in Lens, NEW block \in BOOLEAN, WriteTo(w, n, block)
      PROVE  [Stream!Next]_(Stream!streamVars)
  BY <1>1, <1>5 DEF WriteTo
<1>6. ASSUME NEW w \in Writers,
             \/ LockSendPipe(w) \/ AllocWriteBuffer(w) \/ CreateWritePacket(w)
             \/ CopyToRing(w) \/ UnlockSendPipe(w)
      PROVE  [Stream!Next]_(Stream!streamVars)
  BY <1>1, <1>6 DEF LockSendPipe, AllocWriteBuffer, CreateWritePacket, CopyToRing, UnlockSendPipe
<1>7. ASSUME NEW block \in BOOLEAN, Shutdown(block) PROVE [Stream!Next]_(Stream!streamVars)
  BY <1>1, <1>7 DEF Shutdown
<1>8. ASSUME ShutdownStep \/ Close \/ SendNull \/ LoseConnection \/ OtherTakesPacket \/ OtherReturnsPacket
      PROVE  [Stream!Next]_(Stream!streamVars)
  BY <1>1, <1>8 DEF ShutdownStep, CreateShutdownPacket, SendShutdown, Close, SendNull, LoseConnection,
                    OtherTakesPacket, OtherReturnsPacket
<1>9. ASSUME NEW mss \in MssVals, BeginWrite(mss) PROVE [Stream!Next]_(Stream!streamVars)
  BY <1>1, <1>9 DEF BeginWrite
<1>10. ASSUME MemCpy \/ RunShutdown \/ Reply \/ ExitSendThread PROVE [Stream!Next]_(Stream!streamVars)
  BY <1>1, <1>10 DEF MemCpy, RunShutdown, Reply, ExitSendThread
<1>11. CASE UNCHANGED vars
  BY <1>1, <1>11 DEF vars
<1>12. QED
  BY <1>2, <1>3, <1>4, <1>5, <1>6, <1>7, <1>8, <1>9, <1>10, <1>11 DEF Next, WriterStep, HandlerStep

(* For every size of ring and buffer and every number of writers, CPS gets *)
(* what was written in the order it was queued, no byte twice and none     *)
(* from anywhere else; one that is missing was dropped by a failed or      *)
(* short CPS_SocWrite (socl_write.c:180-284, 299-433).                     *)
THEOREM SendImplements == Spec => StreamSpec
<1>1. Init => Stream!Init
  BY StreamInit
<1>2. IInv /\ Flow /\ Wants /\ [Next]_vars => [Stream!Next]_(Stream!streamVars)
  BY StreamStep
<1>3. QED
  BY <1>1, <1>2, FlowInductive, PTL DEF Spec, StreamSpec, Stream!Spec

-----------------------------------------------------------------------------
(* The end of the stream.                                                  *)

(* What a caller was told is written before the shutdown stands before the *)
(* shutdown in the queue, and there is one shutdown at most.               *)
Fin ==
  /\ promised <= completed /\ completed <= posted
  /\ \A i \in 1 .. Len(queue) : queue[i].kind = "shutdown" => promised <= queue[i].from
  /\ spc.at \in {"idle", "packet", "send"} => \A i \in 1 .. Len(queue) : queue[i].kind # "shutdown"
  /\ spc.at = "idle" => finAt = -1
  /\ FlushBeforeFin

(* What Fin reads. *)
finVars == <<queue, posted, spc, completed, promised, finAt>>

(* Nothing was promised yet. *)
LEMMA FinInit == Init => Fin
<1> SUFFICES ASSUME Init PROVE Fin
  OBVIOUS
<1>1. queue = <<>> /\ Len(queue) = 0
  BY EmptySeq DEF Init
<1>2. QED
  BY <1>1 DEF Init, Fin, FlushBeforeFin

(* A message joins the queue behind everything that was promised. *)
LEMMA FinAppend ==
  ASSUME IInv, Fin, ~QueueFull, NEW m \in Messages, queue' = Append(queue, m),
         m.from = posted, posted <= posted', posted' \in Nat,
         m.kind = "shutdown" => spc'.at \notin {"idle", "packet", "send"},
         spc'.at \in {"idle", "packet", "send"} => spc.at \in {"idle", "packet", "send"},
         spc'.at = "idle" => spc.at = "idle",
         UNCHANGED <<completed, promised, finAt>>
  PROVE  Fin'
<1>1. /\ Len(queue') = Len(queue) + 1 /\ queue'[Len(queue) + 1] = m /\ Len(queue) \in Nat
      /\ \A i \in 1 .. Len(queue) : queue'[i] = queue[i]
  BY AppendIs, LenProperties DEF IInv, TypeOK, PipeType
<1>2. promised \in Nat /\ completed \in Nat /\ posted \in Nat
  BY DEF IInv, TypeOK, EndType, StreamType
<1>3. promised' <= completed' /\ completed' <= posted' /\ promised <= posted
  BY <1>2 DEF Fin
<1>4. ASSUME NEW i \in 1 .. Len(queue')
      PROVE  /\ queue'[i].kind = "shutdown" => promised' <= queue'[i].from
             /\ spc'.at \in {"idle", "packet", "send"} => queue'[i].kind # "shutdown"
  <2>1. CASE i \in 1 .. Len(queue)
    BY <1>1, <2>1 DEF Fin
  <2>2. CASE i = Len(queue) + 1
    BY <1>1, <1>3, <2>2
  <2>3. QED
    BY <1>1, <2>1, <2>2
<1>5. QED
  BY <1>3, <1>4 DEF Fin, FlushBeforeFin

(* The shutdown stays behind what was promised. *)
LEMMA FinStep == IInv /\ Flow /\ Fin /\ [Next]_vars => Fin'
<1> SUFFICES ASSUME IInv, Flow, Fin, [Next]_vars PROVE Fin'
  OBVIOUS
<1>T. /\ promised \in Nat /\ completed \in Nat /\ posted \in Nat /\ passed \in Nat
      /\ finAt \in Int /\ spc \in [at : {"idle", "packet", "send", "wait", "done"}, block : BOOLEAN]
  BY DEF IInv, TypeOK, EndType, StreamType
<1>1. ASSUME UNCHANGED finVars PROVE Fin'
  BY <1>1 DEF Fin, FlushBeforeFin, finVars
<1>2. ASSUME NEW w \in Writers, NEW n \in Lens, NEW block \in BOOLEAN, WriteTo(w, n, block) PROVE Fin'
  BY <1>1, <1>2 DEF WriteTo, finVars, pipeVars, streamVars, endVars
<1>3. ASSUME NEW w \in Writers,
             LockSendPipe(w) \/ AllocWriteBuffer(w) \/ CreateWritePacket(w) \/ CopyToRing(w)
      PROVE  Fin'
  BY <1>1, <1>3 DEF LockSendPipe, AllocWriteBuffer, CreateWritePacket, CopyToRing,
                    finVars, pipeVars, streamVars, endVars
<1>4. ASSUME NEW w \in Writers, SendWrite(w) PROVE Fin'
  <2>1. /\ pc[w] = "send" /\ draft \in Messages /\ draft.from <= draft.to /\ draft.from = posted
        /\ draft.to \in Nat /\ draft.kind = "write"
        /\ UNCHANGED <<spc, completed, promised, finAt>>
    BY <1>4 DEF SendWrite, IInv, DraftInv, Shape, TypeOK, WriterType, endVars, Messages
  <2>2. CASE ~QueueFull /\ queue' = Append(queue, draft) /\ posted' = draft.to
    BY <2>1, <2>2, FinAppend
  <2>3. CASE UNCHANGED <<queue, posted>>
    BY <1>1, <2>1, <2>3 DEF finVars
  <2>4. QED
    BY <1>4, <2>2, <2>3 DEF SendWrite
<1>5. ASSUME NEW w \in Writers, UnlockSendPipe(w) PROVE Fin'
  <2>1. completed' = posted /\ UNCHANGED <<queue, posted, spc, promised, finAt>>
    BY <1>5 DEF UnlockSendPipe, pipeVars, streamVars
  <2>2. QED
    BY <1>T, <2>1 DEF Fin, FlushBeforeFin
<1>6. ASSUME NEW block \in BOOLEAN, Shutdown(block) PROVE Fin'
  <2>1. /\ spc.at = "idle" /\ promised' = completed /\ spc'.at = "packet"
        /\ UNCHANGED <<queue, posted, completed, finAt>>
    BY <1>6 DEF Shutdown, pipeVars, streamVars
  <2>2. QED
    BY <1>T, <2>1 DEF Fin, FlushBeforeFin
<1>7. CASE CreateShutdownPacket
  <2>1. /\ spc.at = "packet" /\ spc'.at \in {"packet", "send", "done"} /\ UNCHANGED <<queue, posted, completed, promised, finAt>>
    BY <1>7, <1>T DEF CreateShutdownPacket, streamVars
  <2>2. QED
    BY <2>1 DEF Fin, FlushBeforeFin
<1>8. CASE SendShutdown
  <2>1. spc.at = "send" /\ spc'.at \in {"wait", "done"} /\ UNCHANGED <<posted, completed, promised, finAt>>
    BY <1>8, <1>T DEF SendShutdown, streamVars
  <2>2. CASE ~QueueFull /\ queue' = Append(queue, Mark("shutdown"))
    <3> DEFINE m == Mark("shutdown")
    <3>1. m \in Messages /\ m.from = posted
      BY <1>T, MarkIs
    <3> HIDE DEF m
    <3>2. queue' = Append(queue, m)
      BY <2>2 DEF m
    <3>3. QED
      BY <1>T, <2>1, <2>2, <3>1, <3>2, FinAppend
  <2>3. CASE UNCHANGED queue
    BY <2>1, <2>3 DEF Fin, FlushBeforeFin
  <2>4. QED
    BY <1>8, <2>2, <2>3 DEF SendShutdown
<1>9. CASE SendNull
  <2> DEFINE m == Mark("null")
  <2>1. m \in Messages /\ m.from = posted /\ m.kind = "null"
    BY <1>T, MarkIs
  <2> HIDE DEF m
  <2>2. /\ ~QueueFull /\ queue' = Append(queue, m) /\ UNCHANGED <<posted, spc, completed, promised, finAt>>
    BY <1>9 DEF SendNull, streamVars, m
  <2>3. QED
    BY <1>T, <2>1, <2>2, FinAppend
<1>10. CASE RunShutdown
  <2>1. /\ hpc = "read" /\ queue # <<>> /\ finAt' = passed
        /\ UNCHANGED <<queue, posted, spc, completed, promised>>
    BY <1>10 DEF RunShutdown, pipeVars, streamVars
  <2>2. queue[1].kind = "shutdown" /\ 1 \in 1 .. Len(queue) /\ queue[1].from \in Nat
    BY <1>10, <2>1, FlowHead DEF RunShutdown
  <2>3. passed = queue[1].from
    BY <2>1 DEF Flow, Chain, Runs
  <2>4. promised <= queue[1].from /\ spc.at \notin {"idle", "packet", "send"}
    BY <2>2 DEF Fin
  <2>5. QED
    BY <2>1, <2>3, <2>4 DEF Fin, FlushBeforeFin
<1>11. CASE Reply
  <2>1. /\ queue # <<>> /\ queue' = Tail(queue) /\ UNCHANGED <<posted, completed, promised, finAt>>
    BY <1>11 DEF Reply, IInv, QueueInv, streamVars
  <2>2. spc' = spc \/ (spc.at = "wait" /\ spc'.at = "done")
    BY <1>11, <1>T DEF Reply
  <2>3. /\ Len(queue) \in Nat /\ Len(queue') = Len(queue) - 1
        /\ \A i \in 1 .. Len(queue') : queue'[i] = queue[i + 1] /\ i + 1 \in 1 .. Len(queue)
    BY <2>1, HeadIs, LenProperties DEF IInv, TypeOK, PipeType
  <2>4. QED
    BY <2>1, <2>2, <2>3 DEF Fin, FlushBeforeFin
<1>12. ASSUME NEW mss \in MssVals, BeginWrite(mss) PROVE Fin'
  BY <1>1, <1>12 DEF BeginWrite, finVars, pipeVars, streamVars, endVars
<1>13. ASSUME NEW r \in 0 .. SndLen, SocWrite(r) PROVE Fin'
  BY <1>1, <1>13 DEF SocWrite, finVars, pipeVars, endVars
<1>14. CASE MemCpy \/ FreeCells \/ ExitSendThread
  BY <1>1, <1>14 DEF MemCpy, FreeCells, ExitSendThread, finVars, pipeVars, streamVars, endVars
<1>15. CASE Close \/ LoseConnection \/ OtherTakesPacket \/ OtherReturnsPacket
  BY <1>1, <1>15 DEF Close, LoseConnection, OtherTakesPacket, OtherReturnsPacket,
                     finVars, pipeVars, streamVars, endVars
<1>16. CASE UNCHANGED vars
  BY <1>1, <1>16 DEF vars, finVars, pipeVars, streamVars, endVars
<1>17. QED
  BY <1>2, <1>3, <1>4, <1>5, <1>6, <1>7, <1>8, <1>9, <1>10, <1>11, <1>12, <1>13, <1>14, <1>15, <1>16
     DEF Next, WriterStep, HandlerStep, ShutdownStep

(* Nothing that was written before SOCL_Shutdown was called is left behind *)
(* the FIN, whatever else is queued and however the writes are cut         *)
(* (socl_shutdown.c:28-37, socl_command.c:91-106).                         *)
THEOREM FlushSafe == Spec => []FlushBeforeFin
<1>1. Init => IInv /\ Flow /\ Wants /\ Fin
  BY InitInv, StreamInitInv, FinInit
<1>2. IInv /\ Flow /\ Wants /\ Fin /\ [Next]_vars => (IInv /\ Flow /\ Wants /\ Fin)'
  BY InvStep, FlowStep, WantsStep, FinStep
<1>3. Fin => FlushBeforeFin
  BY DEF Fin
<1>4. QED
  BY <1>1, <1>2, <1>3, PTL DEF Spec

-----------------------------------------------------------------------------
(* Datagrams.                                                              *)

(* No writer asks for more than the send buffer, so no command holds more, *)
(* and one pass of SOCLi_MemCpy takes all of it.                           *)
Whole ==
  proto = "UDP" =>
    /\ \A w \in Writers : pc[w] # "idle" => call[w].left <= SndLen
    /\ \A i \in 1 .. Len(queue) : queue[i].to - queue[i].from <= SndLen
    /\ hpc \in {"copy", "cps"} => job.limit = SndLen
    /\ hpc = "copy" => passed \in {tail, queue[1].to}
    /\ hpc = "cps" => passed = tail /\ Len(chunk) = queue[1].to - queue[1].from

(* What Whole reads. *)
wholeVars == <<proto, pc, call, queue, hpc, job, passed, tail, chunk>>

(* No datagram yet. *)
LEMMA WholeInit == Init => Whole
<1> SUFFICES ASSUME Init PROVE Whole
  OBVIOUS
<1>1. queue = <<>> /\ Len(queue) = 0
  BY EmptySeq DEF Init
<1>2. QED
  BY <1>1 DEF Init, Whole

(* A datagram that was asked for fits the send buffer. *)
LEMMA WholeAppend ==
  ASSUME IInv, Flow, Whole, ~QueueFull, NEW m \in Messages, queue' = Append(queue, m),
         proto = "UDP" => m.to - m.from <= SndLen,
         proto = "UDP" => \A w \in Writers : pc'[w] # "idle" => call'[w].left <= SndLen,
         UNCHANGED <<proto, hpc, job, passed, tail, chunk>>
  PROVE  Whole'
<1>1. /\ Len(queue') = Len(queue) + 1 /\ queue'[Len(queue) + 1] = m /\ Len(queue) \in Nat
      /\ \A i \in 1 .. Len(queue) : queue'[i] = queue[i]
  BY AppendIs, LenProperties DEF IInv, TypeOK, PipeType
<1>2. hpc \in {"copy", "cps"} => queue'[1] = queue[1]
  BY <1>1, LenProperties, EmptySeq DEF IInv, QueueInv, TypeOK, PipeType
<1>3. ASSUME NEW i \in 1 .. Len(queue'), proto = "UDP" PROVE queue'[i].to - queue'[i].from <= SndLen
  BY <1>1, <1>3 DEF Whole
<1>4. QED
  BY <1>2, <1>3 DEF Whole

(* The mode of a socket never changes. *)
LEMMA ModeFixed == [Next]_vars => proto' = proto
<1> SUFFICES ASSUME [Next]_vars PROVE proto' = proto
  OBVIOUS
<1>1. ASSUME NEW w \in Writers, WriterStep(w) PROVE proto' = proto
  BY <1>1 DEF WriterStep, LockSendPipe, AllocWriteBuffer, CreateWritePacket, CopyToRing, SendWrite,
              UnlockSendPipe, stateVars
<1>2. ASSUME NEW r \in 0 .. SndLen, SocWrite(r) PROVE proto' = proto
  BY <1>2 DEF SocWrite, stateVars
<1>3. ASSUME NEW mss \in MssVals, BeginWrite(mss) PROVE proto' = proto
  BY <1>3 DEF BeginWrite, stateVars
<1>4. CASE MemCpy \/ FreeCells \/ RunShutdown \/ Reply \/ ExitSendThread
  BY <1>4 DEF MemCpy, FreeCells, RunShutdown, Reply, ExitSendThread, stateVars
<1>5. ASSUME NEW w \in Writers, NEW n \in Lens, NEW block \in BOOLEAN, WriteTo(w, n, block)
      PROVE  proto' = proto
  BY <1>5 DEF WriteTo, stateVars
<1>6. ASSUME NEW block \in BOOLEAN, Shutdown(block) PROVE proto' = proto
  BY <1>6 DEF Shutdown
<1>7. CASE ShutdownStep \/ Close \/ SendNull
  BY <1>7 DEF ShutdownStep, CreateShutdownPacket, SendShutdown, Close, SendNull, stateVars
<1>8. CASE LoseConnection \/ OtherTakesPacket \/ OtherReturnsPacket
  BY <1>8 DEF LoseConnection, OtherTakesPacket, OtherReturnsPacket, stateVars
<1>9. CASE UNCHANGED vars
  BY <1>9 DEF vars, stateVars
<1>10. QED
  BY <1>1, <1>2, <1>3, <1>4, <1>5, <1>6, <1>7, <1>8, <1>9 DEF Next, HandlerStep

(* One pass copies, one CPS_SocWrite sends. *)
LEMMA WholeStep == IInv /\ Flow /\ Whole /\ [Next]_vars => Whole'
<1> SUFFICES ASSUME IInv, Flow, Whole, [Next]_vars, proto = "UDP" PROVE Whole'
  <2>1. [Next]_vars => proto' = proto
    BY ModeFixed
  <2>2. QED
    BY <2>1 DEF Whole
<1>T. /\ pc \in [Writers -> {"idle", "lock", "alloc", "asleep", "packet", "copy", "send", "unlock"}]
      /\ call \in [Writers -> Calls] /\ SndLen \in Nat /\ SndLen > 0 /\ passed \in Nat /\ tail \in Nat
  BY SendAssumption DEF IInv, TypeOK, WriterType, StreamType, RingType
<1>1. ASSUME UNCHANGED wholeVars PROVE Whole'
  BY <1>1 DEF Whole, wholeVars
<1>2. ASSUME NEW w \in Writers, NEW n \in Lens, NEW block \in BOOLEAN, WriteTo(w, n, block) PROVE Whole'
  <2>1. /\ call' = [call EXCEPT ![w] = [left |-> n, block |-> block, min |-> IF proto = "UDP" THEN n ELSE Least(n, SndLen)]]
        /\ pc' = [pc EXCEPT ![w] = "lock"] /\ n <= SndLen
        /\ UNCHANGED <<proto, queue, hpc, job, passed, tail, chunk>>
    BY <1>2 DEF WriteTo, ringVars, pipeVars, stateVars, handlerVars, streamVars
  <2>2. call'[w].left = n /\ \A v \in Writers : v # w => call'[v] = call[v] /\ pc'[v] = pc[v]
    BY <1>T, <2>1
  <2>3. QED
    BY <2>1, <2>2 DEF Whole
<1>3. ASSUME NEW w \in Writers,
             LockSendPipe(w) \/ AllocWriteBuffer(w) \/ CreateWritePacket(w) \/ CopyToRing(w)
      PROVE  Whole'
  <2>1. /\ UNCHANGED <<proto, call, queue, hpc, job, passed, tail, chunk>> /\ pc[w] # "idle"
        /\ \A v \in Writers : v # w => pc'[v] = pc[v]
    BY <1>3, <1>T DEF LockSendPipe, AllocWriteBuffer, CreateWritePacket, CopyToRing,
                      ringVars, pipeVars, stateVars, handlerVars, streamVars
  <2>2. QED
    BY <2>1 DEF Whole
<1>4. ASSUME NEW w \in Writers, UnlockSendPipe(w) PROVE Whole'
  <2>1. /\ UNCHANGED <<proto, queue, hpc, job, passed, tail, chunk>> /\ pc'[w] = "idle"
        /\ \A v \in Writers : v # w => pc'[v] = pc[v] /\ call'[v] = call[v]
    BY <1>4, <1>T DEF UnlockSendPipe, ringVars, pipeVars, stateVars, handlerVars, streamVars
  <2>2. QED
    BY <2>1 DEF Whole
<1>5. ASSUME NEW w \in Writers, SendWrite(w) PROVE Whole'
  <2>1. /\ pc[w] = "send" /\ draft \in Messages /\ draft.from <= draft.to
        /\ draft.to - draft.from <= call[w].left /\ call[w].left <= SndLen
        /\ UNCHANGED <<proto, hpc, job, passed, tail, chunk>>
    BY <1>5 DEF SendWrite, IInv, DraftInv, TypeOK, WriterType, stateVars, handlerVars, Whole
  <2>2. draft.from \in Nat /\ draft.to \in Nat /\ call[w].left \in Nat
    BY <1>T, <2>1 DEF Messages, Calls
  <2>3. CASE /\ ~QueueFull /\ queue' = Append(queue, draft)
             /\ call' = [call EXCEPT ![w].left = @ - (draft.to - draft.from)]
             /\ pc' = [pc EXCEPT ![w] =
                  IF call[w].block /\ call[w].left > draft.to - draft.from THEN "alloc" ELSE "unlock"]
    <3>1. /\ call'[w].left = call[w].left - (draft.to - draft.from)
          /\ \A v \in Writers : v # w => pc'[v] = pc[v] /\ call'[v] = call[v]
      BY <1>T, <2>3 DEF Calls
    <3>2. \A v \in Writers : pc'[v] # "idle" => call'[v].left <= SndLen
      BY <1>T, <2>1, <2>2, <3>1 DEF Whole
    <3>3. draft.to - draft.from <= SndLen
      BY <1>T, <2>1, <2>2
    <3>4. QED
      BY <2>1, <2>3, <3>2, <3>3, WholeAppend
  <2>4. CASE UNCHANGED <<queue, call>> /\ pc' = [pc EXCEPT ![w] = "unlock"]
    <3>1. \A v \in Writers : v # w => pc'[v] = pc[v]
      BY <1>T, <2>4
    <3>2. QED
      BY <2>1, <2>4, <3>1 DEF Whole
  <2>5. QED
    BY <1>5, <2>3, <2>4 DEF SendWrite
<1>6. ASSUME NEW block \in BOOLEAN, Shutdown(block) PROVE Whole'
  BY <1>6 DEF Shutdown
<1>7. CASE CreateShutdownPacket
  BY <1>1, <1>7 DEF CreateShutdownPacket, wholeVars, ringVars, stateVars, writerVars, handlerVars, streamVars
<1>8. ASSUME NEW k \in {"shutdown", "null"}, ~QueueFull, queue' = Append(queue, Mark(k)),
             UNCHANGED <<proto, pc, call, hpc, job, passed, tail, chunk>>
      PROVE  Whole'
  <2> DEFINE m == Mark(k)
  <2>1. posted \in Nat /\ m \in Messages /\ m.from = posted /\ m.to = posted
    BY MarkIs DEF IInv, TypeOK, StreamType
  <2>2. \A w \in Writers : pc'[w] # "idle" => call'[w].left <= SndLen
    BY <1>8 DEF Whole
  <2> HIDE DEF m
  <2>3. queue' = Append(queue, m) /\ m.to - m.from <= SndLen
    BY <1>8, <1>T, <2>1 DEF m
  <2>4. QED
    BY <1>8, <2>1, <2>2, <2>3, WholeAppend
<1>9. CASE SendShutdown
  <2>1. UNCHANGED <<proto, pc, call, hpc, job, passed, tail, chunk>>
    BY <1>9 DEF SendShutdown, ringVars, stateVars, writerVars, handlerVars, streamVars
  <2>2. QED
    BY <1>1, <1>8, <1>9, <2>1 DEF SendShutdown, wholeVars
<1>10. CASE SendNull
  <2>1. UNCHANGED <<proto, pc, call, hpc, job, passed, tail, chunk>>
    BY <1>10 DEF SendNull, ringVars, stateVars, writerVars, handlerVars, streamVars
  <2>2. QED
    BY <1>8, <1>10, <2>1 DEF SendNull
<1>11. ASSUME NEW mss \in MssVals, BeginWrite(mss) PROVE Whole'
  <2>1. /\ hpc = "read" /\ hpc' = "copy" /\ queue # <<>> /\ job'.limit = SndLen
        /\ UNCHANGED <<proto, pc, call, queue, passed, tail, chunk>>
    BY <1>11 DEF BeginWrite, ringVars, pipeVars, stateVars, writerVars, streamVars
  <2>2. passed = tail
    BY <2>1 DEF Flow, Runs
  <2>3. QED
    BY <2>1, <2>2 DEF Whole
<1>12. CASE MemCpy
  <2> DEFINE k1 == Least(job.n1, job.limit)
             k2 == IF job.n1 > job.limit THEN 0 ELSE Least(job.n2, job.limit - job.n1)
  <2>1. /\ hpc = "copy" /\ queue # <<>> /\ UNCHANGED <<proto, pc, call, queue, passed, tail>>
    BY <1>12 DEF MemCpy, IInv, QueueInv, ringVars, pipeVars, stateVars, writerVars, streamVars
  <2>2. /\ job.limit = SndLen /\ passed \in {tail, queue[1].to} /\ 1 \in 1 .. Len(queue)
        /\ queue[1].to - queue[1].from <= SndLen /\ tail = queue[1].from
        /\ queue[1].from \in Nat /\ queue[1].to \in Nat
    BY <2>1, FlowHead DEF Whole, Flow, Chain
  <2>3. job.n1 \in Nat /\ job.n2 \in Nat
    BY DEF IInv, TypeOK, HandlerType, Jobs
  <2>4. job.n1 + job.n2 = queue[1].to - passed
    <3>1. chunk = <<>> /\ Len(chunk) = 0 /\ job.to = queue[1].to
      BY <2>1, EmptySeq DEF Flow, Runs
    <3>2. Copied = passed
      BY <1>T, <3>1 DEF Copied
    <3>3. QED
      BY <2>1, <3>1, <3>2 DEF Flow, JobAt
  <2>5. job.n1 + job.n2 <= SndLen
    BY <1>T, <2>2, <2>3, <2>4
  <2>6. k1 = job.n1 /\ k2 = job.n2
    BY <1>T, <2>2, <2>3, <2>5 DEF Least
  <2>7. CASE /\ k1 + k2 > 0
             /\ chunk' = [i \in 1 .. k1 + k2 |->
                  IF i <= k1 THEN ring[job.at1 + i - 1] ELSE ring[job.at2 + i - k1 - 1]]
             /\ job' = [job EXCEPT !.at1 = @ + k1, !.n1 = @ - k1, !.at2 = @ + k2, !.n2 = @ - k2]
             /\ hpc' = "cps"
    <3> HIDE DEF k1, k2
    <3>1. Len(chunk') = k1 + k2
      BY <2>3, <2>6, <2>7
    <3>2. passed # queue[1].to
      BY <2>2, <2>3, <2>4, <2>6, <2>7
    <3>3. passed = tail /\ Len(chunk') = queue[1].to - queue[1].from
      BY <2>2, <2>4, <2>6, <3>1, <3>2
    <3>4. job'.limit = SndLen
      BY <2>2, <2>7 DEF IInv, TypeOK, HandlerType, Jobs
    <3>5. QED
      BY <2>1, <2>7, <3>3, <3>4 DEF Whole
  <2>8. CASE hpc' = "free"
    BY <2>1, <2>8 DEF Whole
  <2>9. QED
    BY <1>12, <2>7, <2>8 DEF MemCpy
<1>13. ASSUME NEW r \in 0 .. SndLen, SocWrite(r) PROVE Whole'
  <2>1. /\ hpc = "cps" /\ queue # <<>> /\ UNCHANGED <<proto, pc, call, queue, tail, job>>
        /\ (hpc' = "copy" /\ passed' = passed + Len(chunk)) \/ (hpc' = "free" /\ passed' = passed)
    BY <1>13 DEF SocWrite, IInv, QueueInv, ringVars, pipeVars, stateVars, writerVars
  <2>2. /\ passed = tail /\ Len(chunk) = queue[1].to - queue[1].from /\ tail = queue[1].from
        /\ queue[1].from \in Nat /\ queue[1].to \in Nat /\ job.limit = SndLen
    BY <2>1, FlowHead DEF Whole, Flow, Chain
  <2>3. passed + Len(chunk) = queue[1].to
    BY <2>2
  <2>4. QED
    BY <2>1, <2>2, <2>3 DEF Whole
<1>14. CASE FreeCells
  <2>1. /\ hpc' = "reply" /\ UNCHANGED <<proto, call, queue>>
        /\ \A w \in Writers : pc'[w] # "idle" => pc[w] # "idle"
    BY <1>14 DEF FreeCells, pipeVars, stateVars
  <2>2. QED
    BY <2>1 DEF Whole
<1>15. CASE RunShutdown \/ ExitSendThread
  <2>1. hpc' \in {"reply", "exit"} /\ UNCHANGED <<proto, pc, call, queue>>
    BY <1>15 DEF RunShutdown, ExitSendThread, pipeVars, stateVars, writerVars
  <2>2. QED
    BY <2>1 DEF Whole
<1>16. CASE Reply
  <2>1. /\ queue # <<>> /\ hpc' = "read" /\ queue' = Tail(queue) /\ UNCHANGED <<proto, pc, call>>
    BY <1>16 DEF Reply, IInv, QueueInv, stateVars, writerVars
  <2>2. /\ Len(queue) \in Nat /\ Len(queue') = Len(queue) - 1
        /\ \A i \in 1 .. Len(queue') : queue'[i] = queue[i + 1] /\ i + 1 \in 1 .. Len(queue)
    BY <2>1, HeadIs, LenProperties DEF IInv, TypeOK, PipeType
  <2>3. QED
    BY <2>1, <2>2 DEF Whole
<1>17. CASE Close \/ LoseConnection
  BY <1>17 DEF Close, LoseConnection
<1>18. CASE OtherTakesPacket \/ OtherReturnsPacket \/ UNCHANGED vars
  BY <1>1, <1>18 DEF OtherTakesPacket, OtherReturnsPacket, vars,
                     wholeVars, ringVars, pipeVars, stateVars, writerVars, handlerVars, streamVars
<1>19. QED
  BY <1>2, <1>3, <1>4, <1>5, <1>6, <1>7, <1>9, <1>10, <1>11, <1>12, <1>13, <1>14, <1>15, <1>16, <1>17, <1>18
     DEF Next, WriterStep, HandlerStep, ShutdownStep

(* A datagram reaches CPS in one piece, wherever the ring cuts it, for     *)
(* every size of ring and send buffer (socl_write.c:95-99, 324, 405-433).  *)
THEOREM DatagramSafe == Spec => []DatagramWhole
<1>1. Init => IInv /\ Flow /\ Wants /\ Whole
  BY InitInv, StreamInitInv, WholeInit
<1>2. IInv /\ Flow /\ Wants /\ Whole /\ [Next]_vars => (IInv /\ Flow /\ Wants /\ Whole)'
  BY InvStep, FlowStep, WantsStep, WholeStep
<1>3. IInv /\ Flow /\ Whole => DatagramWhole
  <2> SUFFICES ASSUME IInv, Flow, Whole, proto = "UDP", hpc = "cps"
               PROVE  Len(chunk) = Head(queue).to - Head(queue).from
    BY DEF DatagramWhole
  <2>1. queue # <<>>
    BY DEF IInv, QueueInv
  <2>2. QED
    BY <2>1, FlowHead DEF Whole
<1>4. QED
  BY <1>1, <1>2, <1>3, PTL DEF Spec

-----------------------------------------------------------------------------
(* Packets.                                                                *)

(* The messages of a queue that came from the pool: all but NULL. *)
Drawn(q) == {i \in DOMAIN q : q[i].kind # "null"}
(* The writers that hold a packet. *)
Carrying == {w \in Writers : pc[w] \in {"copy", "send"}}

(* A queue holds finitely many packets. *)
LEMMA DrawnFinite ==
  ASSUME NEW q \in Seq(Messages)
  PROVE  IsFiniteSet(Drawn(q)) /\ Cardinality(Drawn(q)) \in Nat
<1>1. Len(q) \in Nat /\ DOMAIN q = 1 .. Len(q)
  BY LenProperties
<1>2. IsFiniteSet(1 .. Len(q)) /\ Drawn(q) \in SUBSET (1 .. Len(q))
  BY <1>1, FS_Interval DEF Drawn
<1>3. IsFiniteSet(Drawn(q))
  BY <1>2, FS_Subset
<1>4. QED
  BY <1>3, FS_CardinalityType

(* A queued message counts once, NULL not at all. *)
LEMMA DrawnAppend ==
  ASSUME NEW q \in Seq(Messages), NEW m \in Messages
  PROVE  Cardinality(Drawn(Append(q, m))) =
           Cardinality(Drawn(q)) + (IF m.kind # "null" THEN 1 ELSE 0)
<1> DEFINE r == Append(q, m)
<1>1. /\ r \in Seq(Messages) /\ Len(r) = Len(q) + 1 /\ r[Len(q) + 1] = m
      /\ \A i \in 1 .. Len(q) : r[i] = q[i]
      /\ Len(q) \in Nat /\ DOMAIN q = 1 .. Len(q) /\ DOMAIN r = 1 .. Len(r)
  BY AppendProperties, LenProperties
<1>2. IsFiniteSet(Drawn(q)) /\ Cardinality(Drawn(q)) \in Nat
  BY DrawnFinite
<1> HIDE DEF r
<1>3. CASE m.kind # "null"
  <2>1. Drawn(r) = Drawn(q) \cup {Len(q) + 1} /\ Len(q) + 1 \notin Drawn(q)
    BY <1>1, <1>3 DEF Drawn
  <2>2. Cardinality(Drawn(r)) = Cardinality(Drawn(q)) + 1
    BY <1>2, <2>1, FS_AddElement
  <2>3. QED
    BY <1>3, <2>2 DEF r
<1>4. CASE m.kind = "null"
  <2>1. Drawn(r) = Drawn(q)
    BY <1>1, <1>4 DEF Drawn
  <2>2. QED
    BY <1>2, <1>4, <2>1 DEF r
<1>5. QED
  BY <1>3, <1>4

(* The indices behind the first, moved down by one. *)
LEMMA DrawnTail ==
  ASSUME NEW q \in Seq(Messages), q # <<>>, q[1].kind # "null"
  PROVE  Cardinality(Drawn(Tail(q))) = Cardinality(Drawn(q)) - 1
<1> DEFINE r == Tail(q)
           B == Drawn(q) \ {1}
           down == [i \in B |-> i - 1]
<1>1. /\ r \in Seq(Messages) /\ Len(r) = Len(q) - 1 /\ \A i \in 1 .. Len(r) : r[i] = q[i + 1]
      /\ Len(q) \in Nat /\ Len(q) > 0 /\ DOMAIN q = 1 .. Len(q) /\ DOMAIN r = 1 .. Len(r)
  BY HeadTailProperties, LenProperties, EmptySeq
<1>2. IsFiniteSet(Drawn(q)) /\ Cardinality(Drawn(q)) \in Nat /\ 1 \in Drawn(q)
  BY <1>1, DrawnFinite DEF Drawn
<1>3. IsFiniteSet(B) /\ Cardinality(B) = Cardinality(Drawn(q)) - 1
  BY <1>2, FS_RemoveElement
<1> HIDE DEF r
<1>4. B \subseteq Int /\ \A i \in Int : i + 1 \in B <=> i \in Drawn(r)
  BY <1>1 DEF Drawn
<1>5. Drawn(r) \subseteq Int
  BY <1>1 DEF Drawn
<1> HIDE DEF B
<1>6. down \in Bijection(B, Drawn(r))
  <2>1. down \in [B -> Drawn(r)]
    <3>1. ASSUME NEW i \in B PROVE i - 1 \in Drawn(r)
      <4>1. i - 1 \in Int /\ (i - 1) + 1 = i
        BY <1>4
      <4>2. QED
        BY <1>4, <4>1
    <3>2. QED
      BY <3>1
  <2>2. \A i, j \in B : down[i] = down[j] => i = j
    BY <1>4
  <2>3. ASSUME NEW k \in Drawn(r) PROVE \E i \in B : down[i] = k
    <3>1. k \in Int
      BY <1>5
    <3>2. k + 1 \in B
      BY <1>4, <3>1
    <3>3. down[k + 1] = k
      BY <3>1, <3>2
    <3>4. QED
      BY <3>2, <3>3
  <2>4. QED
    BY <2>1, <2>2, <2>3 DEF Bijection, Injection, Surjection, IsInjective
<1>7. ExistsBijection(B, Drawn(r))
  BY <1>6 DEF ExistsBijection
<1>8. Cardinality(Drawn(r)) = Cardinality(B)
  BY <1>3, <1>7, FS_Bijection
<1>9. QED
  BY <1>3, <1>8 DEF r

(* Only the owner of in_use can hold a packet, so the number of the        *)
(* writers does not matter.                                                *)
LEMMA CarryOne ==
  ASSUME NEW p, NEW w \in Writers, \A v \in Writers : v # w => p[v] \notin {"copy", "send"}
  PROVE  Cardinality({v \in Writers : p[v] \in {"copy", "send"}}) =
           IF p[w] \in {"copy", "send"} THEN 1 ELSE 0
<1> DEFINE S == {v \in Writers : p[v] \in {"copy", "send"}}
<1>1. CASE p[w] \in {"copy", "send"}
  <2>1. S = {w}
    BY <1>1
  <2>2. QED
    BY <1>1, <2>1, FS_Singleton
<1>2. CASE p[w] \notin {"copy", "send"}
  <2>1. S = {}
    BY <1>2
  <2>2. QED
    BY <1>2, <2>1, FS_EmptySet
<1>3. QED
  BY <1>1, <1>2

(* So there are none or one. *)
LEMMA CarryNat == Owned => Cardinality(Carrying) \in Nat
<1>1. CASE \E w \in Writers : owner = w
  <2>1. PICK w \in Writers : owner = w
    BY <1>1
  <2>2. ASSUME Owned PROVE \A v \in Writers : v # w => pc[v] \notin {"copy", "send"}
    BY <2>1, <2>2 DEF Owned, Holding
  <2>3. QED
    BY <2>2, CarryOne DEF Carrying
<1>2. CASE ~ \E w \in Writers : owner = w
  <2>1. Owned => Carrying = {}
    BY <1>2 DEF Owned, Holding, Carrying
  <2>2. QED
    BY <2>1, FS_EmptySet
<1>3. QED
  BY <1>1, <1>2

(* The packet a SOCL_Shutdown holds. *)
Ends == IF spc.at = "send" THEN 1 ELSE 0

(* The property in these terms, now and after a step. *)
LEMMA PacketsAre ==
  PacketsConserved <=>
    pool + others + Cardinality(Drawn(queue)) + Cardinality(Carrying) + Ends = PoolSize
BY DEF PacketsConserved, Drawn, Carrying, Ends

LEMMA PacketsAreNext ==
  PacketsConserved' <=>
    pool' + others' + Cardinality(Drawn(queue')) + Cardinality(Carrying') + Ends' = PoolSize
BY DEF PacketsConserved, Drawn, Carrying, Ends

(* All packets are free. *)
LEMMA PacketsInit == Init => PacketsConserved
<1> SUFFICES ASSUME Init PROVE PacketsConserved
  OBVIOUS
<1>1. Drawn(queue) = {} /\ Carrying = {} /\ Ends = 0
  BY EmptySeq, LenProperties DEF Init, Drawn, Carrying, Ends
<1>2. pool = PoolSize /\ others = 0 /\ PoolSize \in Nat
  BY SendAssumption DEF Init
<1>3. QED
  BY <1>1, <1>2, FS_EmptySet, PacketsAre

(* Every step that takes a packet from one place puts it in another.       *)
LEMMA PacketsStep == IInv /\ Flow /\ PacketsConserved /\ [Next]_vars => PacketsConserved'
<1> SUFFICES ASSUME IInv, Flow, PacketsConserved, [Next]_vars PROVE PacketsConserved'
  OBVIOUS
<1> DEFINE d == Cardinality(Drawn(queue))
           c == Cardinality(Carrying)
<1>T. /\ queue \in Seq(Messages) /\ pool \in Nat /\ others \in Nat /\ Owned
      /\ pc \in [Writers -> {"idle", "lock", "alloc", "asleep", "packet", "copy", "send", "unlock"}]
      /\ spc \in [at : {"idle", "packet", "send", "wait", "done"}, block : BOOLEAN] /\ posted \in Nat
  BY SendAssumption DEF IInv, TypeOK, PipeType, WriterType, EndType, StreamType
<1>N. d \in Nat /\ c \in Nat
  BY <1>T, DrawnFinite, CarryNat
<1>S. pool + others + d + c + Ends = PoolSize
  BY PacketsAre
<1>1. ASSUME UNCHANGED <<pool, others, queue>>, Ends' = Ends, Carrying' = Carrying
      PROVE  PacketsConserved'
  BY <1>1, <1>S, PacketsAreNext
<1>2. ASSUME UNCHANGED <<pool, others, queue, spc, pc>> PROVE PacketsConserved'
  BY <1>1, <1>2 DEF Ends, Carrying
<1>3. ASSUME NEW w \in Writers, pc[w] \in Holding \/ owner = w
      PROVE  \A v \in Writers : v # w => pc[v] \notin {"copy", "send"}
  BY <1>T, <1>3 DEF Owned, Holding
<1>4. ASSUME NEW w \in Writers, NEW n \in Lens, NEW block \in BOOLEAN, WriteTo(w, n, block)
      PROVE  PacketsConserved'
  <2>1. UNCHANGED <<pool, others, queue, spc>> /\ Carrying' = Carrying
    BY <1>4, <1>T DEF WriteTo, Carrying, pipeVars, endVars
  <2>2. QED
    BY <1>1, <2>1 DEF Ends
<1>5. ASSUME NEW w \in Writers,
             LockSendPipe(w) \/ AllocWriteBuffer(w) \/ CopyToRing(w) \/ UnlockSendPipe(w)
      PROVE  PacketsConserved'
  <2>1. CASE LockSendPipe(w)
    <3>1. UNCHANGED <<pool, others, queue, spc>> /\ Carrying' = Carrying
      BY <1>T, <2>1 DEF LockSendPipe, Carrying, pipeVars, endVars
    <3>2. QED
      BY <1>1, <3>1 DEF Ends
  <2>2. CASE AllocWriteBuffer(w)
    <3>1. UNCHANGED <<pool, others, queue, spc>> /\ Carrying' = Carrying
      BY <1>T, <2>2 DEF AllocWriteBuffer, Carrying, pipeVars, endVars
    <3>2. QED
      BY <1>1, <3>1 DEF Ends
  <2>3. CASE CopyToRing(w)
    <3>1. UNCHANGED <<pool, others, queue, spc>> /\ Carrying' = Carrying
      BY <1>T, <2>3 DEF CopyToRing, Carrying, pipeVars, endVars
    <3>2. QED
      BY <1>1, <3>1 DEF Ends
  <2>4. CASE UnlockSendPipe(w)
    <3>1. UNCHANGED <<pool, others, queue, spc>> /\ Carrying' = Carrying
      BY <1>T, <2>4 DEF UnlockSendPipe, Carrying, pipeVars
    <3>2. QED
      BY <1>1, <3>1 DEF Ends
  <2>5. QED
    BY <1>5, <2>1, <2>2, <2>3, <2>4
<1>6. ASSUME NEW w \in Writers, CreateWritePacket(w) PROVE PacketsConserved'
  <2>1. /\ pc[w] = "packet" /\ UNCHANGED <<others, queue, spc>>
        /\ \A v \in Writers : v # w => pc'[v] = pc[v]
    BY <1>6, <1>T DEF CreateWritePacket, endVars
  <2>2. c = 0
    BY <1>3, <2>1, CarryOne DEF Holding, Carrying
  <2>3. CASE pool > 0 /\ pool' = pool - 1 /\ pc' = [pc EXCEPT ![w] = "copy"]
    <3>1. pc'[w] = "copy"
      BY <1>T, <2>3
    <3>2. Cardinality(Carrying') = 1
      BY <1>3, <2>1, <3>1, CarryOne DEF Holding, Carrying
    <3>3. QED
      BY <1>N, <1>S, <1>T, <2>1, <2>2, <2>3, <3>2, PacketsAreNext DEF Ends
  <2>4. CASE pool' = pool /\ pc' = [pc EXCEPT ![w] = "unlock"]
    <3>1. Carrying' = Carrying
      BY <1>T, <2>1, <2>4 DEF Carrying
    <3>2. QED
      BY <1>1, <2>1, <2>4, <3>1 DEF Ends
  <2>5. QED
    BY <1>6, <2>3, <2>4 DEF CreateWritePacket
<1>7. ASSUME NEW w \in Writers, SendWrite(w) PROVE PacketsConserved'
  <2>1. /\ pc[w] = "send" /\ draft \in Messages /\ draft.kind = "write" /\ UNCHANGED <<others, spc>>
        /\ pc'[w] \in {"alloc", "unlock"} /\ \A v \in Writers : v # w => pc'[v] = pc[v]
    BY <1>7, <1>T DEF SendWrite, IInv, DraftInv, Shape, TypeOK, WriterType, endVars
  <2>2. c = 1
    BY <1>3, <2>1, CarryOne DEF Holding, Carrying
  <2>3. Cardinality(Carrying') = 0
    BY <1>3, <2>1, CarryOne DEF Holding, Carrying
  <2>4. CASE queue' = Append(queue, draft) /\ pool' = pool
    <3>1. Cardinality(Drawn(queue')) = d + 1
      BY <1>T, <2>1, <2>4, DrawnAppend
    <3>2. QED
      BY <1>N, <1>S, <1>T, <2>1, <2>2, <2>3, <2>4, <3>1, PacketsAreNext DEF Ends
  <2>5. CASE queue' = queue /\ pool' = pool + 1
    BY <1>N, <1>S, <1>T, <2>1, <2>2, <2>3, <2>5, PacketsAreNext DEF Ends
  <2>6. QED
    BY <1>7, <2>4, <2>5 DEF SendWrite
<1>8. ASSUME NEW block \in BOOLEAN, Shutdown(block) PROVE PacketsConserved'
  <2>1. /\ UNCHANGED <<pool, others, queue, pc>> /\ spc.at = "idle" /\ spc'.at = "packet"
    BY <1>8 DEF Shutdown, pipeVars, writerVars
  <2>2. QED
    BY <1>1, <2>1 DEF Ends, Carrying
<1>9. CASE CreateShutdownPacket
  <2>1. /\ spc.at = "packet" /\ UNCHANGED <<others, queue, pc>>
        /\ \/ pool' = pool - 1 /\ spc'.at = "send"
           \/ pool' = pool /\ spc'.at = "done"
    BY <1>9, <1>T DEF CreateShutdownPacket, writerVars
  <2>2. Carrying' = Carrying
    BY <2>1 DEF Carrying
  <2>3. QED
    BY <1>N, <1>S, <1>T, <2>1, <2>2, PacketsAreNext DEF Ends
<1>10. CASE SendShutdown
  <2>1. /\ spc.at = "send" /\ spc'.at # "send" /\ UNCHANGED <<others, pc>>
    BY <1>10, <1>T DEF SendShutdown, writerVars
  <2>2. Carrying' = Carrying /\ Ends = 1 /\ Ends' = 0
    BY <2>1 DEF Carrying, Ends
  <2>3. CASE queue' = Append(queue, Mark("shutdown")) /\ pool' = pool
    <3>1. Cardinality(Drawn(queue')) = d + 1
      BY <1>T, <2>3, MarkIs, DrawnAppend
    <3>2. QED
      BY <1>N, <1>S, <1>T, <2>1, <2>2, <2>3, <3>1, PacketsAreNext
  <2>4. CASE queue' = queue /\ pool' = pool + 1
    BY <1>N, <1>S, <1>T, <2>1, <2>2, <2>4, PacketsAreNext
  <2>5. QED
    BY <1>10, <2>3, <2>4 DEF SendShutdown
<1>11. CASE SendNull
  <2>1. /\ UNCHANGED <<pool, others, spc, pc>> /\ queue' = Append(queue, Mark("null"))
    BY <1>11 DEF SendNull, writerVars
  <2>2. Cardinality(Drawn(queue')) = d
    BY <1>N, <1>T, <2>1, MarkIs, DrawnAppend
  <2>3. Carrying' = Carrying /\ Ends' = Ends
    BY <2>1 DEF Carrying, Ends
  <2>4. QED
    BY <1>S, <2>1, <2>2, <2>3, PacketsAreNext
<1>12. CASE Reply
  <2>1. /\ hpc = "reply" /\ queue # <<>> /\ queue' = Tail(queue) /\ pool' = pool + 1
        /\ UNCHANGED <<others, pc>>
    BY <1>12 DEF Reply, IInv, QueueInv, writerVars
  <2>2. queue[1].kind # "null"
    BY <2>1 DEF Flow, Chain
  <2>3. Cardinality(Drawn(queue')) = d - 1
    BY <1>T, <2>1, <2>2, DrawnTail
  <2>4. Carrying' = Carrying /\ Ends' = Ends
    BY <1>12, <1>T, <2>1 DEF Carrying, Ends, Reply
  <2>5. QED
    BY <1>N, <1>S, <1>T, <2>1, <2>3, <2>4, PacketsAreNext DEF Ends
<1>13. CASE FreeCells
  <2>1. UNCHANGED <<pool, others, queue, spc>> /\ Carrying' = Carrying
    BY <1>13, <1>T DEF FreeCells, Carrying, pipeVars, endVars
  <2>2. QED
    BY <1>1, <2>1 DEF Ends
<1>14. ASSUME NEW mss \in MssVals, BeginWrite(mss) PROVE PacketsConserved'
  BY <1>2, <1>14 DEF BeginWrite, pipeVars, writerVars, endVars
<1>15. ASSUME NEW r \in 0 .. SndLen, SocWrite(r) PROVE PacketsConserved'
  BY <1>2, <1>15 DEF SocWrite, pipeVars, writerVars, endVars
<1>16. CASE MemCpy \/ RunShutdown \/ ExitSendThread
  BY <1>2, <1>16 DEF MemCpy, RunShutdown, ExitSendThread, pipeVars, writerVars, endVars
<1>17. CASE Close \/ LoseConnection
  BY <1>2, <1>17 DEF Close, LoseConnection, pipeVars, writerVars, endVars
<1>18. CASE OtherTakesPacket \/ OtherReturnsPacket
  <2>1. /\ UNCHANGED <<queue, pc, spc>>
        /\ \/ pool' = pool - 1 /\ others' = others + 1
           \/ pool' = pool + 1 /\ others' = others - 1
    BY <1>18 DEF OtherTakesPacket, OtherReturnsPacket, writerVars, endVars
  <2>2. Carrying' = Carrying /\ Ends' = Ends
    BY <2>1 DEF Carrying, Ends
  <2>3. QED
    BY <1>N, <1>S, <1>T, <2>1, <2>2, PacketsAreNext
<1>19. CASE UNCHANGED vars
  BY <1>2, <1>19 DEF vars, pipeVars, writerVars, endVars
<1>20. QED
  BY <1>4, <1>5, <1>6, <1>7, <1>8, <1>9, <1>10, <1>11, <1>12, <1>13, <1>14, <1>15, <1>16, <1>17, <1>18, <1>19
     DEF Next, WriterStep, HandlerStep, ShutdownStep

(* No early return loses a packet of the shared pool or frees one twice,   *)
(* for every size of pool and queue and every number of writers            *)
(* (socl_command.c:79-106, 184-194).                                       *)
THEOREM PacketsSafe == Spec => []PacketsConserved
<1>1. Init => IInv /\ Flow /\ Wants /\ PacketsConserved
  BY InitInv, StreamInitInv, PacketsInit
<1>2. IInv /\ Flow /\ Wants /\ PacketsConserved /\ [Next]_vars => (IInv /\ Flow /\ Wants /\ PacketsConserved)'
  BY InvStep, FlowStep, WantsStep, PacketsStep
<1>3. QED
  BY <1>1, <1>2, PTL DEF Spec

=============================================================================
