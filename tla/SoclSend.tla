------------------------------ MODULE SoclSend ------------------------------
(***************************************************************************)
(* The send side of one SOCL socket (libraries/soc/src/socl_write.c, with  *)
(* the parts of socl_command.c, socl_shutdown.c and socl_close.c that      *)
(* feed the same send pipe).                                               *)
(*                                                                         *)
(* Writers copy bytes into a ring buffer of WrtSize cells and queue a      *)
(* write command; the send thread of the pipe takes the commands in order, *)
(* moves their bytes to CPS in chunks and frees the cells.  A TCP socket   *)
(* owns its pipe; UDP sockets share the pipe of the UDP-send socket, so    *)
(* the writers of a UDP run belong to different sockets.                   *)
(*                                                                         *)
(* A byte is represented by its position in the stream of everything that  *)
(* was ever put in the ring: the n-th byte is n.  head and tail are those  *)
(* positions at the indices in and out.                                    *)
(***************************************************************************)
EXTENDS Integers, Sequences, FiniteSets

CONSTANTS
  Writers,    \* threads that call SOCL_WriteTo
  NoWriter,   \* in_use is free
  Protos,     \* subset of {"TCP", "UDP"}: the socket modes explored
  SndLen,     \* usable size of the CPS send buffer, header room subtracted
  WrtSize,    \* send_pipe->buffer.area.size
  QueueMax,   \* queue_max of the send pipe
  PoolSize,   \* cmd_packet_max, the size of the shared packet pool
  OtherMax,   \* bound: packets other sockets hold at one time
  MssVals,    \* values of MIN(remote_mss, remote_win, mymss)
  Lens,       \* bound: the lengths a caller writes
  MaxBytes    \* bound: stream positions explored

ASSUME SendAssumption ==
  /\ NoWriter \notin Writers
  /\ Protos \subseteq {"TCP", "UDP"}
  /\ SndLen \in Nat \ {0}
  /\ WrtSize \in Nat /\ WrtSize > SndLen  \* SDK_ASSERT(wrtbuf_size >= sndbuf_len)
  /\ QueueMax \in Nat \ {0}
  /\ PoolSize \in Nat \ {0}
  /\ OtherMax \in 0..PoolSize
  /\ MssVals \subseteq Nat \ {0}
  /\ Lens \subseteq Nat \ {0}             \* SDK_ASSERT(buffer && buffer_len)
  /\ MaxBytes \in Nat

VARIABLES
  proto,      \* flag_mode of the socket, fixed
  ring,       \* send_pipe->buffer.area.data
  in, out,    \* send_pipe->buffer.in and .out
  head, tail, \* stream positions of in and out
  queue,      \* send_pipe->h.queue
  pool,       \* packets in SOCLiCommandPacketQueue
  others,     \* packets held by other sockets
  connected,  \* SOCL_STATUS_CONNECTED
  closing,    \* SOCL_STATUS_CLOSING
  owner,      \* send_pipe->h.in_use
  pc,         \* where each writer is in SOCL_WriteTo
  call,       \* its buffer_len (what is left), flag_block and buffer_min
  draft,      \* the write command the lock owner is preparing
  hpc,        \* where the send thread is
  job,        \* the rest of the write command it executes
  chunk,      \* bytes copied to the CPS send buffer
  wire,       \* bytes CPS accepted
  posted,     \* stream position behind the last queued write
  passed,     \* stream position behind the last byte handed over or dropped
  lossy,      \* a byte was dropped: a failed or short CPS_SocWrite
  spc,        \* where SOCL_Shutdown is, and the flag_block of the socket
  completed,  \* posted when the last SOCL_WriteTo returned
  promised,   \* completed when SOCL_Shutdown was called
  finAt,      \* passed when CPS_TcpShutdown ran, -1 before
  cpc         \* where the SOCL_Close that ends the pipe is

ringVars == <<ring, in, out, head, tail>>
pipeVars == <<queue, pool, others>>
stateVars == <<proto, connected, closing>>
writerVars == <<owner, pc, call, draft>>
handlerVars == <<hpc, job, chunk>>
streamVars == <<wire, posted, passed, lossy>>
endVars == <<spc, completed, promised, finAt, cpc>>
vars == <<ringVars, pipeVars, stateVars, writerVars, handlerVars, streamVars, endVars>>

Cells == 0 .. WrtSize - 1
Least(a, b) == IF a <= b THEN a ELSE b

(* An index that ran past the end of the area, brought back to its start.  *)
Wrap(i) == IF i < WrtSize THEN i ELSE i - WrtSize

(* Mutant: the area is filled completely. *)
FreeSizeNoGap == IF out - in <= 0 THEN out - in + WrtSize ELSE out - in

(* SOCLi_GetWriteBufferFreeSize: one cell always stays empty. *)
FreeSize ==
  LET available == out - in - 1
  IN IF available < 0 THEN available + WrtSize ELSE available

(* Messages of the pipe.  from and to are the stream positions the message *)
(* stands between: the bytes of a write, nothing for the others.           *)
NoMsg == [kind |-> "none", from |-> 0, to |-> 0, at1 |-> 0, n1 |-> 0, n2 |-> 0, after |-> 0]
Mark(k) == [NoMsg EXCEPT !.kind = k, !.from = posted, !.to = posted]

(* The split of SOCLi_ExecWriteCommand: a write that would reach the end   *)
(* of the area continues at its start.                                     *)
WriteMsg(at, n) ==
  LET first == IF at + n < WrtSize THEN n ELSE WrtSize - at
  IN [kind |-> "write", from |-> head, to |-> head + n, at1 |-> at, n1 |-> first,
      n2 |-> n - first, after |-> IF at + n < WrtSize THEN at + n ELSE n - first]

NoJob == [at1 |-> 0, n1 |-> 0, at2 |-> 0, n2 |-> 0, limit |-> 1, to |-> 0]
NoCall == [left |-> 0, block |-> FALSE, min |-> 0]

(* SOCLi_GetOptimumSendBufLen for a TCP socket: the largest multiple of    *)
(* two segments that fits the send buffer.                                 *)
OptimumSendBufLen(mss) ==
  LET pair == 2 * mss
  IN IF SndLen \div pair > 0 THEN pair * (SndLen \div pair) ELSE SndLen

QueueFull == Len(queue) >= QueueMax

-----------------------------------------------------------------------------
Init ==
  /\ proto \in Protos
  /\ ring = [i \in Cells |-> 0]
  /\ in = 0 /\ out = 0 /\ head = 0 /\ tail = 0
  /\ queue = <<>> /\ pool = PoolSize /\ others = 0
  /\ connected = TRUE /\ closing = FALSE
  /\ owner = NoWriter
  /\ pc = [w \in Writers |-> "idle"]
  /\ call = [w \in Writers |-> NoCall]
  /\ draft = NoMsg
  /\ hpc = "read" /\ job = NoJob /\ chunk = <<>>
  /\ wire = <<>> /\ posted = 0 /\ passed = 0 /\ lossy = FALSE
  /\ spc = [at |-> "idle", block |-> TRUE] /\ completed = 0 /\ promised = 0 /\ finAt = -1
  /\ cpc = "open"

-----------------------------------------------------------------------------
(* Writers.                                                                *)

(* SOCL_WriteTo up to the lock, with the length checks SOCLi_WriteBuffer   *)
(* makes on its arguments.                                                 *)
WriteTo(w, n, block) ==
  /\ pc[w] = "idle"
  /\ head + n <= MaxBytes
  /\ proto = "TCP" => connected /\ ~closing
  /\ proto = "UDP" => n <= SndLen
  /\ pc' = [pc EXCEPT ![w] = "lock"]
  /\ call' = [call EXCEPT ![w] =
       [left |-> n, block |-> block, min |-> IF proto = "UDP" THEN n ELSE Least(n, SndLen)]]
  /\ UNCHANGED <<ringVars, pipeVars, stateVars, owner, draft, handlerVars, streamVars, endVars>>

(* OS_LockMutex, or OS_TryLockMutex and EWOULDBLOCK. *)
LockSendPipe(w) ==
  /\ pc[w] = "lock"
  /\ \/ /\ owner = NoWriter
        /\ owner' = w
        /\ pc' = [pc EXCEPT ![w] = "alloc"]
     \/ /\ owner # NoWriter /\ ~call[w].block
        /\ pc' = [pc EXCEPT ![w] = "idle"]
        /\ UNCHANGED owner
  /\ UNCHANGED <<ringVars, pipeVars, stateVars, call, draft, handlerVars, streamVars, endVars>>

(* SOCLi_AllocWriteBuffer: with interrupts off, take what is free if it is *)
(* at least the minimum, else sleep on buffer.waiting or give up.          *)
AllocWriteBuffer(w) ==
  /\ pc[w] = "alloc"
  /\ LET min == Least(call[w].min, call[w].left)
     IN \/ /\ FreeSize >= min
           /\ draft' = WriteMsg(in, Least(FreeSize, call[w].left))
           /\ pc' = [pc EXCEPT ![w] = "packet"]
        \/ /\ FreeSize < min
           /\ pc' = [pc EXCEPT ![w] = IF call[w].block THEN "asleep" ELSE "unlock"]
           /\ UNCHANGED draft
  /\ UNCHANGED <<ringVars, pipeVars, stateVars, owner, call, handlerVars, streamVars, endVars>>

(* SOCLi_CreateCommandPacket: waits for a packet, or EMFILE. *)
CreateWritePacket(w) ==
  /\ pc[w] = "packet"
  /\ \/ /\ pool > 0
        /\ pool' = pool - 1
        /\ pc' = [pc EXCEPT ![w] = "copy"]
     \/ /\ pool = 0 /\ ~call[w].block
        /\ pc' = [pc EXCEPT ![w] = "unlock"]
        /\ UNCHANGED pool
  /\ UNCHANGED <<ringVars, queue, others, stateVars, owner, call, draft, handlerVars,
                 streamVars, endVars>>

(* The copies of SOCLi_ExecWriteCommand and the new in, set before the     *)
(* command is queued.                                                      *)
CopyToRing(w) ==
  /\ pc[w] = "copy"
  /\ ring' = [i \in Cells |->
       IF i >= draft.at1 /\ i < draft.at1 + draft.n1 THEN head + 1 + (i - draft.at1)
       ELSE IF i < draft.n2 THEN head + 1 + draft.n1 + i
       ELSE ring[i]]
  /\ in' = draft.after
  /\ head' = draft.to
  /\ pc' = [pc EXCEPT ![w] = "send"]
  /\ UNCHANGED <<out, tail, pipeVars, stateVars, owner, call, draft, handlerVars, streamVars, endVars>>

(* Mutant: in is not put back when the queue is full. *)
SendWriteNoRollback(w) ==
  /\ pc[w] = "send"
  /\ \/ /\ ~QueueFull
        /\ queue' = Append(queue, draft)
        /\ posted' = draft.to
        /\ call' = [call EXCEPT ![w].left = @ - (draft.to - draft.from)]
        /\ pc' = [pc EXCEPT ![w] =
             IF call[w].block /\ call[w].left > draft.to - draft.from THEN "alloc" ELSE "unlock"]
        /\ UNCHANGED pool
     \/ /\ QueueFull /\ ~(call[w].block /\ proto = "TCP")
        /\ pool' = pool + 1
        /\ pc' = [pc EXCEPT ![w] = "unlock"]
        /\ UNCHANGED <<queue, posted, call>>
  /\ draft' = NoMsg
  /\ UNCHANGED <<ringVars, others, stateVars, owner, handlerVars, wire, passed, lossy, endVars>>

(* SOCLi_SendCommandPacket for a write: only a blocking TCP write may wait *)
(* for room in the queue (NORESULT); the others go out NOBLOCK, and on a   *)
(* full queue the packet is freed and in is put back.                      *)
SendWrite(w) ==
  /\ pc[w] = "send"
  /\ \/ /\ ~QueueFull
        /\ queue' = Append(queue, draft)
        /\ posted' = draft.to
        /\ call' = [call EXCEPT ![w].left = @ - (draft.to - draft.from)]
        /\ pc' = [pc EXCEPT ![w] =
             IF call[w].block /\ call[w].left > draft.to - draft.from THEN "alloc" ELSE "unlock"]
        /\ UNCHANGED <<in, head, pool>>
     \/ /\ QueueFull /\ ~(call[w].block /\ proto = "TCP")
        /\ pool' = pool + 1
        /\ in' = draft.at1
        /\ head' = draft.from
        /\ pc' = [pc EXCEPT ![w] = "unlock"]
        /\ UNCHANGED <<queue, posted, call>>
  /\ draft' = NoMsg
  /\ UNCHANGED <<ring, out, tail, others, stateVars, owner, handlerVars, wire, passed, lossy, endVars>>

(* OS_UnlockMutex and the return to the caller. *)
UnlockSendPipe(w) ==
  /\ pc[w] = "unlock"
  /\ owner' = NoWriter
  /\ pc' = [pc EXCEPT ![w] = "idle"]
  /\ call' = [call EXCEPT ![w] = NoCall]
  /\ completed' = posted
  /\ draft' = NoMsg
  /\ UNCHANGED <<ringVars, pipeVars, stateVars, handlerVars, streamVars, spc, promised, finAt, cpc>>

-----------------------------------------------------------------------------
(* SOCL_Shutdown: a command behind the writes already queued.  It does not *)
(* take in_use.  When no packet or no room can be had CLOSING stays set.   *)
Shutdown(block) ==
  /\ proto = "TCP" /\ spc.at = "idle"
  /\ connected /\ ~closing
  /\ closing' = TRUE
  /\ promised' = completed
  /\ spc' = [at |-> "packet", block |-> block]
  /\ UNCHANGED <<ringVars, pipeVars, proto, connected, writerVars, handlerVars, streamVars,
                 completed, finAt, cpc>>

CreateShutdownPacket ==
  /\ spc.at = "packet"
  /\ \/ /\ pool > 0
        /\ pool' = pool - 1
        /\ spc' = [spc EXCEPT !.at = "send"]
     \/ /\ pool = 0 /\ ~spc.block
        /\ spc' = [spc EXCEPT !.at = "done"]
        /\ UNCHANGED pool
  /\ UNCHANGED <<ringVars, queue, others, stateVars, writerVars, handlerVars, streamVars,
                 completed, promised, finAt, cpc>>

(* Mutant: the packet is not freed when the queue is full. *)
SendShutdownLeak ==
  /\ spc.at = "send"
  /\ \/ /\ ~QueueFull
        /\ queue' = Append(queue, Mark("shutdown"))
        /\ spc' = [spc EXCEPT !.at = IF spc.block THEN "wait" ELSE "done"]
     \/ /\ QueueFull /\ ~spc.block
        /\ spc' = [spc EXCEPT !.at = "done"]
        /\ UNCHANGED queue
  /\ UNCHANGED <<ringVars, pool, others, stateVars, writerVars, handlerVars, streamVars,
                 completed, promised, finAt, cpc>>

(* Mutant: the shutdown overtakes the queued writes (OS_JamMessage). *)
SendShutdownJam ==
  /\ spc.at = "send" /\ ~QueueFull
  /\ queue' = IF hpc = "read" THEN <<Mark("shutdown")>> \o queue
              ELSE <<Head(queue), Mark("shutdown")>> \o Tail(queue)
  /\ spc' = [spc EXCEPT !.at = IF spc.block THEN "wait" ELSE "done"]
  /\ UNCHANGED <<ringVars, pool, others, stateVars, writerVars, handlerVars, streamVars,
                 completed, promised, finAt, cpc>>

SendShutdown ==
  /\ spc.at = "send"
  /\ \/ /\ ~QueueFull
        /\ queue' = Append(queue, Mark("shutdown"))
        /\ spc' = [spc EXCEPT !.at = IF spc.block THEN "wait" ELSE "done"]
        /\ UNCHANGED pool
     \/ /\ QueueFull /\ ~spc.block
        /\ pool' = pool + 1
        /\ spc' = [spc EXCEPT !.at = "done"]
        /\ UNCHANGED queue
  /\ UNCHANGED <<ringVars, others, stateVars, writerVars, handlerVars, streamVars,
                 completed, promised, finAt, cpc>>

(* SOCL_Close of a TCP socket, as far as the send pipe sees it: CLOSING,   *)
(* then a NULL message that ends the send thread.                          *)
Close ==
  /\ proto = "TCP" /\ cpc = "open"
  /\ closing' = TRUE
  /\ cpc' = "null"
  /\ UNCHANGED <<ringVars, pipeVars, proto, connected, writerVars, handlerVars, streamVars,
                 spc, completed, promised, finAt>>

SendNull ==
  /\ cpc = "null" /\ ~QueueFull
  /\ queue' = Append(queue, Mark("null"))
  /\ cpc' = "closed"
  /\ UNCHANGED <<ringVars, pool, others, stateVars, writerVars, handlerVars, streamVars,
                 spc, completed, promised, finAt>>

-----------------------------------------------------------------------------
(* The send thread: SOCLi_CommandPacketHandler with SOCLi_WriteCallBack    *)
(* and SOCLi_ShutdownCallBack.  The message stays queued while it runs.    *)

BeginWrite(mss) ==
  /\ hpc = "read" /\ queue # <<>> /\ Head(queue).kind = "write"
  /\ job' = [at1 |-> Head(queue).at1, n1 |-> Head(queue).n1, at2 |-> 0, n2 |-> Head(queue).n2,
             limit |-> IF proto = "TCP" THEN OptimumSendBufLen(mss) ELSE SndLen,
             to |-> Head(queue).to]
  /\ hpc' = IF proto = "UDP" \/ connected THEN "copy" ELSE "free"
  /\ UNCHANGED <<ringVars, pipeVars, stateVars, writerVars, chunk, streamVars, endVars>>

(* Mutant: the piece at the start of the area waits for the next chunk. *)
MemCpyOnePiece ==
  /\ hpc = "copy"
  /\ LET k1 == Least(job.n1, job.limit)
         k2 == IF job.n1 > 0 THEN 0 ELSE Least(job.n2, job.limit)
     IN \/ /\ k1 + k2 > 0
           /\ chunk' = [i \in 1 .. k1 + k2 |->
                IF i <= k1 THEN ring[job.at1 + i - 1] ELSE ring[job.at2 + i - k1 - 1]]
           /\ job' = [job EXCEPT !.at1 = @ + k1, !.n1 = @ - k1, !.at2 = @ + k2, !.n2 = @ - k2]
           /\ hpc' = "cps"
        \/ /\ k1 + k2 = 0
           /\ hpc' = "free"
           /\ UNCHANGED <<chunk, job>>
  /\ UNCHANGED <<ringVars, pipeVars, stateVars, writerVars, streamVars, endVars>>

(* SOCLi_MemCpy: as much of both pieces as fits the send buffer. *)
MemCpy ==
  /\ hpc = "copy"
  /\ LET k1 == Least(job.n1, job.limit)
         k2 == IF job.n1 > job.limit THEN 0 ELSE Least(job.n2, job.limit - job.n1)
     IN \/ /\ k1 + k2 > 0
           /\ chunk' = [i \in 1 .. k1 + k2 |->
                IF i <= k1 THEN ring[job.at1 + i - 1] ELSE ring[job.at2 + i - k1 - 1]]
           /\ job' = [job EXCEPT !.at1 = @ + k1, !.n1 = @ - k1, !.at2 = @ + k2, !.n2 = @ - k2]
           /\ hpc' = "cps"
        \/ /\ k1 + k2 = 0
           /\ hpc' = "free"
           /\ UNCHANGED <<chunk, job>>
  /\ UNCHANGED <<ringVars, pipeVars, stateVars, writerVars, streamVars, endVars>>

(* CPS_SocWrite and what the callback does with its result r.  CPS takes   *)
(* all of a datagram or none; of a TCP chunk it can take a part when the   *)
(* link or the peer stalls, and none once the connection was shut down.    *)
SocWrite(r) ==
  /\ hpc = "cps"
  /\ r \in 0 .. Len(chunk)
  /\ proto = "UDP" => r \in {0, Len(chunk)}
  /\ finAt >= 0 => r = 0
  /\ \/ /\ r > 0
        /\ wire' = wire \o SubSeq(chunk, 1, r)
        /\ passed' = passed + Len(chunk)
        /\ lossy' = (lossy \/ r < Len(chunk))
        /\ hpc' = "copy"
        /\ UNCHANGED stateVars
     \/ /\ r = 0
        /\ hpc' = "free"
        /\ IF proto = "TCP" THEN connected' = FALSE /\ closing' = FALSE /\ UNCHANGED proto
                            ELSE UNCHANGED stateVars
        /\ UNCHANGED <<wire, passed, lossy>>
  /\ chunk' = <<>>
  /\ UNCHANGED <<ringVars, pipeVars, writerVars, job, posted, endVars>>

(* Mutant: no OS_WakeupThread. *)
FreeCellsSilent ==
  /\ hpc = "free"
  /\ out' = Head(queue).after
  /\ tail' = Head(queue).to
  /\ passed' = Head(queue).to
  /\ lossy' = (lossy \/ passed < Head(queue).to)
  /\ hpc' = "reply"
  /\ UNCHANGED <<ring, in, head, pipeVars, stateVars, writerVars, job, chunk, wire, posted, endVars>>

(* The end of SOCLi_WriteCallBack, reached on every path: the cells are    *)
(* free again and the writer asleep on buffer.waiting runs.                *)
FreeCells ==
  /\ hpc = "free"
  /\ out' = Head(queue).after
  /\ tail' = Head(queue).to
  /\ passed' = Head(queue).to
  /\ lossy' = (lossy \/ passed < Head(queue).to)
  /\ pc' = [w \in Writers |-> IF pc[w] = "asleep" THEN "alloc" ELSE pc[w]]
  /\ hpc' = "reply"
  /\ UNCHANGED <<ring, in, head, pipeVars, stateVars, owner, call, draft, job, chunk,
                 wire, posted, endVars>>

RunShutdown ==
  /\ hpc = "read" /\ queue # <<>> /\ Head(queue).kind = "shutdown"
  /\ finAt' = passed
  /\ hpc' = "reply"
  /\ UNCHANGED <<ringVars, pipeVars, stateVars, writerVars, job, chunk, streamVars,
                 spc, completed, promised, cpc>>

(* Dequeue, answer and free the packet, with the scheduler off. *)
Reply ==
  /\ hpc = "reply"
  /\ queue' = Tail(queue)
  /\ pool' = pool + 1
  /\ spc' = IF Head(queue).kind = "shutdown" /\ spc.at = "wait" THEN [spc EXCEPT !.at = "done"] ELSE spc
  /\ hpc' = "read"
  /\ job' = NoJob
  /\ UNCHANGED <<ringVars, others, stateVars, writerVars, chunk, streamVars,
                 completed, promised, finAt, cpc>>

(* The NULL message ends the thread and stays in the queue. *)
ExitSendThread ==
  /\ hpc = "read" /\ queue # <<>> /\ Head(queue).kind = "null"
  /\ hpc' = "exit"
  /\ UNCHANGED <<ringVars, pipeVars, stateVars, writerVars, job, chunk, streamVars, endVars>>

-----------------------------------------------------------------------------
(* The rest of the stack.                                                  *)

(* A reader or SOCL_GetStatus found the connection gone. *)
LoseConnection ==
  /\ proto = "TCP" /\ connected
  /\ connected' = FALSE
  /\ UNCHANGED <<ringVars, pipeVars, proto, closing, writerVars, handlerVars, streamVars, endVars>>

OtherTakesPacket ==
  /\ pool > 0 /\ others < OtherMax
  /\ pool' = pool - 1 /\ others' = others + 1
  /\ UNCHANGED <<ringVars, queue, stateVars, writerVars, handlerVars, streamVars, endVars>>

OtherReturnsPacket ==
  /\ others > 0
  /\ pool' = pool + 1 /\ others' = others - 1
  /\ UNCHANGED <<ringVars, queue, stateVars, writerVars, handlerVars, streamVars, endVars>>

WriterStep(w) ==
  \/ LockSendPipe(w) \/ AllocWriteBuffer(w) \/ CreateWritePacket(w)
  \/ CopyToRing(w) \/ SendWrite(w) \/ UnlockSendPipe(w)

HandlerStep ==
  \/ \E mss \in MssVals : BeginWrite(mss)
  \/ MemCpy
  \/ \E r \in 0 .. SndLen : SocWrite(r)
  \/ FreeCells \/ RunShutdown \/ Reply \/ ExitSendThread

ShutdownStep == CreateShutdownPacket \/ SendShutdown

Next ==
  \/ \E w \in Writers, n \in Lens, block \in BOOLEAN : WriteTo(w, n, block)
  \/ \E w \in Writers : WriterStep(w)
  \/ \E block \in BOOLEAN : Shutdown(block)
  \/ ShutdownStep \/ Close \/ SendNull
  \/ HandlerStep
  \/ LoseConnection \/ OtherTakesPacket \/ OtherReturnsPacket

(* The threads inside the library run on and CPS_SocWrite returns (it has  *)
(* a timeout); nobody has to call anything.                                *)
Fairness ==
  /\ \A w \in Writers : WF_vars(WriterStep(w))
  /\ WF_vars(HandlerStep) /\ WF_vars(ShutdownStep) /\ WF_vars(SendNull)
  /\ WF_vars(OtherReturnsPacket)

Spec == Init /\ [][Next]_vars /\ Fairness

-----------------------------------------------------------------------------
(* The values the variables take. *)
Messages == [kind : {"none", "write", "shutdown", "null"}, from : Nat, to : Nat,
             at1 : Nat, n1 : Nat, n2 : Nat, after : Nat]
Jobs == [at1 : Nat, n1 : Nat, at2 : Nat, n2 : Nat, limit : Nat, to : Nat]
Calls == [left : Nat, block : BOOLEAN, min : Nat]

RingType ==
  /\ ring \in [Cells -> Nat]
  /\ in \in Cells /\ out \in Cells
  /\ head \in Nat /\ tail \in Nat
PipeType ==
  /\ queue \in Seq(Messages) /\ Len(queue) <= QueueMax
  /\ pool \in Nat /\ others \in 0 .. OtherMax
StateType == proto \in Protos /\ connected \in BOOLEAN /\ closing \in BOOLEAN
WriterType ==
  /\ owner \in Writers \cup {NoWriter}
  /\ pc \in [Writers -> {"idle", "lock", "alloc", "asleep", "packet", "copy", "send", "unlock"}]
  /\ call \in [Writers -> Calls]
  /\ draft \in Messages
HandlerType ==
  /\ hpc \in {"read", "copy", "cps", "free", "reply", "exit"}
  /\ job \in Jobs
  /\ chunk \in Seq(Nat)
StreamType == wire \in Seq(Nat) /\ posted \in Nat /\ passed \in Nat /\ lossy \in BOOLEAN
EndType ==
  /\ spc \in [at : {"idle", "packet", "send", "wait", "done"}, block : BOOLEAN]
  /\ completed \in Nat /\ promised \in Nat /\ finAt \in Int
  /\ cpc \in {"open", "null", "closed"}

(* The queue never outgrows the array of the OSMessageQueue, indices stay  *)
(* inside the area, and lengths never go below zero                        *)
(* (socl_command.c:99-102, socl_write.c:194-197, 232-262).                 *)
TypeOK ==
  /\ RingType /\ PipeType /\ StateType /\ WriterType
  /\ HandlerType /\ StreamType /\ EndType

(* Every byte between out and in is still the one its writer put there:    *)
(* no writer runs over bytes the send thread has not freed, whatever the   *)
(* wrap-around, the early update of in and its rollback do                 *)
(* (socl_write.c:194-197, 234-255, 279, 369).                              *)
RingIntact ==
  /\ tail <= head /\ head - tail < WrtSize
  /\ in = Wrap(out + (head - tail))
  /\ \A p \in tail + 1 .. head : ring[Wrap(out + (p - tail - 1))] = p

(* Both: neither holds through a step without the other. *)
SendSound == TypeOK /\ RingIntact

(* No packet of the shared pool is lost or freed twice on any of the early *)
(* returns: each is free, held by somebody, or in the queue                *)
(* (socl_command.c:79-106, 184-194).                                       *)
PacketsConserved ==
  pool + others
    + Cardinality({i \in DOMAIN queue : queue[i].kind # "null"})
    + Cardinality({w \in Writers : pc[w] \in {"copy", "send"}})
    + (IF spc.at = "send" THEN 1 ELSE 0) = PoolSize

(* What was written before SOCL_Shutdown was called is handed to CPS, or   *)
(* dropped, before the FIN (socl_shutdown.c:28-37).                        *)
FlushBeforeFin == finAt >= 0 => finAt >= promised

(* A datagram reaches CPS in one piece: the ring split and the send buffer *)
(* limit never cut it (socl_write.c:95-99, 324, 405-433).                  *)
DatagramWhole ==
  proto = "UDP" /\ hpc = "cps" => Len(chunk) = Head(queue).to - Head(queue).from

(* The send side is an ordered byte stream. *)
Stream == INSTANCE ByteStream
StreamSpec == Stream!Spec

(* Unless the socket is closed under them, a writer that holds in_use      *)
(* gives it back - the wake-ups of socl_write.c:370 and the packet pool do *)
(* not leave it asleep - and a blocking SOCL_Shutdown returns              *)
(* (socl_command.c:127-135).                                               *)
CallsReturn ==
  /\ \A w \in Writers : owner = w ~> owner # w \/ cpc # "open"
  /\ spc.at \in {"packet", "send", "wait"} ~> spc.at = "done" \/ cpc # "open"

=============================================================================
