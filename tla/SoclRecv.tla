------------------------------ MODULE SoclRecv ------------------------------
(***************************************************************************)
(* The receive side of a connected TCP socket, libraries/soc/src/           *)
(* socl_read.c, on the console, where a section with interrupts off is      *)
(* atomic.                                                                 *)
(*                                                                         *)
(* CPS puts what the peer sends behind rcvbuf.  A reader copies from there  *)
(* itself and counts in consumed what it copied; the bytes leave rcvbuf     *)
(* later, when a consume command runs in the receive thread, the only       *)
(* thread CPS knows the socket by.  If there is nothing to copy, a blocking *)
(* reader sends a read command and waits while the thread polls.  Readers   *)
(* exclude each other with in_use; CPS, the receive thread and the reader   *)
(* do not.                                                                 *)
(*                                                                         *)
(* A byte is its position in the stream.  The SSL branches and reconnection *)
(* are not here; SoclPipe has the close, SoclUdp the UDP sockets.           *)
(***************************************************************************)
EXTENDS Integers, Sequences

CONSTANTS
  Readers, NoReader,
  RcvSize,     \* rcvbuf.size
  ConsumedMin, \* consumed_min
  QueueMax,    \* queue_max of the receive pipe
  Lens,        \* the lengths readers ask for
  MaxBytes     \* bound: bytes the peer sends

ASSUME RecvAssumption ==
  /\ NoReader \notin Readers
  /\ RcvSize \in Nat \ {0} /\ ConsumedMin \in 1 .. RcvSize
  /\ QueueMax \in Nat \ {0}
  /\ Lens \subseteq Nat \ {0} /\ MaxBytes \in Nat

VARIABLES
  rcvbuf,      \* the first rcvbufp bytes of cps_socket.rcvbuf
  established, \* cps_socket.state is CPS_STT_ESTABLISHED
  connected,   \* SOCL_STATUS_CONNECTED
  consumed,    \* bytes at the head of rcvbuf that were copied
  noconsume,   \* flag_noconsume
  owner,       \* the reader that holds in_use
  queue,       \* the commands of the receive pipe: a reader, or Consume
  pc, req,     \* where each reader is, and its arguments
  result,      \* what its last copy or command gave
  hpc,         \* where the receive thread is
  seen,        \* SOCLi_ReadCallBack: its copy of consumed
  arrived,     \* history: bytes taken from the peer,
  next,        \*   bytes given to readers that do not peek,
  got,         \*   those bytes,
  late,        \*   bytes came between the thread's last two looks,
  refused      \*   the last consume command could not be sent

cpsVars == <<rcvbuf, established, arrived>>
gotVars == <<connected, next, got>>
copyVars == <<gotVars, result>>
vars == <<cpsVars, copyVars, consumed, noconsume, owner, queue, pc, req, hpc, seen,
          late, refused>>

WouldBlock == -1
Invalid == -2
Consume == NoReader
NoReq == [len |-> 0, block |-> FALSE, peek |-> FALSE]
Least(a, b) == IF a <= b THEN a ELSE b

(* SOCLi_ReadCPSBuffer: bytes in the buffer that nobody has copied.          *)
Unread == Len(rcvbuf) - consumed

Init ==
  /\ rcvbuf = <<>> /\ established = TRUE /\ connected = TRUE
  /\ consumed = 0 /\ noconsume = FALSE
  /\ owner = NoReader /\ queue = <<>>
  /\ pc = [r \in Readers |-> "idle"]
  /\ req = [r \in Readers |-> NoReq]
  /\ result = [r \in Readers |-> 0]
  /\ hpc = "read" /\ seen = 0
  /\ arrived = 0 /\ next = 0 /\ got = <<>>
  /\ late = FALSE /\ refused = FALSE

-----------------------------------------------------------------------------
(* CPS.  It takes no more than there is room for; the FIN counts only when   *)
(* all before it was taken.  A FIN or RST ends the ESTABLISHED state.        *)
Arrive(n) ==
  /\ established
  /\ n \in 1 .. Least(RcvSize - Len(rcvbuf), MaxBytes - arrived)
  /\ rcvbuf' = rcvbuf \o [i \in 1 .. n |-> arrived + i]
  /\ arrived' = arrived + n
  /\ late' = (hpc = "check")
  /\ UNCHANGED <<established, copyVars, consumed, noconsume, owner, queue, pc, req, hpc,
                 seen, refused>>

PeerEnds ==
  /\ established /\ established' = FALSE
  /\ UNCHANGED <<rcvbuf, arrived, copyVars, consumed, noconsume, owner, queue, pc, req,
                 hpc, seen, late, refused>>

(* Mutant: what came behind the consumed bytes goes with them.               *)
SocConsumeRawAll(n) == <<>>
(* CPSi_SocConsumeRaw: what is left of the buffer.                           *)
SocConsumeRaw(n) == IF n < Len(rcvbuf) THEN SubSeq(rcvbuf, n + 1, Len(rcvbuf)) ELSE <<>>

-----------------------------------------------------------------------------
(* SOCLi_CopyCPSBuffer for reader r, called by it or by the receive thread.  *)
CopyCPSBuffer(r) ==
  LET n == Least(req[r].len, Unread)
  IN \/ /\ Unread > 0
        /\ result' = [result EXCEPT ![r] = n]
        /\ consumed' = IF noconsume THEN consumed ELSE consumed + n
        /\ IF req[r].peek THEN UNCHANGED <<next, got>>
           ELSE /\ next' = next + n
                /\ got' = got \o SubSeq(rcvbuf, consumed + 1, consumed + n)
        /\ UNCHANGED connected
     \/ /\ Unread = 0 /\ established
        /\ result' = [result EXCEPT ![r] = WouldBlock]
        /\ UNCHANGED <<connected, consumed, next, got>>
     \/ /\ Unread < 0 \/ (Unread = 0 /\ ~established)
        /\ result' = [result EXCEPT ![r] = IF Unread = 0 THEN 0 ELSE Invalid]
        /\ connected' = FALSE
        /\ UNCHANGED <<consumed, next, got>>

(* SOCL_ReadFrom: the tests of the socket's status.                          *)
ReadFrom(r, n, block, peek) ==
  /\ pc[r] = "idle" /\ connected
  /\ req' = [req EXCEPT ![r] = [len |-> n, block |-> block, peek |-> peek]]
  /\ pc' = [pc EXCEPT ![r] = "lock"]
  /\ UNCHANGED <<cpsVars, copyVars, consumed, noconsume, owner, queue, hpc, seen, late, refused>>

(* Back in the application, with what the last copy or command gave.         *)
Return(r) ==
  /\ pc' = [pc EXCEPT ![r] = "idle"]
  /\ req' = [req EXCEPT ![r] = NoReq] /\ result' = [result EXCEPT ![r] = 0]

(* OS_LockMutex or OS_TryLockMutex.  Only the thread that holds in_use, and  *)
(* the receive thread while it waits, look at flag_noconsume.                *)
Lock(r) ==
  /\ pc[r] = "lock"
  /\ \/ /\ owner = NoReader
        /\ owner' = r /\ pc' = [pc EXCEPT ![r] = "copy"] /\ UNCHANGED <<req, result>>
        /\ noconsume' = (noconsume \/ req[r].peek)
     \/ /\ owner # NoReader /\ ~req[r].block
        /\ Return(r)
        /\ UNCHANGED <<owner, noconsume>>
  /\ UNCHANGED <<cpsVars, gotVars, consumed, queue, hpc, seen, late, refused>>

(* Mutant: what SOCLi_ReadBuffer copied is never consumed.                   *)
AfterReadNever(r) == "unlock"
(* SOCLi_ReadAndConsumeBuffer: a read that went well may be worth a consume  *)
(* command.                                                                  *)
AfterRead(r) == IF result'[r] >= 0 THEN "test" ELSE "unlock"

(* SOCLi_ReadBuffer.                                                         *)
ReadBuffer(r) ==
  /\ pc[r] = "copy"
  /\ CopyCPSBuffer(r)
  /\ pc' = [pc EXCEPT ![r] =
       IF result'[r] = WouldBlock /\ req[r].block THEN "send" ELSE AfterRead(r)]
  /\ UNCHANGED <<cpsVars, noconsume, owner, queue, req, hpc, seen, late, refused>>

(* SOCLi_ExecReadCommand: it waits for room in the queue.                    *)
ExecReadCommand(r) ==
  /\ pc[r] = "send" /\ Len(queue) < QueueMax
  /\ queue' = Append(queue, r)
  /\ pc' = [pc EXCEPT ![r] = "wait"]
  /\ UNCHANGED <<cpsVars, copyVars, consumed, noconsume, owner, req, hpc, seen, late, refused>>

(* SOCLi_ConsumeBuffer: its test of consumed, then a command it does not     *)
(* wait for.  It is refused when the queue is full, and may be for want of   *)
(* a packet, which depends on the other sockets; nobody is told.             *)
ConsumeTest(r) ==
  /\ pc[r] = "test"
  /\ pc' = [pc EXCEPT ![r] = IF consumed < ConsumedMin THEN "unlock" ELSE "post"]
  /\ UNCHANGED <<cpsVars, copyVars, consumed, noconsume, owner, queue, req, hpc, seen, late, refused>>

ConsumePost(r) ==
  /\ pc[r] = "post"
  /\ \/ /\ Len(queue) < QueueMax
        /\ queue' = Append(queue, Consume) /\ refused' = FALSE
     \/ refused' = TRUE /\ UNCHANGED queue
  /\ pc' = [pc EXCEPT ![r] = "unlock"]
  /\ UNCHANGED <<cpsVars, copyVars, consumed, noconsume, owner, req, hpc, seen, late>>

(* Mutant: the flag of a peek is not taken back.                             *)
UnlockPeeking(r) ==
  /\ pc[r] = "unlock"
  /\ owner' = NoReader /\ Return(r)
  /\ UNCHANGED <<cpsVars, gotVars, consumed, noconsume, queue, hpc, seen, late, refused>>
(* flag_noconsume as it was, and OS_UnlockMutex.                             *)
Unlock(r) ==
  /\ pc[r] = "unlock"
  /\ owner' = NoReader /\ noconsume' = FALSE /\ Return(r)
  /\ UNCHANGED <<cpsVars, gotVars, consumed, queue, hpc, seen, late, refused>>

-----------------------------------------------------------------------------
(* The receive thread: SOCLi_CommandPacketHandler takes the next command.    *)
hpcVars == <<cpsVars, noconsume, owner, req, refused>>

ReadMessage ==
  /\ hpc = "read" /\ queue # <<>>
  /\ IF Head(queue) = Consume THEN hpc' = "consume" /\ UNCHANGED seen
                              ELSE hpc' = "poll" /\ seen' = consumed
  /\ UNCHANGED <<hpcVars, copyVars, consumed, queue, pc, late>>

(* Mutant: no data as soon as the peer has closed.                           *)
SocReadHasty ==
  /\ hpc = "poll" /\ (rcvbuf # <<>> \/ ~established)
  /\ hpc' = IF ~established THEN "null" ELSE IF Len(rcvbuf) > seen THEN "copy" ELSE "check"
  /\ late' = FALSE
  /\ UNCHANGED <<hpcVars, copyVars, consumed, seen, queue, pc>>
(* SOCLi_ReadCallBack: CPS_SocRead, which sleeps for the first byte or the   *)
(* end of the connection, and its answer compared with what is consumed.     *)
SocRead ==
  /\ hpc = "poll" /\ (rcvbuf # <<>> \/ ~established)
  /\ hpc' = IF rcvbuf = <<>> THEN "null" ELSE IF Len(rcvbuf) > seen THEN "copy" ELSE "check"
  /\ late' = FALSE
  /\ UNCHANGED <<hpcVars, copyVars, consumed, seen, queue, pc>>

(* Mutant: the loop has no other way out than data.                          *)
CheckForever ==
  /\ hpc = "check" /\ hpc' = "poll"
  /\ UNCHANGED <<hpcVars, copyVars, consumed, seen, queue, pc, late>>
(* Nothing new: the end of the stream if the connection is over, otherwise   *)
(* OS_Sleep and another look.                                                *)
Check ==
  /\ hpc = "check"
  /\ hpc' = IF established THEN "poll" ELSE "null"
  /\ UNCHANGED <<hpcVars, copyVars, consumed, seen, queue, pc, late>>

(* The copy for the waiting reader, and whether enough is consumed.          *)
CopyForReader ==
  /\ hpc = "copy"
  /\ CopyCPSBuffer(Head(queue))
  /\ hpc' = IF result'[Head(queue)] > 0 /\ consumed' >= ConsumedMin THEN "consume" ELSE "reply"
  /\ UNCHANGED <<hpcVars, seen, queue, pc, late>>

EndOfStream ==
  /\ hpc = "null"
  /\ result' = [result EXCEPT ![Head(queue)] = 0]
  /\ hpc' = "reply"
  /\ UNCHANGED <<hpcVars, gotVars, consumed, seen, queue, pc, late>>

(* SOCLi_ConsumeCPSBuffer, with interrupts off.                              *)
ConsumeCPSBuffer ==
  /\ hpc = "consume"
  /\ rcvbuf' = SocConsumeRaw(consumed) /\ consumed' = 0
  /\ hpc' = "reply"
  /\ UNCHANGED <<established, arrived, noconsume, owner, req, refused, copyVars, seen, queue,
                 pc, late>>

(* The command leaves the queue, and the reader that waits for it goes on.   *)
Reply ==
  /\ hpc = "reply"
  /\ queue' = Tail(queue) /\ hpc' = "read" /\ seen' = 0 /\ late' = FALSE
  /\ pc' = [r \in Readers |->
       IF r # Head(queue) THEN pc[r] ELSE IF result[r] >= 0 THEN "test" ELSE "unlock"]
  /\ UNCHANGED <<hpcVars, copyVars, consumed>>

-----------------------------------------------------------------------------
ReaderStep(r) ==
  \/ Lock(r) \/ ReadBuffer(r) \/ ExecReadCommand(r)
  \/ ConsumeTest(r) \/ ConsumePost(r) \/ Unlock(r)
HandlerStep ==
  \/ ReadMessage \/ SocRead \/ Check \/ CopyForReader \/ EndOfStream
  \/ ConsumeCPSBuffer \/ Reply

Next ==
  \/ \E n \in 1 .. RcvSize : Arrive(n)
  \/ PeerEnds
  \/ \E r \in Readers :
       \/ \E n \in Lens, block \in BOOLEAN, peek \in BOOLEAN : ReadFrom(r, n, block, peek)
       \/ ReaderStep(r)
  \/ HandlerStep

(* The library's threads run on; nobody has to call or to send.              *)
Fairness == WF_vars(HandlerStep) /\ \A r \in Readers : WF_vars(ReaderStep(r))
Spec == Init /\ [][Next]_vars /\ Fairness

-----------------------------------------------------------------------------
(* Types and ranges.  consumed never passes the end of the buffer, so that   *)
(* the EINVAL of socl_read.c:224 is not reached.                             *)
TypeOK ==
  /\ rcvbuf \in Seq(1 .. MaxBytes) /\ Len(rcvbuf) <= RcvSize
  /\ consumed \in 0 .. Len(rcvbuf)
  /\ {established, connected, noconsume, late, refused} \subseteq BOOLEAN
  /\ owner \in Readers \cup {NoReader}
  /\ queue \in Seq(Readers \cup {Consume}) /\ Len(queue) <= QueueMax
  /\ pc \in [Readers -> {"idle", "lock", "copy", "send", "wait", "test", "post", "unlock"}]
  /\ req \in [Readers -> [len : Lens \cup {0}, block : BOOLEAN, peek : BOOLEAN]]
  /\ result \in [Readers -> Invalid .. RcvSize]
  /\ hpc \in {"read", "poll", "check", "copy", "null", "consume", "reply"}
  /\ seen \in 0 .. RcvSize
  /\ arrived \in 0 .. MaxBytes /\ next \in 0 .. arrived

(* The bytes readers get are the bytes that arrived, each once and in order, *)
(* however copies, consume commands and arrivals interleave                  *)
(* (socl_read.c:138-204, 344-371, network.c:4254-4280).                      *)
Stream == INSTANCE ByteStream WITH
            posted <- arrived, passed <- next, wire <- got, lossy <- FALSE
StreamSpec == Stream!Spec

(* The unread part of the buffer is what has arrived and no reader was       *)
(* given: a peek takes nothing, no other read leaves anything behind, and    *)
(* what consumed counts are bytes that were read (socl_read.c:94-111,        *)
(* 170-173, 356-360).                                                        *)
RestIsUnread ==
  /\ TypeOK
  /\ SubSeq(rcvbuf, consumed + 1, Len(rcvbuf)) = [i \in 1 .. arrived - next |-> next + i]

(* The receive thread tells a reader that the stream has ended only when     *)
(* nothing is left to read, unless the last bytes and the end both came      *)
(* between its look at the buffer and its look at the state: the tests at    *)
(* socl_read.c:270 and :275 are two, and that reader is told 0 too early.    *)
EofTrue == hpc = "null" => Unread = 0 \/ late

(* Somebody is on the way to empty the buffer.                               *)
Emptying ==
  \/ \E i \in DOMAIN queue : queue[i] = Consume
  \/ \E r \in Readers : pc[r] \in {"test", "post"}
  \/ hpc \in {"consume", "reply"}

(* A buffer that is full of bytes already read takes nothing from the peer.  *)
(* It is left so, with nobody on the way to empty it, only if the consume    *)
(* command after the last copy was refused: no later read sends another      *)
(* (socl_read.c:102-104, 270-281, 318-336).                                  *)
StallOnlyRefused == Len(rcvbuf) = RcvSize /\ Unread = 0 /\ ~Emptying => refused

(* A reader that waits while there is something to read, or nothing more to  *)
(* come, gets its answer (socl_read.c:268-281).                              *)
ReadReturns ==
  \A r \in Readers : pc[r] = "wait" /\ (Unread > 0 \/ ~established) ~> pc[r] # "wait"
=============================================================================
