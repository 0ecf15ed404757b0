------------------------------ MODULE SoclPipe ------------------------------
(***************************************************************************)
(* Command pipes of one SOCL socket, from the first command to the free    *)
(* (libraries/soc/src/socl_command.c and socl_close.c).                    *)
(*                                                                         *)
(* Callers take a packet from the shared pool, queue it in a pipe of the   *)
(* socket and, if the command is blocking, wait for the response.  Each    *)
(* pipe has a thread that runs the commands in order.  SOCL_Close ends the *)
(* send pipe of a TCP socket with a NULL message and queues a close        *)
(* command in the control pipe; the close command joins the send thread of *)
(* a TCP socket, ends its own pipe and moves the socket to the trash list. *)
(* A cleaner (SOCLi_TrashSocket) joins the threads, answers what is left   *)
(* in the queues and frees it all.                                         *)
(*                                                                         *)
(* What a command does is abstracted to whether it may wait for the peer;  *)
(* SoclSend has the details of the send pipe's commands.                   *)
(***************************************************************************)
EXTENDS Integers, FiniteSets, SequencesExt

CONSTANTS
  Callers,    \* application threads
  NoCaller,   \* the packet of a close command answers nobody
  PoolSize,   \* cmd_packet_max, the size of the packet pool
  Modes,      \* subset of SocketModes: the kinds of socket explored
  QueueMax,   \* queue_max of the pipes
  MaxCalls    \* bound: commands the callers issue in one behaviour

SocketModes == {"TCP", "UDP", "PORT_UDP", "UDPSEND"}

ASSUME PipeAssumption ==
  /\ NoCaller \notin Callers
  /\ PoolSize \in Nat
  /\ Modes \subseteq SocketModes
  /\ QueueMax \in Nat \ {0}
  /\ MaxCalls \in Nat

VARIABLES
  mode,       \* flag_mode, fixed; PORT_UDP: UDP in a build without SDK_BUILD_ARM
  free,       \* SOCLiCommandPacketQueue
  pkt,        \* contents of the packets
  queue,      \* h.queue of each pipe
  hpc,        \* where each pipe's thread is
  cpc,        \* where each caller is
  call,       \* its command and the packet that carries it
  answer,     \* the last response it got, and how often its handler had run
  calls,      \* commands issued
  closing,    \* SOCL_STATUS_CLOSING and WAIT_CLOSE
  kpc,        \* where SOCL_Close is
  kpkt,       \* the packet it holds
  cpsOpen,    \* the CPS socket was not closed
  place,      \* the list the socket is in
  drained,    \* the pipes SOCLi_FreeCommandPipe emptied
  tpc         \* where the cleaner is

callerVars == <<cpc, call, answer, calls>>
closeVars == <<closing, kpc, kpkt>>
socketVars == <<mode, cpsOpen, place>>
cleanVars == <<drained, tpc>>
vars == <<free, pkt, queue, hpc, callerVars, closeVars, socketVars, cleanVars>>

Pipes == {"recv", "send"}
Packets == 1 .. PoolSize
Null == 0

(* In the console's build (SDK_BUILD_ARM) a UDP socket borrows the send     *)
(* pipe of the UDP-send socket: it owns only a receive pipe, and the        *)
(* UDP-send socket only a send pipe.  In the other builds the parameters of *)
(* a UDP socket give it a send pipe, with a thread, of its own.             *)
Owned(m) ==
  CASE m = "UDP" -> {"recv"} [] m = "UDPSEND" -> {"send"} [] OTHER -> Pipes

(* The pipes that closing the socket ends and cleaning it up joins and      *)
(* empties: the send pipe of a UDP socket is none of them.                  *)
Stopped(m) ==
  CASE m = "TCP" -> Pipes [] m = "UDPSEND" -> {"send"} [] OTHER -> {"recv"}

GetCtrlPipe == IF "recv" \in Owned(mode) THEN "recv" ELSE "send"

(* The commands of the API.  waits: the handler waits for the peer; flag:  *)
(* flag_block; lock: issued with in_use of the pipe held; open: the caller *)
(* tested CLOSING first.                                                   *)
Cmd(p, waits, flag, lock, open) ==
  [pipe |-> p, waits |-> waits, flag |-> flag, lock |-> lock, open |-> open]

Commands(m) ==
  CASE m = "TCP" ->
         {Cmd("recv", TRUE, "block", TRUE, TRUE),       \* read
          Cmd("recv", FALSE, "noblock", FALSE, TRUE),   \* connect
          Cmd("recv", TRUE, "block", FALSE, FALSE),     \* accept
          Cmd("recv", FALSE, "block", FALSE, FALSE),    \* enable SSL
          Cmd("recv", FALSE, "noblock", TRUE, TRUE),    \* consume
          Cmd("send", FALSE, "noresult", TRUE, TRUE),   \* write
          Cmd("send", FALSE, "noblock", TRUE, TRUE),
          Cmd("send", FALSE, "block", FALSE, TRUE),     \* shutdown
          Cmd("send", FALSE, "noblock", FALSE, TRUE)}
    [] m = "UDP" ->
         {Cmd("recv", FALSE, "block", FALSE, FALSE),    \* bind
          Cmd("recv", FALSE, "noblock", FALSE, FALSE)}
    [] m = "PORT_UDP" ->
         {Cmd("recv", FALSE, "block", FALSE, FALSE),    \* bind
          Cmd("recv", FALSE, "noblock", FALSE, FALSE),
          Cmd("send", FALSE, "noresult", TRUE, FALSE),  \* write
          Cmd("send", FALSE, "noblock", TRUE, FALSE),
          Cmd("send", FALSE, "block", FALSE, TRUE),     \* shutdown
          Cmd("send", FALSE, "noblock", FALSE, TRUE)}
    [] m = "UDPSEND" ->                                 \* of any UDP socket:
         {Cmd("send", FALSE, "noblock", TRUE, FALSE),   \* write
          Cmd("send", FALSE, "block", FALSE, FALSE),    \* shutdown
          Cmd("send", FALSE, "noblock", FALSE, FALSE)}

NoCmd == Cmd("recv", FALSE, "noblock", FALSE, FALSE)
NoAnswer == [told |-> "none", runs |-> 0]
Blank == [by |-> NoCaller, kind |-> "work", reply |-> FALSE, runs |-> 0]

Full(p) == Len(queue[p]) >= QueueMax
Head1(p) == pkt[Head(queue[p])]

-----------------------------------------------------------------------------
Init ==
  /\ mode \in Modes
  /\ free = [i \in Packets |-> i]
  /\ pkt = [p \in Packets |-> Blank]
  /\ queue = [p \in Pipes |-> <<>>]
  /\ hpc = [p \in Pipes |-> "read"]
  /\ cpc = [c \in Callers |-> "idle"]
  /\ call = [c \in Callers |-> [cmd |-> NoCmd, packet |-> Null]]
  /\ answer = [c \in Callers |-> NoAnswer]
  /\ calls = 0
  /\ closing = FALSE /\ kpc = "open" /\ kpkt = Null
  /\ cpsOpen = TRUE /\ place = "list"
  /\ drained = {} /\ tpc = "idle"

-----------------------------------------------------------------------------
(* Callers.                                                                *)

(* The tests at the head of the SOCL functions: the socket is registered   *)
(* and created, and (most of them) not closing.  They are not made again.  *)
BeginCall(c, cmd) ==
  /\ cpc[c] = "idle" /\ calls < MaxCalls
  /\ place = "list"
  /\ cmd.open => ~closing
  /\ calls' = calls + 1
  /\ cpc' = [cpc EXCEPT ![c] = IF cmd.lock THEN "lock" ELSE "packet"]
  /\ call' = [call EXCEPT ![c] = [cmd |-> cmd, packet |-> Null]]
  /\ answer' = [answer EXCEPT ![c] = NoAnswer]
  /\ UNCHANGED <<free, pkt, queue, hpc, closeVars, socketVars, cleanVars>>

(* in_use of pipe p is held until the caller is idle again. *)
InUse(p) ==
  \E d \in Callers :
    cpc[d] \in {"packet", "send", "wait"} /\ call[d].cmd.lock /\ call[d].cmd.pipe = p

(* OS_LockMutex, or OS_TryLockMutex, which may fail, of a call that does   *)
(* not block.                                                              *)
LockPipe(c) ==
  /\ cpc[c] = "lock"
  /\ LET held == InUse(call[c].cmd.pipe)
     IN \/ ~held /\ cpc' = [cpc EXCEPT ![c] = "packet"]
        \/ held /\ call[c].cmd.flag = "noblock" /\ cpc' = [cpc EXCEPT ![c] = "idle"]
  /\ UNCHANGED <<free, pkt, queue, hpc, call, answer, calls, closeVars, socketVars, cleanVars>>

(* SOCLi_CreateCommandPacket: waits for a packet, or EMFILE. *)
CreateCommandPacket(c) ==
  /\ cpc[c] = "packet"
  /\ \/ /\ free # <<>>
        /\ free' = Tail(free)
        /\ pkt' = [pkt EXCEPT ![Head(free)] =
             [by |-> c, kind |-> IF call[c].cmd.waits THEN "waits" ELSE "work",
              reply |-> call[c].cmd.flag = "block", runs |-> 0]]
        /\ call' = [call EXCEPT ![c].packet = Head(free)]
        /\ cpc' = [cpc EXCEPT ![c] = "send"]
     \/ /\ free = <<>> /\ call[c].cmd.flag = "noblock"
        /\ cpc' = [cpc EXCEPT ![c] = "idle"]
        /\ UNCHANGED <<free, pkt, call>>
  /\ UNCHANGED <<queue, hpc, answer, calls, closeVars, socketVars, cleanVars>>

(* Mutant: the packet is freed and its caller still waits. *)
ExecCommandPacketLossy(c) ==
  /\ cpc[c] = "send"
  /\ LET p == call[c].cmd.pipe
     IN \/ /\ ~Full(p)
           /\ queue' = [queue EXCEPT ![p] = Append(@, call[c].packet)]
           /\ cpc' = [cpc EXCEPT ![c] = IF call[c].cmd.flag = "block" THEN "wait" ELSE "idle"]
           /\ UNCHANGED free
        \/ /\ Full(p)
           /\ free' = Append(free, call[c].packet)
           /\ cpc' = [cpc EXCEPT ![c] = IF call[c].cmd.flag = "block" THEN "wait" ELSE "idle"]
           /\ UNCHANGED queue
  /\ UNCHANGED <<pkt, hpc, call, answer, calls, closeVars, socketVars, cleanVars>>

(* SOCLi_ExecCommandPacket with SOCLi_SendCommandPacket.  A blocking       *)
(* sender sleeps while the queue is full; the drain of the cleaner may be  *)
(* what wakes it.  Then its message goes to a queue nobody reads.          *)
ExecCommandPacket(c) ==
  /\ cpc[c] = "send"
  /\ LET p == call[c].cmd.pipe
     IN \/ /\ ~Full(p)
           /\ queue' = [queue EXCEPT ![p] = Append(@, call[c].packet)]
           /\ cpc' = [cpc EXCEPT ![c] = IF call[c].cmd.flag = "block" THEN "wait" ELSE "idle"]
           /\ UNCHANGED free
        \/ /\ Full(p) /\ call[c].cmd.flag = "noblock"
           /\ free' = Append(free, call[c].packet)
           /\ cpc' = [cpc EXCEPT ![c] = "idle"]
           /\ UNCHANGED queue
  /\ UNCHANGED <<pkt, hpc, call, answer, calls, closeVars, socketVars, cleanVars>>

-----------------------------------------------------------------------------
(* SOCL_Close, called by one thread.                                       *)

Close ==
  /\ kpc = "open" /\ place = "list"
  /\ closing' = TRUE
  /\ kpc' = IF mode = "TCP" THEN "null" ELSE "packet"
  /\ UNCHANGED <<free, pkt, queue, hpc, callerVars, kpkt, socketVars, cleanVars>>

CloseNull ==
  /\ kpc = "null" /\ ~Full("send")
  /\ queue' = [queue EXCEPT !["send"] = Append(@, Null)]
  /\ kpc' = "packet"
  /\ UNCHANGED <<free, pkt, hpc, callerVars, closing, kpkt, socketVars, cleanVars>>

CreateClosePacket ==
  /\ kpc = "packet" /\ free # <<>>
  /\ free' = Tail(free)
  /\ pkt' = [pkt EXCEPT ![Head(free)] = [Blank EXCEPT !.kind = "close"]]
  /\ kpkt' = Head(free)
  /\ kpc' = "send"
  /\ UNCHANGED <<queue, hpc, callerVars, closing, socketVars, cleanVars>>

SendClose ==
  /\ kpc = "send" /\ ~Full(GetCtrlPipe)
  /\ queue' = [queue EXCEPT ![GetCtrlPipe] = Append(@, kpkt)]
  /\ kpkt' = Null
  /\ kpc' = "closed"
  /\ UNCHANGED <<free, pkt, hpc, callerVars, closing, socketVars, cleanVars>>

-----------------------------------------------------------------------------
(* The thread of pipe p: SOCLi_CommandPacketHandler.                       *)

(* OS_ReadMessage: the message stays queued.  NULL ends the thread. *)
ReadMessage(p) ==
  /\ hpc[p] = "read" /\ queue[p] # <<>>
  /\ hpc' = [hpc EXCEPT ![p] =
       IF Head(queue[p]) = Null THEN "exit"
       ELSE IF Head1(p).kind # "close" THEN "run"
       ELSE IF mode = "TCP" THEN "join" ELSE "end"]
  /\ UNCHANGED <<free, pkt, queue, callerVars, closeVars, socketVars, cleanVars>>

(* The handler of an ordinary command.  One that waits for the peer comes  *)
(* back when the peer acts (PeerActs) or the CPS socket is closed.         *)
Ran(p) ==
  /\ pkt' = [pkt EXCEPT ![Head(queue[p])].runs = @ + 1]
  /\ hpc' = [hpc EXCEPT ![p] = "reply"]
  /\ UNCHANGED <<free, queue, callerVars, closeVars, socketVars, cleanVars>>

RunHandler(p) ==
  /\ hpc[p] = "run"
  /\ Head1(p).kind = "work" \/ ~cpsOpen
  /\ Ran(p)

PeerActs(p) ==
  /\ hpc[p] = "run" /\ Head1(p).kind = "waits" /\ cpsOpen
  /\ Ran(p)

(* Mutant: no OS_JoinThread. *)
JoinSendThreadNot ==
  /\ hpc["recv"] = "join"
  /\ cpsOpen' = FALSE
  /\ hpc' = [hpc EXCEPT !["recv"] = "end"]
  /\ UNCHANGED <<free, pkt, queue, callerVars, closeVars, mode, place, cleanVars>>

(* SOCLi_CloseCallBack: join the send thread, then shut down and close. *)
JoinSendThread ==
  /\ hpc["recv"] = "join" /\ hpc["send"] = "exit"
  /\ cpsOpen' = FALSE
  /\ hpc' = [hpc EXCEPT !["recv"] = "end"]
  /\ UNCHANGED <<free, pkt, queue, callerVars, closeVars, mode, place, cleanVars>>

(* A NULL message for the thread's own pipe, waiting if the queue is full. *)
EndOwnPipe(p) ==
  /\ hpc[p] = "end" /\ ~Full(p)
  /\ queue' = [queue EXCEPT ![p] = Append(@, Null)]
  /\ cpsOpen' = FALSE
  /\ hpc' = [hpc EXCEPT ![p] = "trash"]
  /\ UNCHANGED <<free, pkt, callerVars, closeVars, mode, place, cleanVars>>

(* SOCLi_SocketUnregister and SOCLi_SocketRegisterTrash, interrupts off. *)
MoveToTrash(p) ==
  /\ hpc[p] = "trash"
  /\ place' = "trash"
  /\ pkt' = [pkt EXCEPT ![Head(queue[p])].runs = @ + 1]
  /\ hpc' = [hpc EXCEPT ![p] = "reply"]
  /\ UNCHANGED <<free, queue, callerVars, closeVars, mode, cpsOpen, cleanVars>>

(* The caller c, if it waits for packet x, goes on. *)
Woken(x) == {c \in Callers : pkt[x].reply /\ pkt[x].by = c /\ cpc[c] = "wait"}

(* Mutant: the command is not taken out of the queue. *)
ReplyKeeps(p) ==
  /\ hpc[p] = "reply"
  /\ LET x == Head(queue[p])
     IN /\ cpc' = [c \in Callers |-> IF c \in Woken(x) THEN "idle" ELSE cpc[c]]
        /\ answer' = [c \in Callers |->
             IF c \in Woken(x) THEN [told |-> "result", runs |-> pkt[x].runs] ELSE answer[c]]
        /\ free' = Append(free, x)
  /\ hpc' = [hpc EXCEPT ![p] = "read"]
  /\ UNCHANGED <<pkt, queue, call, calls, closeVars, socketVars, cleanVars>>

(* Dequeue, respond and free the packet, with the scheduler off. *)
Reply(p) ==
  /\ hpc[p] = "reply"
  /\ LET x == Head(queue[p])
     IN /\ queue' = [queue EXCEPT ![p] = Tail(@)]
        /\ cpc' = [c \in Callers |-> IF c \in Woken(x) THEN "idle" ELSE cpc[c]]
        /\ answer' = [c \in Callers |->
             IF c \in Woken(x) THEN [told |-> "result", runs |-> pkt[x].runs] ELSE answer[c]]
        /\ free' = Append(free, x)
  /\ hpc' = [hpc EXCEPT ![p] = "read"]
  /\ UNCHANGED <<pkt, call, calls, closeVars, socketVars, cleanVars>>

-----------------------------------------------------------------------------
(* The cleaner: SOCLi_TrashSocket with SOCLi_CleanupSocket.  Interrupts    *)
(* are off, but OS_JoinThread lets other threads run.                      *)

TrashSocket ==
  /\ tpc = "idle" /\ place = "trash"
  /\ tpc' = "pipes"
  /\ UNCHANGED <<free, pkt, queue, hpc, callerVars, closeVars, socketVars, drained>>

(* SOCLi_FreeCommandPipe: the send pipe of a TCP socket first. *)
NextPipe(p) ==
  /\ tpc = "pipes" /\ p \in Stopped(mode) \ drained
  /\ p = "recv" => Stopped(mode) \ drained = {"recv"}

(* The packets in the queue of p; NULL is none. *)
Queued(p) == {x \in Packets : \E i \in DOMAIN queue[p] : queue[p][i] = x}

(* Mutant: the commands left in the pipe are not answered. *)
FreeCommandPipeSilent(p) ==
  /\ NextPipe(p) /\ hpc[p] = "exit"
  /\ queue' = [queue EXCEPT ![p] = <<>>]
  /\ free' = free \o SetToSeq(Queued(p))
  /\ drained' = drained \cup {p}
  /\ UNCHANGED <<pkt, hpc, callerVars, closeVars, socketVars, tpc>>

(* Empties the queue with the scheduler off; waiting callers are told code *)
(* and every packet goes back to the pool.  The packets are alike: the     *)
(* order in which they get there is left open.                             *)
Drain(p, code) ==
  /\ queue' = [queue EXCEPT ![p] = <<>>]
  /\ free' = free \o SetToSeq(Queued(p))
  /\ cpc' = [c \in Callers |-> IF \E x \in Queued(p) : c \in Woken(x) THEN "idle" ELSE cpc[c]]
  /\ answer' = [c \in Callers |->
       IF \E x \in Queued(p) : c \in Woken(x)
       THEN [told |-> code, runs |-> pkt[call[c].packet].runs] ELSE answer[c]]
  /\ drained' = drained \cup {p}
  /\ UNCHANGED <<pkt, hpc, call, calls, closeVars, socketVars, tpc>>

(* Mutant: SOCL_ESUCCESS for a command that did not run. *)
FreeCommandPipeSuccess(p) == NextPipe(p) /\ hpc[p] = "exit" /\ Drain(p, "result")

FreeCommandPipe(p) == NextPipe(p) /\ hpc[p] = "exit" /\ Drain(p, "canceled")

FreeSocket ==
  /\ tpc = "pipes" /\ Stopped(mode) \subseteq drained
  /\ place' = "freed"
  /\ tpc' = "idle"
  /\ UNCHANGED <<free, pkt, queue, hpc, callerVars, closeVars, mode, cpsOpen, drained>>

-----------------------------------------------------------------------------
CallerStep(c) == LockPipe(c) \/ CreateCommandPacket(c) \/ ExecCommandPacket(c)
CloseStep == CloseNull \/ CreateClosePacket \/ SendClose

(* What a thread does in the socket's memory once that is freed is not     *)
(* followed.                                                               *)
HandlerStep(p) ==
  /\ place # "freed"
  /\ \/ ReadMessage(p) \/ RunHandler(p) \/ EndOwnPipe(p) \/ MoveToTrash(p) \/ Reply(p)
     \/ p = "recv" /\ JoinSendThread
CleanerStep == TrashSocket \/ (\E p \in Pipes : FreeCommandPipe(p)) \/ FreeSocket

Next ==
  \/ \E c \in Callers, cmd \in Commands(mode) : BeginCall(c, cmd)
  \/ \E c \in Callers : CallerStep(c)
  \/ Close \/ CloseStep
  \/ \E p \in Pipes : HandlerStep(p) \/ PeerActs(p)
  \/ CleanerStep

(* Threads of the library run on, and CPS calls the scavenger again and    *)
(* again.  Nobody has to call anything, and the peer may stay silent.      *)
Fairness ==
  /\ \A c \in Callers : WF_vars(CallerStep(c))
  /\ WF_vars(CloseStep)
  /\ \A p \in Pipes : WF_vars(HandlerStep(p))
  /\ WF_vars(CleanerStep)

Spec == Init /\ [][Next]_vars /\ Fairness

-----------------------------------------------------------------------------
(* The queue of a pipe never outgrows its array, and threads are where     *)
(* their functions say (socl_command.c:91-143, 169-205).                   *)
Calls == (UNION {Commands(m) : m \in SocketModes}) \cup {NoCmd}

TypeOK ==
  /\ mode \in Modes
  /\ free \in Seq(Packets)
  /\ pkt \in [Packets -> [by : Callers \cup {NoCaller}, kind : {"work", "waits", "close"},
                          reply : BOOLEAN, runs : Nat]]
  /\ queue \in [Pipes -> Seq(Packets \cup {Null})]
  /\ \A p \in Pipes : Len(queue[p]) <= QueueMax
  /\ hpc \in [Pipes -> {"read", "run", "join", "end", "trash", "reply", "exit"}]
  /\ cpc \in [Callers -> {"idle", "lock", "packet", "send", "wait"}]
  /\ call \in [Callers -> [cmd : Calls, packet : Packets \cup {Null}]]
  /\ answer \in [Callers -> [told : {"none", "result", "canceled"}, runs : Nat]]
  /\ calls \in 0 .. MaxCalls
  /\ closing \in BOOLEAN
  /\ kpc \in {"open", "null", "packet", "send", "closed"}
  /\ kpkt \in Packets \cup {Null}
  /\ cpsOpen \in BOOLEAN
  /\ place \in {"list", "trash", "freed"}
  /\ drained \subseteq Pipes
  /\ tpc \in {"idle", "pipes"}

(* Where packet x is: the number of holders it has. *)
InQueues(x) == {pi \in Pipes \X (1 .. QueueMax) :
                  pi[2] \in DOMAIN queue[pi[1]] /\ queue[pi[1]][pi[2]] = x}
Holders(x) == {c \in Callers : cpc[c] = "send" /\ call[c].packet = x}

(* Every packet has exactly one place: the pool, a sender, or one entry of *)
(* one queue.  None is lost or freed twice, by the handler, by a full      *)
(* queue or by the drain (socl_command.c:79-106, 184-194,                  *)
(* socl_close.c:151-158).                                                  *)
PacketsConserved ==
  /\ TypeOK
  /\ \A x \in Packets :
       Cardinality(InQueues(x)) + Cardinality(Holders(x))
         + (IF kpkt = x THEN 1 ELSE 0) + Cardinality({i \in DOMAIN free : free[i] = x}) = 1

(* A caller that waits has its packet in the queue it sent it to: whatever *)
(* is enqueued behind a NULL or drained, no response is lost, and none is  *)
(* sent to a frame that is gone (socl_command.c:127-135, 190,              *)
(* socl_close.c:153).                                                      *)
WaitersQueued ==
  /\ \A c \in Callers : cpc[c] = "wait" =>
       /\ call[c].packet \in Queued(call[c].cmd.pipe)
       /\ pkt[call[c].packet].by = c /\ pkt[call[c].packet].reply
  /\ \A p \in Pipes : \A x \in Queued(p) : pkt[x].reply =>
       cpc[pkt[x].by] = "wait" /\ call[pkt[x].by].packet = x

(* A result means that the command ran once, SOCL_ECANCELED that it did    *)
(* not run at all (socl_command.c:180-191, socl_close.c:151-154).          *)
AnswerTrue ==
  \A c \in Callers :
    /\ answer[c].told = "result" => answer[c].runs = 1
    /\ answer[c].told = "canceled" => answer[c].runs = 0

(* The connection is closed only after every command accepted before the   *)
(* SOCL_Close has left the send pipe, no thread is left of a pipe that is  *)
(* emptied, and none of the socket when its memory is freed - but the send *)
(* thread of a UDP socket that has one: outside the console's build it is  *)
(* neither told to end nor joined, and its pipe is freed under it          *)
(* (socl_close.c:48-50, 66-71, 97-118, 129, 146).                          *)
CloseInOrder ==
  /\ mode = "TCP" /\ ~cpsOpen /\ "send" \notin drained =>
       queue["send"] # <<>> /\ Head(queue["send"]) = Null
  /\ \A p \in drained : hpc[p] = "exit"
  /\ place = "freed" =>
       \A p \in Owned(mode) : hpc[p] = "exit" \/ (mode = "PORT_UDP" /\ p = "send")

(* The two ways a receive thread waits for somebody outside the library:   *)
(* for the peer, and for room in the queue only it can empty.              *)
Obstructed ==
  \E p \in Pipes :
    \/ hpc[p] = "run" /\ Head1(p).kind = "waits" /\ cpsOpen
    \/ hpc[p] = "end" /\ Full(p)

(* A caller whose command is in a pipe that is freed without being emptied.*)
LeftBehind(c) == place = "freed" /\ call[c].cmd.pipe \notin Stopped(mode)

(* Unless a thread is obstructed for good, a blocking command that is in   *)
(* the queue before the pipe is drained is answered, and a socket that was *)
(* closed is freed.  Excepted is the shutdown of a UDP socket with a send  *)
(* pipe of its own, when the socket is freed under it                      *)
(* (socl_command.c:134-135, socl_close.c:46-133, 151-158).                 *)
WaitsEnd ==
  []<>~Obstructed =>
    /\ \A c \in Callers :
         cpc[c] = "wait" /\ call[c].cmd.pipe \notin drained
           ~> cpc[c] # "wait" \/ LeftBehind(c)
    /\ kpc # "open" ~> place = "freed"

=============================================================================
