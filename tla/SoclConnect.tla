---------------------------- MODULE SoclConnect ----------------------------
(***************************************************************************)
(* The status bits of one TCP socket: SOCL_Connect, SOCL_ListenAccept,     *)
(* SOCL_EnableSsl, SOCL_ReadFrom, SOCL_Write, SOCL_Shutdown, SOCL_Close    *)
(* and SOCL_GetStatus by several threads, and the handlers their commands  *)
(* run in the receive and the send thread of the socket (libraries/soc/src:*)
(* socl_bind.c, socl_listen_accept.c, socl_ssl.c, socl_poll.c,             *)
(* socl_shutdown.c, socl_close.c, socl_write.c).                           *)
(*                                                                         *)
(* `state |= X' and `state &= ~X' are a load and a store, and a call tests *)
(* the bits some steps before it acts on them.  race records what came in  *)
(* between: a store is torn when the bits have changed since its load, a   *)
(* call is overtaken when its tests would fail by now.  A second closer is *)
(* followed on; after any other of these the behaviour ends, as the code   *)
(* keeps no promise then.                                                  *)
(*                                                                         *)
(* The bit CREATE is always set here; SoclLife has the life of the socket  *)
(* around it.                                                              *)
(***************************************************************************)
EXTENDS Integers, Sequences, FiniteSets, SequencesExt

CONSTANTS
  Apps,       \* application threads
  Recv, Send, \* the two threads of the socket
  RecvMax, SendMax, \* queue_max of recv_pipe and send_pipe
  None        \* nobody: a free lock, a command without an answer

ASSUME ConnectAssumption ==
  /\ Recv \notin Apps /\ Send \notin Apps /\ Recv # Send
  /\ None \notin Apps \cup {Recv, Send}
  /\ RecvMax \in Nat \ {0} /\ SendMax \in Nat \ {0}

VARIABLES
  block,    \* flag_block
  status,   \* the bits of state
  reg,      \* what a thread has loaded of it
  at,       \* <<call or handler, step>> of each thread
  in_use,   \* owner of recv_pipe->in_use
  rq, sq,   \* queues of the receive and the send pipe
  cps,      \* state of the CPS socket: "est" is CPS_STT_ESTABLISHED
  data,     \* a received byte is unread
  fin,      \* CPS_TcpShutdown was called since CLOSING was set
  listed,   \* the socket is in SOCLiSocketList
  closes,   \* close commands queued so far
  race      \* history: "torn", calls overtaken, "no_bind" and "no_fin"

bitVars == <<status, reg>>
pipeVars == <<rq, sq>>
cpsVars == <<cps, data, fin>>
restVars == <<block, listed, closes>>
vars == <<bitVars, at, in_use, pipeVars, cpsVars, restVars, race>>

Threads == Apps \cup {Recv, Send}
Calls == {"connect", "accept", "ssl", "read", "write", "shutdown", "close", "poll"}
Bits == {"CONNECTING", "CONNECTED", "CLOSING", "WAIT_CLOSE", "WAIT_RELEASE", "ERROR", "RESET"}
Joined == {"CONNECTING", "CONNECTED"}
Idle == <<"none", "idle">>
Has(b) == b \in status
Go(t, o, step) == at' = [at EXCEPT ![t] = <<o, step>>]
Return(t) == at' = [at EXCEPT ![t] = Idle]

Init ==
  /\ block \in BOOLEAN
  /\ status = {} /\ reg = [t \in Threads |-> {}]
  /\ at = [t \in Threads |-> Idle]
  /\ in_use = None /\ rq = <<>> /\ sq = <<>>
  /\ cps = "none" /\ data = FALSE /\ fin = FALSE
  /\ listed = TRUE /\ closes = 0 /\ race = {}

(* The two halves of state |= add and state &= ~del. *)
Load(t) == reg' = [reg EXCEPT ![t] = status] /\ UNCHANGED status

Store(t, del, add) ==
  /\ status' = (reg[t] \ del) \cup add
  /\ reg' = [reg EXCEPT ![t] = {}]
  /\ race' = IF reg[t] = status THEN race ELSE race \cup {"torn"}

-----------------------------------------------------------------------------
(* The calls                                                               *)

(* The tests at the head of each call.  SOCL_GetStatus goes on when it     *)
(* finds the connection gone and nothing left to read.                     *)
MayConnect == {"CLOSING", "CONNECTED", "CONNECTING"} \cap status = {}
MayAccept == block /\ ~Has("CONNECTING")
MayEnableSslAlways == TRUE           \* a plausible slip
MayEnableSsl == ~Has("CONNECTING")
MayTransfer == Has("CONNECTED") /\ ~Has("CLOSING")
MayCloseAgain == TRUE                \* a plausible slip
MayClose == ~Has("WAIT_CLOSE")
SeesEnd == Has("CONNECTED") /\ cps # "est" /\ ~data

MayCall(o) ==
  /\ listed
  /\ CASE o = "connect" -> MayConnect
       [] o = "accept" -> MayAccept
       [] o = "ssl" -> MayEnableSsl
       [] o = "close" -> MayClose
       [] o = "poll" -> SeesEnd
       [] OTHER -> MayTransfer       \* read, write, shutdown

(* A call that goes on although its tests would fail by now.  A second     *)
(* SOCL_Shutdown does no harm.                                             *)
Overtaken(o) == IF MayCall(o) \/ o = "shutdown" THEN {} ELSE {o}

(* A call whose tests pass; the others return at once. *)
Call(t, o) ==
  /\ at[t] = Idle /\ MayCall(o)
  /\ Go(t, o, CASE o \in {"ssl", "write"} -> "exec" [] o = "read" -> "in_use" [] OTHER -> "load")
  /\ UNCHANGED <<bitVars, in_use, pipeVars, cpsVars, restVars, race>>

(* The first half of the |= or &= in the call; SOCL_Connect and            *)
(* SOCL_ListenAccept have a packet by then, which a nonblocking socket may *)
(* be refused.                                                             *)
LoadInCall(t) ==
  LET o == at[t][1] IN
  /\ at[t][2] = "load"
  /\ \/ Go(t, o, "store") /\ Load(t) /\ race' = race \cup Overtaken(o)
     \/ o = "connect" /\ ~block /\ Return(t) /\ UNCHANGED <<bitVars, race>>
  /\ UNCHANGED <<in_use, pipeVars, cpsVars, restVars>>

StoreInCall(t) ==
  LET o == at[t][1] IN
  /\ at[t][2] = "store" /\ t \in Apps
  /\ CASE o = "poll" -> Store(t, Joined, {}) /\ Return(t)
       [] o = "shutdown" -> Store(t, {}, {"CLOSING"}) /\ Go(t, o, "exec")
       [] o = "close" -> Store(t, {}, {"CLOSING", "WAIT_CLOSE"}) /\ Go(t, o, "null")
       [] OTHER -> Store(t, {}, {"CONNECTING"}) /\ Go(t, o, "exec")
  /\ UNCHANGED <<in_use, pipeVars, cpsVars, restVars>>

(* SOCL_Close sends a NULL to the send pipe. *)
SendNull(t) ==
  /\ at[t] = <<"close", "null">> /\ Len(sq) < SendMax
  /\ sq' = Append(sq, [kind |-> "null", by |-> None])
  /\ Go(t, "close", "exec")
  /\ UNCHANGED <<bitVars, in_use, rq, cpsVars, restVars, race>>

Blocks(o) == block \/ o \in {"ssl", "read", "close"}
Answers(o) == Blocks(o) /\ o \notin {"write", "close"}
ToSend(o) == o \in {"write", "shutdown"}
Full(o) == IF ToSend(o) THEN Len(sq) = SendMax ELSE Len(rq) = RecvMax

(* SOCLi_CreateCommandPacket, for the calls that have none yet, and        *)
(* SOCLi_ExecCommandPacket.  A full queue keeps a blocking caller waiting. *)
ExecCommandPacket(t) ==
  LET o == at[t][1]
      command == [kind |-> o, by |-> IF Answers(o) THEN t ELSE None] IN
  /\ at[t][2] = "exec" /\ ~Full(o)
  /\ sq' = IF ToSend(o) THEN Append(sq, command) ELSE sq
  /\ rq' = IF ToSend(o) THEN rq ELSE Append(rq, command)
  /\ IF Answers(o) THEN Go(t, o, "response") ELSE Return(t)
  /\ closes' = IF o = "close" THEN closes + 1 ELSE closes
  /\ race' = race \cup (CASE o \in {"ssl", "read"} -> Overtaken(o)
                          [] o \in {"connect", "accept"} /\ Has("CLOSING") -> {o}
                          [] OTHER -> {})
  /\ UNCHANGED <<bitVars, in_use, cpsVars, block, listed>>

(* A nonblocking caller is refused for want of a packet or on a full       *)
(* queue; the bits it has set stay.                                        *)
ExecRefused(t) ==
  LET o == at[t][1] IN
  /\ at[t][2] = "exec" /\ ~Blocks(o)
  /\ o = "connect" => Full(o)
  /\ Return(t)
  /\ race' = CASE o = "connect" -> race \cup {"no_bind"}
               [] o = "shutdown" -> race \cup {"no_fin"}
               [] OTHER -> race
  /\ UNCHANGED <<bitVars, in_use, pipeVars, cpsVars, restVars>>

(* SOCL_ReadFrom takes in_use, or gives up on a nonblocking socket, *)
LockToRead(t) ==
  /\ at[t] = <<"read", "in_use">>
  /\ IF in_use = None THEN in_use' = t /\ Go(t, "read", "copy")
     ELSE ~block /\ Return(t) /\ UNCHANGED in_use
  /\ UNCHANGED <<bitVars, pipeVars, cpsVars, restVars, race>>

(* and copies: SOCLi_CopyCPSBuffer takes what there is, clears the bits at *)
(* the end of the stream, or has a blocking caller send a read command.    *)
CopyCPSBuffer(t) ==
  /\ at[t] = <<"read", "copy">>
  /\ data' = FALSE
  /\ status' = IF ~data /\ cps # "est" THEN status \ Joined ELSE status
  /\ Go(t, "read", IF ~data /\ cps = "est" /\ block THEN "exec" ELSE "unlock")
  /\ race' = IF ~data /\ cps # "est" THEN race \cup Overtaken("read") ELSE race
  /\ UNCHANGED <<reg, in_use, pipeVars, cps, fin, restVars>>

UnlockReader(t) ==
  /\ at[t] = <<"read", "unlock">> /\ in_use' = None /\ Return(t)
  /\ UNCHANGED <<bitVars, pipeVars, cpsVars, restVars, race>>

-----------------------------------------------------------------------------
(* SOCLi_CommandPacketHandler and the handlers                             *)

Answer(by) ==
  IF by = None THEN at
  ELSE [at EXCEPT ![by] = IF @[1] = "read" THEN <<"read", "unlock">> ELSE Idle]

(* The receive thread reads the head of its queue *)
ReadMessage ==
  LET kind == Head(rq).kind IN
  /\ at[Recv] = Idle /\ rq # <<>>
  /\ Go(Recv, kind, CASE kind \in {"connect", "accept", "ssl"} -> "in_use"
                      [] kind = "close" -> "join"
                      [] kind = "null" -> "end"
                      [] OTHER -> "wait")
  /\ UNCHANGED <<bitVars, in_use, pipeVars, cpsVars, restVars, race>>

(* and takes it out and answers when the handler returns. *)
Reply ==
  /\ at[Recv][2] = "reply"
  /\ at' = [Answer(Head(rq).by) EXCEPT ![Recv] = Idle]
  /\ rq' = Tail(rq)
  /\ UNCHANGED <<bitVars, in_use, sq, cpsVars, restVars, race>>

LockInHandler ==
  /\ at[Recv][2] = "in_use" /\ in_use = None
  /\ in_use' = Recv
  /\ Go(Recv, at[Recv][1], IF at[Recv][1] = "ssl" THEN "unlock" ELSE "bind")
  /\ UNCHANGED <<bitVars, pipeVars, cpsVars, restVars, race>>

(* CPS_SocBind and CPS_TcpConnect, which gives up by itself. *)
TcpConnect ==
  /\ at[Recv] = <<"connect", "bind">>
  /\ \/ cps' = "est" /\ Go(Recv, "connected", "unlock")
     \/ cps' = "closed" /\ Go(Recv, "failed", "unlock")
  /\ data' = FALSE
  /\ UNCHANGED <<bitVars, in_use, pipeVars, fin, restVars, race>>

(* CPS_TcpListen waits for a peer, for ever if need be. *)
TcpListen ==
  /\ at[Recv] = <<"accept", "bind">>
  /\ cps' = "est" /\ data' = FALSE
  /\ Go(Recv, "accept", "load")
  /\ UNCHANGED <<bitVars, in_use, pipeVars, fin, restVars, race>>

UnlockInHandler ==
  LET o == at[Recv][1] IN
  /\ at[Recv][2] = "unlock" /\ in_use' = None
  /\ Go(Recv, o, IF o \in {"connected", "failed"} THEN "load" ELSE "reply")
  /\ UNCHANGED <<bitVars, pipeVars, cpsVars, restVars, race>>

(* The bind handler marks state when it has let go of in_use, the accept   *)
(* handler before.                                                         *)
LoadInHandler ==
  /\ at[Recv][2] \in {"load", "load_release"} /\ Load(Recv)
  /\ Go(Recv, at[Recv][1], IF at[Recv][2] = "load" THEN "store" ELSE "store_release")
  /\ UNCHANGED <<in_use, pipeVars, cpsVars, restVars, race>>

(* A plausible slip: a failed connect is not marked. *)
StoreInHandlerNoError ==
  LET o == at[Recv][1] IN
  /\ \/ /\ at[Recv][2] = "store"
        /\ CASE o \in {"connected", "accept"} -> Store(Recv, {}, {"CONNECTED"})
             [] o = "close" -> Store(Recv, Joined, {})
             [] OTHER -> Store(Recv, {}, {})
        /\ Go(Recv, o, CASE o = "accept" -> "unlock" [] o = "close" -> "null" [] OTHER -> "reply")
     \/ /\ at[Recv][2] = "store_release"
        /\ Store(Recv, {}, {"WAIT_RELEASE"}) /\ Go(Recv, o, "reply")
  /\ UNCHANGED <<in_use, pipeVars, cpsVars, restVars>>

StoreInHandler ==
  LET o == at[Recv][1] IN
  /\ \/ /\ at[Recv][2] = "store"
        /\ CASE o = "connected" -> Store(Recv, {}, {"CONNECTED"}) /\ Go(Recv, o, "reply")
             [] o = "failed" -> Store(Recv, {}, {"ERROR"}) /\ Go(Recv, o, "reply")
             [] o = "accept" -> Store(Recv, {}, {"CONNECTED"}) /\ Go(Recv, o, "unlock")
             [] o = "close" -> Store(Recv, Joined, {}) /\ Go(Recv, o, "null")
     \/ /\ at[Recv][2] = "store_release"
        /\ Store(Recv, {}, {"WAIT_RELEASE"}) /\ Go(Recv, o, "reply")
  /\ UNCHANGED <<in_use, pipeVars, cpsVars, restVars>>

ReadCallBack ==
  /\ at[Recv] = <<"read", "wait">> /\ (data \/ cps # "est")
  /\ data' = (data /\ Has("RESET"))
  /\ Go(Recv, "read", "reply")
  /\ UNCHANGED <<bitVars, in_use, pipeVars, cps, fin, restVars, race>>

(* The close command: join the send thread, close the connection, clear    *)
(* the bits, send a NULL to its own queue and leave the list.              *)
JoinSendThread ==
  /\ at[Recv] = <<"close", "join">> /\ at[Send][2] = "end"
  /\ cps' = "none" /\ data' = FALSE /\ fin' = TRUE
  /\ Go(Recv, "close", "load")
  /\ UNCHANGED <<bitVars, in_use, pipeVars, restVars, race>>

EndOwnPipe ==
  /\ at[Recv] = <<"close", "null">> /\ Len(rq) < RecvMax
  /\ rq' = Append(rq, [kind |-> "null", by |-> None])
  /\ Go(Recv, "close", "trash")
  /\ UNCHANGED <<bitVars, in_use, sq, cpsVars, restVars, race>>

MoveToTrash ==
  /\ at[Recv] = <<"close", "trash">> /\ listed' = FALSE
  /\ Go(Recv, "close", "load_release")
  /\ UNCHANGED <<bitVars, in_use, pipeVars, cpsVars, block, closes, race>>

(* The send thread. *)
SendThread ==
  LET kind == Head(sq).kind IN
  /\ at[Send] = Idle /\ sq # <<>>
  /\ \/ kind = "null" /\ Go(Send, kind, "end") /\ UNCHANGED <<sq, fin>>
     \/ kind = "write" /\ Has("CONNECTED") /\ Go(Send, kind, "load") /\ UNCHANGED <<sq, fin>>
     \/ /\ kind = "shutdown" \/ (kind = "write" /\ (Has("CONNECTED") => cps = "est"))
        /\ fin' = (fin \/ kind = "shutdown")
        /\ sq' = Tail(sq) /\ at' = Answer(Head(sq).by)
  /\ UNCHANGED <<bitVars, in_use, rq, cps, data, restVars, race>>

(* A write that CPS refuses clears the bits and only then closes the       *)
(* connection.                                                             *)
WriteFails ==
  /\ CASE at[Send][2] = "load" -> /\ Load(Send) /\ Go(Send, "write", "store") /\ UNCHANGED fin
                                  /\ race' = IF Has("CONNECTED") THEN race ELSE race \cup {"write"}
       [] at[Send][2] = "store" -> /\ Store(Send, Joined \cup {"CLOSING"}, {})
                                   /\ fin' = FALSE /\ Go(Send, "write", "load_reset")
       [] at[Send][2] = "load_reset" -> /\ Load(Send) /\ Go(Send, "write", "store_reset")
                                        /\ UNCHANGED <<fin, race>>
       [] at[Send][2] = "store_reset" -> /\ Store(Send, {}, {"RESET"})
                                         /\ Go(Send, "write", "close") /\ UNCHANGED fin
       [] OTHER -> FALSE
  /\ UNCHANGED <<in_use, pipeVars, cps, data, restVars>>

TcpClose ==
  /\ at[Send] = <<"write", "close">>
  /\ cps' = IF cps = "est" THEN "closed" ELSE cps
  /\ sq' = Tail(sq) /\ at' = [at EXCEPT ![Send] = Idle]
  /\ UNCHANGED <<bitVars, in_use, rq, data, fin, restVars, race>>

(* SOCLi_FreeCommandPipe answers what is left in the queues. *)
Drain ==
  /\ at[Recv][2] = "end"
  /\ \/ sq # <<>> /\ at' = Answer(Head(sq).by) /\ sq' = Tail(sq) /\ UNCHANGED rq
     \/ rq # <<>> /\ at' = Answer(Head(rq).by) /\ rq' = Tail(rq) /\ UNCHANGED sq
  /\ UNCHANGED <<bitVars, in_use, cpsVars, restVars, race>>

(* The peer sends a byte, or closes. *)
Peer ==
  /\ cps = "est"
  /\ \/ ~data /\ data' = TRUE /\ UNCHANGED cps
     \/ cps' = "closed" /\ UNCHANGED data
  /\ UNCHANGED <<bitVars, at, in_use, pipeVars, fin, restVars, race>>

-----------------------------------------------------------------------------
CallSteps(t) ==
  \/ LoadInCall(t) \/ StoreInCall(t) \/ SendNull(t) \/ ExecCommandPacket(t)
  \/ ExecRefused(t) \/ LockToRead(t) \/ CopyCPSBuffer(t) \/ UnlockReader(t)

RecvSteps ==
  \/ ReadMessage \/ Reply \/ LockInHandler \/ TcpConnect \/ UnlockInHandler \/ LoadInHandler
  \/ StoreInHandler \/ ReadCallBack \/ JoinSendThread \/ EndOwnPipe \/ MoveToTrash

SendSteps == SendThread \/ WriteFails \/ TcpClose

Followed == race \subseteq {"no_bind", "no_fin", "close"}

Next ==
  /\ Followed
  /\ \/ \E t \in Apps : CallSteps(t) \/ (\E o \in Calls : Call(t, o))
     \/ RecvSteps \/ TcpListen \/ SendSteps \/ Drain \/ Peer

Spec == Init /\ [][Next]_vars

-----------------------------------------------------------------------------
TypeOK ==
  /\ status \subseteq Bits /\ \A t \in Threads : reg[t] \subseteq Bits
  /\ in_use \in Threads \cup {None}
  /\ Len(rq) <= RecvMax /\ Len(sq) <= SendMax

(* The receive thread waits for in_use, whose owner waits for a command    *)
(* behind the one the receive thread is at.                                *)
LockCycle == at[Recv][2] = "in_use" /\ in_use \in Apps /\ at[in_use][2] = "response"

(* The handlers that lock in_use in the receive thread never wait for a    *)
(* reader that waits for them (socl_bind.c:108): connect, accept and SSL   *)
(* are kept off a socket that can be read by the tests of CONNECTING and   *)
(* CONNECTED, as long as no call has overtaken another.                    *)
NoLockCycle == TypeOK /\ (LockCycle => ~Followed)

(* A socket is closed once, by however many threads, unless two were       *)
(* between the test of WAIT_CLOSE and its update (socl_close.c:42); it     *)
(* stays marked, and once it has left the list it is never connected       *)
(* again.  The one way back in without a race: a failed write clears the   *)
(* CLOSING of a close under way (socl_write.c:349), and SOCL_Connect and   *)
(* SOCL_Accept do not look at WAIT_CLOSE.                                  *)
ClosedForGood ==
  \/ ~Followed
  \/ /\ closes <= 1 \/ "close" \in race
     /\ closes > 0 => Has("WAIT_CLOSE")
     /\ ~listed /\ Has("CONNECTED") => Has("RESET")

UnderWay(o, queue) ==
  \/ \E t \in Apps : at[t][1] = o
  \/ \E i \in DOMAIN queue : queue[i].kind = o

(* CONNECTING and CLOSING announce something: a connect or accept under    *)
(* way, a FIN sent or on its way.  The two ways to be left with a bit that *)
(* announces nothing, on a nonblocking socket: a connect whose command did *)
(* not fit the queue, which reports EINPROGRESS (socl_bind.c:67), and a    *)
(* shutdown that was refused (socl_shutdown.c:33).                         *)
BitsBacked ==
  \/ ~Followed
  \/ /\ "no_bind" \in race \/ UnderWay("connect", rq) \/ UnderWay("accept", rq)
        \/ ~(listed /\ Has("CONNECTING") /\ ~Has("CONNECTED") /\ ~Has("ERROR"))
     /\ "no_fin" \in race \/ UnderWay("shutdown", sq) \/ fin
        \/ ~(Has("CLOSING") /\ ~Has("WAIT_CLOSE"))
=============================================================================
