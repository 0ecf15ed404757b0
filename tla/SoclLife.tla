------------------------------ MODULE SoclLife ------------------------------
(***************************************************************************)
(* The life of the SOCL library and of its sockets: SOCL_Startup,          *)
(* SOCL_CreateSocket, SOCL_Close, the close command, SOCLi_TrashSocket,    *)
(* SOCL_CloseAll, SOCL_CalmDown and SOCL_Cleanup (libraries/soc/src:       *)
(* socl_startup.c, socl_create.c, socl_list.c, socl_close.c,               *)
(* socl_cleanup.c, and the pool of socl_command.c).                        *)
(*                                                                         *)
(* A socket is a block of memory.  It is registered, created by a command  *)
(* to its own control thread, closed by another, moved to the trash list,  *)
(* and freed by whoever runs SOCLi_TrashSocket: the CPS scavenger and the  *)
(* thread in SOCL_CalmDown.  A section with interrupts off is one action,  *)
(* except where it sleeps in OS_JoinThread.                                *)
(*                                                                         *)
(* A step that uses a block which is not the socket it was, or that puts a *)
(* socket twice into the trash list, makes corrupt true and the behaviour  *)
(* ends there.                                                             *)
(***************************************************************************)
EXTENDS Integers, Sequences, FiniteSets, SequencesExt

CONSTANTS
  Slots,      \* blocks of memory the allocator may give to sockets
  Apps,       \* application threads
  Main,       \* the application thread that starts and cleans up the library
  Scavenger,  \* the CPS thread that calls SOCLi_TrashSocket
  PoolSize,   \* cmd_packet_max
  None        \* no socket

ASSUME LifeAssumption ==
  /\ Main \in Apps /\ Scavenger \notin Apps /\ None \notin Slots
  /\ PoolSize \in Nat \ {0} /\ IsFiniteSet(Slots)

VARIABLES
  config,     \* SOCLiConfigPtr is set
  udpsend,    \* SOCLiUDPSendSocket: a slot, None, or "enomem"
  pool,       \* packets in SOCLiCommandPacketQueue; Unset before the first
              \* allocation, Stale once the pool was freed
  list,       \* SOCLiSocketList
  trash,      \* SOCLiSocketListTrash
  mode,       \* flag_mode of each socket
  status,     \* the CREATE and WAIT_CLOSE bits of state
  queue,      \* messages in the control pipe of each socket
  ctl,        \* where the control pipe's thread is
  snd,        \* the send thread of a TCP socket: runs, was sent NULL, ended
  pc, at,     \* where each thread is, and the socket it is about
  ret,        \* where it continues after SOCL_Close or SOCLi_TrashSocket
  force,      \* scavenger_force_exit
  corrupt,    \* "no", "twice" or "null": how memory was misused
  overlapped, \* history: two closers or two cleaners overlapped on a socket
  failed      \* history: a startup could not allocate something

libVars == <<config, udpsend, pool, force>>
sockVars == <<list, trash, mode, status>>
pipeVars == <<queue, ctl, snd>>
threadVars == <<pc, at, ret>>
faultVars == <<corrupt, overlapped, failed>>
vars == <<libVars, sockVars, pipeVars, threadVars, faultVars>>

Threads == Apps \cup {Scavenger}
Unset == -1
Stale == -2
Registered == ToSet(list)
Trashed == ToSet(trash)
Cleaning == pc[Main] \in {"calm", "closeall", "isclosed", "pool"} \/ ret[Main] # "idle"
Starting == \/ pc[Main] \in {"startup", "udpsend"}
            \/ pc[Main] \in {"packet", "response"} /\ mode[at[Main]] = "udpsend"
Ready == config /\ ~Starting /\ ~Cleaning   \* the application may call

Init ==
  /\ config = FALSE /\ udpsend = None /\ pool = Unset /\ force = FALSE
  /\ list = <<>> /\ trash = <<>>
  /\ mode = [s \in Slots |-> "tcp"] /\ status = [s \in Slots |-> {}]
  /\ queue = [s \in Slots |-> <<>>]
  /\ ctl = [s \in Slots |-> "end"] /\ snd = [s \in Slots |-> "end"]
  /\ pc = [t \in Threads |-> IF t = Scavenger THEN "end" ELSE "idle"]
  /\ at = [t \in Threads |-> None] /\ ret = [t \in Threads |-> "idle"]
  /\ corrupt = "no" /\ overlapped = FALSE /\ failed = FALSE

Goto(t, where, s) == pc' = [pc EXCEPT ![t] = where] /\ at' = [at EXCEPT ![t] = s]

(* A step that meets memory that is not what it takes it for. *)
Misuse(how) ==
  /\ corrupt' = how
  /\ UNCHANGED <<libVars, sockVars, pipeVars, threadVars, overlapped, failed>>

-----------------------------------------------------------------------------
(* Creating sockets                                                        *)

(* SOCLi_StartupSocket: allocate, clear, start the threads, register. *)
StartupSocket(t, s, m) ==
  /\ s \notin Registered \cup Trashed
  /\ list' = <<s>> \o list
  /\ mode' = [mode EXCEPT ![s] = m]
  /\ status' = [status EXCEPT ![s] = {}]
  /\ queue' = [queue EXCEPT ![s] = <<>>]
  /\ ctl' = [ctl EXCEPT ![s] = "run"]
  /\ snd' = [snd EXCEPT ![s] = IF m = "tcp" THEN "run" ELSE "end"]
  /\ Goto(t, "packet", s)
  /\ UNCHANGED trash

(* A UDP socket borrows the send pipe of the UDP-send socket, as in the    *)
(* console's build; SoclPipe has the other one too.                        *)
CreateSocket(t, m) ==
  /\ pc[t] = "idle" /\ Ready
  /\ IF m = "udp" /\ udpsend \notin Slots THEN Misuse("null")
     ELSE /\ \E s \in Slots : StartupSocket(t, s, m)
          /\ UNCHANGED <<libVars, ret, faultVars>>

ExecCreate(t) ==
  /\ pc[t] = "packet"
  /\ IF pool = Stale THEN Misuse("null")
     ELSE /\ pool > 0
          /\ pool' = pool - 1
          /\ queue' = [queue EXCEPT ![at[t]] = Append(@, "create")]
          /\ pc' = [pc EXCEPT ![t] = "response"]
          /\ UNCHANGED <<config, udpsend, force, sockVars, ctl, snd, at, ret, faultVars>>

(* The handler of the create command, its answer and, in SOCL_Startup, the *)
(* assignment of SOCLiUDPSendSocket.                                       *)
CreateSocketCallBack(s) ==
  /\ ctl[s] = "run" /\ queue[s] # <<>> /\ Head(queue[s]) = "create"
  /\ queue' = [queue EXCEPT ![s] = Tail(@)]
  /\ status' = [status EXCEPT ![s] = {"CREATE"}]
  /\ pool' = pool + 1
  /\ \E t \in Apps :
       /\ pc[t] = "response" /\ at[t] = s
       /\ Goto(t, "idle", None)
  /\ udpsend' = IF mode[s] = "udpsend" THEN s ELSE udpsend
  /\ UNCHANGED <<config, force, list, trash, mode, ctl, snd, ret, faultVars>>

(* SOCL_Startup; a second call is answered at once.  SOCLiConfigPtr is set *)
(* before the steps that can fail.                                         *)
Startup ==
  /\ pc[Main] = "idle" /\ ~config
  /\ config' = TRUE
  /\ pc' = [pc EXCEPT ![Main] = "startup", ![Scavenger] = "start"]
  /\ UNCHANGED <<udpsend, pool, force, sockVars, pipeVars, at, ret, faultVars>>

(* SOCLi_StartupSOCL: the pool, then the UDP-send socket. *)
StartupPool ==
  /\ pc[Main] = "startup"
  /\ \/ /\ pool' = PoolSize
        /\ pc' = [pc EXCEPT ![Main] = "udpsend"]
        /\ UNCHANGED failed
     \/ /\ failed' = TRUE
        /\ pc' = [pc EXCEPT ![Main] = "idle"]
        /\ UNCHANGED pool
  /\ UNCHANGED <<config, udpsend, force, sockVars, pipeVars, at, ret, corrupt, overlapped>>

StartupUdpSend ==
  /\ pc[Main] = "udpsend"
  /\ \/ /\ \E s \in Slots : StartupSocket(Main, s, "udpsend")
        /\ UNCHANGED <<udpsend, failed>>
     \/ /\ udpsend' = "enomem" /\ failed' = TRUE
        /\ Goto(Main, "idle", None)
        /\ UNCHANGED <<sockVars, pipeVars>>
  /\ UNCHANGED <<config, pool, force, ret, corrupt, overlapped>>

-----------------------------------------------------------------------------
(* SOCL_Close and the close command                                        *)

(* A plausible slip: WAIT_CLOSE is not tested. *)
MayCloseAgain(s) == s \in Registered /\ "CREATE" \in status[s]

(* The tests of SOCL_Close; TRUE when the close goes on. *)
MayClose(s) ==
  /\ s \in Registered
  /\ "CREATE" \in status[s]
  /\ "WAIT_CLOSE" \notin status[s]

CloseTest(t, s, back) ==
  /\ IF MayClose(s)
     THEN /\ Goto(t, "close", s)
          /\ ret' = [ret EXCEPT ![t] = back]
          /\ overlapped' = (overlapped \/ \E u \in Threads \ {t} : pc[u] = "close" /\ at[u] = s)
     ELSE /\ Goto(t, back, None)
          /\ ret' = [ret EXCEPT ![t] = "idle"]
          /\ UNCHANGED overlapped
  /\ UNCHANGED <<libVars, sockVars, pipeVars, corrupt, failed>>

Close(t, s) ==
  /\ pc[t] = "idle" /\ Ready
  /\ s # udpsend                \* its handle is not given to the application
  /\ MayClose(s)                \* otherwise the call returns at once
  /\ CloseTest(t, s, "idle")

(* state gets WAIT_CLOSE; the send thread of a TCP socket gets its NULL. *)
CloseMark(t) ==
  LET s == at[t] IN
  /\ pc[t] = "close"
  /\ IF s \notin Registered \cup Trashed THEN Misuse("twice")
     ELSE /\ status' = [status EXCEPT ![s] = @ \cup {"WAIT_CLOSE"}]
          /\ snd' = [snd EXCEPT ![s] = IF @ = "run" THEN "null" ELSE @]
          /\ pc' = [pc EXCEPT ![t] = "sendclose"]
          /\ UNCHANGED <<libVars, list, trash, mode, queue, ctl, at, ret, faultVars>>

SendClose(t) ==
  LET s == at[t] IN
  /\ pc[t] = "sendclose" /\ pool > 0
  /\ IF s \notin Registered \cup Trashed THEN Misuse("twice")
     ELSE /\ pool' = pool - 1
          /\ queue' = [queue EXCEPT ![s] = Append(@, "close")]
          /\ Goto(t, ret[t], None)
          /\ ret' = [ret EXCEPT ![t] = "idle"]
          /\ UNCHANGED <<config, udpsend, force, sockVars, ctl, snd, faultVars>>

SendThreadEnds(s) ==
  /\ snd[s] = "null"
  /\ snd' = [snd EXCEPT ![s] = "end"]
  /\ UNCHANGED <<libVars, sockVars, queue, ctl, threadVars, faultVars>>

(* The close command joins the send thread and sends a NULL to its own     *)
(* pipe, *)
CloseCallBack(s) ==
  /\ ctl[s] = "run" /\ queue[s] # <<>> /\ Head(queue[s]) = "close"
  /\ snd[s] = "end"
  /\ queue' = [queue EXCEPT ![s] = Append(@, "null")]
  /\ ctl' = [ctl EXCEPT ![s] = "move"]
  /\ UNCHANGED <<libVars, sockVars, snd, threadVars, faultVars>>

(* moves the socket to the trash list (twice makes the list a ring), *)
MoveToTrash(s) ==
  /\ ctl[s] = "move"
  /\ IF s \in Trashed THEN Misuse("twice")
     ELSE /\ list' = RemoveFirst(list, s)
          /\ trash' = <<s>> \o trash
          /\ ctl' = [ctl EXCEPT ![s] = "reply"]
          /\ UNCHANGED <<libVars, mode, status, queue, snd, threadVars, faultVars>>

(* and gives its packet back. *)
CloseReply(s) ==
  /\ ctl[s] = "reply"
  /\ queue' = [queue EXCEPT ![s] = Tail(@)]
  /\ pool' = pool + 1
  /\ ctl' = [ctl EXCEPT ![s] = "run"]
  /\ UNCHANGED <<config, udpsend, force, sockVars, snd, threadVars, faultVars>>

CtrlThreadEnds(s) ==
  /\ ctl[s] = "run" /\ queue[s] # <<>> /\ Head(queue[s]) = "null"
  /\ ctl' = [ctl EXCEPT ![s] = "end"]         \* the NULL was read, not received
  /\ UNCHANGED <<libVars, sockVars, queue, snd, threadVars, faultVars>>

-----------------------------------------------------------------------------
(* SOCLi_TrashSocket                                                       *)

Joining(t, s) == \E u \in Threads \ {t} : pc[u] = "join" /\ at[u] = s

(* SOCLi_CleanupSocket once the threads have ended: what is left in the    *)
(* queue is given back, the block is freed.                                *)
FreeSocket(s) ==
  /\ pool' = pool + Cardinality({i \in DOMAIN queue[s] : queue[s][i] # "null"})
  /\ list' = RemoveFirst(list, s)
  /\ trash' = RemoveFirst(trash, s)
  /\ status' = [status EXCEPT ![s] = {}]
  /\ queue' = [queue EXCEPT ![s] = <<>>]
  /\ UNCHANGED <<config, udpsend, force, mode, ctl, snd>>

(* The head of the trash list is freed, or its thread joined first: the    *)
(* cleaner sleeps and others run.                                          *)
TrashSocket(t) ==
  LET s == Head(trash) IN
  /\ pc[t] = "trash" /\ trash # <<>>
  /\ overlapped' = (overlapped \/ Joining(t, s))
  /\ IF ctl[s] = "end"
     THEN FreeSocket(s) /\ UNCHANGED <<pc, at>>
     ELSE /\ status' = [status EXCEPT ![s] = {}]
          /\ Goto(t, "join", s)
          /\ UNCHANGED <<libVars, list, trash, mode, pipeVars>>
  /\ UNCHANGED <<ret, corrupt, failed>>

JoinedThread(t) ==
  LET s == at[t] IN
  /\ pc[t] = "join" /\ (ctl[s] = "end" \/ s \notin Trashed)
  /\ IF s \notin Trashed THEN Misuse("twice")
     ELSE FreeSocket(s) /\ Goto(t, "trash", None) /\ UNCHANGED <<ret, faultVars>>

TrashEmpty(t) ==
  /\ pc[t] = "trash" /\ trash = <<>>
  /\ Goto(t, ret[t], None)
  /\ ret' = [ret EXCEPT ![t] = "idle"]
  /\ UNCHANGED <<libVars, sockVars, pipeVars, faultVars>>

(* The scavenger clears scavenger_force_exit when it begins, calls         *)
(* SOCLi_TrashSocket every second through scavenger_callback and ends when *)
(* told to.                                                                *)
ScavengerStarts ==
  /\ pc[Scavenger] = "start"
  /\ force' = FALSE
  /\ pc' = [pc EXCEPT ![Scavenger] = "sleep"]
  /\ UNCHANGED <<config, udpsend, pool, sockVars, pipeVars, at, ret, faultVars>>

(* A plausible slip: it tests the flag it has just cleared for itself. *)
ScavengerWakesDeaf ==
  /\ pc[Scavenger] = "sleep"
  /\ pc' = [pc EXCEPT ![Scavenger] = "trash"]
  /\ ret' = [ret EXCEPT ![Scavenger] = "sleep"]
  /\ UNCHANGED <<libVars, sockVars, pipeVars, at, faultVars>>

ScavengerWakes ==
  /\ pc[Scavenger] = "sleep"
  /\ pc' = [pc EXCEPT ![Scavenger] = IF force THEN "end" ELSE "trash"]
  /\ ret' = [ret EXCEPT ![Scavenger] = IF force THEN "idle" ELSE "sleep"]
  /\ UNCHANGED <<libVars, sockVars, pipeVars, at, faultVars>>

-----------------------------------------------------------------------------
(* SOCL_Cleanup: SOCL_CalmDown until it succeeds, then the pool and CPS    *)

Cleanup ==
  /\ pc[Main] = "idle" /\ config
  /\ pc' = [pc EXCEPT ![Main] = "calm"]
  /\ UNCHANGED <<libVars, sockVars, pipeVars, at, ret, faultVars>>

(* A plausible slip, and what CPS_CalmDown does under SDK_PORT: it does    *)
(* not wait for the scavenger.                                             *)
CalmDownAtOnce ==
  /\ pc[Main] = "calm"
  /\ force' = (force \/ udpsend = None)
  /\ pc' = [pc EXCEPT ![Main] = IF udpsend # None THEN "closeall" ELSE "pool"]
  /\ UNCHANGED <<config, udpsend, pool, sockVars, pipeVars, at, ret, faultVars>>

(* SOCL_CalmDown closes all while there is a UDP-send socket, then stops   *)
(* the scavenger.                                                          *)
CalmDown ==
  /\ pc[Main] = "calm"
  /\ IF udpsend # None
     THEN pc' = [pc EXCEPT ![Main] = "closeall"] /\ UNCHANGED force
     ELSE /\ force' = (force \/ pc[Scavenger] # "end")
          /\ pc' = [pc EXCEPT ![Main] = IF pc[Scavenger] = "end" THEN "pool" ELSE "calm"]
  /\ UNCHANGED <<config, udpsend, pool, sockVars, pipeVars, at, ret, faultVars>>

ToClose == {s \in Registered \ {udpsend} : "WAIT_CLOSE" \notin status[s]}
FirstToClose == list[SelectInSeq(list, LAMBDA s : s \in ToClose)]

(* One round of SOCL_CloseAll.  SOCL_Close refuses a socket that is not    *)
(* created yet and the loop goes round.                                    *)
CloseAll ==
  /\ pc[Main] = "closeall" /\ ToClose # {}
  /\ CloseTest(Main, FirstToClose, "closeall")

(* All are closed: once all are freed too, the UDP-send socket follows.    *)
(* SOCL_Close of SOCL_ENOMEM fails.                                        *)
CloseUdpSend ==
  /\ pc[Main] = "closeall" /\ ToClose = {}
  /\ IF Registered \subseteq {udpsend} /\ trash = <<>>
     THEN CloseTest(Main, udpsend, "isclosed")
     ELSE /\ pc' = [pc EXCEPT ![Main] = "trash"]
          /\ ret' = [ret EXCEPT ![Main] = "calm"]
          /\ UNCHANGED <<libVars, sockVars, pipeVars, at, faultVars>>

IsClosed ==
  /\ pc[Main] = "isclosed"
  /\ udpsend' = IF udpsend \in Slots \ (Registered \cup Trashed) THEN None ELSE udpsend
  /\ pc' = [pc EXCEPT ![Main] = "trash"]
  /\ ret' = [ret EXCEPT ![Main] = "calm"]
  /\ UNCHANGED <<config, pool, force, sockVars, pipeVars, at, faultVars>>

(* SOCLi_CleanupCommandPacketQueue frees a full pool only.  A queue that   *)
(* was never set up counts as full.                                        *)
PoolIsFull == pool \in {PoolSize, Unset, Stale}

CleanupPool ==
  /\ pc[Main] = "pool"
  /\ IF PoolIsFull
     THEN config' = FALSE /\ pool' = (IF pool = Unset THEN Unset ELSE Stale)
     ELSE UNCHANGED <<config, pool>>
  /\ pc' = [pc EXCEPT ![Main] = "idle"]
  /\ UNCHANGED <<udpsend, force, sockVars, pipeVars, at, ret, faultVars>>

-----------------------------------------------------------------------------
Library ==
  \/ StartupPool \/ StartupUdpSend \/ CalmDown \/ CloseAll \/ CloseUdpSend \/ IsClosed
  \/ CleanupPool \/ ScavengerStarts \/ ScavengerWakes
  \/ \E t \in Threads : TrashSocket(t) \/ JoinedThread(t) \/ TrashEmpty(t)
  \/ \E t \in Apps : ExecCreate(t) \/ CloseMark(t) \/ SendClose(t)
  \/ \E s \in Slots : \/ CreateSocketCallBack(s) \/ SendThreadEnds(s) \/ CloseCallBack(s)
                      \/ MoveToTrash(s) \/ CloseReply(s) \/ CtrlThreadEnds(s)

Application ==
  \/ Startup \/ Cleanup
  \/ \E t \in Apps : \/ \E m \in {"tcp", "udp"} : CreateSocket(t, m)
                     \/ \E s \in Slots : Close(t, s)

Next == corrupt = "no" /\ (Library \/ Application)

(* Every thread that can run does; no call of the application is assumed.  *)
Sound == corrupt = "no"
Fairness ==
  /\ \A s \in Slots :
       WF_vars(Sound /\ (\/ CreateSocketCallBack(s) \/ CloseCallBack(s) \/ MoveToTrash(s)
                         \/ CloseReply(s) \/ CtrlThreadEnds(s)))
  /\ \A s \in Slots : WF_vars(Sound /\ SendThreadEnds(s))
  /\ \A t \in Apps : SF_vars(Sound /\ (ExecCreate(t) \/ SendClose(t)))
  /\ \A t \in Apps : WF_vars(Sound /\ CloseMark(t))
  /\ \A t \in Threads : WF_vars(Sound /\ (TrashSocket(t) \/ JoinedThread(t) \/ TrashEmpty(t)))
  /\ WF_vars(Sound /\ (CalmDown \/ CloseAll \/ CloseUdpSend \/ IsClosed \/ CleanupPool
                       \/ StartupPool \/ StartupUdpSend))
  /\ WF_vars(Sound /\ (ScavengerStarts \/ ScavengerWakes))

Spec == Init /\ [][Next]_vars /\ Fairness

-----------------------------------------------------------------------------
TypeOK ==
  /\ config \in BOOLEAN /\ force \in BOOLEAN
  /\ udpsend \in Slots \cup {None, "enomem"}
  /\ pool \in Stale .. PoolSize
  /\ list \in Seq(Slots) /\ trash \in Seq(Slots)
  /\ mode \in [Slots -> {"tcp", "udp", "udpsend"}]
  /\ status \in [Slots -> SUBSET {"CREATE", "WAIT_CLOSE"}]
  /\ ctl \in [Slots -> {"run", "move", "reply", "end"}]
  /\ snd \in [Slots -> {"run", "null", "end"}]
  /\ at \in [Threads -> Slots \cup {None}]

(* Memory is never misused, whatever the order of the creates, the closes, *)
(* the scavenger and the cleanup, except in two ways the code leaves open: *)
(* two threads in SOCL_Close between the test of WAIT_CLOSE and its update *)
(* (socl_close.c:42), or two cleaners asleep on one thread (:146); and,    *)
(* after a startup that failed half way, a socket made without a pool or   *)
(* without the UDP-send socket (socl_startup.c:42).                        *)
MisuseOnlyRaced ==
  /\ TypeOK
  /\ corrupt = "twice" => overlapped
  /\ corrupt = "null" => failed \/ overlapped

(* SOCL_Cleanup finds the packet pool whole when it frees it, and once it  *)
(* has let go of the configuration nothing uses it any more: no socket is  *)
(* left, those SOCL_Accept leaked included, every control thread has       *)
(* ended, no thread is inside a call, and the scavenger is gone.  The      *)
(* exceptions are those of MisuseOnlyRaced: a second closer may still be   *)
(* in SOCL_Close when the cleanup ends.                                    *)
CleanIsEmpty ==
  ~failed /\ ~overlapped =>
    /\ pc[Main] = "pool" => pool = PoolSize
    /\ ~config =>
         /\ list = <<>> /\ trash = <<>> /\ udpsend = None
         /\ \A s \in Slots : ctl[s] = "end" /\ snd[s] = "end" /\ queue[s] = <<>>
         /\ \A t \in Apps : pc[t] = "idle"
         /\ pc[Scavenger] = "end"

(* SOCL_Cleanup comes to an end, unless memory was misused as above or     *)
(* SOCL_Startup stored SOCL_ENOMEM as the UDP-send socket: SOCL_CalmDown   *)
(* can then neither close it nor find it closed.                           *)
CleanupEnds ==
  pc[Main] = "calm" ~> (pc[Main] = "idle" \/ overlapped \/ corrupt # "no" \/ udpsend = "enomem")

=============================================================================
