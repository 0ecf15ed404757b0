------------------------------ MODULE PortNet ------------------------------
(***************************************************************************)
(* The sockets of CPS in the Linux port (libraries/cps/src/network.c,      *)
(* SDK_BUILD_LINUX): CPS calls are wrapped around sockets of the operating *)
(* system, and one thread receives for all of them.                        *)
(*                                                                         *)
(* WIN_SocketArray holds the sockets to receive for.  A call that binds or *)
(* releases a socket stops the thread, joins it, and starts another; it    *)
(* does so under s_SocketThreadStartupMutex, but a release lets the mutex  *)
(* go while it changes the array.  The thread looks through the array      *)
(* without a lock and receives under s_SocketSharedMutex, without which    *)
(* received bytes are consumed.                                            *)
(*                                                                         *)
(* The calls on one socket come from one thread; the sockets here are TCP  *)
(* sockets (module SoclUdp has the datagrams).  The n-th byte a peer sends *)
(* is n.                                                                   *)
(***************************************************************************)
EXTENDS Naturals, FiniteSets

CONSTANTS
  Socks,      \* sockets; each may be created again after its release
  Talkers,    \* bound: those that connect, receive and send bytes
  None,       \* NULL, no one
  Addrs,      \* what a socket can be bound to
  Ephemeral,  \* those with local port 0: a new port at every bind
  Slots,      \* MAX_NUM_OPEN_SOCKETS
  RcvSize,    \* rcvbuf.size
  Retries,    \* 5: how often a failed write tries to connect again
  MaxBytes    \* bound: bytes received, or written by one call

(* There are no more sockets than slots. *)
PortNetConstants ==
  /\ None \notin Socks \cup Addrs
  /\ Ephemeral \subseteq Addrs /\ Talkers \subseteq Socks
  /\ {Slots, RcvSize, Retries, MaxBytes} \subseteq Nat
  /\ IsFiniteSet(Socks) /\ Cardinality(Socks) <= Slots
ASSUME PortNetAssumption == PortNetConstants

VARIABLES
  array, total, \* WIN_SocketArray and WIN_SocketTotal
  stop,         \* s_stopSocThread
  handle,       \* WIN_socThread is not NULL
  startup,      \* the holder of s_SocketThreadStartupMutex
  tpc,          \* where the socket thread is; "off" when there is none
  ready,        \* the sockets its select reports
  slot,         \* the slot it is at; it holds the shared mutex in "recv", "count"
  got, loaded,  \* what recv returned, and rcvbufp before it
  pc, arg,      \* where the caller on each socket is, and its argument
  open, bound,  \* WIN_socket # 0; remote and local address bound to
  established,  \* state is CPS_STT_ESTABLISHED
  mem, rcvbufp, \* rcvbuf.data and how much of it is filled
  arrived, next, \* history: bytes received; bytes consumed
  wrote,        \* history: of the last write, asked, taken and returned
  left,         \* history: CPS_Cleanup left stop set
  displaced,    \* history: sockets whose slot another one was put in
  leaked,       \* history: how many slots were overwritten
  hole,         \* history: a release left a gap below a socket in the array
  torn,         \* history: the array was changed while the thread looked at it
  restarted,    \* history: releasing sockets under which another call started the thread
  raced,        \* history: sockets whose buffer was filled and consumed at once
  overrun       \* history: a socket was put past the end of the array

table   == <<array, total>>
control == <<stop, handle, startup, left>>
thread  == <<tpc, ready, slot, got, loaded>>
sockets == <<open, bound, established>>
buffer  == <<mem, rcvbufp, arrived, next>>
marks   == <<displaced, leaked, hole, torn, restarted, raced, overrun>>
vars == <<table, control, thread, pc, arg, sockets, buffer, wrote, marks>>

Empty    == [k \in 1 .. RcvSize |-> 0]
NoWrite  == [asked |-> 0, taken |-> 0, ret |-> 0]
SlotsOf(s) == {i \in 1 .. Slots : array[i] = s}
Listed   == {array[i] : i \in 1 .. Slots} \ {None}
Releasing == {"clear", "restart"}

Goto(s, place) == pc' = [pc EXCEPT ![s] = place]
Set(s, place, a) == Goto(s, place) /\ arg' = [arg EXCEPT ![s] = a]

-----------------------------------------------------------------------------
(* Creating and binding a socket.                                            *)

(* CPS_SocRegister and CPS_SocUse, on a fresh CPSSoc.                        *)
CPS_SocUse(s) ==
  /\ pc[s] = "none"
  /\ Goto(s, "idle")
  /\ open' = [open EXCEPT ![s] = FALSE]
  /\ established' = [established EXCEPT ![s] = FALSE]
  /\ rcvbufp' = [rcvbufp EXCEPT ![s] = 0]
  /\ UNCHANGED <<table, control, thread, arg, bound, mem, arrived, next, wrote, marks>>

(* CPS_SocBind returns at once when the socket is bound so already.  With    *)
(* the startup mutex it asks a thread there is to stop.                      *)
CPS_SocBind(s, a) ==
  /\ pc[s] = "idle" /\ ~(bound[s] = a /\ a \notin Ephemeral)
  /\ bound' = [bound EXCEPT ![s] = a]
  /\ startup = None /\ startup' = s
  /\ stop' = (stop \/ handle)
  /\ Goto(s, IF handle THEN "bindjoin" ELSE "register")
  /\ UNCHANGED <<table, handle, left, thread, arg, open, established, buffer, wrote, marks>>

Joined == handle' = FALSE /\ stop' = FALSE /\ left' = FALSE

(* A plausible slip: stop stays set, as in CPS_Cleanup. *)
BindJoinKeepsStop(s) ==
  /\ pc[s] = "bindjoin" /\ tpc = "off"
  /\ handle' = FALSE /\ UNCHANGED <<stop, left>>
  /\ Goto(s, "register")
  /\ UNCHANGED <<table, startup, thread, arg, sockets, buffer, wrote, marks>>

BindJoin(s) ==
  /\ pc[s] = "bindjoin" /\ tpc = "off"
  /\ Joined
  /\ Goto(s, "register")
  /\ UNCHANGED <<table, startup, thread, arg, sockets, buffer, wrote, marks>>

(* The old socket of the operating system is closed and a new one made, and  *)
(* CreateSocketEvent puts it, under the shared mutex, in the slot that the   *)
(* count names.                                                              *)
CreateSocketEvent(s) ==
  /\ pc[s] = "register" /\ tpc \notin {"recv", "count"}
  /\ open' = [open EXCEPT ![s] = TRUE]
  /\ total' = total + 1
  /\ IF total < Slots
       THEN LET old == array[total + 1] IN
            /\ array' = [array EXCEPT ![total + 1] = s]
            /\ leaked' = IF old = None THEN leaked ELSE leaked + 1
            /\ displaced' = (displaced \cup {old}) \ {s, None}
            /\ UNCHANGED overrun
       ELSE overrun' = TRUE /\ UNCHANGED <<array, leaked, displaced>>
  /\ Goto(s, "start")
  /\ UNCHANGED <<control, thread, arg, bound, established, buffer, wrote, hole, torn,
                 restarted, raced>>

(* A thread is started; one whose stop is still set will end at once.        *)
Starts(s) == restarted' = (restarted \ {s}) \cup {u \in Socks \ {s} : pc[u] \in Releasing}

BindStart(s) ==
  /\ pc[s] = "start"
  /\ handle' = TRUE /\ tpc' = "top" /\ Starts(s)
  /\ startup' = None
  /\ Goto(s, "idle")
  /\ UNCHANGED <<table, stop, left, ready, slot, got, loaded, arg, sockets, buffer, wrote,
                 displaced, leaked, hole, torn, raced, overrun>>

-----------------------------------------------------------------------------
(* Releasing a socket.                                                       *)

CPS_SocRelease(s) ==
  /\ pc[s] = "idle" /\ startup = None
  /\ IF handle
       THEN startup' = s /\ stop' = TRUE /\ Goto(s, "join")
       ELSE UNCHANGED <<startup, stop>> /\ Goto(s, "clear")
  /\ UNCHANGED <<table, handle, left, thread, arg, sockets, buffer, wrote, marks>>

(* A plausible slip: the thread is not waited for. *)
ReleaseWithoutJoin(s) ==
  /\ pc[s] = "join"
  /\ Joined
  /\ startup' = None
  /\ Goto(s, "clear")
  /\ UNCHANGED <<table, thread, arg, sockets, buffer, wrote, marks>>

(* The startup mutex is given back before the array is changed.              *)
ReleaseJoin(s) ==
  /\ pc[s] = "join" /\ tpc = "off"
  /\ Joined
  /\ startup' = None
  /\ Goto(s, "clear")
  /\ UNCHANGED <<table, thread, arg, sockets, buffer, wrote, marks>>

(* Every slot that holds the socket is emptied, under the shared mutex; then *)
(* it is closed.                                                             *)
ClearSlots(s) ==
  /\ pc[s] = "clear" /\ tpc \notin {"recv", "count"}
  /\ bound' = [bound EXCEPT ![s] = None]
  /\ open' = [open EXCEPT ![s] = FALSE]
  /\ array' = [i \in 1 .. Slots |-> IF array[i] = s THEN None ELSE array[i]]
  /\ total' = total - Cardinality(SlotsOf(s))
  /\ hole' = (hole \/ \E i \in SlotsOf(s) : \E j \in i + 1 .. Slots : array[j] \notin {None, s})
  /\ torn' = (torn \/ (tpc = "scan" /\ SlotsOf(s) # {}))
  /\ Goto(s, "restart")
  /\ UNCHANGED <<control, thread, arg, established, buffer, wrote, displaced, leaked,
                 restarted, raced, overrun>>

(* The thread is started again for the sockets that are left.  The CPSSoc is *)
(* freed; what was in it and the histories about it are forgotten.           *)
ReleaseRestart(s) ==
  /\ pc[s] = "restart" /\ startup = None
  /\ IF total > 0 /\ ~handle
       THEN handle' = TRUE /\ tpc' = "top" /\ Starts(s)
       ELSE UNCHANGED <<handle, tpc>> /\ restarted' = restarted \ {s}
  /\ Goto(s, "none")
  /\ established' = [established EXCEPT ![s] = FALSE]
  /\ mem' = [mem EXCEPT ![s] = Empty] /\ rcvbufp' = [rcvbufp EXCEPT ![s] = 0]
  /\ arrived' = [arrived EXCEPT ![s] = 0] /\ next' = [next EXCEPT ![s] = 0]
  /\ displaced' = displaced \ {s} /\ raced' = raced \ {s}
  /\ UNCHANGED <<table, stop, left, startup, ready, slot, got, loaded, arg, open, bound,
                 wrote, leaked, hole, torn, overrun>>

(* CPS_Cleanup, when no socket is left, stops a thread and leaves stop set.  *)
CPS_Cleanup ==
  /\ \A s \in Socks : pc[s] = "none"
  /\ handle
  /\ stop' = TRUE /\ handle' = FALSE /\ left' = TRUE
  /\ tpc' = "off" /\ ready' = {} /\ slot' = 0 /\ got' = 0 /\ loaded' = 0
  /\ UNCHANGED <<table, startup, pc, arg, sockets, buffer, wrote, marks>>

-----------------------------------------------------------------------------
(* WIN_CPS_SocThreadFunc.                                                    *)

ThreadTop ==
  /\ tpc = "top"
  /\ tpc' = IF stop THEN "off" ELSE "scan"
  /\ UNCHANGED <<table, control, ready, slot, got, loaded, pc, arg, sockets, buffer, wrote, marks>>

(* The array is looked through and select waits for any socket found there,  *)
(* or a millisecond; then the shared mutex is taken.                         *)
Select ==
  /\ tpc = "scan"
  /\ ready' \in SUBSET {s \in Listed \cap Talkers : open[s] /\ s \notin raced}
  /\ tpc' = "recv" /\ slot' = 0
  /\ UNCHANGED <<table, control, got, loaded, pc, arg, sockets, buffer, wrote, marks>>

(* The slots of the round after i that hold a ready socket, and the next.    *)
Later(i) == {j \in i + 1 .. Slots : array[j] \in ready}

NextSlot == CHOOSE j \in Later(slot) : \A k \in Later(slot) : j <= k

(* recv into the space behind rcvbufp.  Nothing is there when an earlier     *)
(* slot of the same socket took it, or the peer has closed.                  *)
Recv ==
  /\ tpc = "recv" /\ Later(slot) # {}
  /\ LET s == array[NextSlot]
         p == rcvbufp[s]
     IN \E n \in 0 .. RcvSize - p :
          /\ arrived[s] + n <= MaxBytes
          /\ mem' = [mem EXCEPT ![s] = [k \in 1 .. RcvSize |->
                       IF k \in p + 1 .. p + n THEN arrived[s] + k - p ELSE @[k]]]
          /\ arrived' = [arrived EXCEPT ![s] = @ + n]
          /\ slot' = NextSlot /\ got' = n /\ loaded' = p
          /\ tpc' = IF n > 0 THEN "count" ELSE "recv"
          /\ raced' = IF n > 0 /\ pc[s] = "move" THEN raced \cup {s} ELSE raced
  /\ UNCHANGED <<table, control, ready, pc, arg, sockets, rcvbufp, next, wrote, displaced,
                 leaked, hole, torn, restarted, overrun>>

(* rcvbufp += numBytes, which a consume under way can get between.           *)
Count ==
  /\ tpc = "count"
  /\ \E p \in {rcvbufp[array[slot]], loaded} :
       rcvbufp' = [rcvbufp EXCEPT ![array[slot]] = p + got]
  /\ tpc' = "recv"
  /\ UNCHANGED <<table, control, ready, slot, got, loaded, pc, arg, sockets, mem, arrived, next,
                 wrote, marks>>

EndRound ==
  /\ tpc = "recv" /\ Later(slot) = {}
  /\ tpc' = "top"
  /\ ready' = {} /\ slot' = 0 /\ got' = 0 /\ loaded' = 0
  /\ UNCHANGED <<table, control, pc, arg, sockets, buffer, wrote, marks>>

-----------------------------------------------------------------------------
(* Connecting, reading and writing.                                          *)

(* CPSi_TcpConnectRaw tries until the socket has a peer.                     *)
CPS_TcpConnect(s) ==
  /\ s \in Talkers /\ pc[s] = "idle" /\ open[s] /\ ~established[s]
  /\ established' = [established EXCEPT ![s] = TRUE]
  /\ UNCHANGED <<table, control, thread, pc, arg, open, bound, buffer, wrote, marks>>

(* CPS_TcpClose only changes the state.                                      *)
CPS_TcpClose(s) ==
  /\ pc[s] = "idle" /\ established[s]
  /\ established' = [established EXCEPT ![s] = FALSE]
  /\ UNCHANGED <<table, control, thread, pc, arg, open, bound, buffer, wrote, marks>>

(* CPS_SocRead waits for bytes; the caller takes the first n of them and     *)
(* then consumes them.                                                       *)
CPS_SocRead(s) ==
  /\ pc[s] = "idle" /\ rcvbufp[s] > 0 /\ s \notin raced
  /\ \E n \in 1 .. rcvbufp[s] : Set(s, "consume", n)
  /\ UNCHANGED <<table, control, thread, sockets, buffer, wrote, marks>>

Filling(s) == tpc = "count" /\ array[slot] = s

(* A plausible slip: the bytes left are not moved down. *)
ConsumeNoMove(s) ==
  /\ pc[s] = "consume"
  /\ rcvbufp' = [rcvbufp EXCEPT ![s] = @ - arg[s]]
  /\ next' = [next EXCEPT ![s] = @ + arg[s]]
  /\ Set(s, "idle", 0)
  /\ raced' = IF Filling(s) THEN raced \cup {s} ELSE raced
  /\ UNCHANGED <<table, control, thread, sockets, mem, arrived, wrote, displaced, leaked,
                 hole, torn, restarted, overrun>>

(* CPSi_SocConsumeRaw counts the bytes out, then moves the rest down.        *)
CPSi_SocConsumeRaw(s) ==
  /\ pc[s] = "consume"
  /\ IF arg[s] < rcvbufp[s]
       THEN rcvbufp' = [rcvbufp EXCEPT ![s] = @ - arg[s]] /\ Goto(s, "move") /\ UNCHANGED arg
       ELSE rcvbufp' = [rcvbufp EXCEPT ![s] = 0] /\ Set(s, "idle", 0)
  /\ next' = [next EXCEPT ![s] = @ + arg[s]]
  /\ raced' = IF Filling(s) THEN raced \cup {s} ELSE raced
  /\ UNCHANGED <<table, control, thread, sockets, mem, arrived, wrote, displaced, leaked,
                 hole, torn, restarted, overrun>>

ConsumeMove(s) ==
  /\ pc[s] = "move"
  /\ mem' = [mem EXCEPT ![s] = [k \in 1 .. RcvSize |->
               IF k <= rcvbufp[s] /\ k + arg[s] <= RcvSize THEN @[k + arg[s]] ELSE @[k]]]
  /\ Set(s, "idle", 0)
  /\ UNCHANGED <<table, control, thread, sockets, rcvbufp, arrived, next, wrote, marks>>

(* CPSi_TcpWrite2Raw hands the bytes to sendto.  Nothing sets outbufp but to *)
(* 0, so CPS_SocWrite never has bytes of an earlier call to send with them.  *)
CPS_SocWrite(s) ==
  /\ pc[s] = "idle" /\ established[s]
  /\ Set(s, "write", 0)
  /\ wrote' = [wrote EXCEPT ![s] = [asked |-> MaxBytes, taken |-> 0, ret |-> 0]]
  /\ UNCHANGED <<table, control, thread, sockets, buffer, marks>>

(* The system takes some of the bytes; the call returns the length it was    *)
(* given, however many were taken.                                           *)
SendTaken(s) ==
  /\ pc[s] = "write"
  /\ \E m \in 1 .. wrote[s].asked :
       wrote' = [wrote EXCEPT ![s].taken = @ + m, ![s].ret = wrote[s].asked]
  /\ Set(s, "written", 0)
  /\ UNCHANGED <<table, control, thread, sockets, buffer, marks>>

(* The system takes nothing and another connect fails: tried again, and      *)
(* given up with 0.  (After a connect that succeeds it just tries again.)    *)
SendRefused(s) ==
  /\ pc[s] = "write"
  /\ Set(s, IF arg[s] < Retries THEN "write" ELSE "written",
            IF arg[s] < Retries THEN arg[s] + 1 ELSE 0)
  /\ UNCHANGED <<table, control, thread, sockets, buffer, wrote, marks>>

(* The write returns.                                                        *)
WriteReturns(s) ==
  /\ pc[s] = "written"
  /\ Goto(s, "idle")
  /\ wrote' = [wrote EXCEPT ![s] = NoWrite]
  /\ UNCHANGED <<table, control, thread, arg, sockets, buffer, marks>>

-----------------------------------------------------------------------------
Init ==
  /\ array = [i \in 1 .. Slots |-> None] /\ total = 0
  /\ stop = FALSE /\ handle = FALSE /\ left = FALSE /\ startup = None
  /\ tpc = "off" /\ ready = {} /\ slot = 0 /\ got = 0 /\ loaded = 0
  /\ pc = [s \in Socks |-> "none"] /\ arg = [s \in Socks |-> 0]
  /\ open = [s \in Socks |-> FALSE] /\ bound = [s \in Socks |-> None]
  /\ established = [s \in Socks |-> FALSE]
  /\ mem = [s \in Socks |-> Empty] /\ rcvbufp = [s \in Socks |-> 0]
  /\ arrived = [s \in Socks |-> 0] /\ next = [s \in Socks |-> 0]
  /\ wrote = [s \in Socks |-> NoWrite]
  /\ displaced = {} /\ leaked = 0 /\ hole = FALSE /\ torn = FALSE
  /\ restarted = {} /\ raced = {} /\ overrun = FALSE

Calls(s) ==
  \/ CPS_SocUse(s) \/ CPS_SocRelease(s) \/ CPS_TcpConnect(s) \/ CPS_TcpClose(s)
  \/ CPS_SocRead(s) \/ CPS_SocWrite(s)
  \/ \E a \in Addrs : CPS_SocBind(s, a)

Steps(s) ==
  \/ BindJoin(s) \/ CreateSocketEvent(s) \/ BindStart(s)
  \/ ReleaseJoin(s) \/ ClearSlots(s) \/ ReleaseRestart(s)
  \/ CPSi_SocConsumeRaw(s) \/ ConsumeMove(s)
  \/ SendTaken(s) \/ SendRefused(s) \/ WriteReturns(s)

Thread == ThreadTop \/ Select \/ Recv \/ Count \/ EndRound

(* What follows an overrun or a torn look is the damage, not followed here.  *)
Next ==
  /\ ~overrun /\ ~torn
  /\ \/ \E s \in Socks : Calls(s) \/ Steps(s)
     \/ Thread
     \/ CPS_Cleanup

Spec == Init /\ [][Next]_vars

-----------------------------------------------------------------------------
Places == {"none", "idle", "bindjoin", "register", "start", "join", "clear", "restart", "consume", "move", "write", "written"}

TypeOK ==
  /\ array \in [1 .. Slots -> Socks \cup {None}] /\ total \in 0 .. Slots + 1
  /\ {stop, handle, left, hole, torn, overrun} \subseteq BOOLEAN
  /\ startup \in Socks \cup {None}
  /\ tpc \in {"off", "top", "scan", "recv", "count"}
  /\ ready \subseteq Socks /\ slot \in 0 .. Slots
  /\ {got, loaded} \subseteq 0 .. RcvSize
  /\ pc \in [Socks -> Places] /\ arg \in [Socks -> Nat]
  /\ open \in [Socks -> BOOLEAN] /\ established \in [Socks -> BOOLEAN]
  /\ bound \in [Socks -> Addrs \cup {None}]
  /\ mem \in [Socks -> [1 .. RcvSize -> 0 .. MaxBytes]]
  /\ rcvbufp \in [Socks -> 0 .. RcvSize]
  /\ arrived \in [Socks -> 0 .. MaxBytes] /\ next \in [Socks -> 0 .. MaxBytes]
  /\ wrote \in [Socks -> [asked : 0 .. MaxBytes, taken : 0 .. MaxBytes, ret : 0 .. MaxBytes]]
  /\ displaced \cup restarted \cup raced \subseteq Socks /\ leaked \in Nat

(* The array and its count.  The count is the used slots and those lost by   *)
(* overwriting; a slot is overwritten only after a socket was released       *)
(* before one registered later; the array is passed only with lost slots, a  *)
(* socket in two slots or one that is bound again, never by sockets that are *)
(* each bound once; and the thread's look at it is torn only by a release    *)
(* under which another call had started the thread (network.c:186-189,       *)
(* 272-279, 3861-3870).                                                      *)
TableSound ==
  /\ TypeOK
  /\ ~overrun => total = Cardinality({i \in 1 .. Slots : array[i] # None}) + leaked
  /\ leaked > 0 => hole
  /\ overrun => \/ leaked > 0
                \/ \E s \in Socks : \/ Cardinality(SlotsOf(s)) > 1
                                    \/ pc[s] = "start" /\ SlotsOf(s) # {}
  /\ torn => \E s \in restarted : pc[s] = "restart"

InMiddle == {s \in Socks : pc[s] \in Releasing \cup {"join", "bindjoin", "register", "start"}}

(* A bound socket is received for: it is in the array unless another was put *)
(* in its slot, and a thread that is not told to stop is there as soon as no *)
(* call is in the middle of stopping or starting it, unless CPS_Cleanup left *)
(* the word to stop behind for the first thread after it                     *)
(* (network.c:3064, 3346-3353, 3838-3845, 3887-3891).                        *)
Heard ==
  /\ \A s \in Socks : open[s] /\ pc[s] # "register" =>
       s \in Listed \/ s \in displaced \/ overrun
  /\ Listed # {} /\ InMiddle = {} => handle /\ ((tpc # "off" /\ ~stop) \/ left)

(* Bytes are neither lost, doubled nor mixed up: what is in a buffer is what *)
(* was received and not consumed, in order, unless a consume and a receive   *)
(* ran at once, which nothing prevents.  A write that returns its length has *)
(* given bytes to the system, though perhaps not all, and one that returns 0 *)
(* has given none (network.c:301-307, 4254-4280, 4506-4551).                 *)
BytesWhole ==
  \A s \in Socks :
    /\ s \notin raced /\ pc[s] # "move" =>
         /\ \A k \in 1 .. rcvbufp[s] : mem[s][k] = next[s] + k
         /\ next[s] + rcvbufp[s] + (IF Filling(s) THEN got ELSE 0) = arrived[s]
    /\ pc[s] = "written" => (wrote[s].ret = 0 <=> wrote[s].taken = 0)
=============================================================================
