------------------------------ MODULE SoclUdp ------------------------------
(***************************************************************************)
(* Reading, with the datagrams of a UDP socket beside the stream of a TCP  *)
(* socket (SoclRecv): SOCLi_ReadUdpBuffer and SOCLi_UdpRecvCallback of     *)
(* libraries/soc/src/socl_read.c, and what closing the socket does to its  *)
(* queue, in the Linux port.                                               *)
(*                                                                         *)
(* The socket thread of CPS receives a datagram behind the rcvbufp bytes   *)
(* of rcvbuf and has the callback copy it to a queue; readers take from    *)
(* the queue and sleep while it is empty.  A close takes the socket out of *)
(* the list; the thread goes on receiving for it.  Later some other thread *)
(* cleans the socket up and frees it.                                      *)
(*                                                                         *)
(* Sections with interrupts off are taken as atomic.  The bytes, the       *)
(* sender's address and empty datagrams are left out.                      *)
(***************************************************************************)
EXTENDS SoclRecv

CONSTANTS
  UdpMax,   \* udpdata.size_max
  MaxGrams  \* bound: datagrams received

ASSUME UdpAssumption == UdpMax \in Nat /\ MaxGrams \in Nat

VARIABLES
  kind,     \* flag_mode: "TCP" or "UDP"
  grams,    \* the queue from udpdata.out on
  held,     \* udpdata.size
  rcvbufp,  \* cps_socket.rcvbufp
  life,     \* "open", "closed": in the trash, "flushing", "cleaned", "freed"
  sleeper,  \* the reader asleep on udpdata.waiting; in_use lets in no other
  woken,    \* the reader woken from there that has not run yet
  received, \* bound: datagrams taken from the system
  accepted, taken, \* history: datagrams queued and taken from the queue
  inside,   \* history: readers yet to look at the queue when it was cleaned
  big, dropped \* history: a datagram of over half of rcvbuf; one not queued

queueVars == <<grams, held, accepted, taken>>
sleepVars == <<sleeper, woken>>
threadVars == <<rcvbufp, received, big, dropped>>
udpVars == <<queueVars, sleepVars, threadVars, life, inside>>
streamVars == <<cpsVars, gotVars, consumed, queue, hpc, seen, late, refused>>
allVars == <<vars, udpVars, kind>>

UdpInit ==
  /\ grams = <<>> /\ held = 0 /\ rcvbufp = 0 /\ life = "open"
  /\ sleeper = NoReader /\ woken = NoReader /\ received = 0
  /\ accepted = 0 /\ taken = 0 /\ inside = {} /\ big = FALSE /\ dropped = FALSE

-----------------------------------------------------------------------------
(* A datagram taken by the callback (memory may be out), or refused.         *)
Queue(n, size) ==
  /\ held + n <= UdpMax
  /\ grams' = Append(grams, [id |-> accepted + 1, size |-> n, whole |-> n = size])
  /\ held' = held + n /\ accepted' = accepted + 1
  /\ UNCHANGED <<taken, dropped>>
Refuse == dropped' = TRUE /\ UNCHANGED queueVars

(* Mutant: rcvbufp is not reset for a datagram that was queued.              *)
UdpRecvCallbackFull(n, size) ==
  \/ Queue(n, size) /\ rcvbufp' = rcvbufp + n
  \/ Refuse /\ rcvbufp' = rcvbufp + n
(* SOCLi_UdpRecvCallback, and the thread's rcvbufp += n after it.            *)
UdpRecvCallback(n, size) ==
  \/ Queue(n, size) /\ rcvbufp' = n
  \/ Refuse /\ rcvbufp' = rcvbufp + n

Wakeup == /\ sleeper' = NoReader
          /\ woken' = IF sleeper # NoReader THEN sleeper ELSE woken

(* The socket thread: recv takes the next datagram and as much of it as      *)
(* there is room for, which is lost if there is none.                        *)
RecvGram(size) ==
  LET n == Least(size, RcvSize - rcvbufp)
  IN /\ life # "freed" /\ received < MaxGrams
     /\ received' = received + 1
     /\ big' = (big \/ 2 * size > RcvSize)
     /\ \/ n = 0 /\ UNCHANGED <<queueVars, sleepVars, rcvbufp, dropped>>
        \/ n > 0 /\ UdpRecvCallback(n, size) /\ Wakeup
     /\ UNCHANGED <<vars, life, inside>>

-----------------------------------------------------------------------------
(* SOCLi_ReadUdpBuffer by the holder of in_use.                              *)
UdpReturn(r, value) ==
  /\ pc' = [pc EXCEPT ![r] = "unlock"]
  /\ result' = [result EXCEPT ![r] = value]
  /\ UNCHANGED sleeper

(* A look at the queue: its first datagram is copied, and taken off unless   *)
(* the reader peeks; else the reader sleeps, or is told that it would.       *)
LookAtQueue(r) ==
  \/ /\ grams # <<>>
     /\ UdpReturn(r, Head(grams).size)
     /\ IF noconsume THEN UNCHANGED queueVars
        ELSE /\ grams' = Tail(grams) /\ held' = held - Head(grams).size
             /\ taken' = taken + 1 /\ UNCHANGED accepted
  \/ /\ grams = <<>> /\ ~req[r].block
     /\ UdpReturn(r, WouldBlock) /\ UNCHANGED queueVars
  \/ /\ grams = <<>> /\ req[r].block
     /\ sleeper' = r
     /\ UNCHANGED <<queueVars, pc, result>>

(* Up to the first sleep the state of the socket is not looked at.           *)
ReadUdpBuffer(r) ==
  /\ pc[r] = "copy" /\ sleeper # r /\ woken # r /\ life # "freed"
  /\ LookAtQueue(r)
  /\ UNCHANGED <<woken, streamVars, noconsume, owner, req, threadVars, life, inside>>

(* Mutant: nor is it behind one.                                             *)
WakeFromSleepBlind(r) ==
  /\ woken = r /\ woken' = NoReader /\ life # "freed"
  /\ LookAtQueue(r)
  /\ UNCHANGED <<streamVars, noconsume, owner, req, threadVars, life, inside>>
(* Back from OS_SleepThread, interrupts still off: the read fails if the     *)
(* socket has left the list or its state was cleared, or else looks again.   *)
WakeFromSleep(r) ==
  /\ woken = r /\ woken' = NoReader /\ life # "freed"
  /\ IF life = "open" THEN LookAtQueue(r)
     ELSE UdpReturn(r, Invalid) /\ UNCHANGED queueVars
  /\ UNCHANGED <<streamVars, noconsume, owner, req, threadVars, life, inside>>

UdpReaderStep(r) ==
  \/ ReadUdpBuffer(r) \/ WakeFromSleep(r)
  \/ life # "freed" /\ (Lock(r) \/ Unlock(r)) /\ UNCHANGED udpVars

-----------------------------------------------------------------------------
(* SOCLi_CloseCallBack takes the socket out of the list of sockets.          *)
CloseCallBack ==
  /\ life = "open" /\ life' = "closed"
  /\ UNCHANGED <<vars, queueVars, sleepVars, threadVars, inside>>

(* SOCLi_CleanupSocket: state = 0, then the queue is freed, ...              *)
CleanupSocket ==
  /\ life = "closed" /\ life' = "flushing"
  /\ inside' = {r \in Readers : pc[r] \in {"lock", "copy"} /\ r \notin {sleeper, woken}}
  /\ UNCHANGED <<vars, queueVars, sleepVars, threadVars>>

(* ... its pointers are cleared and the readers woken, ...                   *)
EmptyQueue ==
  /\ life = "flushing" /\ life' = "cleaned"
  /\ grams' = <<>> /\ held' = 0 /\ Wakeup
  /\ UNCHANGED <<vars, accepted, taken, threadVars, inside>>

(* ... and, with its pipe, the socket is freed.  From there on what a reader *)
(* still in a call or the socket thread does is not followed.                *)
FreeSocket ==
  /\ life = "cleaned" /\ life' = "freed"
  /\ UNCHANGED <<vars, queueVars, sleepVars, threadVars, inside>>

UdpNext ==
  \/ \E size \in 1 .. RcvSize : RecvGram(size)
  \/ \E r \in Readers :
       \/ \E block \in BOOLEAN, peek \in BOOLEAN :
            life = "open" /\ ReadFrom(r, 1, block, peek) /\ UNCHANGED udpVars
       \/ UdpReaderStep(r)
  \/ CloseCallBack \/ CleanupSocket \/ EmptyQueue \/ FreeSocket

(* A read of either kind of socket; the dispatch is socl_read.c:99.          *)
IsTCP == kind = "TCP" /\ UNCHANGED <<kind, udpVars>>
ReadInit == Init /\ UdpInit /\ kind \in {"TCP", "UDP"}
ReadNext == \/ IsTCP /\ Next
            \/ kind = "UDP" /\ UNCHANGED kind /\ UdpNext

ReadSpec ==
  /\ ReadInit /\ [][ReadNext]_allVars
  /\ WF_allVars(IsTCP /\ HandlerStep)
  /\ \A r \in Readers : WF_allVars(IsTCP /\ ReaderStep(r))

-----------------------------------------------------------------------------
UdpTypeOK ==
  /\ kind \in {"TCP", "UDP"}
  /\ grams \in Seq([id : 1 .. MaxGrams, size : 1 .. RcvSize, whole : BOOLEAN])
  /\ held \in Nat /\ rcvbufp \in 0 .. RcvSize
  /\ life \in {"open", "closed", "flushing", "cleaned", "freed"}
  /\ {sleeper, woken} \subseteq Readers \cup {NoReader} /\ inside \subseteq Readers
  /\ {received, accepted, taken} \subseteq 0 .. MaxGrams
  /\ {big, dropped} \subseteq BOOLEAN

(* held is the last of the running sums of the sizes.                        *)
HeldIsSum ==
  \E sum \in [0 .. Len(grams) -> 0 .. UdpMax] :
    /\ sum[0] = 0 /\ sum[Len(grams)] = held
    /\ \A i \in DOMAIN grams : sum[i] = sum[i - 1] + grams[i].size

(* The queue holds the datagrams that were accepted and not taken, in their  *)
(* order, and size is what they add up to, so that a reader never shrinks    *)
(* the room for later ones (socl_read.c:406-415, 430-453).  And as long as   *)
(* no datagram was over half of rcvbuf and none was refused, none was cut:   *)
(* the callback takes back the bytes before a datagram it queues, but its    *)
(* own stay in the way of the next, and those of a refused one for longer    *)
(* (socl_read.c:442, network.c:297-307).                                     *)
GramsKept ==
  /\ UdpTypeOK
  /\ life \in {"open", "closed", "flushing"} =>
       /\ Len(grams) = accepted - taken
       /\ \A i \in DOMAIN grams : grams[i].id = taken + i
       /\ HeldIsSum
       /\ ~big /\ ~dropped =>
            2 * rcvbufp <= RcvSize /\ \A i \in DOMAIN grams : grams[i].whole

(* A reader sleeps only while there is no datagram, and is not left asleep   *)
(* when the socket is cleaned up, be it asleep or just woken then.  Excepted *)
(* is a call that had not looked at the queue by then: it waits for in_use   *)
(* or has just got it, and the loop tests the state only behind a sleep, so  *)
(* it goes to sleep on a queue that nobody wakes (socl_read.c:71-77,         *)
(* 380-392, socl_close.c:97-115).                                            *)
NobodyForgotten ==
  sleeper # NoReader =>
    /\ pc[sleeper] = "copy" /\ owner = sleeper
    /\ grams = <<>> \/ life = "freed"
    /\ life \in {"open", "closed", "flushing"} \/ sleeper \in inside
=============================================================================
