# A TLA+ verification of NitroWiFi

NitroWiFi is a WiFi stack for the Nintendo DS written in C: a socket library
(SOCL), a TCP/IP stack (CPS), a connection manager for access points (WCM) and
an SSL client. It also builds for a desktop ("port"), where OS threads run in
parallel. This directory holds TLA+ models of it, TLC configurations that check
them on small instances, and proofs checked by TLAPS. The repository has no
documentation or tests, so every definition is read off the code.

## 1. The system

| component | state it keeps | operations | who it talks to |
|---|---|---|---|
| SOCL send side (`socl_write.c`, `socl_shutdown.c`) | write ring (`in`, `out`, `area`), `in_use`, `buffer.waiting` | `SOCL_WriteTo`, `SOCL_Shutdown`, the write and shutdown handlers | send pipe's queue and thread, packet pool, `CPS_SocWrite` |
| SOCL command pipes (`socl_command.c`, `socl_close.c`) | packet pool, a message queue and a thread per pipe, trash list | create, send, execute, answer a command; close, trash, drain, free | application threads, CPS scavenger |
| SOCL receive side (`socl_read.c`, `socl_poll.c`) | `consumed`, `flag_noconsume`, UDP datagram list, `in_use` | `SOCL_ReadFrom`, consume, UDP callback, `SOCL_GetStatus` | CPS receive buffer, receive pipe |
| SOCL life cycle (`socl_create.c`, `socl_bind.c`, `socl_listen_accept.c`, `socl_ssl.c`, `socl_list.c`, `socl_cleanup.c`, `socl_startup.c`) | status bits, socket list, trash list, the shared UDP-send socket | create, bind, connect, accept, enable SSL, close all, calm down, startup | pipes, CPS, WCM |
| SOC API (`soc.c`, `socl_const.c`, `socl_misc.c`, `socl_resolve.c`) | none of its own | argument and error conversion | SOCL |
| WCM (`system.c`) | phase, pending notification, reset flag | init, startup, search, connect, disconnect, terminate, cleanup; WM callbacks and indications | WM driver, application callback |
| WCM list (`aplist.c`) | fixed buffer of access points, lock | clear, lock, enter, search | WCM scan callback, application |
| WCM/CPS interface (`cpsif.c`) | one send buffer, mutex, sleep queue, keep-alive alarm | send a frame, receive callback | CPS, WM |
| CPS (`network.c`) | sockets, receive buffers, ARP cache, fragment table, port thread | TCP/UDP/IP/ARP/DNS | WCM, SOCL |
| SSL (`ssl.c`, `sha1.c`, `md5.c`, `arc4.c`, `biginteger.c`) | connection, session cache | handshake, read, write | CPS |

What is hard here:

* **Threads.** On the DS a section with interrupts off is atomic, except where
  it sleeps (`OS_SleepThread`, `OS_JoinThread`, a blocking queue). Everything
  else interleaves: application threads, two command threads per socket, the
  CPS thread and its scavenger, WM callbacks in interrupt context.
* **Limits.** The packet pool (64), the queues (32), the write ring, the UDP
  list and the access point list fill up, and each full case has a blocking and
  a nonblocking path, some with a rollback.
* **Ending.** A close is a chain (NULL message, close command, join, second
  NULL, trash list, drain, free) during which calls that passed their checks
  earlier still arrive.
* **Order.** Bytes, commands and FIN share one queue per direction; the phase
  machine of WCM gets answers to operations it may have given up on.

What makes each component correct is stated in section 3, under the module that
models it. What section 5 leaves out either has no state of its own or is code
that no build of this repository enters.

The hazards are listed in `PROJECT.json` at the lines where they bite, with the
properties that cover them.

## 2. Plan

Order of work; * marks what exists.

1. `SoclSend`* and its abstract specification `ByteStream`*.
2. `SoclPipe`*: command pipes, close and drain.
3. `WcmPhase`*: the phase machine of `system.c` with the WM driver as environment.
4. `SoclRecv`*: TCP receive buffer, `consumed`, peek, read and consume commands;
   refines `ByteStream`. `SoclUdp`*: the datagram queue beside it, on the desktop port.
5. `SoclLife`*: the lists, two closers, two cleaners, startup, `SOCL_CalmDown` and
   the scavenger. `SoclConnect`*: the status bits as loads and stores, and every
   call that tests them.
6. `WcmApList`* and its abstract specification `ApCache`*; `WcmSend`*.
7. `PortNet`*: the table of sockets and the socket thread of the port.
   `Resolver`*: names and the DNS client above it.
8. Proofs: every safety property, action property and refinement that a run checks
   (section 4)*. The liveness properties stay with TLC.

A model of the TCP input and the tables of the decompiled DS stack, once planned,
was given up: no build enters that code (section 5).

Every module takes its sizes as CONSTANTS with a named ASSUME, has one action
per step of the code that other threads can separate, and uses no RECURSIVE
operator. Several modules look at one object from different sides. `SoclSend` has
the data of the send commands and abstracts the close; `SoclPipe` has the whole
close of one socket and abstracts the data; `SoclLife` has all sockets and the
library around them and abstracts the commands; `SoclConnect` has the status bits
that the calls of one socket test. `SoclUdp` extends `SoclRecv`, and `Resolver`
takes of `PortNet` the delivery of a datagram.

## 3. What is modelled and checked

### SoclSend: the send side of a socket

| state | code |
|---|---|
| `ring`, `in`, `out` | `send_pipe->buffer.area`, `.in`, `.out` |
| `queue`, `pool` | `send_pipe->h.queue`, `SOCLiCommandPacketQueue` (a count) |
| `owner`, `pc`, `call` | `h.in_use`, where each `SOCL_WriteTo` is, its arguments |
| `hpc`, `job`, `chunk` | where the send thread is, the pieces of the command it runs, the CPS send buffer |
| `spc`, `cpc` | where `SOCL_Shutdown` and `SOCL_Close` are |
| `head`, `tail`, `posted`, `passed`, `completed`, `promised`, `finAt`, `wire`, `lossy` | history: stream positions, used by properties only |

A byte is its position in the stream, so a byte overwritten, reordered or sent
twice is visible. Each section the code runs with interrupts off is one action;
the copy into the ring, the packet, and the send are separate actions, so the
send thread moves between them. `CPS_SocWrite` is external: it takes any prefix
of a TCP chunk (none after the FIN), and all or nothing of a datagram.

Run `send` (`MCSoclSend.cfg`): two writers (interchangeable, so symmetric), ring
of 3, send buffer of 2, queue of 2, pool of 3, another socket that takes a
packet, writes of 1 and 2 bytes (2 is all the ring holds, so that a write behind
another is split by the free space), four bytes in all. That is enough to wrap,
to split over two pieces and two chunks, to fill ring, queue and pool, and to
write again after a rollback while the thread frees cells.

* `SendSound`: indices, lengths and the queue stay in range, and the bytes between
  `out` and `in` are the ones their writers put there (`TypeOK`, `RingIntact`).
* `PacketsConserved`: no early return loses or frees twice a packet.
* `FlushBeforeFin`: writes that returned before `SOCL_Shutdown` was called
  precede the FIN.
* `DatagramWhole`: a datagram is never cut.
* `StreamSpec`: the model implements `ByteStream`, an ordered stream in which
  bytes are accepted at one end and delivered or, from a failed or short
  `CPS_SocWrite` on, dropped at the other.

Run `send_live` (one writer, lengths 1 and 3, four bytes): `CallsReturn`, a
writer gives `in_use` back and a blocking shutdown returns, both unless the
socket is closed under them. Fairness: weak, on each library
thread's steps and on the return of packets by other sockets. The code justifies
it because every step it covers is either running code or a wait that the
handler's wake-up ends; no call by the application is assumed. Deadlock is not
checked: after a close the NULL ends the thread, and a writer that races the
close sleeps until the pipe is drained, which is `SoclPipe`'s subject.

### SoclPipe: commands, close, drain

| state | code |
|---|---|
| `free` | `SOCLiCommandPacketQueue`, a FIFO of packets |
| `pkt` | `SOCLiCommandPacketHeader`: `by` and `reply` stand for `response` |
| `queue`, `hpc` | the queue and the thread of the receive and the send pipe |
| `cpc`, `call`, `answer` | callers, their command, and the response they got |
| `closing`, `kpc`, `kpkt` | status bits and position of `SOCL_Close` |
| `place` | `SOCLiSocketList`, `SOCLiSocketListTrash`, freed |
| `drained`, `tpc` | progress of `SOCLi_TrashSocket` |

The socket modes own different pipes: TCP both, UDP-send the send pipe. A UDP
socket owns the receive pipe on the console, where it borrows the send pipe of the
UDP-send socket (mode `UDP`), and both in every build without `SDK_BUILD_ARM`
(`PORT_UDP`; `socl_const.c:35-64`, `socl_create.c:180`). The code ends, joins and
empties both pipes of a TCP socket, but only the receive pipe of any UDP socket
(`Stopped`). A command is described by its pipe, its `flag_block`, whether it runs
with `in_use` held, whether the caller tested CLOSING, and whether its handler waits
for the peer. The test, the lock of `in_use` and the command are separate steps, so
commands arrive behind the close command, behind the NULL, and after the drain.

Run `pipe`: two callers, three commands, two-entry queues, three packets; all
modes; both queues and the pool fill.

* `PacketsConserved`: types, and every packet is in exactly one place.
* `WaitersQueued`: whoever waits for a response has its packet in the queue, and
  every packet that will be answered belongs to somebody who waits: no response
  is lost and none goes to a stack frame that is gone.
* `AnswerTrue`: a result means that the command ran once, ECANCELED that it
  never ran.
* `CloseInOrder`: the connection is closed only after the commands accepted
  before the NULL are done, no pipe is emptied under its running thread, and no
  thread of the socket is left when its memory is freed. The last has one exception,
  which the model reaches: a `PORT_UDP` socket's own send thread, which nobody ends or
  joins (`socl_close.c:48`, `:66`, `:100`).

Run `pipe_live` (two commands): `WaitsEnd`, a blocking command queued before the
drain is answered and a closed socket is freed; left out is a shutdown in the send
pipe of a `PORT_UDP` socket, which is freed without being emptied. The run assumes
that no thread is obstructed for good, in one of the two ways the code allows: a handler that waits
for a peer that stays silent, and a close command that waits for room in its own
full queue (`socl_close.c:77`; TLC reaches it with a queue of two, the code has
32). Fairness: weak, on library threads, the close under way, and the cleaner (CPS
calls the scavenger periodically on the console; the port has it commented out, so
there the run says what happens once the library is cleaned up); none on the peer or
the application. Deadlock is not checked because these obstructions stop the system.

Not covered: what a send thread left behind does with freed memory. One closer and
one cleaner are modelled; `SoclLife` has two of each. A sender that sleeps on a full queue while the pipe is drained puts its message into
a dead queue and is never answered; `WaitsEnd` leaves that caller out on purpose
(`drained`). The pool is large enough for all commands of the live run, as 64
packets are for a queue of 32.

### SoclRecv: reading a TCP socket

| state | code |
|---|---|
| `rcvbuf`, `established` | `cps_socket.rcvbuf` up to `rcvbufp`, `cps_socket.state` |
| `consumed`, `noconsume`, `owner`, `queue` | the receive pipe: `consumed`, `flag_noconsume`, `h.in_use`, `h.queue` |
| `connected` | `SOCL_STATUS_CONNECTED` |
| `pc`, `req`, `result` | where each `SOCL_ReadFrom` is, its arguments, what it got |
| `hpc`, `seen` | where the receive thread is, `consumed` as `SOCLi_ReadCallBack` read it |
| `arrived`, `next`, `got`, `late`, `refused` | history, used by properties only |

A reader copies in its own thread, with interrupts off; the receive thread
removes what was copied, later and only from `consumed_min` on. The look of
`SOCLi_ReadCallBack` at the buffer and its look at the state are two actions, as
are the test and the post of a consume command. `Arrive` and `PeerEnds` are CPS
input, after `dt_ack`, `dt_fin` and `dt_rst`: a FIN counts when all before it has
been taken. A consume command may be refused at any time, because the pool is
shared with other sockets. `CPS_SocRead`'s sleep ends when its condition holds.

Run `recv` takes this module and `SoclUdp` together (`MCSoclUdp.cfg`); the kind of
socket is chosen at the start. Two readers with calls of one and two bytes,
blocking or not, reading or peeking, without end; a buffer of three, consumed from
two on; a queue of two; four bytes. So the buffer fills, is emptied in part and in
full, commands are refused by a full queue, and bytes arrive behind consumed ones.

* `RestIsUnread`: types (among others, `consumed` never passes the end of the
  buffer), and the uncopied part of the buffer is what no reader was given.
* `EofTrue`: a waiting reader is told the end of the stream only when nothing is
  left. The code has one way around it, which the property excepts and the model
  reaches: last bytes and FIN between the two looks (`socl_read.c:270`, `:275`).
  The reader gets 0, and another read would still get the bytes.
* `StallOnlyRefused`: a full buffer of bytes already read is left standing only if
  a consume command was refused. That case is real: reads of either kind find
  nothing to copy and send no further consume command, so CPS never has room
  again and the connection stalls until the peer ends it.
* `StreamSpec`: the model implements `ByteStream` with nothing lost.
* `ReadReturns`: a waiting reader with something to read, or nothing more to come,
  is answered. Fairness: weak, on the receive thread and on calls under way; none
  on the peer or on new calls.

Not covered: the SSL branches, in which `consumed` is not used; binding anew;
a TCP reader in the desktop port, where `OS_DisableInterrupts` does not exclude
the thread that appends to the buffer (`network.c:304`; `PortNet` shows what comes
of it). Deadlock is not checked: readers wait for a silent peer.

### SoclUdp: reading a UDP socket

| state | code |
|---|---|
| `grams`, `held` | the list from `udpdata.out` on, `udpdata.size` |
| `rcvbufp` | `cps_socket.rcvbufp`, which the socket thread and the callback both write |
| `sleeper`, `woken` | who sleeps in `udpdata.waiting`, who was woken from there |
| `life` | the socket is listed, in the trash, being emptied, emptied, freed |
| `accepted`, `taken`, `inside`, `big`, `dropped` | history, used by properties only |

It extends `SoclRecv`, whose lock and calls the UDP reader shares, and models the
desktop port: the socket thread takes a datagram from the system behind the
`rcvbufp` bytes of `rcvbuf` and calls the callback. Sections with interrupts off
are taken as atomic there too (what `OS_DisableInterrupts` is in the port is
outside the repository). The run adds up to four datagrams of one to three bytes,
a list of three bytes, and a close and cleanup at any time.

* `GramsKept`: the list is a FIFO of what was accepted and not taken, `size` is
  what it adds up to, and nothing is cut while datagrams are at most half of
  `rcvbuf` and none was refused. The two exceptions are real. The callback sets
  `rcvbufp` back by what was there, and the thread then adds the length, so a
  queued datagram's own length stays in the way of the next one, which is cut to
  what is left; and a refused one stays until the buffer is full, when `recv` of
  length 0 throws every later datagram away.
* `NobodyForgotten`: a reader sleeps only on an empty list, and whoever was asleep or
  just woken when the cleanup began does not go on sleeping: the return of
  `OS_SleepThread`, the test of the state and the new look at the list are one section
  with interrupts off, hence one action (`WakeFromSleep`). Excepted is a reader that
  had not looked at the list by then (it waited for `in_use` or had just got it): the
  loop looks at the state only after sleeping, so it goes to sleep for good.

Not covered: the sender's address (`recv` does not give one, and the bound address
is reported); the result, which is the datagram's length even if the caller's
buffer is smaller; what a reader does with a socket that was freed under it. The
UDP part has no fairness, so its properties are invariants.

### SoclLife: the library and its sockets

| state | code |
|---|---|
| `config`, `udpsend`, `pool` | `SOCLiConfigPtr`, `SOCLiUDPSendSocket`, packets in `SOCLiCommandPacketQueue` |
| `list`, `trash` | `SOCLiSocketList`, `SOCLiSocketListTrash` |
| `mode`, `status` | `flag_mode`; the CREATE and WAIT_CLOSE bits |
| `queue`, `ctl`, `snd` | the control pipe's messages and thread, the send thread |
| `pc`, `at`, `ret` | where each thread is, about which socket, and where it goes on |
| `force` | `scavenger_force_exit` |
| `corrupt`, `overlapped`, `failed` | history |

Sockets are slots of memory that the allocator gives again. `SOCL_CloseAll` and
`SOCL_CalmDown` run while other threads are inside calls, and `SOCLi_TrashSocket`
is run by the scavenger and by the thread that cleans up. Allocation may fail.
The scavenger is the console's (`network.c:2271`); the port has its callback
commented out (`network.c:2374`), so there only the thread that cleans up frees.
UDP sockets are the console's too: the send thread that they have in other builds
outlives its socket and the cleanup (`CloseInOrder` of `SoclPipe`).

Run `life`: two slots (the UDP-send socket and one more), two threads, a pool of
one packet, so that creates and closes wait for it. A behaviour ends when memory
is misused.

* `MisuseOnlyRaced`: no use of a freed socket and no socket twice in the trash,
  except with two threads between the test and the update of WAIT_CLOSE
  (`socl_close.c:42`), two cleaners asleep in `OS_JoinThread` on one thread
  (`:146`), or after a failed startup (`socl_startup.c:42`).
* `CleanIsEmpty`: the pool is whole when it is freed, and nothing runs or exists
  when the library lets go of its configuration.
* `CleanupEnds`: `SOCL_Cleanup` ends, unless memory was misused or
  `SOCL_Startup` had stored SOCL_ENOMEM as the UDP-send socket, which
  `SOCL_CalmDown` can neither close nor find closed. Fairness: weak, on library
  threads, the cleanup and the scavenger; strong on the waits for a packet, which
  others may take in between; none on calls of the application.

Deadlock is not checked: a misuse ends a behaviour, and an application may rest.

### SoclConnect: the status bits of a TCP socket

| state | code |
|---|---|
| `status`, `reg` | `state`, and what a thread has loaded of it |
| `at` | the call or handler each thread is in, and its step |
| `in_use`, `rq`, `sq` | the lock of the receive pipe, the two queues |
| `cps`, `data`, `fin` | the CPS socket, a byte unread, a FIN asked for |
| `listed`, `closes`, `block` | in `SOCLiSocketList`, close commands so far, `flag_block` |
| `race` | history: stores torn, calls overtaken, commands refused |

`state |= X` is a load and a store; a call's tests and its effects are separate
steps. A store is torn if the bits changed since its load, a call is overtaken if
its tests would fail by now. The code gives no promise after that, so a behaviour
is followed until then, except that a second closer is followed on.

Run `connect`: two (symmetric) threads that make any of eight calls, a receive
pipe of three and a send pipe of one.

* `NoLockCycle`: a handler that locks `in_use` in the receive thread
  (`socl_bind.c:108`) never waits for a reader that waits for the receive thread.
* `ClosedForGood`: one close command, `WAIT_CLOSE` stays, and a closed socket is
  not connected again. The exception is two closers. There is a way back without
  a race, which ends in the exception: a failed write clears the CLOSING of a
  close under way (`socl_write.c:349`), and connect and accept do not look at
  `WAIT_CLOSE`.
* `BitsBacked`: CONNECTING and CLOSING announce something that is under way or was
  done. The exceptions: a nonblocking connect whose command was refused still says
  EINPROGRESS and leaves CONNECTING (`socl_bind.c:67`); a shutdown refused for want
  of a packet leaves CLOSING and sends no FIN (`socl_shutdown.c:33`).

The model also shows that CONNECTING is never cleared, so that
`SOCL_EnableSsl` works only before a connect, and that `SOCL_Accept`'s tests do not
include CLOSING or CONNECTED. Not covered: the new socket of an accept (`SoclLife`
has one leaked by `SOCL_Accept`). Deadlock is not checked: threads wait for the peer.

### WcmPhase: the connection manager

| state | code |
|---|---|
| `ready` | `wcmw` is not NULL |
| `phase`, `notifyId`, `resetting` | the fields of `WCMWork` |
| `authId`, `wlStatus`, `rateSet` | whether the association id is set, the refused status is the one for rates, the camouflage rates are included |
| `scanEx` | where `WcmWmcbScanEx` is: it notifies in its middle |
| `wm`, `link`, `requests`, `replies`, `faults` | the WM driver (external): its state, the link, requests and callbacks in flight, faults so far |
| `due`, `notice`, `slip` | history: requests not answered, the last notice, known holes stepped into |

A call runs with interrupts off and a callback in the driver's interrupt, so each
is one action. The driver answers a request at once (accepted, FIFO error,
illegal state), runs accepted ones in order, and reports; it may refuse or fail
`MaxFaults` legal requests, a connection attempt may be refused, and the link may
be lost at any time, in any driver state the callbacks provide for.

Which of `WM_StartDCF` and `WM_EndDCF` are called depends on macros: without
`SDK_PORT` the first is left out and every connection ends in FATAL_ERROR;
without `SDK_BUILD_ARM` the second is, and its result is read uninitialized. The
repository's builds define one of the two. The macros are the constant `Builds`,
and the run takes both builds and a third one with both macros, the only one in
which the disconnect callbacks are reached.

Run `wcm`: all three builds, two faults (one to leave the normal path, one in the
recovery from it).

* `RestIsQuiet`: types; in phase WAIT, and after `WCM_Finish`, the driver is off and
  has no callback left (callbacks use `wcmw` without looking); in IDLE nothing is
  under way, so that a callback belongs to the call that is being served.
* `ResetBacked`: the reset flag stands for a reset under way.
* `DcfJoined`: a connection in use is real, or its loss is about to be reported.
* `RestIsAnswered`: accepted requests are notified before the program rests, which it
  does (`AtRest`) in IDLE, WAIT and SEARCH, in DCF with no reset on its way, and in
  IRREGULAR when the driver owes no callback and no request was abandoned.
* `NoticeTrue`: a notice of success is given in the phase it promises.
* `Settles`: every transitional phase ends (no endless retry, no lost callback).
  Fairness: weak, on the driver and on the delivery of its callbacks; none on the
  application and none on the loss of links.

The properties name what the code does not keep, and the model shows each case:

* `WCM_TerminateAsync` sets `resetting` before `WM_Reset`; refused, it stays set,
  and a later disconnect or terminate waits for ever (`system.c:787`).
* In IRREGULAR, `WCM_TerminateAsync` may overtake a connection request; the DCF
  callback then makes the phase DCF and notifies TERMINATE with success.
* A reset that completes in IRREGULAR reports success whatever was asked; after an
  association id out of range and a loss of the link that is CONNECT (`:1882`).
* Without `SDK_BUILD_ARM`, `WCM_DisconnectAsync` may be accepted with nothing under
  way (`:663`).
* A callback under way when a call returned FATAL_ERROR may still notify success.

Not covered: scan parameters and option bits; the keep-alive alarm, which no guard
of the phase machine reads, is in `WcmSend`. Deadlock is not checked: FATAL_ERROR is final, and a request abandoned in one of the ways above
leaves nothing to do.

### WcmApList: the access points a search found

| state | code |
|---|---|
| `buf` | the header and the blocks in `config.pbdbuffer`; NULL is 0 |
| `exchange` | `config.nbdmode` |
| `apListLock` | the field of `WCMWork` |
| `held` | the values the application got from `WCM_LockApList` and is to restore |
| `bd`, `snapshot` | the pointer from `WCM_PointApList`, and what it showed (history) |

Entries come from the scan callback in the interrupt, one action each; the
application locks, nests locks (each restored with the value it was given),
points and reads, and clears or restarts when it holds no lock. The lock does not
count, so a second thread that took and restored it out of nesting order would
unlock the list under the first, and `WCM_ClearApList` does not look at it: the
model has the one well-nested reader that interface is made for.

Run `aplist`: four (symmetric) access points, three blocks, two link levels, both
modes, locks nested twice: one access point more than fits, so that the list is
full, ignores or replaces, and moves blocks from its head, middle and tail.

* `ListWhole`: types; chain, backward links, count, indexes and BSSIDs agree.
* `ReadStable`: what the application points at does not change until it restores
  its outermost lock.
* `LruSpec`: the list implements `ApCache`, the access points last seen, in order.

Deadlock is checked: an entry or a lock is always possible.

### WcmSend: frames through one buffer

| state | code |
|---|---|
| `connPhase`, `connResetting`, `alarm` | fields of `WCMWork`, `keepAliveAlarm` |
| `mutex` | `sendMutex`: holder and count; the holder may be the dummy thread of the interrupt |
| `pc` | where each `WCM_SendDCFData` is, asleep in the mutex or in `sendQ` included |
| `sendBuf`, `sendResult` | whose frame is in the one buffer, the last answer |
| `frames`, `nulls` | what the WM driver (external) holds |
| `answer` | history: the driver's answer to each thread |

A stretch between two sleeps is one action, since a call runs with interrupts off.
The alarm sends an empty frame from an interrupt in the name of a thread that does
not exist, and may do so again before the first is answered. Assumed of the driver:
it answers each frame it accepted, and is powered off only when it has.

Run `wcmsend`: three symmetric threads (one sends, one waits, one was woken between
them) and two empty frames.

* `FrameWhole`: while the driver holds a thread's frame the buffer still has it, and
  a woken thread reads the answer to its own frame.
* `NeverStuck`: the mutex is held by a thread or by the interrupt only while the
  driver has something to answer, nobody waits for a free mutex, and a
  connection keeps its keep-alive alarm. (A thread may still be overtaken for ever:
  freedom from starvation is not claimed, the code wakes all and the first wins.)

Deadlock is checked. Not covered: the getters, the receive callback, and the
port's build of the file, which has no WM driver.

### PortNet: the sockets of the desktop port

| state | code |
|---|---|
| `array`, `total` | `WIN_SocketArray`, `WIN_SocketTotal` |
| `stop`, `handle`, `startup` | `s_stopSocThread`, `WIN_socThread`, the holder of `s_SocketThreadStartupMutex` |
| `tpc`, `ready`, `slot`, `got`, `loaded` | where the socket thread is, what its `select` gave, the slot it looks at, what it received |
| `pc`, `arg` | where the caller on each socket is |
| `open`, `bound`, `established` | the fields of `CPSSoc` |
| `mem`, `rcvbufp` | the receive buffer |
| the others | history |

The operating system's sockets are external: `recv` gives any number of bytes,
`sendto` takes any prefix or fails. Every step that another thread can separate is
an action: the join of the old thread, the change of the array, the start of the
new one, the look, the receive and the count.

Run `portnet`: two sockets created, bound, bound anew and released in any order,
bytes on one of them, one slot more than sockets, one retry (the code has five).

* `TableSound`: the count and the array agree; a slot is overwritten only after
  a release out of order; the array is passed only with lost slots, a
  socket in two of them, or one in it that is bound again; the thread's look is torn only by a release under which
  another call had started the thread.
* `Heard`: a bound socket is received for and has a running thread, unless another
  was put in its slot or `CPS_Cleanup` left the word to stop behind.
* `BytesWhole`: the buffer is what was received and not consumed, unless a consume
  and a receive ran at once; a write returns 0 exactly if nothing was taken.

Each exception is something the code does. A new socket goes to slot `total`, which
after a release out of order is somebody's. A socket bound again takes a second slot
(a UDP-send socket with alternating destinations does). The release gives the mutex
back before it changes the array. `CPS_Cleanup` leaves `s_stopSocThread` set, so the
first thread after a restart ends at once (and `send_udp`'s wait for `s_SocThreadReady`,
not modelled, would not end). `rcvbufp += n` in the thread and
the move in a consume hold different locks, or none. A partial `sendto` is reported
as the whole; after `EAGAIN` and failed attempts to connect again, as 0.

A behaviour ends with the array passed or torn. Deadlock is not checked. Not
covered: a peer's close (it never changes the state of the socket in the port), a
connect that is retried for ever, UDP closes (they never release the socket).

### Resolver: names and addresses

| state | code |
|---|---|
| `dns`, `saved` | `CPSDnsIp`, the copy an `SOCL_InetAtoH` keeps |
| `eport`, `port`, `chosen` | the counter of `CPS_SocGetEport`, the port a thread's socket has, the one it was given |
| `pc`, `call`, `try`, `srv`, `alive`, `ret` | where each thread is in `SOCL_Resolve`, `CPS_Resolve` and `resolve_common` |
| `buf`, `len`, `flight` | datagrams in `rcvbuf`, how many were read, those under way |
| `dangling` | threads whose registered `CPSSoc` was freed |
| the others | history |

`SOCL_InetAtoH` sets the servers' addresses to 0, calls `CPS_Resolve` and sets them
back, with interrupts off, which is taken to keep no other thread out in the port.
A question or its answer may be lost, late, or of any kind; identifications are
taken as distinct.

Run `resolver`: two symmetric threads, one name each and any number of
`SOCL_InetAtoH`, one or two servers known and changed at any time, two rounds, two
ports (so that the counter comes round and two threads get the same port) and two
answered questions.

* `ResolveTrue`: an address returned is the one given for this very question, and 0
  is returned only if no good answer was heard, or it was read behind another
  datagram or came as the call gave up.
* `DnsKept`: the servers are those last set while no `SOCL_InetAtoH` runs, and it
  never asks a server; both unless it overlaps another or a `SOCL_SetResolver`.

What the exceptions are: `resolve_common` passes over as many names as there are
answer records, where it should pass over the questions, so only replies with one
record are read right; of several datagrams in one read only the first is parsed;
two overlapping `SOCL_InetAtoH` leave the servers 0, or have one use the freed
`CPSSoc` of an earlier resolve. Deadlock is checked.

## 4. What is proved

40 theorems in eight modules: all invariants, action properties and refinements that
the runs check. Each holds for all values of the constants that satisfy the module's
named assumption, and for nothing else assumed; each safety property is the
consequence of an inductive invariant, whose conjuncts are named below. TLC checked every one of these invariants on the run's instance before it was
proved.

**`SoclSendProofs`** (`SendAssumption` has the ring larger than the send buffer,
which `socl_write.c:110` asserts):

* `TypeCorrect` and `SendSafe`, `Spec => []SendSound`. `RingIntact` is not inductive:
  that the cells a writer fills are free, and that `FreeCells` sets `out` to where the
  next queued write begins, depends on where the queue, the draft and the running job
  are. `IInv` adds: the lock owner is the only writer past the lock (`Owned`); a draft
  starts at `in`, fits the free space computed from an `out` that only moves forward,
  and is split at the end of the area (`DraftInv`); queued writes tile the positions
  from `tail` to `posted`, each at the index of its position (`Positions`,
  `QueueInv`); the job is what is left of the head (`JobInv`). Arithmetic modulo the
  ring size is in `WrapWrap`, `FreeSizeIs`, `OldCell` and `NewCell`.
* `SendImplements`, `Spec => StreamSpec`. `Flow` adds that the queue has no gap
  (`Chain`) and that the pieces and the chunk of the running write are the next bytes
  of the stream (`Runs`, `JobAt`, `ChunkIs`). An allocation is an accept of
  `ByteStream`, `CPS_SocWrite` a pass or a drop, the rollback and all else a stutter.
* `FlushSafe`, with `Fin`: what a caller was told is written before the shutdown
  stands before it in the queue, and there is one shutdown.
* `DatagramSafe`, with `Whole`: no command is larger than the send buffer, so one pass
  of `SOCLi_MemCpy` takes it all, on both sides of the ring's end too.
* `PacketsSafe`: pool, queue (without NULL), writers and shutdown hold all packets;
  cardinalities over arbitrary sets of writers.

**`SoclPipeProofs`**: `TypeCorrect`, `PacketsSafe`, `WaitersSafe`, `AnswersSafe` and
`CloseSafe`, for any number of callers and packets and any queue size. `PipeInv` is:
no packet is in two places and each is in one (`Once`, `Placed`); what a packet that
is about to be sent says (`Sent`, `ClosePacket`); callers wait for queued packets that
answer them, and vice versa (`Waiting`); what is queued has not run (`RunsOnce`); what
each thread finds at the head of its queue (`Threads`); the close command is in the
control pipe (`Controlled`); threads end and memory goes in the order of the close,
where a socket is freed once the pipes in `Stopped` are emptied (`Ends`). `HeldAppend`, `HeldTail`, `HeldConcat` and `HeldSetToSeq` say what a queue
holds after each operation.

**`SoclRecvProofs`**. About the TCP reader (`SoclRecv!Spec`):

* `RecvSafe`, `Spec => []RestIsUnread`. `IInv` adds who may touch what: the readers
  past the lock are its owner, `flag_noconsume` is that reader's (`Holder`); a
  reader in the queue waits, hence is the owner, hence the only one there, and the
  receive thread works on the head (`Line`); and `RestIsUnread` byte by byte
  (`Rest`). The heart is `CopyStep`: whichever thread copies for the owner, the
  buffer behind `consumed` stays the rest of the stream, because `flag_noconsume`
  and the reader's peek flag agree.
* `RecvImplements`, `Spec => StreamSpec`: arrivals are posts and copies that do not
  peek are passes of `ByteStream`, everything else stutters.
* `EofSafe`, `Spec => []EofTrue`, with `Looks`: while the receive thread looks,
  nobody changes `consumed`, so its copy of it (`seen`) is still true.
* `StallSafe`, `Spec => []StallOnlyRefused`, with `Stall`, which says who will empty
  a drained buffer (`Coming`), and `Answers`: the answer to a read command is never
  an error, so that its reader always goes on to the consume test.

About the whole receive side (`SoclUdp!ReadSpec`), `GramsSafe` and `SleepSafe` by
`GramInv`: the queue against what was accepted and taken (`Queued`), who sleeps or was
woken holds `in_use` (`Asleep`). `size` is stated without recursion, as the last of
the running sums of the list (`HeldIsSum`); taking a datagram off the head moves these
sums down by its length, and that they never fall below 0 is an induction over the list.

**`SoclLifeProofs`**: `LifeAlways`, `LifeSafe` (`Spec => []MisuseOnlyRaced`) and
`CleanupWhole` (`Spec => []CleanIsEmpty`), for any number of blocks, threads and
packets. `MisuseOnlyRaced` is far from inductive: that `SOCL_Close` finds its socket
alive after its tests needs to know everything that could have freed it meanwhile.
`LifeInv` has each socket in one of six stages (`Unused`, `Made`, `Open`, `Marked`,
`Closing`, `Closed`), each with what its pipe, its two threads and the callers about it
may be doing (`Stages`); the library in one of seven phases, from `Down` over `Up` to
`Parted` (`Phases`); the packets of the pool and those in the control pipes counted
together (`Pool`); the lists without repetition and disjoint (`Lists`); and where
threads are (`Control`). `Stages` and an exact count hold only while no two closers or
cleaners have overlapped, `Phases` only if no startup failed either; after that
the types, the lists and an upper bound on the pool remain, which is what makes the
exceptions of the two properties the only ones.

**`SoclConnectProofs`**: `TypeCorrect`, `LockSafe`, `ClosedSafe`, `BackedSafe`, for any
number of threads and any queue sizes. `ConnInv` is `Base` (where threads are, whose
command is at a queue's head, who owns `in_use`, who waits), `Ended` (what a close
leaves, in order), `AcceptBlocks`, and, while the behaviour is followed: a call's tests
held for what it loaded (`Tested`), reads are ahead of handlers that lock
(`ReadsAhead`), one connect or accept at a time (`Attempting`), what a close has marked
(`Closing`, `Again`), what the bits announce (`Backed`).

**`WcmProofs`** extends the three modules of the connection manager, whose names are
kept apart for that. About `WcmPhase`: `TypeCorrect`, `RestSafe`, `ResetSafe`, `JoinedSafe`,
`AnsweredSafe`, and the action property `NoticesTrue`, for any set of builds and any
number of faults. Phase, pending notice, flags, driver state, requests and callbacks
in flight fit together in one of nine situations: `Off`, `Idle`, `Scans`, `Joined`,
`Irregular`, `Broken` (FATAL_ERROR), `Single` (one request under way, with or without
the report of a loss), `Double` (a terminate overtook a request) and `Stuck` (a
refused reset left its flag). With the types and `Linked` (only a connected driver
loses a connection) they are `PhaseInv`. It also shows that at most two requests are
ever under way, so the exceptions in the properties do not grow with more faults than
the run has.

About `WcmApList`: `ListSafe`, `[]ListWhole`, `ReadSafe`, `[]ReadStable`, and
`ListImplements`, that it implements `ApCache`, for any size of the buffer, any access
points and any depth of nested locks. `ListInv` says that there is an order `o` of the
occupied blocks that both chains run through (`Chain`, `Chained`), that no access point
is in two of them (`Labelled`), and that of the locks held exactly the first found the
list free (`Nested`), so nobody points at a block while an entry may change it.
`UnlinkChain` and `LinkLastChain` give the order after a block leaves and joins, and
`EnterIs` what the list then shows. A list that is not full has an empty block by the
pigeonhole principle (`SomeEmpty`). That following the links gives `o` (`NthIs`) is an
induction.

About `WcmSend`: `FramesAreWhole`, `[]FrameWhole`, and `NobodyIsStuck`, `[]NeverStuck`,
for any number of threads and empty frames. The two are inductive together.

**`ResolverProofs`**, for any numbers of threads, servers, ports and rounds:

* `DnsSafe`, `Spec => []DnsKept`. `DnsInv` adds that without an overlap at most one
  thread is inside `SOCL_InetAtoH` and that what it saved is what was last set; all
  steps of `SOCL_Resolve` are one case (`Elsewhere`).
* `ResolveSafe`, `Spec => []ResolveTrue`. `ResInv` follows a good answer from the
  buffer to the result of its call (`Turns`): while a call has no result, each answer it
  heard is unread or was wasted in one of the ways the property names; `Counted` ties
  buffers and datagrams under way to the answers given.

**`PortNetProofs`**: `TableSafe`, `HeardSafe` and `BytesSafe`, for any number of sockets,
slots and bytes and any size of the buffer. `NetInv` is: who holds the startup mutex
is the one call that stops or starts the thread (`Guarded`); the count is the used slots
and the lost ones, and as long as nothing was released out of order the array is filled
from the bottom (`Counted`); who is in the array (`Placed`); what an array passed or torn
presupposes (`Harmed`); and each socket's buffer, what the thread is adding to it and
what a write was told (`Filled`). That sockets bound once each cannot pass the array
is a pigeonhole argument. The proof showed that `TableSound` had to allow one more case,
which the run's spare slot hid: with as many sockets as slots, binding one of them again
passes the array without a lost slot.

Only model-checked: liveness and its fairness (out of the prover's reach), which is
`CallsReturn`, `WaitsEnd`, `ReadReturns`, `CleanupEnds` and `Settles`. TLAPS cannot
instantiate the library's induction theorems, which take an operator; the proofs that
need an induction (`Induction` in `SoclRecvProofs`, `Least` in `SoclLifeProofs`,
`TopCut` in `PortNetProofs`, `NthIs` in `WcmProofs`) use that a nonempty set of naturals has a least element.

## 5. What is not modelled

* **The decompiled DS part of `network.c`**: ARP, IP, fragments, TCP input and
  timers, DHCP. In the port its entry points are never called, since CPS calls go to
  the operating system's sockets, and the DS build links the prebuilt `libcps.a`
  instead (`libraries/cps/meson.build`). Its behaviour toward the models (bytes in
  order, a FIN after all before it) is an external assumption of `SoclSend` and
  `SoclRecv`.
* **SSL** (`ssl.c`) and its branches in SOCL: a sequential client run by whoever
  holds `in_use`. What can go wrong is in record layouts and arithmetic, which TLC
  cannot enumerate. The same holds for `biginteger.c`, `sha1.c`, `md5.c` and `arc4.c`.
* **`soc.c`** and `socl_const.c`: conversions of arguments and error codes around the
  SOCL calls, without state.
* **`SOCL_Accept`** beyond the socket it may leak, and `SOCL_Bind` of UDP sockets beyond
  what `PortNet` has.
* **`util.c`**: rate and bit conversions and the link level filter. The stubs are empty.
* The prebuilt archives, the WM driver and the OS are external. Frame layouts,
  checksums and the text of DNS messages are data no property is about.

Hazards without a property are in `PROJECT.json` with the reason.
