------------------------------ MODULE Resolver ------------------------------
(***************************************************************************)
(* Names: SOCL_Resolve and SOCL_InetAtoH (libraries/soc/src/               *)
(* socl_resolve.c) and the DNS client under them (CPS_Resolve, resolve_sub *)
(* and resolve_common in libraries/cps/src/network.c), in the Linux port.  *)
(*                                                                         *)
(* A call asks the two servers of CPSDnsIp in turn, Tries times, each time *)
(* from a socket bound to a new port, and waits for a datagram with the    *)
(* identification of its question.  SOCL_InetAtoH is the same call with    *)
(* the servers' addresses set to 0 for its duration and interrupts off;    *)
(* in the port that keeps no other thread out.                             *)
(*                                                                         *)
(* The socket thread (module PortNet) is here the delivery of a datagram   *)
(* to the end of a socket's buffer.                                        *)
(***************************************************************************)
EXTENDS Naturals, Sequences, SequencesExt

CONSTANTS
  Threads,   \* application threads
  None,      \* address 0
  Settings,  \* pairs of addresses SOCL_SetResolver is given
  Tries,     \* 3: rounds over the two servers
  NPorts,    \* 0x400 .. 4999: ports that CPS_SocGetEport goes round
  MaxCalls,  \* bound: calls of SOCL_Resolve by a thread
  MaxAnswers \* bound: questions that are answered

ASSUME ResolverAssumption ==
  /\ Settings # {} /\ {Tries, NPorts} \subseteq Nat \ {0}
  /\ {MaxCalls, MaxAnswers} \subseteq Nat

VARIABLES
  dns, given, saved, \* CPSDnsIp; history: as last set; what an InetAtoH keeps
  eport,       \* the port CPS_SocGetEport gave last
  pc, call,    \* where a thread is; how many names it has resolved
  try, srv,    \* iVar1 and iVar2 of CPS_Resolve
  alive,       \* local_20: the servers not given up
  port,        \* local_port, from the bind to the release; 0 else
  chosen,      \* what CPS_SocGetEport returned
  buf, len,    \* the datagrams in rcvbuf; how many of them were read
  ret,         \* ret of resolve_common, then what the call returns
  flight,      \* the datagrams under way to a port
  answers,     \* history: how many questions were answered
  dangling,    \* the threads whose registered CPSSoc was freed
  overlapped,  \* history: InetAtoH overlapped another, or SetResolver
  astray,      \* history: InetAtoH used the network in a freed CPSSoc
  heard,       \* history: good answers put in a thread's buffer in this call
  wasted       \* history: those read behind another, misread or left unread

names == <<dns, given, saved, overlapped, astray>>
place == <<try, srv, alive>>
socket == <<eport, port, chosen>>
input == <<buf, len, flight, answers>>
marks == <<heard, wasted>>
vars == <<names, pc, call, place, socket, input, ret, dangling, marks>>

Servers == {1, 2}
Denied  == <<"denied">> \* -1
Zero    == <<"zero">>   \* 0
Junk    == <<"junk">>   \* what bytes that are no address give

(* An answer: one address, no such name, or anything else: a number of       *)
(* records that is not one, a record that is no address, another error.      *)
Kinds == {"one", "noname", "other"}
Goto(t, p) == pc' = [pc EXCEPT ![t] = p]
Put(f, t, x) == [f EXCEPT ![t] = x]
InInet == {t \in Threads : pc[t] \in {"inet", "restore"}}
Ident(t) == <<t, call[t], srv[t]>>
Good(t, d) == d.kind = "one" /\ d.ident = Ident(t)

-----------------------------------------------------------------------------
(* The servers' addresses.                                                   *)

SOCL_SetResolver(p) ==
  /\ dns' = p /\ given' = p
  /\ overlapped' = (overlapped \/ InInet # {})
  /\ UNCHANGED <<saved, astray, pc, call, place, socket, input, ret, dangling, marks>>

SOCL_InetAtoH(t) ==
  /\ pc[t] = "idle"
  /\ saved' = Put(saved, t, dns) /\ dns' = <<None, None>>
  /\ overlapped' = (overlapped \/ InInet # {})
  /\ Goto(t, "inet")
  /\ UNCHANGED <<given, astray, call, place, socket, input, ret, dangling, marks>>

(* CPS_Resolve: a dotted address needs no server; for a name each is read,   *)
(* and one that is not 0 is asked in whatever CPSSoc the thread registered   *)
(* last.                                                                     *)
InetResolves(t) ==
  /\ pc[t] = "inet"
  /\ \/ UNCHANGED astray
     \/ /\ dns # <<None, None>>
        /\ astray' = (astray \/ t \in dangling)
  /\ Goto(t, "restore")
  /\ UNCHANGED <<dns, given, saved, overlapped, call, place, socket, input, ret, dangling, marks>>

(* A plausible slip: a name that is no address returns without restoring.    *)
InetForgets(t) ==
  /\ pc[t] = "restore"
  /\ dns' = dns /\ saved' = saved
  /\ Goto(t, "idle")
  /\ UNCHANGED <<given, overlapped, astray, call, place, socket, input, ret, dangling, marks>>

InetRestores(t) ==
  /\ pc[t] = "restore"
  /\ dns' = saved[t] /\ saved' = Put(saved, t, <<None, None>>)
  /\ Goto(t, "idle")
  /\ UNCHANGED <<given, overlapped, astray, call, place, socket, input, ret, dangling, marks>>

-----------------------------------------------------------------------------
(* SOCL_Resolve of a name.                                                   *)

(* A CPSSoc is registered, and the first server is next.  A call without a   *)
(* name, or without memory for the buffers, returns 0 before any of     *)
(* this and changes nothing.                                                 *)
SOCL_Resolve(t) ==
  /\ pc[t] = "idle" /\ call[t] < MaxCalls
  /\ call' = Put(call, t, call[t] + 1)
  /\ dangling' = dangling \ {t}
  /\ Goto(t, "server")
  /\ UNCHANGED <<names, place, socket, input, ret, marks>>

(* The two loops of CPS_Resolve, after the turn that ended with r.           *)
AfterTurn(t, r) ==
  LET live == IF r = Denied THEN alive[t] \ {srv[t]} ELSE alive[t]
      over == srv[t] = 2 /\ (try[t] = Tries \/ live = {})
  IN /\ alive' = Put(alive, t, live)
     /\ IF r \notin {Zero, Denied} \/ over
          THEN /\ Goto(t, "return")
               /\ ret' = Put(ret, t, IF r = Denied THEN Zero ELSE r)
               /\ UNCHANGED <<try, srv>>
          ELSE /\ Goto(t, "server")
               /\ ret' = Put(ret, t, Zero)
               /\ srv' = Put(srv, t, 3 - srv[t])
               /\ try' = Put(try, t, IF srv[t] = 2 THEN try[t] + 1 ELSE try[t])

(* A server given up is passed over, one with address 0 is given up.         *)
NoServer(t) ==
  /\ pc[t] = "server"
  /\ srv[t] \notin alive[t] \/ dns[srv[t]] = None
  /\ AfterTurn(t, Denied)
  /\ UNCHANGED <<names, call, socket, input, dangling, marks>>

(* CPS_SocUse and CPS_SocDatagramMode; CPS_SocBind asks for a new port.      *)
resolve_sub(t) ==
  /\ pc[t] = "server"
  /\ srv[t] \in alive[t] /\ dns[srv[t]] # None
  /\ buf' = Put(buf, t, <<>>) /\ port' = Put(port, t, 0)
  /\ eport' = (eport % NPorts) + 1
  /\ Goto(t, "look")
  /\ UNCHANGED <<names, call, place, chosen, len, flight, answers, ret, dangling, marks>>

(* CPS_SocGetEport counts on while some thread has that port; no lock is     *)
(* held from there to the use of the port.                                   *)
CPS_SocGetEport(t) ==
  /\ pc[t] = "look"
  /\ IF \E u \in Threads : port[u] = eport
       THEN eport' = (eport % NPorts) + 1 /\ UNCHANGED <<pc, chosen>>
       ELSE Goto(t, "bind") /\ chosen' = Put(chosen, t, eport) /\ UNCHANGED eport
  /\ UNCHANGED <<names, call, place, port, input, ret, dangling, marks>>

(* The socket is bound and the question sent; it or its answer may be lost.  *)
Ask(t) ==
  /\ pc[t] = "bind"
  /\ port' = Put(port, t, chosen[t]) /\ chosen' = Put(chosen, t, 0)
  /\ \/ UNCHANGED <<flight, answers>>
     \/ \E k \in Kinds :
          /\ answers < MaxAnswers /\ answers' = answers + 1
          /\ flight' = flight \cup {[to |-> chosen[t], ident |-> Ident(t), kind |-> k]}
  /\ Goto(t, "wait")
  /\ UNCHANGED <<names, call, place, eport, buf, len, ret, dangling, marks>>

Open(p) == {t \in Threads : port[t] = p /\ pc[t] \in {"wait", "consume"}}

(* A datagram goes to a socket bound to its port.                            *)
Deliver ==
  \E d \in flight : \E t \in Open(d.to) :
    /\ flight' = flight \ {d}
    /\ buf' = Put(buf, t, Append(buf[t], d))
    /\ heard' = IF Good(t, d) THEN Put(heard, t, heard[t] \cup {d}) ELSE heard
    /\ UNCHANGED <<names, pc, call, place, socket, len, answers, ret, dangling, wasted>>

(* What resolve_common makes of a read that begins with d.  It passes over   *)
(* as many names as there are answer records, where it should pass over the  *)
(* questions, so only a single one is read where it stands; a record that is *)
(* no address is passed over, into whatever was read behind it.              *)
Outcome(d) ==
  CASE d.kind = "one"    -> {d.ident}
    [] d.kind = "noname" -> {Denied}
    [] d.kind = "other"  -> {Zero, Denied, Junk}

(* A plausible slip: the identification is not compared. *)
ParseAnyone(t, d) == Outcome(d)

Parse(t, d) == IF d.ident = Ident(t) THEN Outcome(d) ELSE {Zero}

(* All that the buffer holds is read as one datagram.                        *)
Read(t) ==
  /\ pc[t] = "wait" /\ buf[t] # <<>>
  /\ len' = Put(len, t, Len(buf[t]))
  /\ \E r \in Parse(t, buf[t][1]) : ret' = Put(ret, t, r)
  /\ wasted' = Put(wasted, t, wasted[t] \cup
                     {d \in ToSet(Tail(buf[t])) : Good(t, d)})
  /\ Goto(t, "consume")
  /\ UNCHANGED <<names, call, place, socket, buf, flight, answers, dangling, heard>>

(* CPS_SocRelease; what comes when no socket has its port goes nowhere.  The  *)
(* code leaves local_port in the released CPSSoc, so that its own search for  *)
(* a port still passes over it; here the port is free at once, and more calls *)
(* come to share one.                                                         *)
Leave(t) ==
  /\ flight' = {d \in flight : Open(d.to) # {t}}
  /\ wasted' = Put(wasted, t, wasted[t] \cup {d \in ToSet(buf'[t]) : Good(t, d)})
  /\ port' = Put(port, t, 0)

(* What was read is consumed; with a result the socket is released.          *)
Consume(t) ==
  /\ pc[t] = "consume"
  /\ buf' = Put(buf, t, SubSeq(buf[t], len[t] + 1, Len(buf[t]))) /\ len' = Put(len, t, 0)
  /\ IF ret[t] = Zero
       THEN Goto(t, "wait") /\ UNCHANGED <<place, port, ret, wasted, flight>>
       ELSE Leave(t) /\ AfterTurn(t, ret[t])
  /\ UNCHANGED <<names, call, eport, chosen, answers, dangling, heard>>

(* 15 ticks have passed or the link is gone.                                 *)
GiveUp(t) ==
  /\ pc[t] = "wait"
  /\ buf' = buf
  /\ Leave(t) /\ AfterTurn(t, Zero)
  /\ UNCHANGED <<names, call, eport, chosen, len, answers, dangling, heard>>

(* CPS_SocUnRegister does nothing: the freed CPSSoc stays registered.  The   *)
(* locals of the call go.                                                    *)
Return(t) ==
  /\ pc[t] = "return"
  /\ Goto(t, "idle")
  /\ dangling' = dangling \cup {t}
  /\ buf' = Put(buf, t, <<>>) /\ ret' = Put(ret, t, Zero)
  /\ heard' = Put(heard, t, {}) /\ wasted' = Put(wasted, t, {})
  /\ try' = Put(try, t, 1) /\ srv' = Put(srv, t, 1) /\ alive' = Put(alive, t, Servers)
  /\ UNCHANGED <<names, call, socket, len, flight, answers>>

-----------------------------------------------------------------------------
Init ==
  /\ given \in Settings /\ dns = given /\ saved = [t \in Threads |-> <<None, None>>]
  /\ eport = 1
  /\ pc = [t \in Threads |-> "idle"] /\ call = [t \in Threads |-> 0]
  /\ try = [t \in Threads |-> 1] /\ srv = [t \in Threads |-> 1]
  /\ alive = [t \in Threads |-> Servers]
  /\ port = [t \in Threads |-> 0] /\ chosen = [t \in Threads |-> 0]
  /\ buf = [t \in Threads |-> <<>>] /\ len = [t \in Threads |-> 0]
  /\ ret = [t \in Threads |-> Zero]
  /\ flight = {} /\ answers = 0 /\ dangling = {} /\ overlapped = FALSE /\ astray = FALSE
  /\ heard = [t \in Threads |-> {}] /\ wasted = [t \in Threads |-> {}]

Next ==
  \/ \E p \in Settings : SOCL_SetResolver(p)
  \/ \E t \in Threads :
       \/ SOCL_InetAtoH(t) \/ InetResolves(t) \/ InetRestores(t)
       \/ SOCL_Resolve(t) \/ NoServer(t) \/ resolve_sub(t)
       \/ CPS_SocGetEport(t) \/ Ask(t)
       \/ Read(t) \/ Consume(t) \/ GiveUp(t) \/ Return(t)
  \/ Deliver

Spec == Init /\ [][Next]_vars

-----------------------------------------------------------------------------
Places == {"idle", "inet", "restore", "server", "look", "bind",
           "wait", "consume", "return"}

TypeOK ==
  /\ pc \in [Threads -> Places] /\ call \in [Threads -> 0 .. MaxCalls]
  /\ try \in [Threads -> 1 .. Tries] /\ srv \in [Threads -> Servers]
  /\ alive \in [Threads -> SUBSET Servers]
  /\ eport \in 1 .. NPorts /\ answers \in 0 .. MaxAnswers
  /\ port \in [Threads -> 0 .. NPorts] /\ chosen \in [Threads -> 0 .. NPorts]
  /\ \A t \in Threads : Len(buf[t]) <= MaxAnswers /\ len[t] <= Len(buf[t])
  /\ dangling \subseteq Threads /\ {overlapped, astray} \subseteq BOOLEAN

(* What a call of SOCL_Resolve returns.  An address is the one a server gave *)
(* for the question of this very call, though two threads may have bound the *)
(* same port and get each other's answers; and 0 is not returned while a     *)
(* good answer was heard in time, except one that came in a read behind      *)
(* another datagram or just when the call gave up.  Junk comes only of       *)
(* misread answers (network.c:2122-2196, 3186-3200).                         *)
ResolveTrue ==
  /\ TypeOK
  /\ \A t \in Threads : pc[t] = "return" =>
       /\ ret[t] \in {Zero, Junk} \/ ret[t] = Ident(t)
       /\ ret[t] = Ident(t) => \E d \in heard[t] : d.ident = ret[t]
       /\ ret[t] = Zero => heard[t] \subseteq wasted[t]

(* The servers' addresses are those last set whenever no SOCL_InetAtoH is    *)
(* under way, and SOCL_InetAtoH never asks a server, in particular never     *)
(* through the CPSSoc that an earlier SOCL_Resolve freed; both fail only     *)
(* when an InetAtoH overlaps another or a SOCL_SetResolver                   *)
(* (socl_resolve.c:65-76, 104-105).                                          *)
DnsKept ==
  /\ ~overlapped /\ InInet = {} => dns = given
  /\ ~overlapped /\ InInet # {} => dns = <<None, None>>
  /\ astray => overlapped
=============================================================================
