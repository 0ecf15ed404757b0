--------------------------- MODULE ResolverProofs ---------------------------
(***************************************************************************)
(* The servers' addresses survive SOCL_InetAtoH, and a call of             *)
(* SOCL_Resolve returns an answer to its own question and wastes no other  *)
(* than those it could not read: for any number of threads, settings,      *)
(* ports and calls.                                                        *)
(***************************************************************************)
EXTENDS Resolver, FiniteSetTheorems, TLAPS

Inet == {"inet", "restore"}

(* What DnsKept rests on: without an overlap one thread is in SOCL_InetAtoH, *)
(* and it keeps the addresses that were set.                                 *)
DnsInv ==
  /\ pc \in [Threads -> Places]
  /\ DOMAIN saved = Threads
  /\ overlapped \in BOOLEAN /\ astray \in BOOLEAN
  /\ ~overlapped =>
       /\ \A t, u \in Threads : pc[t] \in Inet /\ pc[u] \in Inet => t = u
       /\ (\A t \in Threads : pc[t] \notin Inet) => dns = given
       /\ \A t \in Threads : pc[t] \in Inet => dns = <<None, None>> /\ saved[t] = given
  /\ astray => overlapped

(* A step of SOCL_Resolve moves a thread outside SOCL_InetAtoH.              *)
Elsewhere ==
  /\ UNCHANGED names
  /\ \/ UNCHANGED pc
     \/ \E t \in Threads, p \in Places \ Inet : pc[t] \notin Inet /\ pc' = [pc EXCEPT ![t] = p]

LEMMA AfterTurnMoves ==
  ASSUME NEW t \in Threads, NEW r, AfterTurn(t, r)
  PROVE  \E p \in Places \ Inet : pc' = [pc EXCEPT ![t] = p]
BY DEF AfterTurn, Goto, Places, Inet

LEMMA ElsewhereStep ==
  ASSUME DnsInv, Elsewhere
  PROVE  DnsInv'
<1>1. CASE UNCHANGED pc
  BY <1>1 DEF DnsInv, Elsewhere, names
<1>2. CASE \E t \in Threads, p \in Places \ Inet : pc[t] \notin Inet /\ pc' = [pc EXCEPT ![t] = p]
  <2>1. PICK t \in Threads, p \in Places \ Inet : pc[t] \notin Inet /\ pc' = [pc EXCEPT ![t] = p]
    BY <1>2
  <2>2. pc' \in [Threads -> Places] /\ \A u \in Threads : pc'[u] \in Inet <=> pc[u] \in Inet
    BY <2>1 DEF DnsInv, Inet, Places
  <2>3. UNCHANGED <<dns, given, saved, overlapped, astray>>
    BY DEF Elsewhere, names
  <2>4. QED
    BY <2>2, <2>3 DEF DnsInv
<1>3. QED
  BY <1>1, <1>2 DEF Elsewhere

LEMMA ResolveIsElsewhere ==
  ASSUME NEW t \in Threads,
         \/ SOCL_Resolve(t) \/ NoServer(t) \/ resolve_sub(t) \/ CPS_SocGetEport(t) \/ Ask(t)
         \/ Read(t) \/ Consume(t) \/ GiveUp(t) \/ Return(t)
  PROVE  Elsewhere
<1>1. CASE SOCL_Resolve(t) \/ resolve_sub(t) \/ CPS_SocGetEport(t) \/ Ask(t) \/ Read(t) \/ Return(t)
  BY <1>1 DEF SOCL_Resolve, resolve_sub, CPS_SocGetEport, Ask, Read, Return, Goto, Elsewhere,
              names, Places, Inet
<1>2. CASE NoServer(t)
  BY <1>2, AfterTurnMoves DEF NoServer, Elsewhere, names, Inet
<1>3. CASE Consume(t)
  BY <1>3, AfterTurnMoves DEF Consume, Elsewhere, names, Inet, Goto, Places
<1>4. CASE GiveUp(t)
  BY <1>4, AfterTurnMoves DEF GiveUp, Elsewhere, names, Inet
<1>5. QED
  BY <1>1, <1>2, <1>3, <1>4

LEMMA DnsInit == Init => DnsInv
BY DEF Init, DnsInv, Places, Inet

LEMMA DnsStep ==
  ASSUME DnsInv, [Next]_vars
  PROVE  DnsInv'
<1>1. ASSUME NEW p \in Settings, SOCL_SetResolver(p)
      PROVE  DnsInv'
  BY <1>1 DEF DnsInv, SOCL_SetResolver, InInet, Inet
<1>2. ASSUME NEW t \in Threads, SOCL_InetAtoH(t)
      PROVE  DnsInv'
  <2>1. /\ pc' = [pc EXCEPT ![t] = "inet"]
        /\ saved' = [saved EXCEPT ![t] = dns]
        /\ dns' = <<None, None>> /\ given' = given /\ astray' = astray
        /\ overlapped' = (overlapped \/ InInet # {})
    BY <1>2 DEF SOCL_InetAtoH, Goto, Put
  <2>2. pc' \in [Threads -> Places] /\ DOMAIN saved' = Threads
    BY <2>1 DEF DnsInv, Places
  <2>3. overlapped' \in BOOLEAN /\ astray' \in BOOLEAN /\ (astray' => overlapped')
    BY <2>1 DEF DnsInv
  <2>4. ASSUME ~overlapped'
        PROVE  /\ saved'[t] = given' /\ pc'[t] \in Inet
               /\ \A u \in Threads : u # t => pc'[u] \notin Inet
    <3>1. \A u \in Threads : pc[u] \notin Inet
      BY <2>1, <2>4 DEF InInet, Inet
    <3>2. dns = given
      BY <3>1, <2>1, <2>4 DEF DnsInv
    <3>3. QED
      BY <3>1, <3>2, <2>1 DEF DnsInv, Inet
  <2>5. QED
    BY <2>1, <2>2, <2>3, <2>4 DEF DnsInv
<1>3. ASSUME NEW t \in Threads, InetResolves(t)
      PROVE  DnsInv'
  <2>1. /\ pc[t] \in Inet /\ pc' = [pc EXCEPT ![t] = "restore"]
        /\ UNCHANGED <<dns, given, saved, overlapped>>
        /\ UNCHANGED astray \/ (dns # <<None, None>> /\ astray' = (astray \/ t \in dangling))
    BY <1>3 DEF InetResolves, Goto, Inet
  <2>2. pc' \in [Threads -> Places] /\ \A u \in Threads : pc'[u] \in Inet <=> pc[u] \in Inet
    BY <2>1 DEF DnsInv, Inet, Places
  <2>3. astray' \in BOOLEAN /\ (astray' => overlapped')
    BY <2>1 DEF DnsInv
  <2>4. QED
    BY <2>1, <2>2, <2>3 DEF DnsInv
<1>4. ASSUME NEW t \in Threads, InetRestores(t)
      PROVE  DnsInv'
  <2>1. /\ pc[t] \in Inet /\ pc' = [pc EXCEPT ![t] = "idle"]
        /\ dns' = saved[t] /\ DOMAIN saved' = DOMAIN saved
        /\ UNCHANGED <<given, overlapped, astray>>
    BY <1>4 DEF InetRestores, Goto, Put, Inet
  <2>2. pc' \in [Threads -> Places] /\ pc'[t] \notin Inet
    BY <2>1 DEF DnsInv, Inet, Places
  <2>3. ~overlapped' => dns' = given' /\ \A u \in Threads : pc'[u] \notin Inet
    BY <2>1, <2>2 DEF DnsInv
  <2>4. QED
    BY <2>1, <2>2, <2>3 DEF DnsInv
<1>5. CASE Deliver
  <2>1. Elsewhere
    BY <1>5 DEF Deliver, Elsewhere, names
  <2>2. QED
    BY <2>1, ElsewhereStep
<1>6. CASE UNCHANGED vars
  BY <1>6 DEF vars, names, DnsInv
<1>7. ASSUME NEW t \in Threads, Elsewhere
      PROVE  DnsInv'
  BY <1>7, ElsewhereStep
<1>8. QED
  BY <1>1, <1>2, <1>3, <1>4, <1>5, <1>6, <1>7, ResolveIsElsewhere DEF Next

(* However many threads resolve names and convert addresses, the servers'    *)
(* addresses are kept, and a freed CPSSoc is not used to ask one, as long as *)
(* no SOCL_InetAtoH overlaps another or a SOCL_SetResolver                   *)
(* (socl_resolve.c:65-76, 104-105).                                          *)
THEOREM DnsSafe == Spec => []DnsKept
<1>1. DnsInv => DnsKept
  BY DEF DnsInv, DnsKept, InInet, Inet
<1>2. DnsInv /\ [Next]_vars => DnsInv'
  BY DnsStep
<1>3. QED
  BY DnsInit, <1>1, <1>2, PTL DEF Spec

-----------------------------------------------------------------------------
(* What ResolveTrue rests on: how a good answer gets from the buffer to the  *)
(* result of its call.                                                       *)
Gram == [to : 0 .. NPorts, kind : Kinds,
         ident : {<<t, c, s>> : t \in Threads, c \in 0 .. MaxCalls, s \in Servers}]

Shape ==
  /\ pc \in [Threads -> Places] /\ call \in [Threads -> 0 .. MaxCalls]
  /\ try \in [Threads -> 1 .. Tries] /\ srv \in [Threads -> Servers]
  /\ alive \in [Threads -> SUBSET Servers]
  /\ eport \in 1 .. NPorts /\ answers \in 0 .. MaxAnswers
  /\ port \in [Threads -> 0 .. NPorts] /\ chosen \in [Threads -> 0 .. NPorts]
  /\ buf \in [Threads -> Seq(Gram)] /\ len \in [Threads -> Nat]
  /\ flight \subseteq Gram /\ dangling \subseteq Threads
  /\ DOMAIN ret = Threads /\ DOMAIN heard = Threads /\ DOMAIN wasted = Threads

(* Every datagram is the answer to a question.                               *)
Counted ==
  /\ IsFiniteSet(flight)
  /\ \A t \in Threads :
       len[t] <= Len(buf[t]) /\ Cardinality(flight) + Len(buf[t]) <= answers

(* What is still to be read, of a socket that has asked.                     *)
Unread(t, d) ==
  /\ pc[t] \in {"wait", "consume"}
  /\ \E i \in 1 .. Len(buf[t]) : len[t] < i /\ d = buf[t][i]

(* The result of the turn under way, or of the call.                         *)
Result(t) ==
  \/ ret[t] = Zero
  \/ pc[t] = "consume" /\ ret[t] = Denied
  \/ pc[t] \in {"consume", "return"} /\ ret[t] = Junk
  \/ /\ pc[t] \in {"consume", "return"}
     /\ ret[t] = Ident(t) /\ \E d \in heard[t] : d.ident = Ident(t)

(* As long as a call has no result, its good answers are unread or wasted.   *)
Turn(t) ==
  /\ pc[t] # "consume" => len[t] = 0
  /\ pc[t] \in {"look", "bind"} => buf[t] = <<>>
  /\ pc[t] \in {"wait", "consume"} =>
       \A i \in 1 .. Len(buf[t]) : Good(t, buf[t][i]) => buf[t][i] \in heard[t]
  /\ Result(t)
  /\ ret[t] \in {Zero, Denied} =>
       \A d \in heard[t] : d \in wasted[t] \/ (Good(t, d) /\ Unread(t, d))

Turns == \A t \in Threads : Turn(t)
ResInv == Shape /\ Counted /\ Turns

LEMMA ResInit == Init => ResInv
<1>1. ASSUME Init PROVE ResInv
  <2>1. Shape
    BY <1>1, ResolverAssumption DEF Init, Shape, Places, Servers, Gram
  <2>2. Counted
    BY <1>1, FS_EmptySet DEF Init, Counted
  <2>3. Turns
    BY <1>1 DEF Init, Turns, Turn, Result, Unread
  <2>4. QED
    BY <2>1, <2>2, <2>3 DEF ResInv
<1>2. QED
  BY <1>1

(* The special results are no addresses.                                     *)
LEMMA ResultsDiffer ==
  ASSUME NEW a, NEW b, NEW c
  PROVE  /\ <<a, b, c>> \notin {Zero, Denied, Junk}
         /\ Zero # Denied /\ Zero # Junk /\ Denied # Junk
<1>1. Len(<<a, b, c>>) = 3 /\ Len(Zero) = 1 /\ Len(Denied) = 1 /\ Len(Junk) = 1
  BY DEF Zero, Denied, Junk
<1>2. Zero # Denied /\ Zero # Junk /\ Denied # Junk
  BY DEF Zero, Denied, Junk
<1>3. QED
  BY <1>1, <1>2

(* What one thread does leaves the turns of the others alone.                *)
LEMMA TurnKept ==
  ASSUME NEW u \in Threads, Turn(u),
         pc'[u] = pc[u], call'[u] = call[u], srv'[u] = srv[u], buf'[u] = buf[u],
         len'[u] = len[u], ret'[u] = ret[u], heard'[u] = heard[u], wasted'[u] = wasted[u]
  PROVE  Turn(u)'
BY DEF Turn, Result, Unread, Good, Ident

LEMMA NextPort == ASSUME Shape PROVE (eport % NPorts) + 1 \in 1 .. NPorts
BY ResolverAssumption DEF Shape

-----------------------------------------------------------------------------
(* The end of a turn.                                                        *)

LEMMA AfterTurnShape ==
  ASSUME Shape, NEW t \in Threads, NEW r, AfterTurn(t, r)
  PROVE  /\ pc' \in [Threads -> Places] /\ try' \in [Threads -> 1 .. Tries]
         /\ srv' \in [Threads -> Servers] /\ alive' \in [Threads -> SUBSET Servers]
         /\ DOMAIN ret' = Threads
<1>1. alive' \in [Threads -> SUBSET Servers]
  BY DEF AfterTurn, Shape, Put
<1>2. pc' \in [Threads -> Places] /\ DOMAIN ret' = Threads
  BY DEF AfterTurn, Shape, Put, Goto, Places
<1>3. CASE UNCHANGED <<try, srv>>
  BY <1>1, <1>2, <1>3 DEF Shape
<1>4. CASE /\ ~(srv[t] = 2 /\ try[t] = Tries)
           /\ srv' = [srv EXCEPT ![t] = 3 - srv[t]]
           /\ try' = [try EXCEPT ![t] = IF srv[t] = 2 THEN try[t] + 1 ELSE try[t]]
  <2>1. srv[t] \in {1, 2} /\ try[t] \in 1 .. Tries
    BY DEF Shape, Servers
  <2>2. 3 - srv[t] \in Servers
    BY <2>1 DEF Servers
  <2>3. (IF srv[t] = 2 THEN try[t] + 1 ELSE try[t]) \in 1 .. Tries
    BY <2>1, <1>4, ResolverAssumption
  <2>4. srv' \in [Threads -> Servers]
    BY <2>2, <1>4 DEF Shape
  <2>5. try' \in [Threads -> 1 .. Tries]
    BY <2>3, <1>4 DEF Shape
  <2>6. QED
    BY <1>1, <1>2, <2>4, <2>5
<1>5. UNCHANGED <<try, srv>> \/
      (/\ ~(srv[t] = 2 /\ try[t] = Tries)
       /\ srv' = [srv EXCEPT ![t] = 3 - srv[t]]
       /\ try' = [try EXCEPT ![t] = IF srv[t] = 2 THEN try[t] + 1 ELSE try[t]])
  BY DEF AfterTurn, Put
<1>6. QED
  BY <1>3, <1>4, <1>5

LEMMA AfterTurnIs ==
  ASSUME Shape, NEW t \in Threads, NEW r, AfterTurn(t, r)
  PROVE  /\ \A u \in Threads : u # t => pc'[u] = pc[u] /\ ret'[u] = ret[u] /\ srv'[u] = srv[u]
         /\ pc'[t] \in {"server", "return"}
         /\ ret'[t] = Zero \/ (pc'[t] = "return" /\ r \notin {Zero, Denied} /\ ret'[t] = r
                               /\ srv'[t] = srv[t])
         /\ ret'[t] = Zero => r \in {Zero, Denied}
<1>1. CASE r \in {Zero, Denied}
  <2>1. ret'[t] = Zero /\ pc'[t] \in {"server", "return"}
    BY <1>1 DEF AfterTurn, Shape, Put, Goto
  <2>2. \A u \in Threads : u # t => pc'[u] = pc[u] /\ ret'[u] = ret[u] /\ srv'[u] = srv[u]
    BY DEF AfterTurn, Shape, Put, Goto
  <2>3. QED
    BY <1>1, <2>1, <2>2
<1>2. CASE r \notin {Zero, Denied}
  <2>1. ret' = [ret EXCEPT ![t] = r] /\ pc' = [pc EXCEPT ![t] = "return"] /\ srv' = srv
    BY <1>2 DEF AfterTurn, Put, Goto
  <2>2. QED
    BY <1>2, <2>1 DEF Shape
<1>3. QED
  BY <1>1, <1>2

(* A turn that ends with all its good answers wasted ends well.              *)
LEMMA EndsWell ==
  ASSUME Shape, NEW t \in Threads, NEW r, AfterTurn(t, r), len'[t] = 0,
         call'[t] = call[t], heard'[t] = heard[t],
         r \in {Zero, Denied} => heard[t] \subseteq wasted'[t],
         \/ r \in {Zero, Denied, Junk}
         \/ r = Ident(t) /\ \E d \in heard[t] : d.ident = Ident(t)
  PROVE  Turn(t)'
<1>1. /\ pc'[t] \in {"server", "return"}
      /\ ret'[t] = Zero \/ (pc'[t] = "return" /\ r \notin {Zero, Denied} /\ ret'[t] = r
                            /\ srv'[t] = srv[t])
      /\ ret'[t] = Zero => r \in {Zero, Denied}
  BY AfterTurnIs
<1>2. ret'[t] # Denied
  BY <1>1, ResultsDiffer
<1>3. Result(t)'
  BY <1>1 DEF Result, Ident
<1>4. ret'[t] \in {Zero, Denied} => heard'[t] \subseteq wasted'[t]
  BY <1>1, <1>2
<1>5. QED
  BY <1>1, <1>3, <1>4 DEF Turn

-----------------------------------------------------------------------------
(* Each step.                                                                *)

LEMMA InetStep ==
  ASSUME ResInv, NEW t \in Threads, SOCL_InetAtoH(t) \/ InetResolves(t) \/ InetRestores(t)
  PROVE  ResInv'
<1>1. PICK p \in {"inet", "restore", "idle"} : pc' = [pc EXCEPT ![t] = p]
  BY DEF SOCL_InetAtoH, InetResolves, InetRestores, Goto
<1>2. /\ pc[t] \in {"idle", "inet", "restore"}
      /\ UNCHANGED <<call, place, socket, input, ret, dangling, marks>>
  BY DEF SOCL_InetAtoH, InetResolves, InetRestores
<1>3. Shape'
  BY <1>1, <1>2 DEF ResInv, Shape, Places, place, socket, input, marks
<1>4. Counted'
  BY <1>2 DEF ResInv, Counted, input
<1>5. Turn(t)'
  <2>1. Turn(t) /\ pc'[t] = p
    BY <1>1 DEF ResInv, Turns, Shape
  <2>2. /\ ret[t] = Zero /\ len[t] = 0
        /\ heard[t] \subseteq wasted[t]
    BY <2>1, <1>2 DEF Turn, Result, Unread
  <2>3. QED
    BY <2>1, <2>2, <1>2 DEF Turn, Result, input, marks
<1>6. ASSUME NEW u \in Threads, u # t PROVE Turn(u)'
  BY <1>1, <1>2, <1>6, TurnKept DEF ResInv, Turns, Shape, place, input, marks
<1>7. QED
  BY <1>3, <1>4, <1>5, <1>6 DEF ResInv, Turns

LEMMA ResolveStep ==
  ASSUME ResInv, NEW t \in Threads, SOCL_Resolve(t)
  PROVE  ResInv'
<1>1. /\ pc[t] = "idle" /\ call[t] < MaxCalls
      /\ call' = [call EXCEPT ![t] = call[t] + 1] /\ dangling' = dangling \ {t}
      /\ pc' = [pc EXCEPT ![t] = "server"]
      /\ UNCHANGED <<names, place, socket, input, ret, marks>>
  BY DEF SOCL_Resolve, Put, Goto
<1>2. Shape'
  <2>1. call' \in [Threads -> 0 .. MaxCalls]
    BY <1>1, ResolverAssumption DEF ResInv, Shape
  <2>2. QED
    BY <1>1, <2>1 DEF ResInv, Shape, Places, place, socket, input, marks
<1>3. Counted'
  BY <1>1 DEF ResInv, Counted, input
<1>4. Turn(t)'
  <2>1. Turn(t) /\ pc'[t] = "server"
    BY <1>1 DEF ResInv, Turns, Shape
  <2>2. ret[t] = Zero /\ len[t] = 0 /\ heard[t] \subseteq wasted[t]
    BY <2>1, <1>1 DEF Turn, Result, Unread
  <2>3. QED
    BY <2>1, <2>2, <1>1 DEF Turn, Result, input, marks
<1>5. ASSUME NEW u \in Threads, u # t PROVE Turn(u)'
  BY <1>1, <1>5, TurnKept DEF ResInv, Turns, Shape, place, input, marks
<1>6. QED
  BY <1>2, <1>3, <1>4, <1>5 DEF ResInv, Turns

LEMMA NoServerStep ==
  ASSUME ResInv, NEW t \in Threads, NoServer(t)
  PROVE  ResInv'
<1>1. /\ pc[t] = "server" /\ AfterTurn(t, Denied)
      /\ UNCHANGED <<names, call, socket, input, dangling, marks>>
  BY DEF NoServer
<1>2. Shape'
  BY <1>1, AfterTurnShape DEF ResInv, Shape, socket, input, marks
<1>3. Counted'
  BY <1>1 DEF ResInv, Counted, input
<1>4. Turn(t)'
  <2>1. ret[t] = Zero /\ len[t] = 0 /\ heard[t] \subseteq wasted[t]
    BY <1>1 DEF ResInv, Turns, Turn, Result, Unread
  <2>2. QED
    BY <2>1, <1>1, EndsWell DEF ResInv, input, marks
<1>5. ASSUME NEW u \in Threads, u # t PROVE Turn(u)'
  BY <1>1, <1>5, TurnKept, AfterTurnIs DEF ResInv, Turns, input, marks
<1>6. QED
  BY <1>2, <1>3, <1>4, <1>5 DEF ResInv, Turns

LEMMA SubStep ==
  ASSUME ResInv, NEW t \in Threads, resolve_sub(t)
  PROVE  ResInv'
<1>1. /\ pc[t] = "server" /\ pc' = [pc EXCEPT ![t] = "look"]
      /\ buf' = [buf EXCEPT ![t] = <<>>] /\ port' = [port EXCEPT ![t] = 0]
      /\ eport' = (eport % NPorts) + 1
      /\ UNCHANGED <<names, call, place, chosen, len, flight, answers, ret, dangling, marks>>
  BY DEF resolve_sub, Put, Goto
<1>2. ret[t] = Zero /\ len[t] = 0 /\ heard[t] \subseteq wasted[t]
  BY <1>1 DEF ResInv, Turns, Turn, Result, Unread
<1>3. Shape'
  <2>1. eport' \in 1 .. NPorts
    BY <1>1, NextPort DEF ResInv
  <2>2. port' \in [Threads -> 0 .. NPorts]
    BY <1>1, ResolverAssumption DEF ResInv, Shape
  <2>3. buf' \in [Threads -> Seq(Gram)] /\ pc' \in [Threads -> Places]
    BY <1>1 DEF ResInv, Shape, Places
  <2>4. QED
    BY <1>1, <2>1, <2>2, <2>3 DEF ResInv, Shape, place, marks
<1>4. Counted'
  BY <1>1, <1>2, FS_CardinalityType DEF ResInv, Counted, Shape
<1>5. Turn(t)'
  BY <1>1, <1>2 DEF ResInv, Shape, Turn, Result, marks
<1>6. ASSUME NEW u \in Threads, u # t PROVE Turn(u)'
  BY <1>1, <1>6, TurnKept DEF ResInv, Turns, Shape, place, marks
<1>7. QED
  BY <1>3, <1>4, <1>5, <1>6 DEF ResInv, Turns

LEMMA EportStep ==
  ASSUME ResInv, NEW t \in Threads, CPS_SocGetEport(t)
  PROVE  ResInv'
<1>1. /\ pc[t] = "look"
      /\ UNCHANGED <<names, call, place, port, input, ret, dangling, marks>>
      /\ \/ eport' = (eport % NPorts) + 1 /\ UNCHANGED <<pc, chosen>>
         \/ pc' = [pc EXCEPT ![t] = "bind"] /\ chosen' = [chosen EXCEPT ![t] = eport] /\ UNCHANGED eport
  BY DEF CPS_SocGetEport, Put, Goto
<1>2. ret[t] = Zero /\ len[t] = 0 /\ heard[t] \subseteq wasted[t] /\ buf[t] = <<>>
  BY <1>1 DEF ResInv, Turns, Turn, Result, Unread
<1>3. Shape'
  <2>1. eport' \in 1 .. NPorts
    BY <1>1, NextPort DEF ResInv, Shape
  <2>2. chosen' \in [Threads -> 0 .. NPorts]
    <3>1. eport \in 0 .. NPorts /\ chosen \in [Threads -> 0 .. NPorts]
      BY ResolverAssumption DEF ResInv, Shape
    <3>2. chosen' = chosen \/ chosen' = [chosen EXCEPT ![t] = eport]
      BY <1>1
    <3>3. QED
      BY <3>1, <3>2
  <2>3. pc' \in [Threads -> Places]
    BY <1>1 DEF ResInv, Shape, Places
  <2>4. QED
    BY <1>1, <2>1, <2>2, <2>3 DEF ResInv, Shape, place, input, marks
<1>4. Counted'
  BY <1>1 DEF ResInv, Counted, input
<1>5. Turn(t)'
  <2>1. pc'[t] \in {"look", "bind"}
    BY <1>1 DEF ResInv, Shape
  <2>2. QED
    BY <1>1, <1>2, <2>1 DEF Turn, Result, input, marks
<1>6. ASSUME NEW u \in Threads, u # t PROVE Turn(u)'
  <2>1. pc'[u] = pc[u]
    BY <1>1, <1>6 DEF ResInv, Shape
  <2>2. QED
    BY <1>1, <2>1, TurnKept DEF ResInv, Turns, place, input, marks
<1>7. QED
  BY <1>3, <1>4, <1>5, <1>6 DEF ResInv, Turns

LEMMA AskStep ==
  ASSUME ResInv, NEW t \in Threads, Ask(t)
  PROVE  ResInv'
<1>1. /\ pc[t] = "bind" /\ pc' = [pc EXCEPT ![t] = "wait"]
      /\ port' = [port EXCEPT ![t] = chosen[t]] /\ chosen' = [chosen EXCEPT ![t] = 0]
      /\ UNCHANGED <<names, call, place, eport, buf, len, ret, dangling, marks>>
  BY DEF Ask, Put, Goto
<1>2. ret[t] = Zero /\ len[t] = 0 /\ heard[t] \subseteq wasted[t] /\ buf[t] = <<>>
  BY <1>1 DEF ResInv, Turns, Turn, Result, Unread
<1>3. /\ flight' \subseteq Gram /\ answers' \in 0 .. MaxAnswers /\ IsFiniteSet(flight')
      /\ \A n \in Nat : Cardinality(flight) + n <= answers => Cardinality(flight') + n <= answers'
  <2>1. CASE UNCHANGED <<flight, answers>>
    BY <2>1 DEF ResInv, Shape, Counted
  <2>2. ASSUME NEW k \in Kinds, answers < MaxAnswers, answers' = answers + 1,
               flight' = flight \cup {[to |-> chosen[t], ident |-> Ident(t), kind |-> k]}
        PROVE  /\ flight' \subseteq Gram /\ answers' \in 0 .. MaxAnswers /\ IsFiniteSet(flight')
               /\ \A n \in Nat :
                    Cardinality(flight) + n <= answers => Cardinality(flight') + n <= answers'
    <3> DEFINE d == [to |-> chosen[t], ident |-> Ident(t), kind |-> k]
    <3>1. d \in Gram
      <4>1. chosen[t] \in 0 .. NPorts /\ call[t] \in 0 .. MaxCalls /\ srv[t] \in Servers
        BY DEF ResInv, Shape
      <4>2. Ident(t) \in {<<u, c, s>> : u \in Threads, c \in 0 .. MaxCalls, s \in Servers}
        BY <4>1 DEF Ident
      <4>3. QED
        BY <4>1, <4>2 DEF Gram
    <3>2. IsFiniteSet(flight) /\ answers \in 0 .. MaxAnswers /\ flight \subseteq Gram
      BY DEF ResInv, Shape, Counted
    <3> HIDE DEF d
    <3>3. /\ IsFiniteSet(flight') /\ Cardinality(flight) \in Nat /\ Cardinality(flight') \in Nat
          /\ Cardinality(flight') <= Cardinality(flight) + 1
      <4>1. flight' = flight \cup {d}
        BY <2>2 DEF d
      <4>2. QED
        <5>1. IsFiniteSet(flight \cup {d})
          BY <3>2, FS_AddElement
        <5>2. Cardinality(flight \cup {d}) \in {Cardinality(flight), Cardinality(flight) + 1}
          BY <3>2, FS_AddElement
        <5>3. Cardinality(flight) \in Nat
          BY <3>2, FS_CardinalityType
        <5>4. QED
          BY <4>1, <5>1, <5>2, <5>3
    <3>4. flight' \subseteq Gram
      BY <3>1, <3>2, <2>2 DEF d
    <3>5. answers' \in 0 .. MaxAnswers
      BY <3>2, <2>2, ResolverAssumption
    <3>6. QED
      BY <2>2, <3>2, <3>3, <3>4, <3>5
  <2>3. QED
    BY <2>1, <2>2 DEF Ask
<1>4. Shape'
  <2>1. chosen' \in [Threads -> 0 .. NPorts] /\ port' \in [Threads -> 0 .. NPorts]
    BY <1>1, ResolverAssumption DEF ResInv, Shape
  <2>2. QED
    BY <1>1, <1>3, <2>1 DEF ResInv, Shape, Places, place, marks
<1>5. Counted'
  BY <1>1, <1>3 DEF ResInv, Counted, Shape
<1>6. Turn(t)'
  BY <1>1, <1>2 DEF ResInv, Shape, Turn, Result, marks
<1>7. ASSUME NEW u \in Threads, u # t PROVE Turn(u)'
  BY <1>1, <1>7, TurnKept DEF ResInv, Turns, Shape, place, marks
<1>8. QED
  BY <1>4, <1>5, <1>6, <1>7 DEF ResInv, Turns

LEMMA DeliverStep ==
  ASSUME ResInv, Deliver
  PROVE  ResInv'
<1>0. PICK d \in flight : \E t \in Open(d.to) :
        /\ flight' = flight \ {d}
        /\ buf' = Put(buf, t, Append(buf[t], d))
        /\ heard' = IF Good(t, d) THEN Put(heard, t, heard[t] \cup {d}) ELSE heard
        /\ UNCHANGED <<names, pc, call, place, socket, len, answers, ret, dangling, wasted>>
  BY DEF Deliver
<1>1. PICK t \in Open(d.to) :
        /\ flight' = flight \ {d}
        /\ buf' = Put(buf, t, Append(buf[t], d))
        /\ heard' = IF Good(t, d) THEN Put(heard, t, heard[t] \cup {d}) ELSE heard
        /\ UNCHANGED <<names, pc, call, place, socket, len, answers, ret, dangling, wasted>>
  BY <1>0
<1>2. t \in Threads /\ pc[t] \in {"wait", "consume"} /\ d \in Gram
  BY DEF Open, ResInv, Shape
<1>3. /\ buf[t] \in Seq(Gram) /\ Append(buf[t], d) \in Seq(Gram)
      /\ buf' = [buf EXCEPT ![t] = Append(buf[t], d)] /\ buf'[t] = Append(buf[t], d)
  BY <1>1, <1>2 DEF ResInv, Shape, Put
<1>4. Shape'
  <2>1. buf' \in [Threads -> Seq(Gram)]
    BY <1>2, <1>3 DEF ResInv, Shape
  <2>2. DOMAIN heard' = Threads
    BY <1>1, <1>2 DEF ResInv, Shape, Put
  <2>3. QED
    BY <1>1, <2>1, <2>2 DEF ResInv, Shape, place, socket
<1>5. Counted'
  <2>1. /\ IsFiniteSet(flight') /\ Cardinality(flight') = Cardinality(flight) - 1
        /\ Cardinality(flight) \in Nat
    BY <1>1, FS_RemoveElement, FS_CardinalityType DEF ResInv, Counted
  <2>2. ASSUME NEW u \in Threads
        PROVE  len'[u] <= Len(buf'[u]) /\ Cardinality(flight') + Len(buf'[u]) <= answers'
    <3>1. len[u] \in Nat /\ len[u] <= Len(buf[u]) /\ Cardinality(flight) + Len(buf[u]) <= answers
      BY DEF ResInv, Counted, Shape
    <3>2. Len(buf[u]) \in Nat /\ Len(buf'[u]) <= Len(buf[u]) + 1 /\ Len(buf[u]) <= Len(buf'[u])
          /\ Len(buf'[u]) \in Nat
      <4>1. CASE u = t
        BY <4>1, <1>3
      <4>2. CASE u # t
        BY <4>2, <1>3 DEF ResInv, Shape
      <4>3. QED
        BY <4>1, <4>2
    <3>3. len'[u] = len[u] /\ answers' = answers /\ answers \in Nat
      BY <1>1, ResolverAssumption DEF ResInv, Shape
    <3>4. QED
      BY <3>1, <3>2, <3>3, <2>1
  <2>3. QED
    BY <2>1, <2>2 DEF Counted
<1>6. Turn(t)'
  <2>1. /\ Turn(t) /\ pc'[t] = pc[t] /\ len'[t] = len[t] /\ ret'[t] = ret[t] /\ wasted'[t] = wasted[t]
        /\ \A e : Good(t, e)' <=> Good(t, e)
        /\ len[t] \in Nat /\ len[t] <= Len(buf[t]) /\ Ident(t)' = Ident(t)
    BY <1>1, <1>2 DEF ResInv, Turns, Shape, Counted, place, Good, Ident
  <2>2. /\ heard[t] \subseteq heard'[t] /\ heard'[t] \subseteq heard[t] \cup {d}
        /\ Good(t, d) => d \in heard'[t]
        /\ d \in heard'[t] => d \in heard[t] \/ Good(t, d)
    BY <1>1, <1>2 DEF ResInv, Shape, Put
  <2>3. /\ Len(buf'[t]) = Len(buf[t]) + 1 /\ Len(buf[t]) \in Nat /\ buf'[t][Len(buf[t]) + 1] = d
        /\ \A i \in 1 .. Len(buf[t]) : buf'[t][i] = buf[t][i]
    BY <1>3
  <2>4. ASSUME NEW i \in 1 .. Len(buf'[t]), Good(t, buf'[t][i])
        PROVE  buf'[t][i] \in heard'[t]
    <3>1. CASE i = Len(buf[t]) + 1
      BY <3>1, <2>2, <2>3, <2>4
    <3>2. CASE i # Len(buf[t]) + 1
      <4>1. i \in 1 .. Len(buf[t]) /\ buf'[t][i] = buf[t][i]
        BY <3>2, <2>3
      <4>2. QED
        BY <4>1, <2>1, <2>2, <2>4, <1>2 DEF Turn
    <3>3. QED
      BY <3>1, <3>2
  <2>5. Result(t)'
    BY <2>1, <2>2 DEF Turn, Result
  <2>6. ASSUME NEW e \in heard'[t], ret[t] \in {Zero, Denied}, e \notin wasted[t]
        PROVE  Good(t, e) /\ Unread(t, e)'
    <3>1. CASE e \in heard[t]
      <4>1. Good(t, e) /\ Unread(t, e)
        BY <3>1, <2>1, <2>6 DEF Turn
      <4>2. PICK i \in 1 .. Len(buf[t]) : len[t] < i /\ e = buf[t][i]
        BY <4>1 DEF Unread
      <4>3. i \in 1 .. Len(buf'[t]) /\ e = buf'[t][i]
        BY <4>2, <2>3
      <4>4. QED
        BY <4>1, <4>2, <4>3, <2>1, <1>2 DEF Unread
    <3>2. CASE e = d /\ Good(t, d)
      <4>1. Len(buf[t]) + 1 \in 1 .. Len(buf'[t]) /\ len[t] < Len(buf[t]) + 1
        BY <2>1, <2>3
      <4>2. QED
        BY <4>1, <3>2, <2>1, <2>3, <1>2 DEF Unread
    <3>3. QED
      BY <3>1, <3>2, <2>2
  <2>7. pc'[t] # "consume" => len'[t] = 0
    BY <2>1 DEF Turn
  <2>8. QED
    BY <2>1, <2>4, <2>5, <2>6, <2>7, <1>2 DEF Turn
<1>7. ASSUME NEW u \in Threads, u # t PROVE Turn(u)'
  BY <1>1, <1>2, <1>7, TurnKept DEF ResInv, Turns, Shape, place, Put
<1>8. QED
  BY <1>4, <1>5, <1>6, <1>7 DEF ResInv, Turns

LEMMA ReadStep ==
  ASSUME ResInv, NEW t \in Threads, Read(t)
  PROVE  ResInv'
<1>1. PICK r \in Parse(t, buf[t][1]) :
        /\ pc[t] = "wait" /\ buf[t] # <<>>
        /\ len' = [len EXCEPT ![t] = Len(buf[t])]
        /\ ret' = [ret EXCEPT ![t] = r]
        /\ wasted' = [wasted EXCEPT ![t] = wasted[t] \cup {d \in ToSet(Tail(buf[t])) : Good(t, d)}]
        /\ pc' = [pc EXCEPT ![t] = "consume"]
        /\ UNCHANGED <<names, call, place, socket, buf, flight, answers, dangling, heard>>
  BY DEF Read, Put, Goto
<1>2. /\ buf[t] \in Seq(Gram) /\ Len(buf[t]) \in Nat \ {0} /\ buf[t][1] \in Gram
      /\ Len(Tail(buf[t])) = Len(buf[t]) - 1
      /\ \A i \in 1 .. Len(buf[t]) : i > 1 =>
           i - 1 \in DOMAIN Tail(buf[t]) /\ Tail(buf[t])[i - 1] = buf[t][i]
  BY <1>1 DEF ResInv, Shape
<1>3. Turn(t) /\ ret[t] = Zero /\ len[t] = 0
  BY <1>1 DEF ResInv, Turns, Turn, Result
<1>4. Shape'
  BY <1>1, <1>2 DEF ResInv, Shape, Places, place, socket
<1>5. Counted'
  BY <1>1, <1>2 DEF ResInv, Counted, Shape
<1>6. Turn(t)'
  <2>1. /\ pc'[t] = "consume" /\ ret'[t] = r /\ Ident(t)' = Ident(t)
        /\ heard' = heard /\ buf' = buf /\ \A e : Good(t, e)' <=> Good(t, e)
    BY <1>1 DEF ResInv, Shape, place, Good, Ident
  <2>2. r \in {Zero, Denied, Junk} \/ (r = Ident(t) /\ Good(t, buf[t][1]))
    BY <1>2 DEF Parse, Outcome, Good, Gram, Kinds
  <2>3. r \in {Zero, Denied} => ~Good(t, buf[t][1])
    <3>1. Ident(t) \notin {Zero, Denied}
      BY ResultsDiffer DEF Ident
    <3>2. Good(t, buf[t][1]) => Parse(t, buf[t][1]) = {Ident(t)}
      BY DEF Good, Parse, Outcome
    <3>3. QED
      BY <3>1, <3>2
  <2>4. Good(t, buf[t][1]) => buf[t][1] \in heard[t] /\ buf[t][1].ident = Ident(t)
    BY <1>1, <1>2, <1>3 DEF Turn, Good
  <2>5. Result(t)'
    BY <2>1, <2>2, <2>4 DEF Result
  <2>6. ASSUME NEW d \in heard[t], r \in {Zero, Denied}
        PROVE  d \in wasted'[t]
    <3>0. wasted'[t] = wasted[t] \cup {e \in ToSet(Tail(buf[t])) : Good(t, e)}
      BY <1>1 DEF ResInv, Shape
    <3>1. CASE d \in wasted[t]
      BY <3>0, <3>1
    <3>2. CASE d \notin wasted[t]
      <4>1. Good(t, d) /\ Unread(t, d)
        BY <3>2, <1>3 DEF Turn
      <4>2. PICK i \in 1 .. Len(buf[t]) : d = buf[t][i]
        BY <4>1 DEF Unread
      <4>3. i # 1
        BY <4>1, <4>2, <2>3, <2>6
      <4>4. d \in ToSet(Tail(buf[t]))
        <5>1. i - 1 \in DOMAIN Tail(buf[t]) /\ d = Tail(buf[t])[i - 1]
          BY <4>2, <4>3, <1>2
        <5>2. QED
          BY <5>1 DEF ToSet
      <4>5. QED
        BY <4>1, <4>4, <3>0
    <3>3. QED
      BY <3>1, <3>2
  <2>7. \A i \in 1 .. Len(buf[t]) : Good(t, buf[t][i]) => buf[t][i] \in heard[t]
    BY <1>1, <1>3 DEF Turn
  <2>8. QED
    BY <2>1, <2>5, <2>6, <2>7 DEF Turn
<1>7. ASSUME NEW u \in Threads, u # t PROVE Turn(u)'
  BY <1>1, <1>7, TurnKept DEF ResInv, Turns, Shape, place
<1>8. QED
  BY <1>4, <1>5, <1>6, <1>7 DEF ResInv, Turns

LEMMA ReturnStep ==
  ASSUME ResInv, NEW t \in Threads, Return(t)
  PROVE  ResInv'
<1>1. /\ pc[t] = "return" /\ pc' = [pc EXCEPT ![t] = "idle"]
      /\ dangling' = dangling \cup {t}
      /\ buf' = [buf EXCEPT ![t] = <<>>] /\ ret' = [ret EXCEPT ![t] = Zero]
      /\ heard' = [heard EXCEPT ![t] = {}] /\ wasted' = [wasted EXCEPT ![t] = {}]
      /\ try' = [try EXCEPT ![t] = 1] /\ srv' = [srv EXCEPT ![t] = 1]
      /\ alive' = [alive EXCEPT ![t] = Servers]
      /\ UNCHANGED <<names, call, socket, len, flight, answers>>
  BY DEF Return, Put, Goto
<1>2. len[t] = 0
  BY <1>1 DEF ResInv, Turns, Turn
<1>3. Shape'
  <2>1. try' \in [Threads -> 1 .. Tries] /\ srv' \in [Threads -> Servers]
        /\ alive' \in [Threads -> SUBSET Servers]
    BY <1>1, ResolverAssumption DEF ResInv, Shape, Servers
  <2>2. QED
    BY <1>1, <2>1 DEF ResInv, Shape, Places, socket
<1>4. Counted'
  BY <1>1, <1>2, FS_CardinalityType DEF ResInv, Counted, Shape
<1>5. Turn(t)'
  BY <1>1, <1>2 DEF ResInv, Shape, Turn, Result
<1>6. ASSUME NEW u \in Threads, u # t PROVE Turn(u)'
  BY <1>1, <1>6, TurnKept DEF ResInv, Turns, Shape
<1>7. QED
  BY <1>3, <1>4, <1>5, <1>6 DEF ResInv, Turns

(* Releasing the socket leaves no more datagrams under way.                  *)
LEMMA LeaveCounts ==
  ASSUME ResInv, NEW t \in Threads, Leave(t)
  PROVE  /\ flight' \subseteq Gram /\ IsFiniteSet(flight')
         /\ Cardinality(flight) \in Nat /\ Cardinality(flight') \in Nat
         /\ Cardinality(flight') <= Cardinality(flight)
<1>1. flight' \subseteq flight /\ IsFiniteSet(flight) /\ flight \subseteq Gram
  BY DEF Leave, ResInv, Counted, Shape
<1>2. QED
  BY <1>1, FS_Subset, FS_CardinalityType

LEMMA GiveUpStep ==
  ASSUME ResInv, NEW t \in Threads, GiveUp(t)
  PROVE  ResInv'
<1>1. /\ pc[t] = "wait" /\ buf' = buf /\ Leave(t) /\ AfterTurn(t, Zero)
      /\ port' = [port EXCEPT ![t] = 0]
      /\ wasted' = [wasted EXCEPT ![t] = wasted[t] \cup {d \in ToSet(buf'[t]) : Good(t, d)}]
      /\ UNCHANGED <<names, call, eport, chosen, len, answers, dangling, heard>>
  BY DEF GiveUp, Leave, Put
<1>2. Turn(t) /\ ret[t] = Zero /\ len[t] = 0
  BY <1>1 DEF ResInv, Turns, Turn, Result
<1>3. Shape'
  <2>1. port' \in [Threads -> 0 .. NPorts] /\ DOMAIN wasted' = Threads
    BY <1>1, ResolverAssumption DEF ResInv, Shape
  <2>2. QED
    BY <1>1, <2>1, LeaveCounts, AfterTurnShape DEF ResInv, Shape
<1>4. Counted'
  <2>1. /\ IsFiniteSet(flight') /\ Cardinality(flight) \in Nat /\ Cardinality(flight') \in Nat
        /\ Cardinality(flight') <= Cardinality(flight)
    BY <1>1, LeaveCounts
  <2>2. ASSUME NEW u \in Threads
        PROVE  len'[u] <= Len(buf'[u]) /\ Cardinality(flight') + Len(buf'[u]) <= answers'
    <3>1. /\ len[u] <= Len(buf[u]) /\ Cardinality(flight) + Len(buf[u]) <= answers
          /\ Len(buf[u]) \in Nat /\ answers \in Nat
      BY DEF ResInv, Counted, Shape
    <3>2. QED
      BY <1>1, <2>1, <3>1
  <2>3. QED
    BY <2>1, <2>2 DEF Counted
<1>5. Turn(t)'
  <2>1. heard[t] \subseteq wasted'[t]
    <3>1. wasted'[t] = wasted[t] \cup {d \in ToSet(buf[t]) : Good(t, d)}
      BY <1>1 DEF ResInv, Shape
    <3>2. ASSUME NEW d \in heard[t], d \notin wasted[t]
          PROVE  Good(t, d) /\ d \in ToSet(buf[t])
      BY <3>2, <1>2 DEF Turn, Unread, ToSet, ResInv, Shape
    <3>3. QED
      BY <3>1, <3>2
  <2>2. QED
    BY <2>1, <1>1, <1>2, EndsWell DEF ResInv
<1>6. ASSUME NEW u \in Threads, u # t PROVE Turn(u)'
  BY <1>1, <1>6, TurnKept, AfterTurnIs DEF ResInv, Turns, Shape
<1>7. QED
  BY <1>3, <1>4, <1>5, <1>6 DEF ResInv, Turns

(* Consume takes what was read from the front of the buffer.                 *)
LEMMA RestIs ==
  ASSUME NEW s \in Seq(Gram), NEW n \in Nat, n <= Len(s)
  PROVE  /\ SubSeq(s, n + 1, Len(s)) \in Seq(Gram)
         /\ Len(SubSeq(s, n + 1, Len(s))) = Len(s) - n
         /\ \A i \in 1 .. Len(s) - n : SubSeq(s, n + 1, Len(s))[i] = s[i + n]
<1>1. Len(s) \in Nat
  OBVIOUS
<1>2. SubSeq(s, n + 1, Len(s)) \in Seq(Gram)
  BY <1>1
<1>3. Len(SubSeq(s, n + 1, Len(s))) = Len(s) - n
  BY <1>1
<1>4. \A i \in 1 .. Len(s) - n : SubSeq(s, n + 1, Len(s))[i] = s[i + n]
  BY <1>1
<1>5. QED
  BY <1>2, <1>3, <1>4

LEMMA ConsumeStep ==
  ASSUME ResInv, NEW t \in Threads, Consume(t)
  PROVE  ResInv'
<1> DEFINE rest == SubSeq(buf[t], len[t] + 1, Len(buf[t]))
<1>1. /\ pc[t] = "consume"
      /\ buf' = [buf EXCEPT ![t] = rest] /\ len' = [len EXCEPT ![t] = 0]
      /\ UNCHANGED <<names, call, eport, chosen, answers, dangling, heard>>
  BY DEF Consume, Put
<1>2. Turn(t) /\ buf[t] \in Seq(Gram) /\ len[t] \in Nat /\ len[t] <= Len(buf[t])
  BY DEF ResInv, Turns, Shape, Counted
<1>3. /\ rest \in Seq(Gram) /\ Len(rest) = Len(buf[t]) - len[t]
      /\ \A i \in 1 .. Len(rest) : rest[i] = buf[t][i + len[t]]
      /\ Len(rest) \in Nat /\ Len(buf[t]) \in Nat /\ Len(rest) <= Len(buf[t])
  <2>1. /\ rest \in Seq(Gram) /\ Len(rest) = Len(buf[t]) - len[t]
        /\ \A i \in 1 .. Len(buf[t]) - len[t] : rest[i] = buf[t][i + len[t]]
    BY <1>2, RestIs
  <2>2. Len(buf[t]) \in Nat
    BY <1>2
  <2> HIDE DEF rest
  <2>3. QED
    BY <2>1, <2>2, <1>2
<1> HIDE DEF rest
<1>4. buf' \in [Threads -> Seq(Gram)] /\ len' \in [Threads -> Nat] /\ buf'[t] = rest /\ len'[t] = 0
  BY <1>1, <1>3 DEF ResInv, Shape
<1>5. ASSUME NEW d, Unread(t, d)
      PROVE  \E i \in 1 .. Len(rest) : d = rest[i]
  <2>1. PICK i \in 1 .. Len(buf[t]) : len[t] < i /\ d = buf[t][i]
    BY <1>5 DEF Unread
  <2>2. PICK j \in 1 .. Len(rest) : j + len[t] = i
    <3> DEFINE k == i - len[t]
    <3>1. i \in Int /\ len[t] \in Int /\ len[t] < i /\ i <= Len(rest) + len[t] /\ Len(rest) \in Int
      BY <2>1, <1>2, <1>3
    <3>2. k \in 1 .. Len(rest) /\ k + len[t] = i
      BY <3>1
    <3>3. QED
      BY <3>2
  <2>3. QED
    BY <2>1, <2>2, <1>3
<1>6. ASSUME IsFiniteSet(flight'), Cardinality(flight) \in Nat, Cardinality(flight') \in Nat,
             Cardinality(flight') <= Cardinality(flight)
      PROVE  Counted'
  <2>1. ASSUME NEW u \in Threads
        PROVE  len'[u] <= Len(buf'[u]) /\ Cardinality(flight') + Len(buf'[u]) <= answers'
    <3>1. /\ len[u] <= Len(buf[u]) /\ Cardinality(flight) + Len(buf[u]) <= answers
          /\ Len(buf[u]) \in Nat /\ answers \in Nat /\ answers' = answers
      BY <1>1 DEF ResInv, Counted, Shape
    <3>2. CASE u = t
      BY <3>1, <3>2, <1>6, <1>3, <1>4
    <3>3. CASE u # t
      <4>1. buf'[u] = buf[u] /\ len'[u] = len[u]
        BY <3>3, <1>1 DEF ResInv, Shape
      <4>2. QED
        BY <4>1, <3>1, <1>6
    <3>4. QED
      BY <3>2, <3>3
  <2>2. QED
    BY <2>1, <1>6 DEF Counted
<1>7. CASE ret[t] = Zero /\ pc' = [pc EXCEPT ![t] = "wait"]
           /\ UNCHANGED <<place, port, ret, wasted, flight>>
  <2>1. Shape'
    BY <1>1, <1>4, <1>7 DEF ResInv, Shape, Places, place
  <2>2. Counted'
    BY <1>6, <1>7, FS_CardinalityType DEF ResInv, Counted
  <2>3. Turn(t)'
    <3>1. /\ pc'[t] = "wait" /\ Ident(t)' = Ident(t) /\ \A e : Good(t, e)' <=> Good(t, e)
          /\ heard' = heard /\ wasted' = wasted /\ ret' = ret
      BY <1>1, <1>7 DEF ResInv, Shape, place, Good, Ident
    <3>2. \A i \in 1 .. Len(rest) : Good(t, rest[i]) => rest[i] \in heard[t]
      <4>1. \A i \in 1 .. Len(rest) : i + len[t] \in 1 .. Len(buf[t])
        BY <1>2, <1>3
      <4>2. QED
        BY <4>1, <1>1, <1>2, <1>3 DEF Turn
    <3>3. ASSUME NEW d \in heard[t], d \notin wasted[t]
          PROVE  Good(t, d) /\ Unread(t, d)'
      <4>1. Good(t, d) /\ Unread(t, d)
        BY <3>3, <1>2, <1>7 DEF Turn
      <4>2. PICK i \in 1 .. Len(rest) : d = rest[i]
        BY <4>1, <1>5
      <4>3. QED
        BY <4>1, <4>2, <3>1, <1>4, <1>3 DEF Unread
    <3>4. QED
      BY <3>1, <3>2, <3>3, <1>4, <1>7 DEF Turn, Result
  <2>4. ASSUME NEW u \in Threads, u # t PROVE Turn(u)'
    BY <1>1, <1>7, <2>4, TurnKept DEF ResInv, Turns, Shape, place
  <2>5. QED
    BY <2>1, <2>2, <2>3, <2>4 DEF ResInv, Turns
<1>8. CASE Leave(t) /\ AfterTurn(t, ret[t])
  <2>1. /\ port' = [port EXCEPT ![t] = 0]
        /\ wasted' = [wasted EXCEPT ![t] = wasted[t] \cup {d \in ToSet(buf'[t]) : Good(t, d)}]
    BY <1>8 DEF Leave, Put
  <2>2. Shape'
    <3>1. port' \in [Threads -> 0 .. NPorts] /\ DOMAIN wasted' = Threads
      BY <2>1, ResolverAssumption DEF ResInv, Shape
    <3>2. QED
      BY <1>1, <1>4, <1>8, <3>1, LeaveCounts, AfterTurnShape DEF ResInv, Shape
  <2>3. Counted'
    BY <1>6, <1>8, LeaveCounts
  <2>4. Turn(t)'
    <3>1. ASSUME ret[t] \in {Zero, Denied}
          PROVE  heard[t] \subseteq wasted'[t]
      <4>1. wasted'[t] = wasted[t] \cup {d \in ToSet(rest) : Good(t, d)}
        BY <2>1, <1>4 DEF ResInv, Shape
      <4>2. ASSUME NEW d \in heard[t], d \notin wasted[t]
            PROVE  Good(t, d) /\ d \in ToSet(rest)
        <5>1. Good(t, d) /\ Unread(t, d)
          BY <4>2, <3>1, <1>2 DEF Turn
        <5>2. PICK i \in 1 .. Len(rest) : d = rest[i]
          BY <5>1, <1>5
        <5>3. QED
          BY <5>1, <5>2, <1>3 DEF ToSet
      <4>3. QED
        BY <4>1, <4>2
    <3>2. \/ ret[t] \in {Zero, Denied, Junk}
          \/ ret[t] = Ident(t) /\ \E d \in heard[t] : d.ident = Ident(t)
      BY <1>2 DEF Turn, Result
    <3>3. QED
      BY <3>1, <3>2, <1>1, <1>4, <1>8, EndsWell DEF ResInv
  <2>5. ASSUME NEW u \in Threads, u # t PROVE Turn(u)'
    BY <1>1, <1>8, <2>1, <2>5, TurnKept, AfterTurnIs DEF ResInv, Turns, Shape
  <2>6. QED
    BY <2>2, <2>3, <2>4, <2>5 DEF ResInv, Turns
<1>9. QED
  BY <1>7, <1>8 DEF Consume, Goto

LEMMA ResStep == ResInv /\ [Next]_vars => ResInv'
<1> SUFFICES ASSUME ResInv, [Next]_vars PROVE ResInv'
  OBVIOUS
<1>1. ASSUME NEW p \in Settings, SOCL_SetResolver(p)
      PROVE  ResInv'
  <2>1. UNCHANGED <<pc, call, place, socket, input, ret, dangling, marks>>
    BY <1>1 DEF SOCL_SetResolver
  <2>2. Shape' /\ Counted'
    BY <2>1 DEF ResInv, Shape, Counted, place, socket, input, marks
  <2>3. ASSUME NEW u \in Threads PROVE Turn(u)'
    BY <2>1, TurnKept DEF ResInv, Turns, place, input, marks
  <2>4. QED
    BY <2>2, <2>3 DEF ResInv, Turns
<1>2. CASE UNCHANGED vars
  <2>1. Shape' /\ Counted'
    BY <1>2 DEF ResInv, Shape, Counted, vars, place, socket, input, marks
  <2>2. ASSUME NEW u \in Threads PROVE Turn(u)'
    BY <1>2, TurnKept DEF ResInv, Turns, vars, place, input, marks
  <2>3. QED
    BY <2>1, <2>2 DEF ResInv, Turns
<1>3. ASSUME NEW t \in Threads, SOCL_InetAtoH(t) \/ InetResolves(t) \/ InetRestores(t)
      PROVE  ResInv'
  BY <1>3, InetStep
<1>4. ASSUME NEW t \in Threads,
             SOCL_Resolve(t) \/ NoServer(t) \/ resolve_sub(t) \/ CPS_SocGetEport(t) \/ Ask(t)
      PROVE  ResInv'
  BY <1>4, ResolveStep, NoServerStep, SubStep, EportStep, AskStep
<1>5. ASSUME NEW t \in Threads, Read(t) \/ Consume(t) \/ GiveUp(t) \/ Return(t)
      PROVE  ResInv'
  BY <1>5, ReadStep, ConsumeStep, GiveUpStep, ReturnStep
<1>6. CASE Deliver
  BY <1>6, DeliverStep
<1>7. QED
  BY <1>1, <1>2, <1>3, <1>4, <1>5, <1>6 DEF Next

(* However many threads ask, from however few ports, a call returns the      *)
(* address that a server gave for its own question, and does not return 0    *)
(* while it heard a good answer that it did not lose by reading it behind    *)
(* another or by giving up (network.c:2122-2196, 3186-3200).                 *)
THEOREM ResolveSafe == Spec => []ResolveTrue
<1>1. ResInv /\ DnsInv => ResolveTrue
  <2> SUFFICES ASSUME ResInv, DnsInv PROVE ResolveTrue
    OBVIOUS
  <2>1. TypeOK
    <3>1. ASSUME NEW t \in Threads
          PROVE  Len(buf[t]) <= MaxAnswers /\ len[t] <= Len(buf[t])
      BY FS_CardinalityType, ResolverAssumption DEF ResInv, Shape, Counted
    <3>2. QED
      BY <3>1 DEF ResInv, Shape, DnsInv, TypeOK
  <2>2. ASSUME NEW t \in Threads, pc[t] = "return"
        PROVE  /\ ret[t] \in {Zero, Junk} \/ ret[t] = Ident(t)
               /\ ret[t] = Ident(t) => \E d \in heard[t] : d.ident = ret[t]
               /\ ret[t] = Zero => heard[t] \subseteq wasted[t]
    <3>1. Turn(t)
      BY DEF ResInv, Turns
    <3>2. \/ ret[t] = Zero \/ ret[t] = Junk
          \/ ret[t] = Ident(t) /\ \E d \in heard[t] : d.ident = Ident(t)
      BY <2>2, <3>1 DEF Turn, Result
    <3>3. Ident(t) \notin {Zero, Junk}
      BY ResultsDiffer DEF Ident
    <3>4. ret[t] = Zero => heard[t] \subseteq wasted[t]
      BY <2>2, <3>1 DEF Turn, Unread
    <3>5. QED
      BY <3>2, <3>3, <3>4
  <2>3. QED
    BY <2>1, <2>2 DEF ResolveTrue
<1>2. DnsInv /\ [Next]_vars => DnsInv'
  BY DnsStep
<1>3. QED
  BY DnsInit, ResInit, ResStep, <1>1, <1>2, PTL DEF Spec
=============================================================================
