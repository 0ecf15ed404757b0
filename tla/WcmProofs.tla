----------------------------- MODULE WcmProofs ------------------------------
(***************************************************************************)
(* What the connection manager promises, in three parts with a state each: *)
(*   - its rest phases (module WcmPhase), for any set of builds and any    *)
(*     number of faults of the driver;                                     *)
(*   - the list of access points (WcmApList), for any size of the buffer   *)
(*     and any number of access points;                                    *)
(*   - the send mutex (WcmSend), for any number of threads.                *)
(***************************************************************************)
EXTENDS WcmPhase, WcmApList, WcmSend, SequenceTheorems, FiniteSetTheorems, WellFoundedInduction, TLAPS

-----------------------------------------------------------------------------
(* The types of the state, sharper than TypeOK where the proofs need it.     *)

Message ==
  [request : Requests \cup {"Indication"},
   result : {"SUCCESS", "BAD_AID", "DISCONNECTED", "AUTO_DISCONNECT", "ILLEGAL_STATE"}
              \cup Refusals]
Slips == {"overtaken", "refused", "uninitialized"}

ProgramTypes ==
  /\ build \in Builds /\ ready \in BOOLEAN
  /\ phase \in Phases /\ notifyId \in Notify
  /\ resetting \in BOOLEAN /\ authId \in BOOLEAN
  /\ wlStatus \in BOOLEAN /\ rateSet \in BOOLEAN
  /\ scanEx \in {"none", "switch", "next"}
  /\ due \subseteq Asked
  /\ notice \in [id : Notify, result : Results]
  /\ slip \subseteq Slips
DriverTypes ==
  /\ wm \in States /\ link \in BOOLEAN
  /\ faults \in 0 .. MaxFaults
  /\ requests \in Seq(Requests) /\ replies \in Seq(Message)
Types == ProgramTypes /\ DriverTypes

-----------------------------------------------------------------------------
(* The situations the manager and the driver can be in together.             *)

(* Only a driver that has made a connection can lose one.                    *)
Linked == link => wm \in {"child", "dcf"}
Near == {"child", "dcf", "idle"}

(* The requests that a connection's loss overtakes, and with WM_Reset those  *)
(* that run while there is a connection.                                     *)
Frail == {"StartDCF", "EndDCF", "Disconnect"}
Lossy == Frail \cup {"Reset"}

Own == [WAIT_TO_IDLE |-> "STARTUP", IDLE_TO_WAIT |-> "CLEANUP",
        IDLE_TO_SEARCH |-> "BEGIN_SEARCH", SEARCH_TO_IDLE |-> "END_SEARCH",
        IDLE_TO_DCF |-> "CONNECT", DCF_TO_IDLE |-> "DISCONNECT",
        TERMINATING |-> "TERMINATE"]

(* The notice that phase p owes: none, or its own under the name id.  A late *)
(* terminate is one that overtook a request and was caught by a reset.       *)
NamedAs(p, id, d, late) ==
  \/ p \in Transitional /\ id = Own[p] /\ d = {id}
  \/ p \in {"DCF_TO_IDLE", "IRREGULAR"} /\ late /\ id = "TERMINATE" /\ d = {id}
  \/ p = "DCF" /\ id \in {"COMMON", "DISCONNECT"} /\ d = {}
  \/ p = "SEARCH" /\ id \in {"COMMON", "FOUND_AP"} /\ d = {}
  \/ p = "IRREGULAR" /\ id = "COMMON" /\ d = {}
  \/ p = "IRREGULAR" /\ id \in {"CONNECT", "DISCONNECT"} /\ d = {id}
Named == NamedAs(phase, notifyId, due, resetting /\ "overtaken" \in slip)

(* The phases in which a request may be under way.                           *)
Scanning == {"IDLE_TO_SEARCH", "SEARCH", "SEARCH_TO_IDLE", "TERMINATING"}
Home(r, p) ==
  \/ r \in {"Enable", "PowerOn"} /\ p = "WAIT_TO_IDLE"
  \/ r \in {"PowerOff", "Disable"} /\ p \in {"IDLE_TO_WAIT", "TERMINATING"}
  \/ /\ r \in {"SetLifeTime", "SetBeaconInd", "SetWEPKeyEx", "StartConnectEx"}
     /\ p = "IDLE_TO_DCF"
  \/ r = "StartDCF" /\ p \in {"IDLE_TO_DCF", "IRREGULAR"}
  \/ r \in {"EndDCF", "Disconnect"} /\ p \in {"DCF_TO_IDLE", "IRREGULAR"}
  \/ r = "StartScanEx" /\ p \in Scanning
  \/ r = "EndScan" /\ p = "SEARCH_TO_IDLE"
  \/ /\ r = "Reset"
     /\ p \in Scanning \cup {"DCF", "DCF_TO_IDLE", "IDLE_TO_DCF", "IRREGULAR"}

Up == ready /\ scanEx = "none"

(* Nothing is under way but the report of a loss, if there was one.          *)
Quiet == requests = <<>> /\ replies = <<>>
CalmIs(asked, told_, w, k) ==
  /\ asked = <<>>
  /\ \/ told_ = <<>>
     \/ (\E l \in Losses : told_ = <<l>>) /\ ~k /\ w \in Near
Calm == CalmIs(requests, replies, wm, link)

Off ==
  /\ phase = "WAIT" /\ notifyId = "COMMON" /\ due = {} /\ ~resetting
  /\ scanEx = "none" /\ Quiet /\ wm = "off" /\ ~link
Idle ==
  /\ Up /\ phase = "IDLE" /\ notifyId = "COMMON" /\ due = {} /\ ~resetting
  /\ Quiet /\ wm = "idle" /\ ~link
Scans ==
  /\ ready /\ scanEx # "none" /\ phase \in {"SEARCH", "SEARCH_TO_IDLE", "TERMINATING"}
  /\ Named /\ ~resetting /\ Quiet /\ ~link
Joined ==
  /\ Up /\ Named /\ ~resetting /\ authId
  /\ \/ phase = "DCF" /\ notifyId = "COMMON"
     \/ phase = "DCF_TO_IDLE" /\ "uninitialized" \in slip
  /\ Calm /\ (Quiet => wm = "dcf" /\ link)
Irregular ==
  /\ Up /\ phase = "IRREGULAR" /\ Named /\ ~resetting
  /\ due = {} \/ ("uninitialized" \in slip /\ wm \in Near)
  /\ Calm

(* One request is under way: not run, or answered; a loss may be reported    *)
(* before or after the answer.                                               *)
Outcomes == {"SUCCESS", "BAD_AID", "ILLEGAL_STATE"} \cup Refusals
Bad == {"FAILED", "ILLEGAL_STATE"}
Plain == Bad \cup {"SUCCESS"}
OutcomesOf(r) == IF r = "StartConnectEx" THEN Outcomes ELSE Plain
Waits(r) ==
  /\ requests = <<r>> /\ replies = <<>>
  /\ link => r \in Lossy
  /\ r = "StartDCF" /\ phase = "IDLE_TO_DCF" => link
WaitsLost(r) ==
  /\ requests = <<r>> /\ \E l \in Losses : replies = <<l>>
  /\ ~link /\ r \in Lossy \cup {"PowerOff"}
  /\ wm \in Near \/ r = "PowerOff"
  /\ phase = "IRREGULAR" => r = "Reset"
Answered(r, s) ==
  /\ requests = <<>> /\ replies = <<Reply(r, s)>>
  /\ link => r \in Lossy \cup {"StartConnectEx"}
  /\ s = "SUCCESS" =>
       /\ r \in {"PowerOn", "EndScan", "Disconnect", "Reset"} => wm = "idle"
       /\ r = "StartDCF" /\ phase = "IDLE_TO_DCF" => wm = "dcf" /\ link
       /\ r = "StartConnectEx" => link
       /\ phase = "IRREGULAR" /\ r \in Frail => r # "Disconnect" /\ wm # "idle"
LostAnswered(r, s) ==
  /\ requests = <<>> /\ \E l \in Losses : replies = <<l, Reply(r, s)>>
  /\ ~link /\ r \in Lossy \cup {"PowerOff"}
  /\ wm \in Near \/ r = "PowerOff"
  /\ s = "SUCCESS" =>
       /\ r = "Reset" => wm = "idle"
       /\ r \in Frail => r # "Disconnect" /\ wm # "idle"
  /\ phase = "IRREGULAR" => r = "Reset"
AnsweredLost(r, s) ==
  /\ requests = <<>> /\ \E l \in Losses : replies = <<Reply(r, s), l>>
  /\ ~link /\ r \in Lossy \cup {"StartConnectEx"}
  /\ wm \in Near
  /\ s = "SUCCESS" => r \notin {"Reset", "Disconnect"}
  /\ phase = "IRREGULAR" => r = "Reset"
Housed(r) ==
  /\ Up /\ Home(r, phase) /\ Named
  /\ resetting <=> (r = "Reset")
  /\ r = "StartDCF" => authId
  /\ phase = "IRREGULAR" /\ r # "Reset" =>
       /\ ~link /\ wm \in Near
       /\ notifyId = IF r = "StartDCF" THEN "CONNECT" ELSE "DISCONNECT"
Mid(r) ==
  \/ Waits(r)
  \/ WaitsLost(r)
  \/ \E s \in OutcomesOf(r) : Answered(r, s) \/ LostAnswered(r, s) \/ AnsweredLost(r, s)
Single == \E r \in Requests : Housed(r) /\ Mid(r)

(* A terminate overtook a request: the requests r and q are under way; r,    *)
(* before it runs, finds the driver in a state of w, and is answered s \in a.  *)
Pair(r, q, w, a) ==
  \/ requests = <<r, q>> /\ replies = <<>> /\ wm \in w
  \/ requests = <<q>> /\ \E s \in a : replies = <<Reply(r, s)>>
  \/ requests = <<>> /\ \E s \in a, t \in Plain :
        replies = <<Reply(r, s), Reply(q, t)>> /\ (q = "Reset" /\ t = "SUCCESS" => wm = "idle")
Double ==
  /\ Up /\ ~link /\ "overtaken" \in slip /\ notifyId = "TERMINATE" /\ due = {"TERMINATE"}
  /\ \/ /\ phase = "TERMINATING" /\ ~resetting
        /\ \E r \in Frail : Pair(r, "PowerOff", {"idle"}, Bad)
     \/ /\ phase = "TERMINATING" /\ resetting
        /\ \E r \in Frail :
              Pair(r, "Reset", States, IF r = "Disconnect" THEN Bad ELSE Plain)
     \/ phase = "DCF_TO_IDLE" /\ resetting /\ Pair("PowerOff", "Reset", States, Plain)
     \/ phase = "DCF_TO_IDLE" /\ resetting /\ Pair("Reset", "Disable", {"stop"}, Bad)

(* A WM_Reset was refused and the reset flag stays set.                      *)
Stuck ==
  /\ Up /\ "refused" \in slip /\ resetting
  /\ \/ /\ phase \in {"DCF", "DCF_TO_IDLE", "IDLE_TO_DCF", "IRREGULAR", "TERMINATING"}
        /\ Calm
     \/ /\ phase = "IRREGULAR" \/ (phase = "TERMINATING" /\ "overtaken" \in slip)
        /\ ~link
        /\ \E r \in Frail :
             \/ requests = <<r>> /\ replies = <<>>
             \/ requests = <<>> /\ \E s \in IF r = "Disconnect" THEN Bad ELSE Plain :
                                      replies = <<Reply(r, s)>>

Broken == phase = "FATAL_ERROR" /\ ready
Situation ==
  Broken \/ Off \/ Idle \/ Scans \/ Joined \/ Irregular \/ Single \/ Double \/ Stuck

PhaseInv == Types /\ Linked /\ Situation

-----------------------------------------------------------------------------
(* Short sequences, replies and requests.                                    *)

LEMMA AppendOne ==
  ASSUME NEW a, NEW b
  PROVE  Append(<<a>>, b) = <<a, b>>
<1> DEFINE s == Append(<<a>>, b)
           t == <<a, b>>
<1>1. Len(<<a>>) = 1 /\ <<a>>[1] = a /\ <<a>> \in Seq({a, b})
  OBVIOUS
<1>2. s \in Seq({a, b}) /\ Len(s) = 2 /\ s[1] = a /\ s[2] = b
  BY <1>1, AppendProperties
<1>3. t \in Seq({a, b}) /\ Len(t) = 2 /\ t[1] = a /\ t[2] = b
  OBVIOUS
<1>4. \A i \in 1 .. 2 : i = 1 \/ i = 2
  OBVIOUS
<1>5. \A i \in 1 .. Len(s) : s[i] = t[i]
  BY <1>2, <1>3, <1>4
<1>6. s = t
  <2> HIDE DEF s, t
  <2>1. QED
    BY <1>2, <1>3, <1>5, SeqEqual
<1>7. QED
  BY <1>6

LEMMA OneItem ==
  ASSUME NEW a
  PROVE  /\ <<a>> # <<>> /\ Head(<<a>>) = a /\ Tail(<<a>>) = <<>>
         /\ Append(<<>>, a) = <<a>>
<1>1. <<a>> # <<>> /\ Head(<<a>>) = a
  OBVIOUS
<1>2. Tail(<<a>>) = <<>>
  OBVIOUS
<1>3. Append(<<>>, a) = <<a>>
  OBVIOUS
<1>4. QED
  BY <1>1, <1>2, <1>3

LEMMA TwoItems ==
  ASSUME NEW a, NEW b
  PROVE  /\ <<a, b>> # <<>> /\ Head(<<a, b>>) = a /\ Tail(<<a, b>>) = <<b>>
         /\ Append(<<a>>, b) = <<a, b>>
<1>1. <<a, b>> # <<>> /\ Head(<<a, b>>) = a
  OBVIOUS
<1>2. Tail(<<a, b>>) = <<b>>
  OBVIOUS
<1>3. QED
  BY <1>1, <1>2, AppendOne

LEMMA AppendInSeq ==
  ASSUME NEW S, NEW s \in Seq(S), NEW x \in S
  PROVE  Append(s, x) \in Seq(S)
OBVIOUS

LEMMA TailInSeq ==
  ASSUME NEW S, NEW s \in Seq(S), s # <<>>
  PROVE  Head(s) \in S /\ Tail(s) \in Seq(S)
OBVIOUS

LEMMA RequestSet ==
  Requests = {"Enable", "PowerOn", "PowerOff", "Disable", "SetLifeTime", "SetBeaconInd",
              "SetWEPKeyEx", "StartConnectEx", "StartDCF", "EndDCF", "Disconnect",
              "StartScanEx", "EndScan", "Reset"}
BY DEF Requests, From

LEMMA ToIsState == \A r \in Requests : To[r] \in States
BY DEF Requests, From, To, States, Awake

LEMMA ReplyIsMessage ==
  ASSUME NEW r \in Requests, NEW s \in Outcomes
  PROVE  Reply(r, s) \in Message
BY DEF Reply, Message, Outcomes

LEMMA LossIsMessage == Losses \subseteq Message
BY RequestSet DEF Losses, Reply, Message

LEMMA ReplyParts ==
  ASSUME NEW r, NEW s
  PROVE  Reply(r, s).request = r /\ Reply(r, s).result = s
BY DEF Reply

LEMMA LossParts ==
  ASSUME NEW l \in Losses
  PROVE  \/ l.request = "StartConnectEx" /\ l.result = "DISCONNECTED"
         \/ l.request = "Indication" /\ l.result = "AUTO_DISCONNECT"
BY DEF Losses, Reply

LEMMA AnswerIsNoLoss ==
  ASSUME NEW r \in Requests, NEW s \in Outcomes
  PROVE  Reply(r, s) \notin Losses
<1>1. s \notin {"DISCONNECTED", "AUTO_DISCONNECT"}
  BY DEF Outcomes, Refusals
<1>2. QED
  BY <1>1, ReplyParts, LossParts

-----------------------------------------------------------------------------
(* Types are preserved.                                                      *)

LEMMA AskTypes ==
  ASSUME Types, NEW r \in Requests, NEW a, Ask(r, a)
  PROVE  requests' \in Seq(Requests) /\ faults' \in 0 .. MaxFaults /\ UNCHANGED <<wm, link>>
<1>1. requests' \in Seq(Requests)
  BY AppendInSeq DEF Ask, Types, DriverTypes
<1>2. faults' \in 0 .. MaxFaults
  <2>1. a = "OPERATING" \/ ~Legal(r) \/ faults < MaxFaults
    BY DEF Ask, Answers
  <2>2. MaxFaults \in Nat
    BY WcmAssumption
  <2>3. QED
    BY <2>1, <2>2 DEF Ask, Types, DriverTypes
<1>3. QED
  BY <1>1, <1>2 DEF Ask

LEMMA SetPhaseTypes ==
  ASSUME Types, NEW p \in Phases, SetPhase(p)
  PROVE  phase' \in Phases
BY DEF Types, ProgramTypes, SetPhase

LEMMA NotifyTypes ==
  ASSUME Types, NEW id \in Notify, NEW result \in Results, WcmNotifyAs(id, result)
  PROVE  notifyId' \in Notify /\ due' \subseteq Asked /\ notice' \in [id : Notify, result : Results]
<1>1. notifyId' \in Notify /\ due' \subseteq Asked
  BY DEF Types, ProgramTypes, WcmNotifyAs, Notify
<1>2. notice' \in [id : Notify, result : Results]
  BY DEF WcmNotifyAs
<1>3. QED
  BY <1>1, <1>2

(* What a part of a handler leaves typed.                                    *)
Spoken == /\ phase' \in Phases /\ notifyId' \in Notify /\ due' \subseteq Asked
          /\ notice' \in [id : Notify, result : Results]
Passed == /\ requests' \in Seq(Requests) /\ faults' \in 0 .. MaxFaults
          /\ UNCHANGED <<wm, link>>

LEMMA NoRequestTypes ==
  ASSUME Types, NoRequest
  PROVE  Passed
BY DEF Types, DriverTypes, NoRequest, Passed

LEMMA SilentTypes ==
  ASSUME Types, Silent, phase' \in Phases
  PROVE  Spoken
BY DEF Types, ProgramTypes, Silent, Spoken

LEMMA SettleTypes ==
  ASSUME Types, NEW p \in Phases, NEW result \in Results, Settle(p, result)
  PROVE  Spoken
<1>1. notifyId \in Notify
  BY DEF Types, ProgramTypes
<1>2. QED
  BY <1>1, SetPhaseTypes, NotifyTypes DEF Settle, WcmNotify, Spoken

LEMMA FatalTypes ==
  ASSUME Types, Fatal
  PROVE  Spoken
<1>1. "FATAL_ERROR" \in Phases /\ "FATAL_ERROR" \in Results
  BY DEF Phases, Results
<1>2. QED
  BY <1>1, SettleTypes DEF Fatal

LEMMA AcceptTypes ==
  ASSUME Types, NEW p \in Phases, NEW id \in Asked, Accept(p, id)
  PROVE  Spoken
<1>1. phase' \in Phases
  BY SetPhaseTypes DEF Accept
<1>2. notifyId' \in Notify
  BY DEF Accept, Notify
<1>3. due' \subseteq Asked
  BY DEF Accept, Types, ProgramTypes
<1>4. notice' \in [id : Notify, result : Results]
  BY DEF Accept, Types, ProgramTypes
<1>5. QED
  BY <1>1, <1>2, <1>3, <1>4 DEF Spoken

LEMMA BeginTypes ==
  ASSUME Types, NEW r \in Requests, NEW p \in Phases, NEW q \in Phases, NEW id \in Asked,
         Begin(r, p, q, id)
  PROVE  Spoken /\ Passed
<1>1. Passed
  BY AskTypes DEF Begin, Passed
<1>2. CASE Accept(p, id)
  BY <1>1, <1>2, AcceptTypes
<1>3. CASE SetPhase(q) /\ Silent
  BY <1>1, <1>3, SetPhaseTypes, SilentTypes
<1>4. CASE SetPhase("FATAL_ERROR") /\ Silent
  <2>1. "FATAL_ERROR" \in Phases
    BY DEF Phases
  <2>2. QED
    BY <1>1, <1>4, <2>1, SetPhaseTypes, SilentTypes
<1>5. QED
  BY <1>2, <1>3, <1>4 DEF Begin

LEMMA FollowTypes ==
  ASSUME Types, NEW r \in Requests, Follow(r)
  PROVE  Spoken /\ Passed
<1>1. Passed
  BY AskTypes DEF Follow, Passed
<1>2. CASE UNCHANGED phase /\ Silent
  <2>1. phase' \in Phases
    BY <1>2 DEF Types, ProgramTypes
  <2>2. QED
    BY <1>1, <1>2, <2>1, SilentTypes
<1>3. CASE Settle("IRREGULAR", "FAILURE")
  <2>1. "IRREGULAR" \in Phases /\ "FAILURE" \in Results
    BY DEF Phases, Results
  <2>2. QED
    BY <1>1, <1>3, <2>1, SettleTypes
<1>4. CASE Fatal
  BY <1>1, <1>4, FatalTypes
<1>5. QED
  BY <1>2, <1>3, <1>4 DEF Follow

LEMMA ResetTypes ==
  ASSUME Types, NEW p \in Phases, NEW id \in Notify, WcmWmReset(p, id)
  PROVE  Spoken /\ Passed /\ resetting' \in BOOLEAN
<1>1. "Reset" \in Requests /\ "FATAL_ERROR" \in Phases /\ "FATAL_ERROR" \in Results
  BY RequestSet DEF Phases, Results
<1>2. resetting' \in BOOLEAN
  BY DEF WcmWmReset, Types, ProgramTypes
<1>3. Passed
  BY <1>1, AskTypes, NoRequestTypes DEF WcmWmReset, Passed
<1>4. CASE SetPhase(p) /\ notifyId' = id /\ UNCHANGED told
  <2>1. phase' \in Phases
    BY <1>4, SetPhaseTypes
  <2>2. due' \subseteq Asked /\ notice' \in [id : Notify, result : Results]
    BY <1>4 DEF told, Types, ProgramTypes
  <2>3. QED
    BY <1>2, <1>3, <1>4, <2>1, <2>2 DEF Spoken
<1>5. CASE SetPhase("FATAL_ERROR") /\ WcmNotifyAs(id, "FATAL_ERROR")
  BY <1>1, <1>2, <1>3, <1>5, SetPhaseTypes, NotifyTypes DEF Spoken
<1>6. QED
  BY <1>4, <1>5 DEF WcmWmReset

(* The types after a step, from its parts.                                   *)
Driven == /\ wm' \in States /\ link' \in BOOLEAN
          /\ requests' \in Seq(Requests) /\ faults' \in 0 .. MaxFaults

LEMMA PassedDrives ==
  ASSUME Types, Passed
  PROVE  Driven
BY DEF Types, DriverTypes, Passed, Driven

LEMMA Assemble ==
  ASSUME Types, Spoken, Driven, build' = build, ready' \in BOOLEAN, resetting' \in BOOLEAN,
         authId' \in BOOLEAN, wlStatus' \in BOOLEAN, rateSet' \in BOOLEAN,
         scanEx' \in {"none", "switch", "next"}, slip' \subseteq Slips,
         replies' \in Seq(Message)
  PROVE  Types'
<1>1. ProgramTypes'
  BY DEF Types, ProgramTypes, Spoken
<1>2. DriverTypes'
  BY DEF Types, DriverTypes, Driven
<1>3. QED
  BY <1>1, <1>2 DEF Types

LEMMA InitTypes ==
  ASSUME Init
  PROVE  Types
<1>1. ProgramTypes
  <2>1. phase \in Phases /\ notifyId \in Notify /\ scanEx \in {"none", "switch", "next"}
    BY DEF Init, Phases, Notify
  <2>2. notice \in [id : Notify, result : Results]
    BY DEF Init, Notify, Results
  <2>3. due \subseteq Asked /\ slip \subseteq Slips
    BY DEF Init
  <2>4. /\ build \in Builds /\ ready \in BOOLEAN /\ resetting \in BOOLEAN
        /\ authId \in BOOLEAN /\ wlStatus \in BOOLEAN /\ rateSet \in BOOLEAN
    BY DEF Init
  <2>5. QED
    BY <2>1, <2>2, <2>3, <2>4 DEF ProgramTypes
<1>2. DriverTypes
  <2>1. requests \in Seq(Requests) /\ replies \in Seq(Message)
    BY DEF Init
  <2>2. faults \in 0 .. MaxFaults
    BY WcmAssumption DEF Init
  <2>3. wm \in States /\ link \in BOOLEAN
    BY DEF Init, States
  <2>4. QED
    BY <2>1, <2>2, <2>3 DEF DriverTypes
<1>3. QED
  BY <1>1, <1>2 DEF Types

LEMMA StutterTypes ==
  ASSUME Types, UNCHANGED vars
  PROVE  Types'
BY DEF Types, ProgramTypes, DriverTypes, vars, wcm, driver, told

LEMMA InitFinishTypes ==
  ASSUME Types, WCM_Init \/ WCM_Finish
  PROVE  Types'
<1>1. Driven
  BY DEF WCM_Init, WCM_Finish, driver, Types, DriverTypes, Driven
<1>2. Spoken
  BY DEF WCM_Init, WCM_Finish, told, Types, ProgramTypes, Spoken, Phases, Notify
<1>3. QED
  BY <1>1, <1>2, Assemble DEF WCM_Init, WCM_Finish, driver, told, Types, ProgramTypes, DriverTypes

(* The calls that leave the driver's state alone.                            *)
LEMMA CallTypes ==
  ASSUME Types, Spoken, Driven, CallFrame, resetting' \in BOOLEAN, rateSet' \in BOOLEAN,
         slip' \subseteq Slips
  PROVE  Types'
BY Assemble DEF CallFrame, Types, ProgramTypes, DriverTypes

LEMMA PhaseNames ==
  /\ Transitional \subseteq Phases
  /\ {"WAIT", "IDLE", "SEARCH", "DCF", "IRREGULAR", "FATAL_ERROR"} \subseteq Phases
  /\ {"WAIT_TO_IDLE", "IDLE_TO_WAIT", "IDLE_TO_SEARCH", "SEARCH_TO_IDLE", "IDLE_TO_DCF",
      "DCF_TO_IDLE", "TERMINATING"} \subseteq Phases
  /\ {"STARTUP", "CLEANUP", "BEGIN_SEARCH", "END_SEARCH", "CONNECT", "DISCONNECT",
      "TERMINATE"} \subseteq Asked
  /\ {"SUCCESS", "FAILURE", "FATAL_ERROR"} \subseteq Results
  /\ Asked \subseteq Notify /\ {"COMMON", "FOUND_AP"} \subseteq Notify
BY DEF Phases, Transitional, Asked, Notify, Results

LEMMA StartupTypes ==
  ASSUME Types, WCM_StartupAsync
  PROVE  Types'
<1>1. Spoken
  <2>1. CASE Accept("WAIT_TO_IDLE", "STARTUP")
    BY <2>1, AcceptTypes, PhaseNames
  <2>2. CASE (\E p \in {"IRREGULAR", "FATAL_ERROR"} : SetPhase(p)) /\ Silent
    BY <2>2, SetPhaseTypes, SilentTypes, PhaseNames
  <2>3. QED
    BY <2>1, <2>2 DEF WCM_StartupAsync
<1>2. Driven
  <2>1. requests' \in Seq(Requests)
    <3>1. "Enable" \in Requests
      BY RequestSet
    <3>2. requests' \in {requests, Append(requests, "Enable")}
      BY DEF WCM_StartupAsync, NoRequest
    <3>3. QED
      BY <3>1, <3>2, AppendInSeq DEF Types, DriverTypes
  <2>2. faults' \in 0 .. MaxFaults
    BY WcmAssumption DEF WCM_StartupAsync, NoRequest, Types, DriverTypes
  <2>3. wm' \in States /\ link' \in BOOLEAN
    BY DEF WCM_StartupAsync, NoRequest, Types, DriverTypes, States
  <2>4. QED
    BY <2>1, <2>2, <2>3 DEF Driven
<1>3. QED
  BY <1>1, <1>2, CallTypes DEF WCM_StartupAsync, Types, ProgramTypes

LEMMA PlainCallTypes ==
  ASSUME Types,
         WCM_CleanupAsync \/ WCM_BeginSearchAsync \/ WCM_EndSearchAsync \/ WCM_ConnectAsync
  PROVE  Types'
<1>1. Spoken /\ Passed
  <2>1. phase \in Phases
    BY DEF Types, ProgramTypes
  <2>2. CASE WCM_CleanupAsync
    BY <2>1, <2>2, BeginTypes, RequestSet, PhaseNames DEF WCM_CleanupAsync
  <2>3. CASE WCM_BeginSearchAsync
    BY <2>1, <2>3, BeginTypes, RequestSet, PhaseNames DEF WCM_BeginSearchAsync
  <2>4. CASE WCM_EndSearchAsync
    BY <2>4, AcceptTypes, NoRequestTypes, PhaseNames DEF WCM_EndSearchAsync
  <2>5. CASE WCM_ConnectAsync
    BY <2>1, <2>5, BeginTypes, RequestSet, PhaseNames DEF WCM_ConnectAsync
  <2>6. QED
    BY <2>2, <2>3, <2>4, <2>5
<1>2. CallFrame /\ resetting' = resetting /\ slip' = slip /\ rateSet' \in BOOLEAN
  BY DEF WCM_CleanupAsync, WCM_BeginSearchAsync, WCM_EndSearchAsync, WCM_ConnectAsync,
         Types, ProgramTypes
<1>3. QED
  BY <1>1, <1>2, PassedDrives, CallTypes DEF Types, ProgramTypes

LEMMA DisconnectTypes ==
  ASSUME Types, WCM_DisconnectAsync
  PROVE  Types'
<1>1. Spoken /\ Passed
  <2>1. phase \in Phases
    BY DEF Types, ProgramTypes
  <2>2. CASE Begin("EndDCF", "DCF_TO_IDLE", phase, "DISCONNECT")
    BY <2>1, <2>2, BeginTypes, RequestSet, PhaseNames
  <2>3. CASE Accept("DCF_TO_IDLE", "DISCONNECT") /\ NoRequest
    BY <2>3, AcceptTypes, NoRequestTypes, PhaseNames
  <2>4. CASE SetPhase("FATAL_ERROR") /\ Silent /\ NoRequest
    BY <2>4, SetPhaseTypes, SilentTypes, NoRequestTypes, PhaseNames
  <2>5. QED
    BY <2>2, <2>3, <2>4 DEF WCM_DisconnectAsync
<1>2. CallFrame /\ resetting' = resetting /\ slip' \subseteq Slips /\ rateSet' = rateSet
  BY DEF WCM_DisconnectAsync, Types, ProgramTypes, Slips
<1>3. QED
  BY <1>1, <1>2, PassedDrives, CallTypes DEF Types, ProgramTypes

LEMMA TerminateTypes ==
  ASSUME Types, WCM_TerminateAsync
  PROVE  Types'
<1>1. Spoken /\ Driven
  <2>1. phase \in Phases
    BY DEF Types, ProgramTypes
  <2>2. CASE Accept("TERMINATING", "TERMINATE") /\ NoRequest
    BY <2>2, AcceptTypes, NoRequestTypes, PassedDrives, PhaseNames
  <2>3. CASE \E r \in {"Disable", "PowerOff", "Reset"} :
                Begin(r, "TERMINATING", phase, "TERMINATE")
    BY <2>1, <2>3, BeginTypes, PassedDrives, RequestSet, PhaseNames
  <2>4. CASE /\ wm' = "off" /\ SetPhase("WAIT") /\ notifyId' = "COMMON" /\ due' = {}
             /\ UNCHANGED <<notice, link, requests, faults, resetting>>
    <3>1. Driven
      BY <2>4 DEF Types, DriverTypes, Driven, States
    <3>2. Spoken
      BY <2>4, SetPhaseTypes, PhaseNames DEF Types, ProgramTypes, Spoken
    <3>3. QED
      BY <3>1, <3>2
  <2>5. CASE /\ faults < MaxFaults /\ faults' = faults + 1 /\ SetPhase("FATAL_ERROR") /\ Silent
             /\ UNCHANGED <<wm, link, requests, resetting>>
    <3>1. faults' \in 0 .. MaxFaults
      <4>1. MaxFaults \in Nat /\ faults \in 0 .. MaxFaults
        BY WcmAssumption DEF Types, DriverTypes
      <4>2. QED
        BY ONLY <2>5, <4>1, SMT
    <3>2. Driven
      BY <2>5, <3>1 DEF Types, DriverTypes, Driven
    <3>3. Spoken
      BY <2>5, SetPhaseTypes, PhaseNames DEF Types, ProgramTypes, Spoken, Silent
    <3>4. QED
      BY <3>2, <3>3
  <2>6. QED
    BY <2>2, <2>3, <2>4, <2>5 DEF WCM_TerminateAsync
<1>2. CallFrame /\ rateSet' = rateSet
  BY DEF WCM_TerminateAsync
<1>3. resetting' \in BOOLEAN
  BY DEF WCM_TerminateAsync, Types, ProgramTypes
<1>4. slip' \subseteq Slips
  BY DEF WCM_TerminateAsync, NoteSlip, Types, ProgramTypes, Slips
<1>5. QED
  BY <1>1, <1>2, <1>3, <1>4, CallTypes DEF Types, ProgramTypes

(* A callback's frame; what its handler does is Spoken and Driven.           *)
LEMMA DeliverTypes ==
  ASSUME Types, NEW r, NEW results, Deliver(r, results), Spoken, Driven,
         resetting' \in BOOLEAN, authId' \in BOOLEAN, wlStatus' \in BOOLEAN,
         rateSet' \in BOOLEAN, scanEx' \in {"none", "switch", "next"}
  PROVE  Types'
<1>1. replies' \in Seq(Message)
  BY TailInSeq DEF Deliver, Types, DriverTypes
<1>2. build' = build /\ ready' = ready /\ slip' = slip
  BY DEF Deliver
<1>3. QED
  BY <1>1, <1>2, Assemble DEF Types, ProgramTypes

LEMMA FatalCallTypes ==
  ASSUME Types, Fatal, NoRequest
  PROVE  Spoken /\ Driven
BY FatalTypes, NoRequestTypes, PassedDrives

LEMMA SettleCallTypes ==
  ASSUME Types, NEW p \in Phases, NEW result \in Results, Settle(p, result), NoRequest
  PROVE  Spoken /\ Driven
BY SettleTypes, NoRequestTypes, PassedDrives

LEMMA SilentCallTypes ==
  ASSUME Types, phase' \in Phases, Silent, NoRequest
  PROVE  Spoken /\ Driven
BY SilentTypes, NoRequestTypes, PassedDrives

LEMMA FollowCallTypes ==
  ASSUME Types, NEW r \in Requests, Follow(r)
  PROVE  Spoken /\ Driven
BY FollowTypes, PassedDrives

LEMMA ResetCallTypes ==
  ASSUME Types, NEW p \in Phases, NEW id \in Notify, WcmWmReset(p, id)
  PROVE  Spoken /\ Driven /\ resetting' \in BOOLEAN
BY ResetTypes, PassedDrives

LEMMA IndicationTypes ==
  ASSUME Types, WcmWmcbIndication
  PROVE  Types'
<1>1. Spoken /\ Driven /\ resetting' \in BOOLEAN
  <2>1. phase \in Phases /\ notifyId \in Notify /\ resetting \in BOOLEAN
    BY DEF Types, ProgramTypes
  <2>2. CASE SetPhase("IRREGULAR") /\ Silent /\ NoRequest /\ UNCHANGED resetting
    BY <2>1, <2>2, SetPhaseTypes, SilentCallTypes, PhaseNames
  <2>3. CASE WcmWmReset(phase, notifyId)
    BY <2>1, <2>3, ResetCallTypes
  <2>4. CASE Silent /\ NoRequest /\ UNCHANGED <<phase, resetting>>
    BY <2>1, <2>4, SilentCallTypes
  <2>5. QED
    BY <2>2, <2>3, <2>4 DEF WcmWmcbIndication
<1>2. QED
  BY <1>1, DeliverTypes DEF WcmWmcbIndication, Types, ProgramTypes

LEMMA NextOfIsRequest == \A r \in DOMAIN NextOf : r \in Requests /\ NextOf[r] \in Requests
BY RequestSet DEF NextOf

LEMMA CommonTypes ==
  ASSUME Types, WcmWmcbCommon
  PROVE  Types'
<1>1. PICK r : \/ /\ Deliver(r, {"SUCCESS"})
                  /\ \/ r \in DOMAIN NextOf /\ Follow(NextOf[r])
                     \/ r = "PowerOn" /\ Settle("IDLE", "SUCCESS") /\ NoRequest
                     \/ /\ r = "Disable"
                        /\ IF wm = "ready"
                             THEN wm' = "off" /\ Settle("WAIT", "SUCCESS")
                             ELSE UNCHANGED wm /\ Fatal
                        /\ UNCHANGED <<link, requests, faults>>
               \/ Deliver(r, {"FAILED"}) /\ Settle("IRREGULAR", "FAILURE") /\ NoRequest
               \/ Deliver(r, {"ILLEGAL_STATE"}) /\ Fatal /\ NoRequest
  BY DEF WcmWmcbCommon
<1>2. PICK results : Deliver(r, results)
  BY <1>1
<1>3. Spoken /\ Driven
  <2>1. CASE r \in DOMAIN NextOf /\ Follow(NextOf[r])
    BY <2>1, NextOfIsRequest, FollowCallTypes
  <2>2. CASE \E p \in {"IDLE", "IRREGULAR"}, result \in Results :
               Settle(p, result) /\ NoRequest
    BY <2>2, SettleCallTypes, PhaseNames
  <2>3. CASE /\ IF wm = "ready"
                  THEN wm' = "off" /\ Settle("WAIT", "SUCCESS")
                  ELSE UNCHANGED wm /\ Fatal
             /\ UNCHANGED <<link, requests, faults>>
    <3>1. Driven
      BY <2>3 DEF Types, DriverTypes, Driven, States
    <3>2. Spoken
      BY <2>3, SettleTypes, FatalTypes, PhaseNames
    <3>3. QED
      BY <3>1, <3>2
  <2>4. CASE Fatal /\ NoRequest
    BY <2>4, FatalCallTypes
  <2>5. "SUCCESS" \in Results /\ "FAILURE" \in Results
    BY PhaseNames
  <2>6. QED
    BY <1>1, <2>1, <2>2, <2>3, <2>4, <2>5
<1>4. QED
  BY <1>2, <1>3, DeliverTypes DEF WcmWmcbCommon, Types, ProgramTypes

LEMMA ScanExTypes ==
  ASSUME Types, WcmWmcbScanEx
  PROVE  Types'
<1>1. Spoken /\ Driven /\ resetting' \in BOOLEAN
  <2>1. phase \in Phases /\ notifyId \in Notify /\ resetting \in BOOLEAN
    BY DEF Types, ProgramTypes
  <2>2. CASE Settle("SEARCH", "SUCCESS") /\ NoRequest /\ UNCHANGED resetting
    BY <2>1, <2>2, SettleCallTypes, PhaseNames
  <2>3. CASE UNCHANGED phase /\ Silent /\ NoRequest /\ UNCHANGED resetting
    BY <2>1, <2>3, SilentCallTypes
  <2>4. CASE WcmWmReset(phase, notifyId)
    BY <2>1, <2>4, ResetCallTypes
  <2>5. CASE Fatal /\ NoRequest /\ UNCHANGED resetting
    BY <2>1, <2>5, FatalCallTypes
  <2>6. QED
    BY <2>2, <2>3, <2>4, <2>5 DEF WcmWmcbScanEx
<1>2. scanEx' \in {"none", "switch", "next"} /\ \E results : Deliver("StartScanEx", results)
  BY DEF WcmWmcbScanEx, Types, ProgramTypes
<1>3. QED
  BY <1>1, <1>2, DeliverTypes DEF WcmWmcbScanEx, ScanFrame, Types, ProgramTypes

LEMMA ScanStepTypes ==
  ASSUME Types, ScanSwitch \/ ScanNext
  PROVE  Types'
<1>1. Spoken /\ Driven /\ resetting' \in BOOLEAN
  <2>1. phase \in Phases /\ notifyId \in Notify /\ resetting \in BOOLEAN
    BY DEF Types, ProgramTypes
  <2>2. CASE notifyId' = "FOUND_AP" /\ NoRequest /\ UNCHANGED <<phase, told, resetting>>
    <3>1. Spoken
      BY <2>1, <2>2, PhaseNames DEF told, Spoken, Types, ProgramTypes
    <3>2. QED
      BY <2>1, <2>2, <3>1, NoRequestTypes, PassedDrives
  <2>3. CASE (Follow("EndScan") \/ Follow("StartScanEx")) /\ UNCHANGED resetting
    BY <2>1, <2>3, FollowCallTypes, RequestSet
  <2>4. CASE WcmWmReset(phase, notifyId)
    BY <2>1, <2>4, ResetCallTypes
  <2>5. CASE Fatal /\ NoRequest /\ UNCHANGED resetting
    BY <2>1, <2>5, FatalCallTypes
  <2>6. QED
    BY <2>2, <2>3, <2>4, <2>5 DEF ScanSwitch, ScanNext
<1>2. scanEx' \in {"none", "switch", "next"}
  BY DEF ScanSwitch, ScanNext
<1>3. QED
  BY <1>1, <1>2, Assemble DEF ScanSwitch, ScanNext, ScanFrame, Types, ProgramTypes, DriverTypes

LEMMA EndScanTypes ==
  ASSUME Types, WcmWmcbEndScan
  PROVE  Types'
<1>1. Spoken /\ Driven /\ resetting' \in BOOLEAN
  <2>1. phase \in Phases /\ notifyId \in Notify /\ resetting \in BOOLEAN
    BY DEF Types, ProgramTypes
  <2>2. CASE Settle("IDLE", "SUCCESS") /\ NoRequest /\ UNCHANGED resetting
    BY <2>1, <2>2, SettleCallTypes, PhaseNames
  <2>3. CASE WcmWmReset(phase, notifyId)
    BY <2>1, <2>3, ResetCallTypes
  <2>4. CASE Fatal /\ NoRequest /\ UNCHANGED resetting
    BY <2>1, <2>4, FatalCallTypes
  <2>5. QED
    BY <2>2, <2>3, <2>4 DEF WcmWmcbEndScan
<1>2. \E results : Deliver("EndScan", results)
  BY DEF WcmWmcbEndScan
<1>3. QED
  BY <1>1, <1>2, DeliverTypes DEF WcmWmcbEndScan, ScanFrame, Types, ProgramTypes

LEMMA ConnectionLostTypes ==
  ASSUME Types, ConnectionLost
  PROVE  Spoken /\ Driven /\ resetting' \in BOOLEAN /\ authId' \in BOOLEAN /\ wlStatus' = wlStatus
<1>1. Spoken /\ Driven /\ resetting' \in BOOLEAN
  <2>1. phase \in Phases /\ notifyId \in Notify /\ resetting \in BOOLEAN
    BY DEF Types, ProgramTypes
  <2>2. CASE SetPhase("IRREGULAR") /\ Silent /\ NoRequest /\ UNCHANGED resetting
    BY <2>1, <2>2, SetPhaseTypes, SilentCallTypes, PhaseNames
  <2>3. CASE WcmWmReset(phase, "DISCONNECT") \/ WcmWmReset(phase, notifyId)
    BY <2>1, <2>3, ResetCallTypes, PhaseNames
  <2>4. CASE Silent /\ NoRequest /\ UNCHANGED <<phase, resetting>>
    BY <2>1, <2>4, SilentCallTypes
  <2>5. QED
    BY <2>2, <2>3, <2>4 DEF ConnectionLost
<1>2. authId' \in BOOLEAN
  BY DEF ConnectionLost, Types, ProgramTypes
<1>3. wlStatus' = wlStatus
  BY DEF ConnectionLost
<1>4. QED
  BY <1>1, <1>2, <1>3

LEMMA ConnectedTypes ==
  ASSUME Types, Connected
  PROVE  Spoken /\ Driven /\ resetting' \in BOOLEAN /\ authId' \in BOOLEAN /\ wlStatus' = wlStatus
<1>1. Spoken /\ Driven /\ resetting' \in BOOLEAN
  <2>1. phase \in Phases /\ notifyId \in Notify /\ resetting \in BOOLEAN
    BY DEF Types, ProgramTypes
  <2>2. CASE WcmWmReset("IDLE_TO_DCF", notifyId)
    BY <2>1, <2>2, ResetCallTypes, PhaseNames
  <2>3. CASE Follow("StartDCF") /\ UNCHANGED resetting
    BY <2>1, <2>3, FollowCallTypes, RequestSet
  <2>4. CASE Fatal /\ NoRequest /\ UNCHANGED resetting
    BY <2>1, <2>4, FatalCallTypes
  <2>5. QED
    BY <2>2, <2>3, <2>4 DEF Connected
<1>2. authId' \in BOOLEAN
  BY DEF Connected, Types, ProgramTypes
<1>3. wlStatus' = wlStatus
  BY DEF Connected
<1>4. QED
  BY <1>1, <1>2, <1>3

(* What a handler of WcmWmcbConnect does with the answer that is no success. *)
NeverConnected ==
  \/ /\ Deliver("StartConnectEx", {"BAD_AID"})
     /\ WcmWmReset(IF phase = "IRREGULAR" THEN "IDLE_TO_DCF" ELSE phase, notifyId)
     /\ UNCHANGED <<authId, wlStatus>>
  \/ /\ Deliver("StartConnectEx", {"FAILED", "ILLEGAL_RATESET", "NO_ENTRY"})
     /\ LET result == Head(replies).result IN
        wlStatus' = IF result = "NO_ENTRY" THEN wlStatus
                    ELSE result = "ILLEGAL_RATESET"
     /\ WcmWmReset("IDLE_TO_DCF", notifyId) /\ UNCHANGED authId
  \/ /\ Deliver("StartConnectEx", {"ILLEGAL_STATE"})
     /\ Fatal /\ NoRequest /\ UNCHANGED <<resetting, authId, wlStatus>>

LEMMA NotConnectedTypes ==
  ASSUME Types, NeverConnected
  PROVE  Spoken /\ Driven /\ resetting' \in BOOLEAN /\ authId' = authId /\ wlStatus' \in BOOLEAN
<1>1. Spoken /\ Driven /\ resetting' \in BOOLEAN
  <2>1. phase \in Phases /\ notifyId \in Notify /\ resetting \in BOOLEAN
    BY DEF Types, ProgramTypes
  <2>2. CASE \E p \in {phase, "IDLE_TO_DCF"} : WcmWmReset(p, notifyId)
    BY <2>1, <2>2, ResetCallTypes, PhaseNames
  <2>3. CASE Fatal /\ NoRequest /\ UNCHANGED resetting
    BY <2>1, <2>3, FatalCallTypes
  <2>4. QED
    BY <2>2, <2>3 DEF NeverConnected
<1>2. wlStatus' \in BOOLEAN
  BY DEF NeverConnected, Types, ProgramTypes
<1>3. authId' = authId
  BY DEF NeverConnected
<1>4. QED
  BY <1>1, <1>2, <1>3

LEMMA ConnectSplits ==
  ASSUME WcmWmcbConnect
  PROVE  /\ ConnectionLost \/ Connected \/ NeverConnected
         /\ UNCHANGED <<rateSet, scanEx>>
BY DEF WcmWmcbConnect, NeverConnected

LEMMA ConnectTypes ==
  ASSUME Types, WcmWmcbConnect
  PROVE  Types'
<1>1. /\ Spoken /\ Driven /\ resetting' \in BOOLEAN /\ authId' \in BOOLEAN
      /\ wlStatus' \in BOOLEAN
  BY ConnectSplits, ConnectionLostTypes, ConnectedTypes, NotConnectedTypes
     DEF Types, ProgramTypes
<1>2. \E results : Deliver("StartConnectEx", results)
  BY ConnectSplits DEF ConnectionLost, Connected, NeverConnected
<1>3. rateSet' \in BOOLEAN /\ scanEx' \in {"none", "switch", "next"}
  BY ConnectSplits DEF Types, ProgramTypes
<1>4. QED
  BY <1>1, <1>2, <1>3, DeliverTypes

LEMMA StartDCFTypes ==
  ASSUME Types, WcmWmcbStartDCF
  PROVE  Types'
<1>1. Spoken /\ Driven /\ resetting' \in BOOLEAN
  <2>1. phase \in Phases /\ notifyId \in Notify /\ resetting \in BOOLEAN
    BY DEF Types, ProgramTypes
  <2>2. CASE Settle("DCF", "SUCCESS") /\ NoRequest /\ UNCHANGED resetting
    BY <2>1, <2>2, SettleCallTypes, PhaseNames
  <2>3. CASE WcmWmReset("IDLE_TO_DCF", notifyId)
    BY <2>1, <2>3, ResetCallTypes, PhaseNames
  <2>4. CASE Fatal /\ NoRequest /\ UNCHANGED resetting
    BY <2>1, <2>4, FatalCallTypes
  <2>5. QED
    BY <2>2, <2>3, <2>4 DEF WcmWmcbStartDCF
<1>2. \E results : Deliver("StartDCF", results)
  BY DEF WcmWmcbStartDCF
<1>3. QED
  BY <1>1, <1>2, DeliverTypes DEF WcmWmcbStartDCF, ScanFrame, Types, ProgramTypes

LEMMA EndDCFTypes ==
  ASSUME Types, WcmWmcbEndDCF
  PROVE  Types'
<1>1. Spoken /\ Driven /\ resetting' \in BOOLEAN
  <2>1. phase \in Phases /\ notifyId \in Notify /\ resetting \in BOOLEAN
    BY DEF Types, ProgramTypes
  <2>2. CASE WcmWmReset("DCF_TO_IDLE", notifyId)
    BY <2>1, <2>2, ResetCallTypes, PhaseNames
  <2>3. CASE Ask("Disconnect", "OPERATING") /\ UNCHANGED phase /\ Silent /\ UNCHANGED resetting
    <3>1. Follow("Disconnect")
      BY <2>3 DEF Follow
    <3>2. QED
      BY <2>1, <2>3, <3>1, FollowCallTypes, RequestSet
  <2>4. CASE /\ Ask("Disconnect", "FIFO_ERROR") /\ Settle("IRREGULAR", "FAILURE")
             /\ UNCHANGED resetting
    <3>1. Follow("Disconnect")
      BY <2>4 DEF Follow
    <3>2. QED
      BY <2>1, <2>4, <3>1, FollowCallTypes, RequestSet
  <2>5. QED
    BY <2>2, <2>3, <2>4 DEF WcmWmcbEndDCF
<1>2. \E results : Deliver("EndDCF", results)
  BY DEF WcmWmcbEndDCF
<1>3. QED
  BY <1>1, <1>2, DeliverTypes DEF WcmWmcbEndDCF, ScanFrame, Types, ProgramTypes

LEMMA DisconnectedTypes ==
  ASSUME Types, WcmWmcbDisconnect
  PROVE  Types'
<1>1. Spoken /\ Driven /\ resetting' \in BOOLEAN
  <2>1. phase \in Phases /\ notifyId \in Notify /\ resetting \in BOOLEAN
    BY DEF Types, ProgramTypes
  <2>2. CASE WcmWmReset("DCF_TO_IDLE", notifyId)
    BY <2>1, <2>2, ResetCallTypes, PhaseNames
  <2>3. CASE Settle("IDLE", "SUCCESS") /\ NoRequest /\ UNCHANGED resetting
    BY <2>1, <2>3, SettleCallTypes, PhaseNames
  <2>4. QED
    BY <2>2, <2>3 DEF WcmWmcbDisconnect
<1>2. \E results : Deliver("Disconnect", results)
  BY DEF WcmWmcbDisconnect
<1>3. authId' \in BOOLEAN
  BY DEF WcmWmcbDisconnect, Types, ProgramTypes
<1>4. QED
  BY <1>1, <1>2, <1>3, DeliverTypes DEF WcmWmcbDisconnect, Types, ProgramTypes

LEMMA ReconnectTypes ==
  ASSUME Types, Reconnect
  PROVE  Spoken /\ Driven /\ wlStatus' = FALSE /\ rateSet' \in BOOLEAN
<1>1. CASE Follow("StartConnectEx") /\ rateSet' = TRUE
  BY <1>1, FollowCallTypes, RequestSet DEF Reconnect
<1>2. CASE Settle("IDLE", "FAILURE") /\ NoRequest /\ UNCHANGED rateSet
  BY <1>2, SettleCallTypes, PhaseNames DEF Reconnect, Types, ProgramTypes
<1>3. QED
  BY <1>1, <1>2 DEF Reconnect

LEMMA ResetCallbackTypes ==
  ASSUME Types, WcmWmcbReset
  PROVE  Types'
<1>1. Spoken /\ Driven /\ wlStatus' \in BOOLEAN /\ rateSet' \in BOOLEAN
  <2>1. wlStatus \in BOOLEAN /\ rateSet \in BOOLEAN
    BY DEF Types, ProgramTypes
  <2>2. CASE /\ \E result \in {"SUCCESS", "FAILURE"} : Settle("IDLE", result)
             /\ NoRequest /\ UNCHANGED <<wlStatus, rateSet>>
    BY <2>1, <2>2, SettleCallTypes, PhaseNames
  <2>3. CASE Reconnect
    BY <2>3, ReconnectTypes
  <2>4. CASE Follow("PowerOff") /\ UNCHANGED <<wlStatus, rateSet>>
    BY <2>1, <2>4, FollowCallTypes, RequestSet
  <2>5. CASE Fatal /\ NoRequest /\ UNCHANGED <<wlStatus, rateSet>>
    BY <2>1, <2>5, FatalCallTypes
  <2>6. QED
    BY <2>2, <2>3, <2>4, <2>5 DEF WcmWmcbReset
<1>2. \E results : Deliver("Reset", results)
  BY DEF WcmWmcbReset
<1>3. resetting' \in BOOLEAN /\ authId' \in BOOLEAN
  BY DEF WcmWmcbReset, Types, ProgramTypes
<1>4. QED
  BY <1>1, <1>2, <1>3, DeliverTypes DEF WcmWmcbReset, Types, ProgramTypes

LEMMA DriverStepTypes ==
  ASSUME Types, RunRequest \/ LoseLink
  PROVE  Types'
<1>1. ProgramTypes'
  BY DEF RunRequest, LoseLink, wcm, told, Types, ProgramTypes
<1>2. CASE RunRequest
  <2>1. requests \in Seq(Requests) /\ requests # <<>> /\ replies \in Seq(Message)
    BY <1>2 DEF RunRequest, Types, DriverTypes
  <2>2. Head(requests) \in Requests /\ requests' \in Seq(Requests)
    BY <1>2, <2>1, TailInSeq DEF RunRequest
  <2>3. wm' \in States
    BY <1>2, <2>2, ToIsState DEF RunRequest, Types, DriverTypes
  <2>4. link' \in BOOLEAN
    BY <1>2 DEF RunRequest, Types, DriverTypes
  <2>5. faults' \in 0 .. MaxFaults
    BY <1>2, WcmAssumption DEF RunRequest, Types, DriverTypes
  <2>6. \E s \in Outcomes : replies' = Append(replies, Reply(Head(requests), s))
    BY <1>2 DEF RunRequest, Outcomes, Refusals
  <2>7. replies' \in Seq(Message)
    BY <2>1, <2>2, <2>6, ReplyIsMessage, AppendInSeq
  <2>8. QED
    BY <1>1, <2>2, <2>3, <2>4, <2>5, <2>7 DEF Types, DriverTypes
<1>3. CASE LoseLink
  <2>1. wm' \in States /\ link' \in BOOLEAN
    BY <1>3 DEF LoseLink, Types, DriverTypes, States, Awake
  <2>2. replies' \in Seq(Message)
    BY <1>3, LossIsMessage, AppendInSeq DEF LoseLink, Types, DriverTypes
  <2>3. QED
    BY <1>1, <1>3, <2>1, <2>2 DEF LoseLink, Types, DriverTypes
<1>4. QED
  BY <1>2, <1>3

LEMMA StepTypes ==
  ASSUME Types, [Next]_vars
  PROVE  Types'
<1>1. CASE Call
  BY <1>1, InitFinishTypes, StartupTypes, PlainCallTypes, DisconnectTypes, TerminateTypes
     DEF Call
<1>2. CASE Callback
  BY <1>2, IndicationTypes, CommonTypes, ScanExTypes, EndScanTypes, ConnectTypes,
     StartDCFTypes, EndDCFTypes, DisconnectedTypes, ResetCallbackTypes
     DEF Callback
<1>3. QED
  BY <1>1, <1>2, ScanStepTypes, DriverStepTypes, StutterTypes DEF Next

LEMMA TypesSharper ==
  ASSUME Types
  PROVE  TypeOK
<1>1. \A i \in DOMAIN replies : replies[i].request \in Requests \cup {"Indication"}
  <2>1. \A i \in DOMAIN replies : replies[i] \in Message
    BY DEF Types, DriverTypes
  <2>2. \A m \in Message : m.request \in Requests \cup {"Indication"}
    BY DEF Message
  <2>3. QED
    BY <2>1, <2>2
<1>2. {resetting, authId, wlStatus, rateSet, link} \subseteq BOOLEAN
  BY DEF Types, ProgramTypes, DriverTypes
<1>3. notice.id \in Notify /\ notice.result \in Results
  BY DEF Types, ProgramTypes
<1>4. QED
  BY <1>1, <1>2, <1>3 DEF Types, ProgramTypes, DriverTypes, TypeOK

(* Types: every variable stays in its type, the requests and the callbacks   *)
(* under way among those of system.c.                                        *)
THEOREM TypeCorrect == Spec => []TypeOK
<1>1. Init => Types
  BY InitTypes
<1>2. Types /\ [Next]_vars => Types'
  BY StepTypes
<1>3. Types => TypeOK
  BY TypesSharper
<1>4. QED
  BY <1>1, <1>2, <1>3, PTL DEF Spec

-----------------------------------------------------------------------------
(* A connection belongs to a connected driver.                               *)

LEMMA FromIs ==
  /\ From["Enable"] = {"ready"} /\ From["PowerOn"] = {"stop"} /\ From["PowerOff"] = {"idle"}
  /\ From["Disable"] = {"stop"} /\ From["SetLifeTime"] = {"idle"}
  /\ From["SetBeaconInd"] = {"idle"} /\ From["SetWEPKeyEx"] = {"idle"}
  /\ From["StartConnectEx"] = {"idle"} /\ From["StartDCF"] = {"child"}
  /\ From["EndDCF"] = {"dcf"} /\ From["Disconnect"] = {"child"}
  /\ From["StartScanEx"] = {"idle", "scan"} /\ From["EndScan"] = {"scan"}
  /\ From["Reset"] = {"idle", "scan", "child", "dcf"}
BY DEF From, Awake

LEMMA ToIs ==
  /\ To["Enable"] = "stop" /\ To["PowerOn"] = "idle" /\ To["PowerOff"] = "stop"
  /\ To["Disable"] = "ready" /\ To["SetLifeTime"] = "idle" /\ To["SetBeaconInd"] = "idle"
  /\ To["SetWEPKeyEx"] = "idle" /\ To["StartConnectEx"] = "child" /\ To["StartDCF"] = "dcf"
  /\ To["EndDCF"] = "child" /\ To["Disconnect"] = "idle" /\ To["StartScanEx"] = "scan"
  /\ To["EndScan"] = "idle" /\ To["Reset"] = "idle"
BY DEF To

(* A request that is legal where there is a connection.                      *)
LEMMA LegalLinked ==
  ASSUME NEW r \in Requests, Legal(r), wm \in {"child", "dcf"}
  PROVE  r \in Lossy
BY RequestSet, FromIs DEF Legal, Lossy, Frail

LEMMA RunLinked ==
  ASSUME Types, Linked, RunRequest
  PROVE  Linked'
<1>1. Head(requests) \in Requests
  BY TailInSeq DEF RunRequest, Types, DriverTypes
<1>2. CASE UNCHANGED <<wm, link>>
  BY <1>2 DEF Linked
<1>3. CASE Legal(Head(requests)) /\ wm' = To[Head(requests)]
           /\ link' = (Head(requests) = "StartConnectEx"
                         \/ (link /\ Head(requests) \notin {"Reset", "Disconnect"}))
  <2>1. CASE Head(requests) = "StartConnectEx"
    BY <1>3, <2>1, ToIs DEF Linked
  <2>2. CASE Head(requests) # "StartConnectEx" /\ link'
    <3>1. Head(requests) \in Lossy /\ Head(requests) \notin {"Reset", "Disconnect"}
      BY <1>1, <1>3, <2>2, LegalLinked DEF Linked
    <3>2. wm' \in {"child", "dcf"}
      BY <1>3, <3>1, ToIs DEF Lossy, Frail
    <3>3. QED
      BY <3>2 DEF Linked
  <2>3. CASE ~link'
    BY <2>3 DEF Linked
  <2>4. QED
    BY <2>1, <2>2, <2>3
<1>4. QED
  BY <1>2, <1>3 DEF RunRequest

(* Every other action leaves the driver's state alone, loses the link or     *)
(* moves between states without a link.                                      *)
Unlinking ==
  \/ UNCHANGED <<wm, link>>
  \/ ~link'
  \/ wm \in {"off", "ready"} /\ link' = link

LEMMA AskUnlinks == ASSUME NEW r, NEW a, Ask(r, a) PROVE UNCHANGED <<wm, link>>
BY DEF Ask

LEMMA WcmUnlinks ==
  /\ \A r : Follow(r) => UNCHANGED <<wm, link>>
  /\ \A p, id : WcmWmReset(p, id) => UNCHANGED <<wm, link>>
  /\ \A r, p, q, id : Begin(r, p, q, id) => UNCHANGED <<wm, link>>
  /\ NoRequest => UNCHANGED <<wm, link>>
<1>1. \A r : Follow(r) => UNCHANGED <<wm, link>>
  BY AskUnlinks DEF Follow
<1>2. \A p, id : WcmWmReset(p, id) => UNCHANGED <<wm, link>>
  BY AskUnlinks DEF WcmWmReset, NoRequest
<1>3. \A r, p, q, id : Begin(r, p, q, id) => UNCHANGED <<wm, link>>
  BY AskUnlinks DEF Begin
<1>4. QED
  BY <1>1, <1>2, <1>3 DEF NoRequest

LEMMA CallUnlinks ==
  ASSUME Call
  PROVE  Unlinking
<1>1. CASE WCM_Init \/ WCM_Finish
  BY <1>1 DEF WCM_Init, WCM_Finish, driver, Unlinking
<1>2. CASE WCM_StartupAsync
  BY <1>2, WcmUnlinks DEF WCM_StartupAsync, Unlinking
<1>3. CASE WCM_CleanupAsync \/ WCM_BeginSearchAsync \/ WCM_EndSearchAsync \/ WCM_ConnectAsync
  BY <1>3, WcmUnlinks
     DEF WCM_CleanupAsync, WCM_BeginSearchAsync, WCM_EndSearchAsync, WCM_ConnectAsync, Unlinking
<1>4. CASE WCM_DisconnectAsync
  BY <1>4, WcmUnlinks DEF WCM_DisconnectAsync, Unlinking
<1>5. CASE WCM_TerminateAsync
  BY <1>5, WcmUnlinks DEF WCM_TerminateAsync, Unlinking
<1>6. QED
  BY <1>1, <1>2, <1>3, <1>4, <1>5 DEF Call

LEMMA CallbackUnlinks ==
  ASSUME Callback
  PROVE  Unlinking
<1>1. CASE WcmWmcbIndication \/ WcmWmcbScanEx \/ WcmWmcbEndScan \/ WcmWmcbStartDCF
           \/ WcmWmcbDisconnect
  BY <1>1, WcmUnlinks
     DEF WcmWmcbIndication, WcmWmcbScanEx, WcmWmcbEndScan, WcmWmcbStartDCF, WcmWmcbDisconnect,
         Unlinking
<1>2. CASE WcmWmcbCommon
  BY <1>2, WcmUnlinks DEF WcmWmcbCommon, Unlinking
<1>3. CASE WcmWmcbConnect
  BY <1>3, ConnectSplits, WcmUnlinks DEF ConnectionLost, Connected, NeverConnected, Unlinking
<1>4. CASE WcmWmcbEndDCF
  BY <1>4, WcmUnlinks, AskUnlinks DEF WcmWmcbEndDCF, Unlinking
<1>5. CASE WcmWmcbReset
  BY <1>5, WcmUnlinks DEF WcmWmcbReset, Reconnect, Unlinking
<1>6. QED
  BY <1>1, <1>2, <1>3, <1>4, <1>5 DEF Callback

LEMMA LinkedStep ==
  ASSUME Types, Linked, [Next]_vars
  PROVE  Linked'
<1>1. CASE RunRequest
  BY <1>1, RunLinked
<1>2. CASE Call \/ Callback \/ ScanSwitch \/ ScanNext \/ LoseLink \/ UNCHANGED vars
  <2>1. Unlinking
    <3>1. CASE ScanSwitch \/ ScanNext
      BY <3>1, WcmUnlinks DEF ScanSwitch, ScanNext, Unlinking
    <3>2. CASE LoseLink \/ UNCHANGED vars
      BY <3>2 DEF LoseLink, vars, driver, Unlinking
    <3>3. QED
      BY <1>2, <3>1, <3>2, CallUnlinks, CallbackUnlinks
  <2>2. QED
    BY <2>1 DEF Unlinking, Linked
<1>3. QED
  BY <1>1, <1>2 DEF Next

-----------------------------------------------------------------------------
(* A fatal error is final.                                                   *)

LEMMA BrokenCalls ==
  ASSUME Broken, Call
  PROVE  Broken'
<1>1. phase = "FATAL_ERROR" /\ ready
  BY DEF Broken
<1>2. ~WCM_Init /\ ~WCM_Finish /\ ~WCM_StartupAsync /\ ~WCM_CleanupAsync
      /\ ~WCM_BeginSearchAsync /\ ~WCM_EndSearchAsync /\ ~WCM_ConnectAsync
      /\ ~WCM_DisconnectAsync /\ ~WCM_TerminateAsync
  BY <1>1 DEF WCM_Init, WCM_Finish, WCM_StartupAsync, WCM_CleanupAsync, WCM_BeginSearchAsync,
              WCM_EndSearchAsync, WCM_ConnectAsync, WCM_DisconnectAsync, WCM_TerminateAsync
<1>3. QED
  BY <1>2 DEF Call

LEMMA BrokenParts ==
  ASSUME phase = "FATAL_ERROR"
  PROVE  /\ \A p : SetPhase(p) => phase' = phase
         /\ \A p, result : Settle(p, result) => phase' = phase
         /\ \A r : Follow(r) => phase' = phase
         /\ \A p, id : WcmWmReset(p, id) => phase' = phase
         /\ Fatal => phase' = phase
BY DEF SetPhase, Settle, Follow, WcmWmReset, Fatal

LEMMA BrokenStep ==
  ASSUME Broken, [Next]_vars
  PROVE  Broken'
<1>1. phase = "FATAL_ERROR" /\ ready
  BY DEF Broken
<1>2. CASE Callback
  <2>1. ready' = ready
    BY <1>2 DEF Callback, WcmWmcbIndication, WcmWmcbCommon, WcmWmcbScanEx, WcmWmcbEndScan,
                WcmWmcbConnect, ConnectionLost, Connected, WcmWmcbStartDCF, WcmWmcbEndDCF,
                WcmWmcbDisconnect, WcmWmcbReset, Deliver
  <2>2. phase' = phase
    <3>1. CASE WcmWmcbIndication \/ WcmWmcbScanEx \/ WcmWmcbEndScan \/ WcmWmcbStartDCF
               \/ WcmWmcbDisconnect
      BY <1>1, <3>1, BrokenParts
         DEF WcmWmcbIndication, WcmWmcbScanEx, WcmWmcbEndScan, WcmWmcbStartDCF, WcmWmcbDisconnect
    <3>2. CASE WcmWmcbCommon
      BY <1>1, <3>2, BrokenParts DEF WcmWmcbCommon
    <3>3. CASE WcmWmcbConnect
      BY <1>1, <3>3, ConnectSplits, BrokenParts DEF ConnectionLost, Connected, NeverConnected
    <3>4. CASE WcmWmcbEndDCF
      BY <1>1, <3>4, BrokenParts DEF WcmWmcbEndDCF
    <3>5. CASE WcmWmcbReset
      BY <1>1, <3>5, BrokenParts DEF WcmWmcbReset, Reconnect
    <3>6. QED
      BY <1>2, <3>1, <3>2, <3>3, <3>4, <3>5 DEF Callback
  <2>3. QED
    BY <1>1, <2>1, <2>2 DEF Broken
<1>3. CASE ScanSwitch \/ ScanNext
  BY <1>1, <1>3, BrokenParts DEF ScanSwitch, ScanNext, Broken
<1>4. CASE RunRequest \/ LoseLink \/ UNCHANGED vars
  BY <1>1, <1>4 DEF RunRequest, LoseLink, vars, wcm, Broken
<1>5. QED
  BY <1>2, <1>3, <1>4, BrokenCalls DEF Next

-----------------------------------------------------------------------------
(* Where the parts of the handlers lead.                                     *)

LEMMA NamedOwes ==
  ASSUME Named
  PROVE  due \ {notifyId} = {}
BY DEF Named, NamedAs

LEMMA NamedSame ==
  ASSUME Named, phase' = phase, notifyId' = notifyId, due' = due, resetting' = resetting,
         slip \subseteq slip'
  PROVE  Named'
BY DEF Named, NamedAs

LEMMA Breaks ==
  ASSUME Fatal \/ SetPhase("FATAL_ERROR"), ready'
  PROVE  Broken'
BY DEF Fatal, Settle, SetPhase, Broken

(* A callback has been taken from the queue: the handler finds no request    *)
(* under way and at most a loss reported.                                    *)
After == CalmIs(requests, replies', wm, link)

LEMMA AfterCalm ==
  ASSUME After, requests' = requests, UNCHANGED <<wm, link>>
  PROVE  Calm'
BY DEF After, Calm, CalmIs

LEMMA Quits ==
  ASSUME phase # "FATAL_ERROR", Up', Named, ~resetting', After, NEW result,
         Settle("IRREGULAR", result), UNCHANGED <<requests, wm, link>>
  PROVE  Irregular'
<1>1. phase' = "IRREGULAR" /\ notifyId' = "COMMON" /\ due' = {}
  BY NamedOwes DEF Settle, SetPhase, WcmNotify, WcmNotifyAs
<1>2. Named'
  BY <1>1 DEF Named, NamedAs
<1>3. QED
  BY <1>1, <1>2, AfterCalm DEF Irregular

(* The request r is handed over.                                             *)
LEMMA Asks ==
  ASSUME NEW r, Ask(r, "OPERATING"), requests = <<>>
  PROVE  requests' = <<r>> /\ Legal(r) /\ UNCHANGED <<wm, link>>
BY OneItem DEF Ask, Answers

LEMMA RefusalStep ==
  ASSUME NEW r, NEW a \in {"FIFO_ERROR", "ILLEGAL_STATE"}, Ask(r, a)
  PROVE  requests' = requests /\ UNCHANGED <<wm, link>>
BY DEF Ask

LEMMA Hands ==
  ASSUME NEW r \in Requests, requests' = <<r>>, UNCHANGED <<wm, link>>, Housed(r)',
         After, link => r \in Lossy,
         replies' # <<>> => r \in Lossy \cup {"PowerOff"} /\ (phase' = "IRREGULAR" => r = "Reset"),
         r = "StartDCF" /\ phase' = "IDLE_TO_DCF" /\ replies' = <<>> => link
  PROVE  Single'
<1>1. CASE replies' = <<>>
  <2>1. Waits(r)'
    BY <1>1 DEF Waits
  <2>2. QED
    BY <2>1 DEF Mid, Single
<1>2. CASE replies' # <<>>
  <2>1. (\E l \in Losses : replies' = <<l>>) /\ ~link /\ wm \in Near
    BY <1>2 DEF After, CalmIs
  <2>2. WaitsLost(r)'
    BY <1>2, <2>1 DEF WaitsLost
  <2>3. QED
    BY <2>2 DEF Mid, Single
<1>3. QED
  BY <1>1, <1>2

LEMMA Goes ==
  ASSUME NEW r \in Requests, phase \notin {"FATAL_ERROR", "IRREGULAR"}, Up', ~resetting',
         NamedAs(phase, notifyId, due, FALSE), After, Follow(r), r # "Reset", Home(r, phase),
         link => r \in Lossy, replies' # <<>> => r \in Lossy \cup {"PowerOff"},
         r = "StartDCF" => authId' /\ (replies' = <<>> => link)
  PROVE  Situation'
<1>1. CASE Ask(r, "OPERATING") /\ UNCHANGED phase /\ Silent
  <2>1. requests' = <<r>> /\ UNCHANGED <<wm, link>>
    BY <1>1, Asks DEF After, CalmIs
  <2>2. Named'
    BY <1>1 DEF Silent, Named, NamedAs
  <2>3. Housed(r)'
    BY <1>1, <2>2 DEF Housed
  <2>4. QED
    BY <1>1, <2>1, <2>3, Hands DEF Situation
<1>2. CASE Ask(r, "FIFO_ERROR") /\ Settle("IRREGULAR", "FAILURE")
  <2>1. Named
    BY DEF Named, NamedAs
  <2>2. QED
    BY <1>2, <2>1, RefusalStep, Quits DEF Situation
<1>3. CASE Fatal
  BY <1>3, Breaks DEF Up, Situation
<1>4. QED
  BY <1>1, <1>2, <1>3 DEF Follow

(* The reset is asked for.                                                   *)
LEMMA Repairs ==
  ASSUME NEW p, NEW id, phase # "FATAL_ERROR", Up', ~resetting, NamedAs(p, id, due, FALSE),
         Home("Reset", p), slip' = slip, After, WcmWmReset(p, id)
  PROVE  Situation'
<1>1. resetting' = TRUE
  BY DEF WcmWmReset
<1>2. CASE Ask("Reset", "OPERATING") /\ SetPhase(p) /\ notifyId' = id /\ UNCHANGED told
  <2>1. requests' = <<"Reset">> /\ UNCHANGED <<wm, link>>
    BY <1>2, Asks DEF After, CalmIs
  <2>2. phase' = p /\ notifyId' = id /\ due' = due
    BY <1>2 DEF SetPhase, told
  <2>3. Named'
    BY <2>2 DEF Named, NamedAs
  <2>4. Housed("Reset")'
    BY <1>1, <2>2, <2>3 DEF Housed
  <2>5. "Reset" \in Requests /\ "Reset" \in Lossy
    BY RequestSet DEF Lossy
  <2>6. QED
    BY <2>1, <2>4, <2>5, Hands DEF Situation
<1>3. CASE SetPhase("FATAL_ERROR")
  BY <1>3, Breaks DEF Up, Situation
<1>4. QED
  BY <1>2, <1>3 DEF WcmWmReset

(* The reset is asked for already.                                           *)
LEMMA Leans ==
  ASSUME NEW p, NEW id, resetting, phase # "FATAL_ERROR", WcmWmReset(p, id)
  PROVE  /\ phase' = p /\ notifyId' = id /\ due' = due /\ resetting'
         /\ UNCHANGED <<requests, wm, link>>
<1>1. SetPhase(p) /\ notifyId' = id /\ NoRequest /\ UNCHANGED <<resetting, told>>
  BY DEF WcmWmReset
<1>2. QED
  BY <1>1 DEF SetPhase, NoRequest, told

-----------------------------------------------------------------------------
(* The situation that a phase tells.                                         *)

LEMMA AtWait ==
  ASSUME Situation, phase = "WAIT" \/ ~ready
  PROVE  Off
BY DEF Situation, Broken, Idle, Scans, Joined, Irregular, Single, Housed, Home, Double, Stuck, Up,
       Scanning

LEMMA AtIdle ==
  ASSUME Situation, phase = "IDLE"
  PROVE  Idle
BY DEF Situation, Broken, Off, Scans, Joined, Irregular, Single, Housed, Home, Double, Stuck,
       Scanning

LEMMA AtSearch ==
  ASSUME Situation, phase = "SEARCH"
  PROVE  Scans \/ \E r \in {"StartScanEx", "Reset"} : Housed(r) /\ Mid(r)
BY DEF Situation, Broken, Off, Idle, Joined, Irregular, Single, Housed, Home, Double, Stuck,
       Scanning

LEMMA AtDcf ==
  ASSUME Situation, phase = "DCF"
  PROVE  Joined \/ (Housed("Reset") /\ Mid("Reset")) \/ Stuck
BY DEF Situation, Broken, Off, Idle, Scans, Irregular, Single, Housed, Home, Double, Scanning

LEMMA AtIrregular ==
  ASSUME Situation, phase = "IRREGULAR"
  PROVE  Irregular \/ (\E r \in Lossy : Housed(r) /\ Mid(r)) \/ Stuck
BY DEF Situation, Broken, Off, Idle, Scans, Joined, Single, Housed, Home, Double, Scanning,
       Lossy, Frail

(* A request under way does not mind a change of the phase.                  *)
LEMMA MidKept ==
  ASSUME NEW r, r \notin Frail, Mid(r), phase' # "IRREGULAR",
         UNCHANGED <<requests, replies, wm, link>>
  PROVE  Mid(r)'
<1>1. r # "StartDCF"
  BY DEF Frail
<1>2. CASE Waits(r)
  BY <1>1, <1>2 DEF Waits, Mid
<1>3. CASE WaitsLost(r)
  BY <1>3 DEF WaitsLost, Mid
<1>4. CASE \E s \in OutcomesOf(r) : Answered(r, s) \/ LostAnswered(r, s) \/ AnsweredLost(r, s)
  <2>1. PICK s \in OutcomesOf(r) : Answered(r, s) \/ LostAnswered(r, s) \/ AnsweredLost(r, s)
    BY <1>4
  <2>2. CASE Answered(r, s)
    BY <1>1, <2>2 DEF Answered, Mid
  <2>3. CASE LostAnswered(r, s)
    BY <2>3 DEF LostAnswered, Mid
  <2>4. CASE AnsweredLost(r, s)
    BY <2>4 DEF AnsweredLost, Mid
  <2>5. QED
    BY <2>1, <2>2, <2>3, <2>4
<1>5. QED
  BY <1>2, <1>3, <1>4 DEF Mid

LEMMA AcceptStep ==
  ASSUME NEW p \in Transitional, NEW id, phase # "FATAL_ERROR", Accept(p, id), id = Own[p],
         id = "TERMINATE" \/ due = {}
  PROVE  phase' = p /\ Named'
<1>1. phase' = p /\ notifyId' = id /\ due' = {id}
  BY DEF Accept, SetPhase
<1>2. QED
  BY <1>1 DEF Named, NamedAs

LEMMA OwnIs ==
  /\ Own["IDLE_TO_WAIT"] = "CLEANUP" /\ Own["IDLE_TO_SEARCH"] = "BEGIN_SEARCH"
  /\ Own["SEARCH_TO_IDLE"] = "END_SEARCH" /\ Own["IDLE_TO_DCF"] = "CONNECT"
  /\ Own["DCF_TO_IDLE"] = "DISCONNECT" /\ Own["TERMINATING"] = "TERMINATE"
  /\ Own["WAIT_TO_IDLE"] = "STARTUP"
  /\ {"WAIT_TO_IDLE", "IDLE_TO_WAIT", "IDLE_TO_SEARCH", "SEARCH_TO_IDLE", "IDLE_TO_DCF",
      "DCF_TO_IDLE", "TERMINATING"} = Transitional
BY DEF Own, Transitional

(* A call that hands over a request from a calm state.                       *)
LEMMA Begins ==
  ASSUME NEW r \in Requests, NEW p \in Transitional, NEW id, Begin(r, p, phase, id),
         phase # "FATAL_ERROR", Up', Calm, id = Own[p], id = "TERMINATE" \/ due = {},
         replies' = replies, Home(r, p), resetting' <=> (r = "Reset"), r # "StartDCF",
         link => r \in Lossy, replies # <<>> => r \in Lossy \cup {"PowerOff"}
  PROVE  \/ Situation'
         \/ phase' = phase /\ Silent /\ UNCHANGED <<requests, wm, link>>
<1>0. phase \in Transitional => phase # "IRREGULAR"
  BY DEF Transitional
<1>1. CASE Ask(r, "OPERATING") /\ Accept(p, id)
  <2>1. requests' = <<r>> /\ UNCHANGED <<wm, link>>
    BY <1>1, Asks DEF Calm, CalmIs
  <2>2. phase' = p /\ Named'
    BY <1>1, AcceptStep
  <2>3. p # "IRREGULAR"
    BY DEF Transitional
  <2>4. Housed(r)'
    BY <2>2, <2>3 DEF Housed
  <2>5. After
    BY DEF Calm, CalmIs, After
  <2>6. QED
    BY <2>1, <2>2, <2>3, <2>4, <2>5, Hands DEF Situation
<1>2. CASE Ask(r, "FIFO_ERROR") /\ SetPhase(phase) /\ Silent
  <2>1. phase' = phase
    BY <1>2 DEF SetPhase
  <2>2. QED
    BY <1>2, <2>1, RefusalStep
<1>3. CASE SetPhase("FATAL_ERROR")
  BY <1>3, Breaks DEF Up, Situation
<1>4. QED
  BY <1>1, <1>2, <1>3 DEF Begin

LEMMA IdleKept ==
  ASSUME Idle, phase' = phase, Silent, UNCHANGED <<requests, replies, wm, link, ready, scanEx, resetting>>
  PROVE  Idle'
BY DEF Idle, Silent, Quiet, Up

LEMMA IdleCalm ==
  ASSUME Idle
  PROVE  Calm /\ Up /\ ~link /\ replies = <<>> /\ due = {} /\ ~resetting
BY DEF Idle, Quiet, Calm, CalmIs

LEMMA InitFinishSituation ==
  ASSUME Situation, WCM_Init \/ WCM_Finish
  PROVE  Situation'
<1>1. Off
  BY AtWait DEF WCM_Init, WCM_Finish
<1>2. Off'
  BY <1>1 DEF WCM_Init, WCM_Finish, Off, Quiet, driver, told
<1>3. QED
  BY <1>2 DEF Situation

LEMMA StartupSituation ==
  ASSUME Situation, WCM_StartupAsync
  PROVE  Situation'
<1>1. Off /\ ready
  BY AtWait DEF WCM_StartupAsync
<1>2. Up' /\ replies' = <<>> /\ ~resetting' /\ ~link /\ requests = <<>> /\ wm = "off"
      /\ phase = "WAIT" /\ due = {}
  BY <1>1 DEF WCM_StartupAsync, CallFrame, Off, Up, Quiet
<1>3. wm' = "ready" /\ link' = link
  BY <1>2 DEF WCM_StartupAsync
<1>4. CASE requests' = Append(requests, "Enable") /\ Accept("WAIT_TO_IDLE", "STARTUP")
  <2>1. requests' = <<"Enable">>
    BY <1>2, <1>4, OneItem
  <2>2. phase' = "WAIT_TO_IDLE" /\ Named'
    BY <1>2, <1>4, AcceptStep, OwnIs
  <2>3. Housed("Enable")'
    BY <1>2, <2>2 DEF Housed, Home
  <2>4. Waits("Enable")'
    BY <1>2, <1>3, <2>1 DEF Waits
  <2>5. QED
    BY <2>3, <2>4, RequestSet DEF Mid, Single, Situation
<1>5. CASE requests' = requests /\ SetPhase("IRREGULAR") /\ Silent
  <2>1. phase' = "IRREGULAR" /\ notifyId' = "COMMON" /\ due' = {}
    BY <1>1, <1>2, <1>5 DEF SetPhase, Silent, Off
  <2>2. Calm'
    BY <1>2, <1>5 DEF Calm, CalmIs
  <2>3. Irregular'
    BY <1>2, <2>1, <2>2 DEF Irregular, Named, NamedAs
  <2>4. QED
    BY <2>3 DEF Situation
<1>6. CASE SetPhase("FATAL_ERROR")
  BY <1>2, <1>6, Breaks DEF Up, Situation
<1>7. QED
  BY <1>2, <1>4, <1>5, <1>6 DEF WCM_StartupAsync

(* The calls of phase IDLE.                                                  *)
LEMMA IdleCalls ==
  ASSUME Situation, WCM_CleanupAsync \/ WCM_BeginSearchAsync \/ WCM_ConnectAsync
  PROVE  Situation'
<1>1. Idle
  BY AtIdle DEF WCM_CleanupAsync, WCM_BeginSearchAsync, WCM_ConnectAsync
<1>2. UNCHANGED <<ready, scanEx, replies, resetting>> /\ Up' /\ phase = "IDLE" /\ ~resetting'
  <2>1. UNCHANGED <<ready, scanEx, replies, resetting>>
    BY DEF WCM_CleanupAsync, WCM_BeginSearchAsync, WCM_ConnectAsync, CallFrame
  <2>2. QED
    BY <1>1, <2>1 DEF Idle, Up
<1>3. \/ Begin("PowerOff", "IDLE_TO_WAIT", phase, "CLEANUP")
      \/ Begin("StartScanEx", "IDLE_TO_SEARCH", phase, "BEGIN_SEARCH")
      \/ Begin("SetLifeTime", "IDLE_TO_DCF", phase, "CONNECT")
  BY DEF WCM_CleanupAsync, WCM_BeginSearchAsync, WCM_ConnectAsync
<1>4. /\ Home("PowerOff", "IDLE_TO_WAIT") /\ Home("StartScanEx", "IDLE_TO_SEARCH")
      /\ Home("SetLifeTime", "IDLE_TO_DCF")
  BY DEF Home, Scanning
<1>5. Situation' \/ (phase' = phase /\ Silent /\ UNCHANGED <<requests, wm, link>>)
  <2>1. CASE Begin("PowerOff", "IDLE_TO_WAIT", phase, "CLEANUP")
    BY <1>1, <1>2, <1>4, <2>1, IdleCalm, Begins, RequestSet, OwnIs
  <2>2. CASE Begin("StartScanEx", "IDLE_TO_SEARCH", phase, "BEGIN_SEARCH")
    BY <1>1, <1>2, <1>4, <2>2, IdleCalm, Begins, RequestSet, OwnIs
  <2>3. CASE Begin("SetLifeTime", "IDLE_TO_DCF", phase, "CONNECT")
    BY <1>1, <1>2, <1>4, <2>3, IdleCalm, Begins, RequestSet, OwnIs
  <2>4. QED
    BY <1>3, <2>1, <2>2, <2>3
<1>6. QED
  BY <1>1, <1>2, <1>5, IdleKept DEF Situation

LEMMA EndSearchSituation ==
  ASSUME Situation, WCM_EndSearchAsync
  PROVE  Situation'
<1>1. /\ phase = "SEARCH" /\ Accept("SEARCH_TO_IDLE", "END_SEARCH")
      /\ UNCHANGED <<ready, scanEx, resetting, requests, replies, wm, link>>
  BY DEF WCM_EndSearchAsync, NoRequest, CallFrame
<1>2. CASE Scans
  <2>1. due = {}
    BY <1>1, <1>2 DEF Scans, Named, NamedAs, Transitional
  <2>2. phase' = "SEARCH_TO_IDLE" /\ Named'
    BY <1>1, <2>1, AcceptStep, OwnIs
  <2>3. Scans'
    BY <1>1, <1>2, <2>2 DEF Scans, Quiet
  <2>4. QED
    BY <2>3 DEF Situation
<1>3. ASSUME NEW r \in {"StartScanEx", "Reset"}, Housed(r), Mid(r)
      PROVE  Situation'
  <2>1. due = {}
    BY <1>1, <1>3 DEF Housed, Named, NamedAs, Transitional
  <2>2. phase' = "SEARCH_TO_IDLE" /\ Named'
    BY <1>1, <2>1, AcceptStep, OwnIs
  <2>3. Home(r, "SEARCH_TO_IDLE")
    BY <1>3 DEF Home, Scanning
  <2>4. Housed(r)'
    BY <1>1, <1>3, <2>2, <2>3 DEF Housed, Up
  <2>5. Mid(r)'
    BY <1>1, <1>3, <2>2, MidKept DEF Frail
  <2>6. QED
    BY <2>4, <2>5, RequestSet DEF Single, Situation
<1>4. QED
  BY <1>1, <1>2, <1>3, AtSearch

LEMMA JoinedKept ==
  ASSUME Joined, phase' = phase, Silent,
         UNCHANGED <<requests, replies, wm, link, ready, scanEx, resetting, authId>>,
         slip \subseteq slip'
  PROVE  Joined'
<1>1. Named'
  BY NamedSame DEF Joined, Silent
<1>2. QED
  BY <1>1 DEF Joined, Silent, Calm, CalmIs, Quiet, Up

LEMMA DisconnectSituation ==
  ASSUME Situation, WCM_DisconnectAsync
  PROVE  Situation'
<1>1. /\ phase = "DCF" /\ ready
      /\ UNCHANGED <<ready, scanEx, resetting, replies, authId>> /\ slip \subseteq slip'
  BY DEF WCM_DisconnectAsync, CallFrame
<1>2. CASE Joined
  <2>1. Calm /\ Up' /\ ~resetting /\ ~resetting' /\ due = {} /\ authId'
    BY <1>1, <1>2 DEF Joined, Named, NamedAs, Transitional, Up
  <2>2. CASE Begin("EndDCF", "DCF_TO_IDLE", phase, "DISCONNECT") /\ UNCHANGED slip
    <3>1. Home("EndDCF", "DCF_TO_IDLE") /\ "EndDCF" \in Lossy
      BY DEF Home, Lossy, Frail
    <3>2. Situation' \/ (phase' = phase /\ Silent /\ UNCHANGED <<requests, wm, link>>)
      BY <1>1, <2>1, <2>2, <3>1, Begins, RequestSet, OwnIs
    <3>3. QED
      BY <1>1, <1>2, <3>2, JoinedKept DEF Situation
  <2>3. CASE /\ Accept("DCF_TO_IDLE", "DISCONNECT") /\ slip' = slip \cup {"uninitialized"}
             /\ NoRequest
    <3>1. phase' = "DCF_TO_IDLE" /\ Named'
      BY <1>1, <2>1, <2>3, AcceptStep, OwnIs
    <3>2. Calm' /\ (Quiet' => wm' = "dcf" /\ link')
      BY <1>1, <1>2, <2>3 DEF Joined, NoRequest, Calm, CalmIs, Quiet
    <3>3. Joined'
      BY <2>1, <2>3, <3>1, <3>2 DEF Joined
    <3>4. QED
      BY <3>3 DEF Situation
  <2>4. CASE SetPhase("FATAL_ERROR")
    BY <2>1, <2>4, Breaks DEF Up, Situation
  <2>5. QED
    BY <2>1, <2>2, <2>3, <2>4 DEF WCM_DisconnectAsync
<1>3. CASE resetting
  <2>1. Accept("DCF_TO_IDLE", "DISCONNECT") /\ NoRequest
    BY <1>3 DEF WCM_DisconnectAsync
  <2>2. UNCHANGED <<requests, wm, link>>
    BY <2>1 DEF NoRequest
  <2>3. CASE Housed("Reset") /\ Mid("Reset")
    <3>1. due = {}
      BY <1>1, <2>3 DEF Housed, Named, NamedAs, Transitional
    <3>2. phase' = "DCF_TO_IDLE" /\ Named'
      BY <1>1, <2>1, <3>1, AcceptStep, OwnIs
    <3>3. Home("Reset", "DCF_TO_IDLE")
      BY DEF Home
    <3>4. Housed("Reset")'
      BY <1>1, <1>3, <2>3, <3>2, <3>3 DEF Housed, Up
    <3>5. Mid("Reset")'
      BY <1>1, <2>2, <2>3, <3>2, MidKept DEF Frail
    <3>6. QED
      BY <3>4, <3>5, RequestSet DEF Single, Situation
  <2>4. CASE Stuck
    <3>1. phase' = "DCF_TO_IDLE"
      BY <1>1, <2>1 DEF Accept, SetPhase
    <3>2. Calm'
      BY <1>1, <2>2, <2>4 DEF Stuck, Calm, CalmIs
    <3>3. Stuck'
      BY <1>1, <1>3, <2>4, <3>1, <3>2 DEF Stuck, Up
    <3>4. QED
      BY <3>3 DEF Situation
  <2>5. ~Joined
    BY <1>3 DEF Joined
  <2>6. QED
    BY <1>1, <2>3, <2>4, <2>5, AtDcf
<1>4. QED
  BY <1>1, <1>2, <1>3, AtDcf DEF Housed, Stuck

-----------------------------------------------------------------------------
(* The call to terminate.                                                    *)

LEMMA SomePending ==
  ASSUME NEW r \in Requests,
         \/ requests = <<r>>
         \/ \E s \in OutcomesOf(r) : replies = <<Reply(r, s)>>
  PROVE  Pending # {}
<1>1. CASE requests = <<r>>
  <2>1. 1 \in DOMAIN requests /\ requests[1] = r
    BY <1>1
  <2>2. QED
    BY <2>1 DEF Pending
<1>2. ASSUME NEW s \in OutcomesOf(r), replies = <<Reply(r, s)>>
      PROVE  Pending # {}
  <2>1. 1 \in DOMAIN replies /\ replies[1] = Reply(r, s)
    BY <1>2
  <2>2. s \in Outcomes
    BY DEF OutcomesOf, Outcomes, Plain, Bad, Refusals
  <2>3. Reply(r, s) \in {replies[i] : i \in DOMAIN replies} \ Losses
    BY <2>1, <2>2, AnswerIsNoLoss
  <2>4. QED
    BY <2>3 DEF Pending
<1>3. QED
  BY <1>1, <1>2

(* Where it finds a reset, or a scan that will end at its next callback.     *)
TerminateLater ==
  /\ ready /\ phase \in {"IDLE", "DCF", "IRREGULAR", "SEARCH"}
  /\ phase = "SEARCH" \/ resetting
  /\ Accept("TERMINATING", "TERMINATE") /\ NoRequest /\ UNCHANGED resetting
  /\ NoteSlip /\ CallFrame

LEMMA LaterSituation ==
  ASSUME Situation, TerminateLater
  PROVE  Situation'
<1>1. /\ phase \in {"IDLE", "DCF", "IRREGULAR", "SEARCH"} /\ (phase = "SEARCH" \/ resetting)
      /\ UNCHANGED <<ready, scanEx, resetting, requests, replies, wm, link>>
      /\ slip \subseteq slip'
  BY DEF TerminateLater, NoRequest, CallFrame, NoteSlip
<1>2. phase' = "TERMINATING" /\ Named'
  BY AcceptStep, OwnIs DEF TerminateLater
<1>3. CASE Scans
  <2>1. Scans'
    BY <1>1, <1>2, <1>3 DEF Scans, Quiet
  <2>2. QED
    BY <2>1 DEF Situation
<1>4. ASSUME NEW r \in {"StartScanEx", "Reset"}, Housed(r), Mid(r)
      PROVE  Situation'
  <2>1. Home(r, "TERMINATING")
    BY <1>4 DEF Home, Scanning
  <2>2. Housed(r)'
    BY <1>1, <1>2, <1>4, <2>1 DEF Housed, Up
  <2>3. Mid(r)'
    BY <1>1, <1>2, <1>4, MidKept DEF Frail
  <2>4. QED
    BY <2>2, <2>3, RequestSet DEF Single, Situation
<1>5. CASE Stuck
  <2>1. Up' /\ "refused" \in slip' /\ resetting'
    BY <1>1, <1>5 DEF Stuck, Up
  <2>2. CASE Calm
    <3>1. Calm'
      BY <1>1, <2>2 DEF Calm, CalmIs
    <3>2. QED
      BY <1>2, <2>1, <3>1 DEF Stuck, Situation
  <2>3. CASE ~Calm
    <3>1. phase = "IRREGULAR" /\ ~link
      BY <1>1, <1>5, <2>3 DEF Stuck
    <3>2. PICK r \in Frail :
             \/ requests = <<r>> /\ replies = <<>>
             \/ requests = <<>> /\ \E s \in IF r = "Disconnect" THEN Bad ELSE Plain :
                                      replies = <<Reply(r, s)>>
      BY <1>5, <2>3 DEF Stuck
    <3>3. r \in Requests /\ r # "StartConnectEx"
      BY RequestSet DEF Frail
    <3>4. Pending # {}
      BY <3>2, <3>3, SomePending DEF OutcomesOf, Plain
    <3>5. "overtaken" \in slip'
      BY <1>2, <3>1, <3>4 DEF TerminateLater, NoteSlip
    <3>6. QED
      BY <1>1, <1>2, <2>1, <3>1, <3>2, <3>5 DEF Stuck, Situation
  <2>4. QED
    BY <2>2, <2>3
<1>6. QED
  <2>1. CASE phase = "SEARCH"
    BY <1>3, <1>4, <2>1, AtSearch
  <2>2. CASE resetting /\ phase # "SEARCH"
    <3>1. ~Idle /\ ~Joined /\ ~Irregular
      BY <2>2 DEF Idle, Joined, Irregular
    <3>2. \A r : Housed(r) => r = "Reset"
      BY <2>2 DEF Housed
    <3>3. CASE phase = "IDLE"
      BY <3>1, <3>3, AtIdle
    <3>4. CASE phase = "DCF"
      BY <1>4, <1>5, <3>1, <3>4, AtDcf
    <3>5. CASE phase = "IRREGULAR"
      BY <1>4, <1>5, <3>1, <3>2, <3>5, AtIrregular
    <3>6. QED
      BY <1>1, <2>2, <3>3, <3>4, <3>5
  <2>3. QED
    BY <1>1, <2>1, <2>2

(* Where it closes, stops or resets the driver, which is in state wm.        *)
TerminateNow ==
  /\ ready /\ phase \in {"IDLE", "DCF", "IRREGULAR"} /\ ~resetting
  /\ NoteSlip /\ CallFrame
  /\ \/ /\ wm = "ready" /\ faults < MaxFaults /\ faults' = faults + 1
        /\ SetPhase("FATAL_ERROR") /\ Silent /\ UNCHANGED <<wm, link, requests, resetting>>
     \/ /\ wm = "ready" /\ wm' = "off" /\ SetPhase("WAIT") /\ notifyId' = "COMMON"
        /\ due' = {} /\ UNCHANGED <<notice, link, requests, faults, resetting>>
     \/ /\ wm \in {"stop", "idle"}
        /\ Begin(IF wm = "stop" THEN "Disable" ELSE "PowerOff",
                 "TERMINATING", phase, "TERMINATE")
        /\ UNCHANGED resetting
     \/ /\ wm \notin {"ready", "stop", "idle"} /\ resetting' = TRUE
        /\ Begin("Reset", "TERMINATING", phase, "TERMINATE")

LEMMA TerminateSplits ==
  ASSUME WCM_TerminateAsync
  PROVE  TerminateLater \/ TerminateNow
<1>1. CASE phase = "SEARCH" \/ resetting
  BY <1>1 DEF WCM_TerminateAsync, TerminateLater
<1>2. CASE ~(phase = "SEARCH" \/ resetting)
  BY <1>2 DEF WCM_TerminateAsync, TerminateNow
<1>3. QED
  BY <1>1, <1>2

(* The request it hands over, if it does.                                    *)
Closing == IF wm = "stop" THEN "Disable" ELSE IF wm = "idle" THEN "PowerOff" ELSE "Reset"

LEMMA TerminateClosing ==
  ASSUME TerminateNow, wm # "ready"
  PROVE  /\ Begin(Closing, "TERMINATING", phase, "TERMINATE")
         /\ resetting' <=> (Closing = "Reset")
         /\ Closing \in {"Disable", "PowerOff", "Reset"}
         /\ Closing = "Disable" => wm = "stop"
         /\ Closing = "PowerOff" => wm = "idle"
BY DEF TerminateNow, Closing

(* It was refused: the reset flag of a reset stays set.                      *)
LEMMA TerminateRefused ==
  ASSUME TerminateNow, phase' = phase, resetting'
  PROVE  "refused" \in slip'
BY DEF TerminateNow, NoteSlip

LEMMA CalmTerminates ==
  ASSUME Linked, TerminateNow, Calm, Up, Named \/ phase = "IDLE", phase = "IDLE" => due = {} /\ wm = "idle",
         wm = "ready" => phase = "IRREGULAR"
  PROVE  \/ Situation'
         \/ /\ phase' = phase /\ Silent /\ ~resetting'
            /\ UNCHANGED <<requests, replies, wm, link, ready, scanEx, authId>>
            /\ slip \subseteq slip'
<1>1. /\ UNCHANGED <<ready, scanEx, replies, authId>> /\ slip \subseteq slip' /\ Up'
      /\ phase \in {"IDLE", "DCF", "IRREGULAR"} /\ ~resetting
  BY DEF TerminateNow, CallFrame, NoteSlip, Up
<1>2. CASE wm = "ready"
  <2>1. ~link /\ requests = <<>> /\ replies = <<>>
    BY <1>2 DEF Linked, Calm, CalmIs, Near
  <2>2. CASE /\ wm' = "off" /\ phase' = "WAIT" /\ notifyId' = "COMMON" /\ due' = {}
             /\ UNCHANGED <<link, requests, resetting>>
    <3>1. Off'
      BY <1>1, <2>1, <2>2 DEF Off, Up, Quiet
    <3>2. QED
      BY <3>1 DEF Situation
  <2>3. CASE phase' = "FATAL_ERROR"
    BY <1>1, <2>3 DEF Situation, Broken, Up
  <2>4. QED
    BY <1>1, <1>2, <2>2, <2>3 DEF TerminateNow, SetPhase
<1>3. CASE wm # "ready"
  <2>1. /\ Begin(Closing, "TERMINATING", phase, "TERMINATE")
        /\ resetting' <=> (Closing = "Reset")
        /\ Closing \in {"Disable", "PowerOff", "Reset"}
        /\ Closing = "Disable" => wm = "stop"
        /\ Closing = "PowerOff" => wm = "idle"
    BY <1>3, TerminateClosing
  <2>2. Home(Closing, "TERMINATING")
    BY <2>1 DEF Home, Scanning
  <2>3. link => Closing \in Lossy
    BY <2>1 DEF Linked, Lossy
  <2>4. replies # <<>> => Closing \in Lossy \cup {"PowerOff"}
    BY <2>1 DEF Calm, CalmIs, Near, Lossy
  <2>5. Closing \in Requests /\ Closing # "StartDCF" /\ phase # "FATAL_ERROR"
    BY <1>1, <2>1, RequestSet
  <2>6. Situation' \/ (phase' = phase /\ Silent /\ UNCHANGED <<requests, wm, link>>)
    BY <1>1, <2>1, <2>2, <2>3, <2>4, <2>5, Begins, OwnIs
  <2>7. CASE phase' = phase /\ Silent /\ UNCHANGED <<requests, wm, link>> /\ resetting'
    <3>1. phase \in {"DCF", "IRREGULAR"} \/ phase = "IDLE"
      BY <1>1
    <3>2. "refused" \in slip'
      BY <2>7, TerminateRefused
    <3>3. Calm'
      BY <1>1, <2>7 DEF Calm, CalmIs
    <3>4. CASE phase # "IDLE"
      <4>1. Stuck'
        BY <1>1, <2>7, <3>1, <3>2, <3>3, <3>4 DEF Stuck
      <4>2. QED
        BY <4>1 DEF Situation
    <3>5. CASE phase = "IDLE"
      BY <2>1, <2>7, <3>5 DEF Closing
    <3>6. QED
      BY <3>4, <3>5
  <2>8. QED
    BY <1>1, <2>6, <2>7
<1>4. QED
  BY <1>2, <1>3

(* A request under way is overtaken.                                         *)
LEMMA RequestTerminates ==
  ASSUME Types, TerminateNow, phase = "IRREGULAR", NEW r \in Frail, Housed(r), Mid(r)
  PROVE  Situation'
<1>1. /\ UNCHANGED <<ready, scanEx, replies, authId>> /\ slip \subseteq slip' /\ Up'
      /\ ~resetting
  BY DEF TerminateNow, CallFrame, NoteSlip, Housed, Up
<1>2. r \in Requests /\ r \notin {"StartConnectEx", "Reset"}
  BY RequestSet DEF Frail
<1>3. ~link /\ wm \in Near
  BY <1>2 DEF Housed
<1>4. \/ requests = <<r>> /\ replies = <<>>
      \/ \E s \in Plain : /\ requests = <<>> /\ replies = <<Reply(r, s)>>
                          /\ s = "SUCCESS" => r # "Disconnect" /\ wm # "idle"
  <2>1. ~WaitsLost(r) /\ \A s : ~LostAnswered(r, s) /\ ~AnsweredLost(r, s)
    BY <1>2 DEF WaitsLost, LostAnswered, AnsweredLost
  <2>2. OutcomesOf(r) = Plain
    BY <1>2 DEF OutcomesOf
  <2>3. CASE Waits(r)
    BY <2>3 DEF Waits
  <2>4. ASSUME NEW s \in Plain, Answered(r, s)
        PROVE  \E t \in Plain : /\ requests = <<>> /\ replies = <<Reply(r, t)>>
                                /\ t = "SUCCESS" => r # "Disconnect" /\ wm # "idle"
    BY <2>4 DEF Answered
  <2>5. QED
    BY <2>1, <2>2, <2>3, <2>4 DEF Mid
<1>5. /\ Begin(Closing, "TERMINATING", phase, "TERMINATE")
      /\ resetting' <=> (Closing = "Reset")
      /\ Closing \in {"PowerOff", "Reset"}
      /\ Closing = "PowerOff" => wm = "idle"
  BY <1>3, TerminateClosing DEF Near
<1>6. CASE Ask(Closing, "OPERATING") /\ Accept("TERMINATING", "TERMINATE")
  <2>1. phase' = "TERMINATING" /\ notifyId' = "TERMINATE" /\ due' = {"TERMINATE"}
    BY <1>6 DEF Accept, SetPhase
  <2>2. requests' = Append(requests, Closing) /\ UNCHANGED <<wm, link>>
    BY <1>6 DEF Ask
  <2>3. Pending # {}
    BY <1>2, <1>4, SomePending DEF OutcomesOf
  <2>4. "overtaken" \in slip'
    BY <2>1, <2>3 DEF TerminateNow, NoteSlip
  <2>5. CASE Closing = "PowerOff"
    <3>1. wm = "idle" /\ wm' = "idle"
      BY <1>5, <2>2, <2>5
    <3>2. Pair(r, "PowerOff", {"idle"}, Bad)'
      <4>1. CASE requests = <<r>> /\ replies = <<>>
        BY <1>1, <2>2, <2>5, <3>1, <4>1, TwoItems DEF Pair
      <4>2. ASSUME NEW s \in Plain, requests = <<>>, replies = <<Reply(r, s)>>,
                   s = "SUCCESS" => wm # "idle"
            PROVE  Pair(r, "PowerOff", {"idle"}, Bad)'
        <5>1. s \in Bad
          BY <3>1, <4>2 DEF Plain
        <5>2. requests' = <<"PowerOff">> /\ replies' = <<Reply(r, s)>>
          BY <1>1, <2>2, <2>5, <4>2, OneItem
        <5>3. QED
          BY <5>1, <5>2 DEF Pair
      <4>3. QED
        BY <1>4, <4>1, <4>2
    <3>3. ~resetting'
      BY <1>5, <2>5
    <3>4. Double'
      BY <1>1, <1>3, <2>1, <2>2, <2>4, <3>2, <3>3 DEF Double
    <3>5. QED
      BY <3>4 DEF Situation
  <2>6. CASE Closing = "Reset"
    <3>1. Pair(r, "Reset", States, IF r = "Disconnect" THEN Bad ELSE Plain)'
      <4>1. CASE requests = <<r>> /\ replies = <<>>
        <5>1. requests' = <<r, "Reset">> /\ replies' = <<>> /\ wm' \in States
          BY <1>1, <2>2, <2>6, <4>1, TwoItems DEF Types, DriverTypes
        <5>2. QED
          BY <5>1 DEF Pair
      <4>2. ASSUME NEW s \in Plain, requests = <<>>, replies = <<Reply(r, s)>>,
                   s = "SUCCESS" => r # "Disconnect"
            PROVE  Pair(r, "Reset", States, IF r = "Disconnect" THEN Bad ELSE Plain)'
        <5>1. s \in IF r = "Disconnect" THEN Bad ELSE Plain
          BY <4>2 DEF Plain
        <5>2. requests' = <<"Reset">> /\ replies' = <<Reply(r, s)>>
          BY <1>1, <2>2, <2>6, <4>2, OneItem
        <5>3. QED
          BY <5>1, <5>2 DEF Pair
      <4>3. QED
        BY <1>4, <4>1, <4>2
    <3>2. resetting'
      BY <1>5, <2>6
    <3>3. Double'
      BY <1>1, <1>3, <2>1, <2>2, <2>4, <3>1, <3>2 DEF Double
    <3>4. QED
      BY <3>3 DEF Situation
  <2>7. QED
    BY <1>5, <2>5, <2>6
<1>7. CASE Ask(Closing, "FIFO_ERROR") /\ SetPhase(phase) /\ Silent
  <2>1. UNCHANGED <<phase, requests, wm, link>>
    BY <1>7, RefusalStep DEF SetPhase
  <2>2. CASE ~resetting'
    <3>1. Named'
      BY <1>1, <1>2, <1>7, <2>1, <2>2, NamedSame DEF Housed, Silent, Named, NamedAs
    <3>2. Housed(r)'
      BY <1>1, <1>2, <1>7, <2>1, <2>2, <3>1 DEF Housed, Silent
    <3>3. Mid(r)'
      BY <1>1, <2>1 DEF Mid, Waits, WaitsLost, Answered, LostAnswered, AnsweredLost
    <3>4. QED
      BY <1>2, <3>2, <3>3 DEF Single, Situation
  <2>3. CASE resetting'
    <3>1. "refused" \in slip'
      BY <2>1, <2>3, TerminateRefused
    <3>2. \/ requests' = <<r>> /\ replies' = <<>>
          \/ requests' = <<>> /\ \E s \in IF r = "Disconnect" THEN Bad ELSE Plain :
                                    replies' = <<Reply(r, s)>>
      <4>1. CASE requests = <<r>> /\ replies = <<>>
        BY <1>1, <2>1, <4>1
      <4>2. ASSUME NEW s \in Plain, requests = <<>>, replies = <<Reply(r, s)>>,
                   s = "SUCCESS" => r # "Disconnect"
            PROVE  requests' = <<>> /\ \E t \in IF r = "Disconnect" THEN Bad ELSE Plain :
                                          replies' = <<Reply(r, t)>>
        <5>1. s \in IF r = "Disconnect" THEN Bad ELSE Plain
          BY <4>2 DEF Plain
        <5>2. QED
          BY <1>1, <2>1, <4>2, <5>1
      <4>3. QED
        BY <1>4, <4>1, <4>2
    <3>3. Stuck'
      BY <1>1, <1>3, <2>1, <2>3, <3>1, <3>2 DEF Stuck
    <3>4. QED
      BY <3>3 DEF Situation
  <2>4. QED
    BY <2>2, <2>3
<1>8. CASE SetPhase("FATAL_ERROR")
  BY <1>1, <1>8, Breaks DEF Up, Situation
<1>9. QED
  BY <1>5, <1>6, <1>7, <1>8 DEF Begin

LEMMA IrregularKept ==
  ASSUME Irregular, phase' = phase, Silent, ~resetting', slip \subseteq slip',
         UNCHANGED <<requests, replies, wm, link, ready, scanEx>>
  PROVE  Irregular'
<1>1. Calm'
  BY DEF Irregular, Calm, CalmIs
<1>2. Named'
  BY DEF Irregular, Named, NamedAs, Silent
<1>3. QED
  BY <1>1, <1>2 DEF Irregular, Silent, Up

LEMMA TerminateSituation ==
  ASSUME Types, Linked, Situation, WCM_TerminateAsync
  PROVE  Situation'
<1>1. CASE TerminateLater
  BY <1>1, LaterSituation
<1>2. CASE TerminateNow
  <2>1. phase \in {"IDLE", "DCF", "IRREGULAR"} /\ ~resetting
    BY <1>2 DEF TerminateNow
  <2>2. ~Stuck /\ ~Housed("Reset")
    BY <2>1 DEF Stuck, Housed
  <2>3. CASE phase = "IDLE"
    <3>1. Idle
      BY <2>3, AtIdle
    <3>2. Calm /\ Up /\ due = {} /\ wm = "idle"
      BY <3>1, IdleCalm DEF Idle
    <3>3. \/ Situation'
          \/ /\ phase' = phase /\ Silent /\ ~resetting'
             /\ UNCHANGED <<requests, replies, wm, link, ready, scanEx, authId>>
             /\ slip \subseteq slip'
      BY <1>2, <2>3, <3>2, CalmTerminates
    <3>4. CASE /\ phase' = phase /\ Silent /\ ~resetting'
               /\ UNCHANGED <<requests, replies, wm, link, ready, scanEx>>
      BY <3>1, <3>4 DEF Idle, Silent, Quiet, Up, Situation
    <3>5. QED
      BY <3>3, <3>4
  <2>4. CASE phase = "DCF"
    <3>1. Joined
      BY <2>2, <2>4, AtDcf
    <3>2. Calm /\ Up /\ Named /\ wm # "ready"
      BY <3>1 DEF Joined, Calm, CalmIs, Quiet, Near
    <3>3. \/ Situation'
          \/ /\ phase' = phase /\ Silent /\ ~resetting'
             /\ UNCHANGED <<requests, replies, wm, link, ready, scanEx, authId>>
             /\ slip \subseteq slip'
      BY <1>2, <2>4, <3>2, CalmTerminates
    <3>4. CASE /\ phase' = phase /\ Silent /\ ~resetting'
               /\ UNCHANGED <<requests, replies, wm, link, ready, scanEx, authId>>
               /\ slip \subseteq slip'
      <4>1. Named'
        BY <2>4, <3>1, <3>4 DEF Joined, Named, NamedAs, Silent, Transitional
      <4>2. Joined'
        BY <3>1, <3>4, <4>1 DEF Joined, Silent, Calm, CalmIs, Quiet, Up
      <4>3. QED
        BY <4>2 DEF Situation
    <3>5. QED
      BY <3>3, <3>4
  <2>5. CASE phase = "IRREGULAR"
    <3>1. CASE Irregular
      <4>1. Calm /\ Up /\ Named
        BY <3>1 DEF Irregular
      <4>2. QED
        BY <1>2, <2>5, <3>1, <4>1, CalmTerminates, IrregularKept DEF Situation
    <3>2. ASSUME NEW r \in Frail, Housed(r), Mid(r)
          PROVE  Situation'
      BY <1>2, <2>5, <3>2, RequestTerminates
    <3>3. QED
      BY <2>2, <2>5, <3>1, <3>2, AtIrregular DEF Lossy
  <2>6. QED
    BY <2>1, <2>3, <2>4, <2>5
<1>3. QED
  BY <1>1, <1>2, TerminateSplits

LEMMA CallSituation ==
  ASSUME Types, Linked, Situation, Call
  PROVE  Situation'
BY InitFinishSituation, StartupSituation, IdleCalls, EndSearchSituation, DisconnectSituation,
   TerminateSituation
   DEF Call

-----------------------------------------------------------------------------
(* The driver runs a request or loses its connection.                        *)

(* What a run does to the driver.                                            *)
Ran(r, s) ==
  /\ replies' = Append(replies, Reply(r, s)) /\ s \in OutcomesOf(r)
  /\ \/ /\ Legal(r) /\ s \in {"SUCCESS", "BAD_AID"}
        /\ wm' = To[r]
        /\ link' = (r = "StartConnectEx" \/ (link /\ r \notin {"Reset", "Disconnect"}))
     \/ s \notin {"SUCCESS", "BAD_AID"} /\ UNCHANGED <<wm, link>>
  /\ s # "ILLEGAL_STATE" => Legal(r)

LEMMA Runs ==
  ASSUME RunRequest, NEW r, Head(requests) = r
  PROVE  \E s : Ran(r, s)
<1>1. \/ \E s \in {"SUCCESS"} \cup {x \in {"BAD_AID"} : r = "StartConnectEx"} :
            /\ Legal(r) /\ wm' = To[r]
            /\ link' = (r = "StartConnectEx" \/ (link /\ r \notin {"Reset", "Disconnect"}))
            /\ replies' = Append(replies, Reply(r, s))
      \/ \E s \in Refusals : /\ Legal(r) /\ r = "StartConnectEx"
                             /\ replies' = Append(replies, Reply(r, s))
                             /\ UNCHANGED <<wm, link>>
      \/ \E s \in {"FAILED", "ILLEGAL_STATE"} :
            Legal(r) /\ replies' = Append(replies, Reply(r, s)) /\ UNCHANGED <<wm, link>>
      \/ replies' = Append(replies, Reply(r, "ILLEGAL_STATE")) /\ UNCHANGED <<wm, link>>
  BY DEF RunRequest
<1>2. CASE \E s \in {"SUCCESS"} \cup {x \in {"BAD_AID"} : r = "StartConnectEx"} :
            /\ Legal(r) /\ wm' = To[r]
            /\ link' = (r = "StartConnectEx" \/ (link /\ r \notin {"Reset", "Disconnect"}))
            /\ replies' = Append(replies, Reply(r, s))
  <2>1. PICK s \in {"SUCCESS"} \cup {x \in {"BAD_AID"} : r = "StartConnectEx"} :
            /\ Legal(r) /\ wm' = To[r]
            /\ link' = (r = "StartConnectEx" \/ (link /\ r \notin {"Reset", "Disconnect"}))
            /\ replies' = Append(replies, Reply(r, s))
    BY <1>2
  <2>2. s \in OutcomesOf(r) /\ s \in {"SUCCESS", "BAD_AID"} /\ s # "ILLEGAL_STATE"
    BY <2>1 DEF OutcomesOf, Outcomes, Plain
  <2>3. QED
    BY <2>1, <2>2 DEF Ran
<1>3. CASE \E s \in Refusals : /\ Legal(r) /\ r = "StartConnectEx"
                               /\ replies' = Append(replies, Reply(r, s))
                               /\ UNCHANGED <<wm, link>>
  <2>1. PICK s \in Refusals : /\ Legal(r) /\ r = "StartConnectEx"
                              /\ replies' = Append(replies, Reply(r, s))
                              /\ UNCHANGED <<wm, link>>
    BY <1>3
  <2>2. s \in OutcomesOf(r) /\ s \notin {"SUCCESS", "BAD_AID", "ILLEGAL_STATE"}
    BY <2>1 DEF OutcomesOf, Outcomes, Refusals
  <2>3. QED
    BY <2>1, <2>2 DEF Ran
<1>4. CASE \E s \in {"FAILED", "ILLEGAL_STATE"} :
            Legal(r) /\ replies' = Append(replies, Reply(r, s)) /\ UNCHANGED <<wm, link>>
  <2>1. PICK s \in {"FAILED", "ILLEGAL_STATE"} :
            Legal(r) /\ replies' = Append(replies, Reply(r, s)) /\ UNCHANGED <<wm, link>>
    BY <1>4
  <2>2. s \in OutcomesOf(r) /\ s \notin {"SUCCESS", "BAD_AID"}
    BY <2>1 DEF OutcomesOf, Outcomes, Refusals, Plain, Bad
  <2>3. QED
    BY <2>1, <2>2 DEF Ran
<1>5. CASE replies' = Append(replies, Reply(r, "ILLEGAL_STATE")) /\ UNCHANGED <<wm, link>>
  <2>1. "ILLEGAL_STATE" \in OutcomesOf(r)
    BY DEF OutcomesOf, Outcomes, Plain, Bad
  <2>2. QED
    BY <1>5, <2>1 DEF Ran
<1>6. QED
  BY <1>1, <1>2, <1>3, <1>4, <1>5

LEMMA HousedKept ==
  ASSUME NEW r, Housed(r), UNCHANGED <<wcm, scanEx, told, slip>>,
         phase = "IRREGULAR" /\ r # "Reset" => ~link' /\ wm' \in Near
  PROVE  Housed(r)'
<1>1. UNCHANGED <<ready, phase, notifyId, resetting, authId, due, notice>>
  BY DEF wcm, told
<1>2. Named'
  BY <1>1, NamedSame DEF Housed
<1>3. QED
  BY <1>1, <1>2 DEF Housed, Up

(* The only request under way is run.                                        *)
LEMMA SingleRuns ==
  ASSUME Types, Linked, RunRequest, NEW r \in Requests, Housed(r), Mid(r)
  PROVE  Situation'
<1>1. requests # <<>> /\ UNCHANGED <<build, wcm, scanEx, told, slip>> /\ requests' = Tail(requests)
  BY DEF RunRequest
<1>2. requests = <<r>> /\ requests' = <<>> /\ Head(requests) = r
  <2>1. requests = <<r>>
    BY <1>1 DEF Mid, Waits, WaitsLost, Answered, LostAnswered, AnsweredLost
  <2>2. QED
    BY <1>1, <2>1, OneItem
<1>3. PICK s : Ran(r, s)
  BY <1>2, Runs
<1>4. phase' = phase
  BY <1>1 DEF wcm
<1>5. s = "SUCCESS" => wm' = To[r] /\ Legal(r)
  BY <1>3 DEF Ran
<1>6. phase = "IRREGULAR" /\ r # "Reset" =>
        /\ ~link' /\ wm' \in Near
        /\ s = "SUCCESS" => r # "Disconnect" /\ (r \in Frail => wm' # "idle")
  <2>1. SUFFICES ASSUME phase = "IRREGULAR", r # "Reset"
                 PROVE  /\ ~link' /\ wm' \in Near
                        /\ s = "SUCCESS" => r # "Disconnect" /\ (r \in Frail => wm' # "idle")
    OBVIOUS
  <2>2. ~link /\ wm \in Near
    BY <2>1 DEF Housed
  <2>3. r \in Frail
    BY <2>1 DEF Housed, Home, Scanning, Frail
  <2>4. ~link'
    BY <1>3, <2>2, <2>3 DEF Ran, Frail
  <2>5. To[r] \in Near
    BY <2>3, ToIs DEF Frail, Near
  <2>6. wm' \in Near
    BY <1>3, <2>2, <2>5 DEF Ran
  <2>7. s = "SUCCESS" => r # "Disconnect"
    BY <1>5, <2>2 DEF Legal
  <2>8. s = "SUCCESS" => wm' # "idle"
    BY <1>5, <2>3, <2>7, ToIs DEF Frail
  <2>9. QED
    BY <2>4, <2>6, <2>7, <2>8
<1>7. Housed(r)'
  BY <1>1, <1>6, HousedKept
<1>8. s \in OutcomesOf(r)
  BY <1>3 DEF Ran
<1>9. CASE Waits(r)
  <2>1. replies' = <<Reply(r, s)>>
    BY <1>3, <1>9, OneItem DEF Ran, Waits
  <2>2. link' => r \in Lossy \cup {"StartConnectEx"}
    BY <1>3, <1>9 DEF Ran, Waits
  <2>3. s = "SUCCESS" =>
          /\ r \in {"PowerOn", "EndScan", "Disconnect", "Reset"} => wm' = "idle"
          /\ r = "StartDCF" /\ phase = "IDLE_TO_DCF" => wm' = "dcf"
    BY <1>5, ToIs
  <2>4. s = "SUCCESS" /\ r = "StartConnectEx" => link'
    BY <1>3 DEF Ran
  <2>5. s = "SUCCESS" /\ r = "StartDCF" /\ phase = "IDLE_TO_DCF" => link'
    BY <1>3, <1>9 DEF Ran, Waits
  <2>6. Answered(r, s)'
    BY <1>2, <1>4, <1>6, <2>1, <2>2, <2>3, <2>4, <2>5 DEF Answered, Frail
  <2>7. QED
    BY <1>7, <1>8, <2>6 DEF Mid, Single, Situation
<1>10. CASE WaitsLost(r)
  <2>1. PICK l \in Losses : replies = <<l>>
    BY <1>10 DEF WaitsLost
  <2>2. replies' = <<l, Reply(r, s)>>
    BY <1>3, <2>1, TwoItems DEF Ran
  <2>3. ~link /\ r \in Lossy \cup {"PowerOff"}
    BY <1>10 DEF WaitsLost
  <2>4. r # "StartConnectEx"
    BY <2>3 DEF Lossy, Frail
  <2>5. ~link'
    BY <1>3, <2>3, <2>4 DEF Ran
  <2>6. r = "PowerOff" \/ To[r] \in Near
    BY <2>3, ToIs DEF Lossy, Frail, Near
  <2>7. r = "PowerOff" \/ wm' \in Near
    BY <1>3, <1>10, <2>6 DEF Ran, WaitsLost
  <2>8. s = "SUCCESS" => r # "Disconnect"
    BY <1>5, <2>3 DEF Legal
  <2>9. s = "SUCCESS" => (r = "Reset" => wm' = "idle") /\ (r \in Frail => wm' # "idle")
    BY <1>5, <2>8, ToIs DEF Frail
  <2>10. LostAnswered(r, s)'
    BY <1>2, <1>4, <1>10, <2>2, <2>3, <2>5, <2>7, <2>8, <2>9 DEF LostAnswered, WaitsLost
  <2>11. QED
    BY <1>7, <1>8, <2>10 DEF Mid, Single, Situation
<1>11. QED
  BY <1>1, <1>9, <1>10 DEF Mid, Answered, LostAnswered, AnsweredLost

(* One of two requests under way is run.                                     *)
LEMMA PairRuns ==
  ASSUME Types, RunRequest, ~link, NEW r \in Requests, NEW q \in Requests, NEW w, NEW a,
         Pair(r, q, w, a), r # "StartConnectEx", q # "StartConnectEx",
         Plain \subseteq a \/ (Bad \subseteq a /\ (wm \in w => ~Legal(r)))
  PROVE  Pair(r, q, w, a)' /\ ~link'
<1>1. requests # <<>> /\ requests' = Tail(requests)
  BY DEF RunRequest
<1>2. Plain = OutcomesOf(r) /\ Plain = OutcomesOf(q)
  BY DEF OutcomesOf
<1>3. CASE requests = <<r, q>> /\ replies = <<>> /\ wm \in w
  <2>1. Head(requests) = r /\ requests' = <<q>>
    BY <1>1, <1>3, TwoItems
  <2>2. PICK s : Ran(r, s)
    BY <2>1, Runs
  <2>3. replies' = <<Reply(r, s)>>
    BY <1>3, <2>2, OneItem DEF Ran
  <2>4. s \in a
    BY <1>2, <1>3, <2>2 DEF Ran, Plain, Bad
  <2>5. ~link'
    BY <2>2 DEF Ran
  <2>6. Pair(r, q, w, a)'
    BY <2>1, <2>3, <2>4 DEF Pair
  <2>7. QED
    BY <2>5, <2>6
<1>4. ASSUME requests = <<q>>, NEW s \in a, replies = <<Reply(r, s)>>
      PROVE  Pair(r, q, w, a)' /\ ~link'
  <2>1. Head(requests) = q /\ requests' = <<>>
    BY <1>1, <1>4, OneItem
  <2>2. PICK t : Ran(q, t)
    BY <2>1, Runs
  <2>3. replies' = <<Reply(r, s), Reply(q, t)>>
    BY <1>4, <2>2, TwoItems DEF Ran
  <2>4. t \in Plain
    BY <1>2, <2>2 DEF Ran
  <2>5. q = "Reset" /\ t = "SUCCESS" => wm' = "idle"
    BY <2>2, ToIs DEF Ran
  <2>6. ~link'
    BY <2>2 DEF Ran
  <2>7. Pair(r, q, w, a)'
    BY <2>1, <2>3, <2>4, <2>5 DEF Pair
  <2>8. QED
    BY <2>6, <2>7
<1>5. QED
  BY <1>1, <1>3, <1>4 DEF Pair

LEMMA DoubleRuns ==
  ASSUME Types, RunRequest, Double
  PROVE  Situation'
<1>1. UNCHANGED <<ready, phase, notifyId, resetting, due, scanEx, slip>>
  BY DEF RunRequest, wcm, told
<1>2. ~link /\ Up /\ Up' /\ wm \in States
  BY <1>1 DEF Double, Up, Types, DriverTypes
<1>3. /\ "PowerOff" \in Requests /\ "Reset" \in Requests /\ "Disable" \in Requests
      /\ Frail \subseteq Requests /\ "StartConnectEx" \notin Frail
  BY RequestSet DEF Frail
<1>4. Bad \subseteq Plain /\ Plain \subseteq Plain
  BY DEF Plain
<1>5. ASSUME NEW r \in Frail, Pair(r, "PowerOff", {"idle"}, Bad)
      PROVE  Pair(r, "PowerOff", {"idle"}, Bad)' /\ ~link'
  <2>1. wm \in {"idle"} => ~Legal(r)
    BY FromIs DEF Frail, Legal
  <2>2. QED
    BY <1>2, <1>3, <1>5, <2>1, PairRuns
<1>6. ASSUME NEW r \in Frail,
             Pair(r, "Reset", States, IF r = "Disconnect" THEN Bad ELSE Plain)
      PROVE  Pair(r, "Reset", States, IF r = "Disconnect" THEN Bad ELSE Plain)' /\ ~link'
  <2>1. r = "Disconnect" => ~Legal(r)
    BY <1>2 DEF Legal
  <2>2. CASE r = "Disconnect"
    BY <1>2, <1>3, <1>6, <2>1, <2>2, PairRuns
  <2>3. CASE r # "Disconnect"
    BY <1>2, <1>3, <1>4, <1>6, <2>3, PairRuns
  <2>4. QED
    BY <2>2, <2>3
<1>7. ASSUME Pair("PowerOff", "Reset", States, Plain)
      PROVE  Pair("PowerOff", "Reset", States, Plain)' /\ ~link'
  BY <1>2, <1>3, <1>4, <1>7, PairRuns
<1>8. ASSUME Pair("Reset", "Disable", {"stop"}, Bad)
      PROVE  Pair("Reset", "Disable", {"stop"}, Bad)' /\ ~link'
  <2>1. wm \in {"stop"} => ~Legal("Reset")
    BY FromIs DEF Legal
  <2>2. QED
    BY <1>2, <1>3, <1>8, <2>1, PairRuns
<1>9. Double'
  BY <1>1, <1>2, <1>5, <1>6, <1>7, <1>8 DEF Double
<1>10. QED
  BY <1>9 DEF Situation

(* A request of a stuck situation is run.                                    *)
LEMMA StuckRuns ==
  ASSUME Types, RunRequest, Stuck
  PROVE  Situation'
<1>1. UNCHANGED <<ready, phase, notifyId, resetting, due, scanEx, slip>> /\ requests # <<>>
      /\ requests' = Tail(requests)
  BY DEF RunRequest, wcm, told
<1>2. PICK r \in Frail : requests = <<r>> /\ replies = <<>>
  BY <1>1 DEF Stuck, Calm, CalmIs
<1>3. ~link /\ (phase = "IRREGULAR" \/ (phase = "TERMINATING" /\ "overtaken" \in slip))
  BY <1>1 DEF Stuck, Calm, CalmIs
<1>4. Head(requests) = r /\ requests' = <<>>
  BY <1>1, <1>2, OneItem
<1>5. PICK s : Ran(r, s)
  BY <1>4, Runs
<1>6. replies' = <<Reply(r, s)>>
  BY <1>2, <1>5, OneItem DEF Ran
<1>7. ~link'
  BY <1>2, <1>3, <1>5 DEF Ran, Frail
<1>8. s \in Plain
  BY <1>2, <1>5 DEF Ran, OutcomesOf, Frail
<1>9. r = "Disconnect" => s \in Bad
  BY <1>3, <1>5, <1>8 DEF Ran, Plain, Bad, Legal
<1>10. s \in IF r = "Disconnect" THEN Bad ELSE Plain
  BY <1>8, <1>9
<1>11. Stuck'
  BY <1>1, <1>2, <1>3, <1>4, <1>6, <1>7, <1>10 DEF Stuck, Up
<1>12. QED
  BY <1>11 DEF Situation

LEMMA RunSituation ==
  ASSUME Types, Linked, Situation, RunRequest
  PROVE  Situation'
<1>1. requests # <<>>
  BY DEF RunRequest
<1>2. CASE Broken
  BY <1>2, BrokenStep DEF Next, Situation
<1>3. CASE Single
  BY <1>3, SingleRuns DEF Single
<1>4. CASE Off \/ Idle \/ Scans \/ Joined \/ Irregular
  BY <1>1, <1>4 DEF Off, Idle, Scans, Joined, Irregular, Quiet, Calm, CalmIs
<1>5. QED
  BY <1>2, <1>3, <1>4, DoubleRuns, StuckRuns DEF Situation

(* What a loss does to the driver.                                           *)
LEMMA Loses ==
  ASSUME LoseLink
  PROVE  /\ link /\ ~link' /\ wm' \in Near /\ wm \in {"child", "dcf"}
         /\ \E l \in Losses : replies' = Append(replies, l)
         /\ UNCHANGED <<ready, phase, notifyId, resetting, authId, due, notice, scanEx,
                        slip, requests>>
<1>1. wm' \in Near
  BY DEF LoseLink, Near
<1>2. QED
  BY <1>1 DEF LoseLink, wcm, told

LEMMA CalmLoses ==
  ASSUME LoseLink, Calm
  PROVE  Calm' /\ ~Quiet'
<1>1. requests = <<>> /\ replies = <<>>
  BY Loses DEF Calm, CalmIs
<1>2. PICK l \in Losses : replies' = Append(replies, l)
  BY Loses
<1>3. replies' = <<l>>
  BY <1>1, <1>2, OneItem
<1>4. requests' = <<>> /\ ~link' /\ wm' \in Near
  BY <1>1, Loses
<1>5. replies' # <<>>
  BY <1>3, OneItem
<1>6. QED
  BY <1>3, <1>4, <1>5 DEF Calm, CalmIs, Quiet

LEMMA SingleLoses ==
  ASSUME Types, Linked, LoseLink, NEW r \in Requests, Housed(r), Mid(r)
  PROVE  Situation'
<1>1. PICK l \in Losses : replies' = Append(replies, l)
  BY Loses
<1>2. link /\ ~link' /\ wm' \in Near /\ phase' = phase /\ requests' = requests
  BY Loses
<1>3. Housed(r)'
  <2>1. Named'
    BY Loses, NamedSame DEF Housed
  <2>2. QED
    BY <2>1, Loses DEF Housed, Up
<1>4. phase = "IRREGULAR" => r = "Reset"
  BY <1>2 DEF Housed
<1>5. CASE Waits(r)
  <2>1. replies' = <<l>> /\ requests' = <<r>> /\ r \in Lossy
    BY <1>1, <1>2, <1>5, OneItem DEF Waits
  <2>2. WaitsLost(r)'
    BY <1>2, <1>4, <2>1 DEF WaitsLost
  <2>3. QED
    BY <1>3, <2>2 DEF Mid, Single, Situation
<1>6. ASSUME NEW s \in OutcomesOf(r), Answered(r, s)
      PROVE  Situation'
  <2>1. replies' = <<Reply(r, s), l>>
    BY <1>1, <1>6, TwoItems DEF Answered
  <2>2. requests' = <<>> /\ r \in Lossy \cup {"StartConnectEx"}
    BY <1>2, <1>6 DEF Answered
  <2>3. wm # "idle"
    BY Loses
  <2>4. s = "SUCCESS" => r \notin {"Reset", "Disconnect"}
    BY <1>6, <2>3 DEF Answered
  <2>5. AnsweredLost(r, s)'
    BY <1>2, <1>4, <2>1, <2>2, <2>4 DEF AnsweredLost
  <2>6. QED
    BY <1>3, <2>5 DEF Mid, Single, Situation
<1>7. QED
  BY <1>2, <1>5, <1>6 DEF Mid, WaitsLost, LostAnswered, AnsweredLost

LEMMA LoseSituation ==
  ASSUME Types, Linked, Situation, LoseLink
  PROVE  Situation'
<1>1. link
  BY Loses
<1>2. CASE Broken
  BY <1>2, BrokenStep DEF Next, Situation
<1>3. CASE Off \/ Idle \/ Scans \/ Double
  BY <1>1, <1>3 DEF Off, Idle, Scans, Double
<1>4. CASE Joined
  <2>1. Calm' /\ ~Quiet'
    BY <1>4, CalmLoses DEF Joined
  <2>2. Named'
    BY <1>4, Loses, NamedSame DEF Joined
  <2>3. Joined'
    BY <1>4, <2>1, <2>2, Loses DEF Joined, Up
  <2>4. QED
    BY <2>3 DEF Situation
<1>5. CASE Irregular
  <2>1. Calm'
    BY <1>5, CalmLoses DEF Irregular
  <2>2. Named'
    BY <1>5, Loses, NamedSame DEF Irregular
  <2>3. Irregular'
    BY <1>5, <2>1, <2>2, Loses DEF Irregular, Up
  <2>4. QED
    BY <2>3 DEF Situation
<1>6. CASE Stuck
  <2>1. Calm'
    BY <1>6, CalmLoses, Loses DEF Stuck
  <2>2. Stuck'
    BY <1>6, <2>1, Loses DEF Stuck, Up
  <2>3. QED
    BY <2>2 DEF Situation
<1>7. CASE Single
  BY <1>7, SingleLoses DEF Single
<1>8. QED
  BY <1>2, <1>3, <1>4, <1>5, <1>6, <1>7 DEF Situation

-----------------------------------------------------------------------------
(* The report of a loss is heard.                                            *)

(* What its two handlers do.                                                 *)
Losing ==
  /\ replies # <<>> /\ Head(replies) \in Losses /\ replies' = Tail(replies)
  /\ scanEx = "none" /\ ready /\ UNCHANGED <<ready, slip, scanEx>>
  /\ phase \notin {"DCF", "DCF_TO_IDLE"} => authId' = authId
  /\ \/ /\ phase \in {"IDLE_TO_DCF", "DCF_TO_IDLE"}
        /\ phase' = "IRREGULAR" /\ Silent /\ NoRequest /\ UNCHANGED resetting
     \/ \E id \in {notifyId, "DISCONNECT"} : phase = "DCF" /\ WcmWmReset("DCF", id)
     \/ phase = "IRREGULAR" /\ WcmWmReset("IRREGULAR", notifyId)
     \/ /\ phase \notin {"IDLE_TO_DCF", "DCF_TO_IDLE", "DCF", "IRREGULAR"}
        /\ Silent /\ NoRequest /\ UNCHANGED <<phase, resetting>>

LEMMA IndicationLoses ==
  ASSUME WcmWmcbIndication, Types
  PROVE  Losing
<1>1. /\ replies # <<>> /\ replies' = Tail(replies) /\ ready /\ scanEx = "none"
      /\ Head(replies).request = "Indication" /\ Head(replies).result = "AUTO_DISCONNECT"
      /\ UNCHANGED <<ready, slip, scanEx, authId>>
  BY DEF WcmWmcbIndication, Deliver
<1>2. Head(replies) = Reply("Indication", "AUTO_DISCONNECT")
  <2>1. Head(replies) \in Message
    BY <1>1, TailInSeq DEF Types, DriverTypes
  <2>2. QED
    BY <1>1, <2>1 DEF Message, Reply
<1>3. Head(replies) \in Losses
  BY <1>2 DEF Losses
<1>4. \/ /\ phase \in {"IDLE_TO_DCF", "DCF_TO_IDLE"}
         /\ phase' = "IRREGULAR" /\ Silent /\ NoRequest /\ UNCHANGED resetting
      \/ phase = "DCF" /\ WcmWmReset("DCF", notifyId)
      \/ phase = "IRREGULAR" /\ WcmWmReset("IRREGULAR", notifyId)
      \/ /\ phase \notin {"IDLE_TO_DCF", "DCF_TO_IDLE", "DCF", "IRREGULAR"}
         /\ Silent /\ NoRequest /\ UNCHANGED <<phase, resetting>>
  BY DEF WcmWmcbIndication, SetPhase
<1>5. QED
  BY <1>1, <1>3, <1>4 DEF Losing

LEMMA ConnectionLoses ==
  ASSUME ConnectionLost, Types, UNCHANGED scanEx
  PROVE  Losing
<1>1. /\ replies # <<>> /\ replies' = Tail(replies) /\ ready /\ scanEx = "none"
      /\ Head(replies).request = "StartConnectEx" /\ Head(replies).result = "DISCONNECTED"
      /\ UNCHANGED <<ready, slip, scanEx>>
  BY DEF ConnectionLost, Deliver
<1>2. Head(replies) = Reply("StartConnectEx", "DISCONNECTED")
  <2>1. Head(replies) \in Message
    BY <1>1, TailInSeq DEF Types, DriverTypes
  <2>2. QED
    BY <1>1, <2>1 DEF Message, Reply
<1>3. Head(replies) \in Losses
  BY <1>2 DEF Losses
<1>4. \/ /\ phase \in {"IDLE_TO_DCF", "DCF_TO_IDLE"}
         /\ phase' = "IRREGULAR" /\ Silent /\ NoRequest /\ UNCHANGED resetting
      \/ phase = "DCF" /\ WcmWmReset("DCF", "DISCONNECT")
      \/ phase = "IRREGULAR" /\ WcmWmReset("IRREGULAR", notifyId)
      \/ /\ phase \notin {"IDLE_TO_DCF", "DCF_TO_IDLE", "DCF", "IRREGULAR"}
         /\ Silent /\ NoRequest /\ UNCHANGED <<phase, resetting>>
  BY DEF ConnectionLost, SetPhase
<1>5. phase \notin {"DCF", "DCF_TO_IDLE"} => authId' = authId
  <2>1. authId \in BOOLEAN
    BY DEF Types, ProgramTypes
  <2>2. QED
    BY <2>1 DEF ConnectionLost
<1>6. QED
  BY <1>1, <1>3, <1>4, <1>5 DEF Losing

(* The driver and its queue of requests stay, or a reset is asked for.       *)
LEMMA LosingKeeps ==
  ASSUME Losing, phase \in {"DCF", "IRREGULAR"} => resetting, phase # "FATAL_ERROR"
  PROVE  /\ UNCHANGED <<requests, wm, link, resetting, due>>
         /\ \/ phase \in {"IDLE_TO_DCF", "DCF_TO_IDLE"} /\ phase' = "IRREGULAR"
               /\ notifyId' = notifyId
            \/ phase \notin {"IDLE_TO_DCF", "DCF_TO_IDLE"} /\ phase' = phase
               /\ (notifyId' = notifyId \/ (phase = "DCF" /\ notifyId' = "DISCONNECT"))
<1>1. CASE phase \in {"IDLE_TO_DCF", "DCF_TO_IDLE"}
  BY <1>1 DEF Losing, Silent, NoRequest
<1>2. CASE phase = "DCF"
  <2>1. PICK id \in {notifyId, "DISCONNECT"} : WcmWmReset("DCF", id)
    BY <1>2 DEF Losing
  <2>2. phase' = phase /\ notifyId' = id /\ due' = due /\ UNCHANGED <<requests, wm, link>>
    BY <1>2, <2>1, Leans
  <2>3. resetting' = resetting
    BY <1>2, <2>1 DEF WcmWmReset
  <2>4. QED
    BY <1>2, <2>1, <2>2, <2>3
<1>3. CASE phase = "IRREGULAR"
  <2>1. WcmWmReset("IRREGULAR", notifyId)
    BY <1>3 DEF Losing
  <2>2. phase' = phase /\ notifyId' = notifyId /\ due' = due /\ UNCHANGED <<requests, wm, link>>
    BY <1>3, <2>1, Leans
  <2>3. resetting' = resetting
    BY <1>3, <2>1 DEF WcmWmReset
  <2>4. QED
    BY <1>3, <2>2, <2>3
<1>4. CASE phase \notin {"IDLE_TO_DCF", "DCF_TO_IDLE", "DCF", "IRREGULAR"}
  BY <1>4 DEF Losing, Silent, NoRequest
<1>5. QED
  BY <1>1, <1>2, <1>3, <1>4

(* A loss is reported while a request is under way.                          *)
LEMMA LossHoused ==
  ASSUME Losing, NEW r, Housed(r), ~link, wm \in Near \/ r = "PowerOff",
         r \in Lossy \cup {"PowerOff"}, phase = "IRREGULAR" => r = "Reset"
  PROVE  /\ Housed(r)' /\ UNCHANGED <<requests, wm, link>>
         /\ phase' # "IDLE_TO_DCF" /\ phase # "FATAL_ERROR"
<1>1. phase # "FATAL_ERROR" /\ (phase \in {"DCF", "IRREGULAR"} => r = "Reset" /\ resetting)
  BY DEF Housed, Home, Scanning
<1>2. /\ UNCHANGED <<requests, wm, link, resetting, due, ready, slip, scanEx>>
      /\ \/ phase \in {"IDLE_TO_DCF", "DCF_TO_IDLE"} /\ phase' = "IRREGULAR"
            /\ notifyId' = notifyId
         \/ phase \notin {"IDLE_TO_DCF", "DCF_TO_IDLE"} /\ phase' = phase
            /\ (notifyId' = notifyId \/ (phase = "DCF" /\ notifyId' = "DISCONNECT"))
  BY <1>1, LosingKeeps DEF Losing
<1>3. phase' # "IDLE_TO_DCF"
  BY <1>2
<1>4. CASE phase \in {"IDLE_TO_DCF", "DCF_TO_IDLE"}
  <2>1. phase' = "IRREGULAR" /\ notifyId' = notifyId
    BY <1>2, <1>4
  <2>2. Home(r, phase') /\ (phase = "IDLE_TO_DCF" => r \in {"StartDCF", "Reset"})
        /\ (phase = "DCF_TO_IDLE" => r \in {"EndDCF", "Disconnect", "Reset"})
    BY <1>4, <2>1 DEF Housed, Home, Scanning, Lossy, Frail
  <2>3. \/ phase = "IDLE_TO_DCF" /\ notifyId = "CONNECT" /\ due = {notifyId}
        \/ phase = "DCF_TO_IDLE" /\ notifyId = "DISCONNECT" /\ due = {notifyId}
        \/ /\ phase = "DCF_TO_IDLE" /\ notifyId = "TERMINATE" /\ due = {notifyId}
           /\ resetting /\ "overtaken" \in slip
    BY <1>4 DEF Housed, Named, NamedAs, Own
  <2>4. Named'
    BY <1>2, <2>1, <2>3 DEF Named, NamedAs
  <2>5. r = "StartDCF" => authId'
    <3>1. r = "StartDCF" => phase = "IDLE_TO_DCF"
      BY <1>4, <2>2
    <3>2. phase = "IDLE_TO_DCF" => authId' = authId
      BY DEF Losing
    <3>3. r = "StartDCF" => authId
      BY DEF Housed
    <3>4. QED
      BY <3>1, <3>2, <3>3
  <2>6. r # "Reset" => wm' \in Near /\ notifyId' = IF r = "StartDCF" THEN "CONNECT" ELSE "DISCONNECT"
    BY <1>2, <1>4, <2>1, <2>2, <2>3 DEF Housed
  <2>7. (resetting <=> r = "Reset") /\ Up
    BY DEF Housed
  <2>8. Housed(r)'
    BY <1>2, <2>1, <2>2, <2>4, <2>5, <2>6, <2>7 DEF Housed, Up
  <2>9. QED
    BY <1>1, <1>2, <1>3, <2>8
<1>5. CASE phase \notin {"IDLE_TO_DCF", "DCF_TO_IDLE"}
  <2>1. phase' = phase /\ (notifyId' = notifyId \/ (phase = "DCF" /\ notifyId' = "DISCONNECT"))
    BY <1>2, <1>5
  <2>2. Named'
    <3>1. CASE notifyId' = notifyId
      BY <1>2, <2>1, <3>1, NamedSame DEF Housed
    <3>2. CASE phase = "DCF" /\ notifyId' = "DISCONNECT"
      <4>1. due = {}
        BY <3>2 DEF Housed, Named, NamedAs, Transitional
      <4>2. QED
        BY <1>2, <2>1, <3>2, <4>1 DEF Named, NamedAs
    <3>3. QED
      BY <2>1, <3>1, <3>2
  <2>3. r # "StartDCF" /\ (resetting <=> r = "Reset") /\ Up /\ Home(r, phase)
    BY <1>5 DEF Housed, Home
  <2>4. Housed(r)'
    BY <1>2, <2>1, <2>2, <2>3 DEF Housed, Up
  <2>5. QED
    BY <1>1, <1>2, <1>3, <2>4
<1>6. QED
  BY <1>4, <1>5

LEMMA LossSingle ==
  ASSUME Types, Losing, NEW r \in Requests, Housed(r), Mid(r)
  PROVE  Situation'
<1>1. Head(replies) \in Losses /\ replies' = Tail(replies) /\ replies # <<>>
  BY DEF Losing
<1>2. CASE WaitsLost(r)
  <2>1. PICK l \in Losses : replies = <<l>>
    BY <1>2 DEF WaitsLost
  <2>2. replies' = <<>>
    BY <1>1, <2>1, OneItem
  <2>3. /\ Housed(r)' /\ UNCHANGED <<requests, wm, link>> /\ phase' # "IDLE_TO_DCF"
    BY <1>2, LossHoused DEF WaitsLost
  <2>4. Waits(r)'
    BY <1>2, <2>2, <2>3 DEF Waits, WaitsLost
  <2>5. QED
    BY <2>3, <2>4 DEF Mid, Single, Situation
<1>3. ASSUME NEW s \in OutcomesOf(r), LostAnswered(r, s)
      PROVE  Situation'
  <2>1. PICK l \in Losses : replies = <<l, Reply(r, s)>>
    BY <1>3 DEF LostAnswered
  <2>2. replies' = <<Reply(r, s)>>
    BY <1>1, <2>1, TwoItems
  <2>3. /\ Housed(r)' /\ UNCHANGED <<requests, wm, link>> /\ phase' # "IDLE_TO_DCF"
    BY <1>3, LossHoused DEF LostAnswered
  <2>4. r \notin {"PowerOn", "EndScan", "StartConnectEx"} /\ ~link /\ requests = <<>>
    BY <1>3 DEF LostAnswered, Lossy, Frail
  <2>5. s = "SUCCESS" => /\ r # "Disconnect" /\ (r = "Reset" => wm = "idle")
                         /\ (r \in Frail => wm # "idle")
    BY <1>3 DEF LostAnswered, Frail
  <2>6. Answered(r, s)'
    BY <2>2, <2>3, <2>4, <2>5 DEF Answered
  <2>7. QED
    BY <2>3, <2>6 DEF Mid, Single, Situation
<1>4. ASSUME NEW s \in OutcomesOf(r), Answered(r, s) \/ AnsweredLost(r, s)
      PROVE  FALSE
  <2>1. Head(replies) = Reply(r, s)
    BY <1>4, OneItem, TwoItems DEF Answered, AnsweredLost
  <2>2. s \in Outcomes
    BY <1>4 DEF OutcomesOf, Outcomes, Plain, Bad, Refusals
  <2>3. QED
    BY <1>1, <2>1, <2>2, AnswerIsNoLoss
<1>5. QED
  BY <1>1, <1>2, <1>3, <1>4 DEF Mid, Waits

LEMMA LossQuiet ==
  ASSUME Losing, Calm
  PROVE  replies' = <<>> /\ requests = <<>> /\ After
<1>1. replies' = <<>> /\ requests = <<>>
  BY OneItem DEF Losing, Calm, CalmIs
<1>2. QED
  BY <1>1 DEF After, CalmIs

LEMMA LossHeard ==
  ASSUME Types, Situation, ~Broken, Losing
  PROVE  Situation'
<1>1. Head(replies) \in Losses /\ replies' = Tail(replies) /\ replies # <<>>
      /\ ready /\ scanEx = "none" /\ UNCHANGED <<ready, slip, scanEx>>
  BY DEF Losing
<1>2. phase # "FATAL_ERROR" /\ Up'
  BY <1>1 DEF Broken, Up
<1>3. CASE Off \/ Idle \/ Scans
  BY <1>1, <1>3 DEF Off, Idle, Scans, Quiet
<1>4. CASE Joined
  <2>1. replies' = <<>> /\ requests = <<>> /\ After
    BY <1>4, LossQuiet DEF Joined
  <2>2. CASE phase = "DCF" /\ notifyId = "COMMON"
    <3>1. PICK id \in {"COMMON", "DISCONNECT"} : WcmWmReset("DCF", id)
      BY <2>2 DEF Losing
    <3>2. NamedAs("DCF", id, due, FALSE)
      BY <1>4, <2>2 DEF Joined, Named, NamedAs, Transitional
    <3>3. Home("Reset", "DCF")
      BY DEF Home
    <3>4. ~resetting
      BY <1>4 DEF Joined
    <3>5. QED
      BY <1>1, <1>2, <2>1, <3>1, <3>2, <3>3, <3>4, Repairs
  <2>3. CASE phase = "DCF_TO_IDLE" /\ "uninitialized" \in slip
    <3>1. phase' = "IRREGULAR" /\ Silent /\ NoRequest /\ UNCHANGED resetting
      BY <2>3 DEF Losing
    <3>2. Named'
      BY <1>4, <2>3, <3>1 DEF Joined, Named, NamedAs, Silent, Own
    <3>3. Calm'
      BY <2>1, <3>1 DEF Calm, CalmIs, NoRequest
    <3>4. wm \in Near /\ wm' = wm
      BY <1>1, <1>4, <3>1 DEF Joined, Calm, CalmIs, NoRequest
    <3>5. Irregular'
      BY <1>1, <1>2, <1>4, <2>3, <3>1, <3>2, <3>3, <3>4 DEF Irregular, Joined
    <3>6. QED
      BY <3>5 DEF Situation
  <2>4. QED
    BY <1>4, <2>2, <2>3 DEF Joined
<1>5. CASE Irregular
  <2>1. replies' = <<>> /\ requests = <<>> /\ After
    BY <1>5, LossQuiet DEF Irregular
  <2>2. phase = "IRREGULAR" /\ ~resetting
    BY <1>5 DEF Irregular
  <2>3. NamedAs("IRREGULAR", notifyId, due, FALSE)
    BY <1>5, <2>2 DEF Irregular, Named, NamedAs
  <2>4. WcmWmReset("IRREGULAR", notifyId)
    BY <2>2 DEF Losing
  <2>5. Home("Reset", "IRREGULAR")
    BY DEF Home
  <2>6. QED
    BY <1>1, <1>2, <2>1, <2>2, <2>3, <2>4, <2>5, Repairs
<1>6. CASE Single
  BY <1>6, LossSingle DEF Single
<1>7. CASE Double
  <2>1. PICK r \in Requests, q \in Requests, w \in SUBSET States, a \in SUBSET Plain :
           Pair(r, q, w, a)
    <3>1. /\ Frail \subseteq Requests
          /\ "PowerOff" \in Requests /\ "Reset" \in Requests /\ "Disable" \in Requests
      BY RequestSet DEF Frail
    <3>2. {"idle"} \in SUBSET States /\ {"stop"} \in SUBSET States /\ States \in SUBSET States
      BY DEF States, Awake
    <3>3. Bad \in SUBSET Plain /\ Plain \in SUBSET Plain
      BY DEF Plain
    <3>4. QED
      BY <1>7, <3>1, <3>2, <3>3 DEF Double
  <2>2. \E s \in Plain : Head(replies) = Reply(r, s)
    BY <1>1, <2>1, OneItem, TwoItems DEF Pair
  <2>3. Plain \subseteq Outcomes
    BY DEF Plain, Bad, Outcomes, Refusals
  <2>4. QED
    BY <1>1, <2>1, <2>2, <2>3, AnswerIsNoLoss
<1>8. CASE Stuck
  <2>1. CASE Calm /\ phase \in {"DCF", "DCF_TO_IDLE", "IDLE_TO_DCF", "IRREGULAR", "TERMINATING"}
    <3>1. replies' = <<>> /\ requests = <<>>
      BY <2>1, LossQuiet
    <3>2. UNCHANGED <<requests, wm, link, resetting>> /\ phase' \in {phase, "IRREGULAR"}
      BY <1>2, <1>8, LosingKeeps DEF Stuck
    <3>3. Calm'
      BY <3>1, <3>2 DEF Calm, CalmIs
    <3>4. Stuck'
      BY <1>1, <1>2, <1>8, <2>1, <3>2, <3>3 DEF Stuck
    <3>5. QED
      BY <3>4 DEF Situation
  <2>2. CASE \E r \in Frail, s \in Plain : replies = <<Reply(r, s)>>
    <3>1. PICK r \in Frail, s \in Plain : replies = <<Reply(r, s)>>
      BY <2>2
    <3>2. r \in Requests /\ s \in Outcomes
      BY <3>1, RequestSet DEF Frail, Plain, Bad, Outcomes, Refusals
    <3>3. QED
      BY <1>1, <3>1, <3>2, OneItem, AnswerIsNoLoss
  <2>3. QED
    BY <1>1, <1>8, <2>1, <2>2 DEF Stuck, Plain
<1>9. QED
  BY <1>3, <1>4, <1>5, <1>6, <1>7, <1>8 DEF Situation

-----------------------------------------------------------------------------
(* The answer of the only request under way is delivered.                    *)

(* The handler of r finds the result s.                                      *)
Taken(r, s) ==
  /\ r \in Requests /\ Housed(r) /\ s \in OutcomesOf(r)
  /\ After /\ ready /\ UNCHANGED <<ready, slip>>
  /\ link => r \in Lossy \cup {"StartConnectEx"}
  /\ replies' # <<>> => r \in Lossy \cup {"StartConnectEx"} /\ (phase = "IRREGULAR" => r = "Reset")
  /\ s = "SUCCESS" =>
       /\ r \in {"PowerOn", "EndScan", "Disconnect", "Reset"} => wm = "idle" /\ replies' = <<>>
       /\ r = "StartDCF" /\ phase = "IDLE_TO_DCF" /\ replies' = <<>> => wm = "dcf" /\ link
       /\ r = "StartConnectEx" /\ replies' = <<>> => link
       /\ phase = "IRREGULAR" /\ r \in Frail => r # "Disconnect" /\ wm # "idle"

(* The answer of the first of two requests, q is left.                       *)
Left(q) ==
  /\ ~link
  /\ \/ requests = <<q>> /\ replies' = <<>>
     \/ requests = <<>> /\ \E t \in Plain :
           replies' = <<Reply(q, t)>> /\ (q = "Reset" /\ t = "SUCCESS" => wm = "idle")
TakenFirst(r, s) ==
  /\ Up /\ ready /\ UNCHANGED <<ready, slip>> /\ s \in Plain
  /\ "overtaken" \in slip /\ notifyId = "TERMINATE" /\ due = {"TERMINATE"}
  /\ \/ /\ phase = "TERMINATING" /\ ~resetting
        /\ r \in Frail /\ s \in Bad /\ Left("PowerOff")
     \/ /\ phase = "TERMINATING" /\ resetting
        /\ r \in Frail /\ (r = "Disconnect" => s \in Bad) /\ Left("Reset")
     \/ phase = "DCF_TO_IDLE" /\ resetting /\ r = "PowerOff" /\ Left("Reset")
     \/ phase = "DCF_TO_IDLE" /\ resetting /\ r = "Reset" /\ s \in Bad /\ Left("Disable")

TakenStuck(r, s) ==
  /\ Stuck /\ requests = <<>> /\ replies' = <<>> /\ ~link /\ UNCHANGED <<ready, slip>>
  /\ phase = "IRREGULAR" \/ (phase = "TERMINATING" /\ "overtaken" \in slip)
  /\ r \in Frail /\ s \in Plain /\ (r = "Disconnect" => s \in Bad)

LEMMA SingleTakes ==
  ASSUME Types, Linked, NEW r0 \in Requests, Housed(r0), Mid(r0),
         NEW r, NEW s, s \notin {"DISCONNECTED", "AUTO_DISCONNECT"},
         replies # <<>>, Head(replies).request = r, Head(replies).result = s,
         replies' = Tail(replies), ready, UNCHANGED <<ready, slip>>
  PROVE  Taken(r, s)
<1>1. Head(replies) \notin Losses
  BY LossParts
<1>2. CASE Waits(r0) \/ WaitsLost(r0) \/ \E t \in OutcomesOf(r0) : LostAnswered(r0, t)
  BY <1>1, <1>2, OneItem, TwoItems DEF Waits, WaitsLost, LostAnswered
<1>3. ASSUME NEW t \in OutcomesOf(r0), Answered(r0, t)
      PROVE  Taken(r, s)
  <2>1. Head(replies) = Reply(r0, t) /\ replies' = <<>> /\ requests = <<>>
    BY <1>3, OneItem DEF Answered
  <2>2. r = r0 /\ s = t
    BY <2>1, ReplyParts
  <2>3. After
    BY <2>1 DEF After, CalmIs
  <2>4. QED
    BY <1>3, <2>1, <2>2, <2>3 DEF Answered, Taken
<1>4. ASSUME NEW t \in OutcomesOf(r0), AnsweredLost(r0, t)
      PROVE  Taken(r, s)
  <2>1. PICK l \in Losses : replies = <<Reply(r0, t), l>>
    BY <1>4 DEF AnsweredLost
  <2>2. Head(replies) = Reply(r0, t) /\ replies' = <<l>> /\ requests = <<>>
    BY <1>4, <2>1, TwoItems DEF AnsweredLost
  <2>3. r = r0 /\ s = t
    BY <2>2, ReplyParts
  <2>4. ~link /\ wm \in Near /\ r \in Lossy \cup {"StartConnectEx"}
        /\ (s = "SUCCESS" => r \notin {"Reset", "Disconnect"})
        /\ (phase = "IRREGULAR" => r = "Reset")
    BY <1>4, <2>3 DEF AnsweredLost
  <2>5. After
    BY <2>2, <2>4 DEF After, CalmIs
  <2>6. replies' # <<>>
    BY <2>2, OneItem
  <2>7. s = "SUCCESS" => r \notin {"PowerOn", "EndScan", "Disconnect", "Reset"}
    BY <2>4 DEF Lossy, Frail
  <2>8. phase = "IRREGULAR" => r \notin Frail
    BY <2>4 DEF Frail
  <2>9. QED
    BY <1>4, <2>2, <2>3, <2>4, <2>5, <2>6, <2>7, <2>8 DEF Taken
<1>5. QED
  BY <1>2, <1>3, <1>4 DEF Mid

LEMMA PairTakes ==
  ASSUME NEW r0, NEW q, NEW w, NEW a, Pair(r0, q, w, a), ~link,
         NEW r, NEW s, replies # <<>>, Head(replies).request = r, Head(replies).result = s,
         replies' = Tail(replies)
  PROVE  r = r0 /\ s \in a /\ Left(q)
<1>1. CASE requests = <<r0, q>> /\ replies = <<>> /\ wm \in w
  BY <1>1
<1>2. ASSUME requests = <<q>>, NEW t \in a, replies = <<Reply(r0, t)>>
      PROVE  r = r0 /\ s \in a /\ Left(q)
  <2>1. Head(replies) = Reply(r0, t) /\ replies' = <<>>
    BY <1>2, OneItem
  <2>2. QED
    BY <1>2, <2>1, ReplyParts DEF Left
<1>3. ASSUME requests = <<>>, NEW t \in a, NEW u \in Plain,
             replies = <<Reply(r0, t), Reply(q, u)>>, q = "Reset" /\ u = "SUCCESS" => wm = "idle"
      PROVE  r = r0 /\ s \in a /\ Left(q)
  <2>1. Head(replies) = Reply(r0, t) /\ replies' = <<Reply(q, u)>>
    BY <1>3, TwoItems
  <2>2. r = r0 /\ s = t
    BY <2>1, ReplyParts
  <2>3. Left(q)
    BY <1>3, <2>1 DEF Left
  <2>4. QED
    BY <1>3, <2>2, <2>3
<1>4. QED
  BY <1>1, <1>2, <1>3 DEF Pair

LEMMA DoubleTakes ==
  ASSUME Double, NEW r, NEW s,
         replies # <<>>, Head(replies).request = r, Head(replies).result = s,
         replies' = Tail(replies), ready, UNCHANGED <<ready, slip>>
  PROVE  TakenFirst(r, s)
<1>1. ~link /\ Up /\ "overtaken" \in slip /\ notifyId = "TERMINATE" /\ due = {"TERMINATE"}
  BY DEF Double
<1>2. Bad \subseteq Plain
  BY DEF Plain
<1>3. ASSUME phase = "TERMINATING", ~resetting, NEW x \in Frail, Pair(x, "PowerOff", {"idle"}, Bad)
      PROVE  TakenFirst(r, s)
  <2>1. r = x /\ s \in Bad /\ Left("PowerOff")
    BY <1>1, <1>3, PairTakes
  <2>2. QED
    BY <1>1, <1>2, <1>3, <2>1 DEF TakenFirst
<1>4. ASSUME phase = "TERMINATING", resetting, NEW x \in Frail,
             Pair(x, "Reset", States, IF x = "Disconnect" THEN Bad ELSE Plain)
      PROVE  TakenFirst(r, s)
  <2>1. r = x /\ s \in (IF x = "Disconnect" THEN Bad ELSE Plain) /\ Left("Reset")
    BY <1>1, <1>4, PairTakes
  <2>2. QED
    BY <1>1, <1>2, <1>4, <2>1 DEF TakenFirst
<1>5. CASE phase = "DCF_TO_IDLE" /\ resetting /\ Pair("PowerOff", "Reset", States, Plain)
  <2>1. r = "PowerOff" /\ s \in Plain /\ Left("Reset")
    BY <1>1, <1>5, PairTakes
  <2>2. QED
    BY <1>1, <1>5, <2>1 DEF TakenFirst
<1>6. CASE phase = "DCF_TO_IDLE" /\ resetting /\ Pair("Reset", "Disable", {"stop"}, Bad)
  <2>1. r = "Reset" /\ s \in Bad /\ Left("Disable")
    BY <1>1, <1>6, PairTakes
  <2>2. QED
    BY <1>1, <1>2, <1>6, <2>1 DEF TakenFirst
<1>7. QED
  BY <1>3, <1>4, <1>5, <1>6 DEF Double

LEMMA StuckTakes ==
  ASSUME Stuck, NEW r, NEW s, s \notin {"DISCONNECTED", "AUTO_DISCONNECT"},
         replies # <<>>, Head(replies).request = r, Head(replies).result = s,
         replies' = Tail(replies), UNCHANGED <<ready, slip>>
  PROVE  TakenStuck(r, s)
<1>1. Head(replies) \notin Losses
  BY LossParts
<1>2. ~Calm
  BY <1>1, OneItem DEF Calm, CalmIs
<1>3. PICK x \in Frail, t \in Plain :
         requests = <<>> /\ replies = <<Reply(x, t)>> /\ (x = "Disconnect" => t \in Bad)
  <2>1. Bad \subseteq Plain
    BY DEF Plain
  <2>2. QED
    BY <1>1, <1>2, <2>1 DEF Stuck
<1>4. Head(replies) = Reply(x, t) /\ replies' = <<>>
  BY <1>3, OneItem
<1>5. r = x /\ s = t
  BY <1>4, ReplyParts
<1>6. s \in Plain /\ (r = "Disconnect" => s \in Bad)
  BY <1>3, <1>5 DEF Plain
<1>7. ~link /\ (phase = "IRREGULAR" \/ (phase = "TERMINATING" /\ "overtaken" \in slip))
  BY <1>2 DEF Stuck
<1>8. QED
  BY <1>3, <1>4, <1>5, <1>6, <1>7 DEF TakenStuck

(* What a callback may be about.                                             *)
LEMMA Takes ==
  ASSUME Types, Linked, Situation, ~Broken, NEW r, NEW results, Deliver(r, results),
         results \cap {"DISCONNECTED", "AUTO_DISCONNECT"} = {}
  PROVE  \E s \in results : Taken(r, s) \/ TakenFirst(r, s) \/ TakenStuck(r, s)
<1> DEFINE s == Head(replies).result
<1>1. /\ s \in results /\ replies # <<>> /\ Head(replies).request = r
      /\ replies' = Tail(replies) /\ ready /\ scanEx = "none" /\ UNCHANGED <<ready, slip>>
  BY DEF Deliver
<1>2. s \notin {"DISCONNECTED", "AUTO_DISCONNECT"}
  BY <1>1
<1> HIDE DEF s
<1>3. Head(replies).result = s
  BY DEF s
<1>4. CASE Off \/ Idle \/ Scans
  BY <1>1, <1>4 DEF Off, Idle, Scans, Quiet
<1>5. CASE Joined \/ Irregular
  <2>1. Head(replies) \in Losses
    BY <1>1, <1>5, OneItem DEF Joined, Irregular, Calm, CalmIs
  <2>2. QED
    BY <1>2, <1>3, <2>1, LossParts
<1>6. CASE Single
  <2>1. Taken(r, s)
    BY <1>1, <1>2, <1>3, <1>6, SingleTakes DEF Single
  <2>2. QED
    BY <1>1, <2>1
<1>7. CASE Double
  BY <1>1, <1>3, <1>7, DoubleTakes
<1>8. CASE Stuck
  BY <1>1, <1>2, <1>3, <1>8, StuckTakes
<1>9. QED
  BY <1>4, <1>5, <1>6, <1>7, <1>8 DEF Situation

(* What the handlers know of the only request.                               *)
LEMMA TakenFacts ==
  ASSUME NEW r, NEW s, Taken(r, s)
  PROVE  /\ phase # "FATAL_ERROR" /\ ready /\ ready' /\ slip' = slip /\ scanEx = "none"
         /\ r \in Requests /\ Home(r, phase) /\ Named /\ requests = <<>> /\ After
         /\ resetting <=> (r = "Reset")
         /\ r # "Reset" => NamedAs(phase, notifyId, due, FALSE)
         /\ phase \in {"IDLE_TO_DCF", "TERMINATING"} => NamedAs(phase, notifyId, due, FALSE)
         /\ r \notin Lossy \cup {"StartConnectEx"} => ~link /\ replies' = <<>>
<1>1. Housed(r) /\ After /\ r \in Requests /\ ready /\ ready' /\ slip' = slip
  BY DEF Taken
<1>2. phase # "FATAL_ERROR" /\ Named /\ (resetting <=> (r = "Reset")) /\ Home(r, phase)
      /\ scanEx = "none"
  BY <1>1 DEF Housed, Home, Scanning, Up
<1>3. requests = <<>>
  BY <1>1 DEF After, CalmIs
<1>4. r # "Reset" => NamedAs(phase, notifyId, due, FALSE)
  BY <1>2 DEF Named, NamedAs
<1>5. phase \in {"IDLE_TO_DCF", "TERMINATING"} => NamedAs(phase, notifyId, due, FALSE)
  BY <1>2 DEF Named, NamedAs
<1>6. r \notin Lossy \cup {"StartConnectEx"} => ~link /\ replies' = <<>>
  BY DEF Taken
<1>7. QED
  BY <1>1, <1>2, <1>3, <1>4, <1>5, <1>6

LEMMA Rests ==
  ASSUME phase # "FATAL_ERROR", Up', ~resetting', Named, NEW result, Settle("IDLE", result),
         NoRequest, requests = <<>>, replies' = <<>>, wm = "idle", ~link
  PROVE  Situation'
<1>1. phase' = "IDLE" /\ notifyId' = "COMMON" /\ due' = {}
  BY NamedOwes DEF Settle, SetPhase, WcmNotify, WcmNotifyAs
<1>2. requests' = <<>> /\ wm' = "idle" /\ ~link'
  BY DEF NoRequest
<1>3. Idle'
  BY <1>1, <1>2 DEF Idle, Quiet
<1>4. QED
  BY <1>3 DEF Situation

LEMMA Fails ==
  ASSUME Fatal, ready'
  PROVE  Situation'
BY Breaks DEF Situation

(* Undone by a reset from the phase p.                                       *)
LEMMA Undoes ==
  ASSUME NEW r, NEW s, Taken(r, s), ~resetting, scanEx' = "none", NEW p,
         WcmWmReset(p, notifyId), Home("Reset", p),
         p = phase \/ (phase = "IRREGULAR" /\ p = "IDLE_TO_DCF" /\ notifyId = "CONNECT")
                   \/ (phase = "IRREGULAR" /\ p = "DCF_TO_IDLE" /\ notifyId = "DISCONNECT")
  PROVE  Situation'
<1>1. /\ phase # "FATAL_ERROR" /\ Up' /\ slip' = slip /\ After
      /\ NamedAs(phase, notifyId, due, FALSE)
  BY TakenFacts DEF Up
<1>2. NamedAs(p, notifyId, due, FALSE)
  <2>1. CASE p = phase
    BY <1>1, <2>1
  <2>2. CASE phase = "IRREGULAR" /\ notifyId \in {"CONNECT", "DISCONNECT"}
             /\ p \in Transitional /\ notifyId = Own[p]
    <3>1. due = {notifyId}
      BY <1>1, <2>2 DEF NamedAs, Transitional
    <3>2. QED
      BY <2>2, <3>1 DEF NamedAs
  <2>3. /\ "IDLE_TO_DCF" \in Transitional /\ Own["IDLE_TO_DCF"] = "CONNECT"
        /\ "DCF_TO_IDLE" \in Transitional /\ Own["DCF_TO_IDLE"] = "DISCONNECT"
    BY OwnIs
  <2>4. CASE phase = "IRREGULAR" /\ p = "IDLE_TO_DCF" /\ notifyId = "CONNECT"
    BY <2>2, <2>3, <2>4
  <2>5. CASE phase = "IRREGULAR" /\ p = "DCF_TO_IDLE" /\ notifyId = "DISCONNECT"
    BY <2>2, <2>3, <2>5
  <2>6. QED
    BY <2>1, <2>4, <2>5
<1>3. QED
  BY <1>1, <1>2, Repairs

LEMMA CommonTaken ==
  ASSUME Types, NEW r \in DOMAIN NextOf \cup {"PowerOn", "Disable"}, NEW s, Taken(r, s),
         scanEx' = "none", resetting' = resetting,
         \/ /\ s = "SUCCESS"
            /\ \/ r \in DOMAIN NextOf /\ Follow(NextOf[r])
               \/ r = "PowerOn" /\ Settle("IDLE", "SUCCESS") /\ NoRequest
               \/ /\ r = "Disable"
                  /\ IF wm = "ready"
                       THEN wm' = "off" /\ Settle("WAIT", "SUCCESS")
                       ELSE UNCHANGED wm /\ Fatal
                  /\ UNCHANGED <<link, requests, faults>>
         \/ Settle("IRREGULAR", "FAILURE") /\ NoRequest
         \/ Fatal
  PROVE  Situation'
<1>1. r \in {"Enable", "PowerOff", "SetLifeTime", "SetBeaconInd", "SetWEPKeyEx", "PowerOn", "Disable"}
  BY DEF NextOf
<1>2. ~link /\ replies' = <<>> /\ ~resetting /\ ~resetting' /\ Up'
      /\ NamedAs(phase, notifyId, due, FALSE)
  BY <1>1, TakenFacts DEF Lossy, Frail, Up
<1>3. phase # "FATAL_ERROR" /\ ready' /\ slip' = slip /\ Home(r, phase) /\ Named
      /\ requests = <<>> /\ After
  BY TakenFacts
<1>4. phase \notin {"FATAL_ERROR", "IRREGULAR"}
  BY <1>1, <1>3 DEF Home
<1>5. CASE Fatal
  BY <1>3, <1>5, Fails
<1>6. CASE Settle("IRREGULAR", "FAILURE") /\ NoRequest
  BY <1>2, <1>3, <1>6, Quits DEF NoRequest, Situation
<1>7. CASE r = "PowerOn" /\ Settle("IDLE", "SUCCESS") /\ NoRequest /\ s = "SUCCESS"
  <2>1. wm = "idle"
    BY <1>7 DEF Taken
  <2>2. QED
    BY <1>2, <1>3, <1>7, <2>1, Rests
<1>8. CASE r = "Disable" /\ wm' = "off" /\ Settle("WAIT", "SUCCESS")
           /\ UNCHANGED <<link, requests, faults>>
  <2>1. phase' = "WAIT" /\ notifyId' = "COMMON" /\ due' = {}
    BY <1>3, <1>8, NamedOwes DEF Settle, SetPhase, WcmNotify, WcmNotifyAs
  <2>2. Off'
    BY <1>2, <1>3, <1>8, <2>1 DEF Off, Quiet, Up
  <2>3. QED
    BY <2>2 DEF Situation
<1>9. CASE r \in DOMAIN NextOf /\ Follow(NextOf[r])
  <2>1. /\ NextOf[r] \in Requests \ {"Reset", "StartDCF"}
        /\ Home(NextOf[r], phase)
    <3>1. CASE r = "Enable" /\ NextOf[r] = "PowerOn"
      BY <1>3, <3>1, RequestSet DEF Home
    <3>2. CASE r = "PowerOff" /\ NextOf[r] = "Disable"
      BY <1>3, <3>2, RequestSet DEF Home
    <3>3. CASE /\ r \in {"SetLifeTime", "SetBeaconInd", "SetWEPKeyEx"}
               /\ NextOf[r] \in {"SetBeaconInd", "SetWEPKeyEx", "StartConnectEx"}
      BY <1>3, <3>3, RequestSet DEF Home
    <3>4. QED
      BY <1>9, <3>1, <3>2, <3>3 DEF NextOf
  <2>2. QED
    BY <1>2, <1>3, <1>4, <1>9, <2>1, Goes
<1>10. QED
  BY <1>5, <1>6, <1>7, <1>8, <1>9

LEMMA ScanTaken ==
  ASSUME Types, NEW r \in {"StartScanEx"}, NEW s, Taken(r, s),
         \/ /\ scanEx' = "switch"
            /\ \/ phase = "IDLE_TO_SEARCH" /\ Settle("SEARCH", "SUCCESS")
               \/ phase # "IDLE_TO_SEARCH" /\ UNCHANGED phase /\ Silent
            /\ NoRequest /\ UNCHANGED resetting
         \/ WcmWmReset(phase, notifyId) /\ UNCHANGED scanEx
         \/ Fatal
  PROVE  Situation'
<1>1. ~link /\ replies' = <<>> /\ ~resetting /\ ready'
  BY TakenFacts DEF Lossy, Frail
<1>2. /\ scanEx = "none" /\ phase \in Scanning /\ Named /\ slip' = slip /\ requests = <<>>
  BY TakenFacts DEF Home
<1>3. CASE Fatal
  BY <1>1, <1>3, Fails
<1>4. CASE WcmWmReset(phase, notifyId) /\ UNCHANGED scanEx
  <2>1. Home("Reset", phase)
    BY <1>2 DEF Home
  <2>2. QED
    BY <1>1, <1>2, <1>4, <2>1, Undoes
<1>5. CASE scanEx' = "switch" /\ phase = "IDLE_TO_SEARCH" /\ Settle("SEARCH", "SUCCESS")
           /\ NoRequest /\ UNCHANGED resetting
  <2>1. phase' = "SEARCH" /\ notifyId' = "COMMON" /\ due' = {}
    BY <1>2, <1>5, NamedOwes DEF Settle, SetPhase, WcmNotify, WcmNotifyAs
  <2>2. Named'
    BY <2>1 DEF Named, NamedAs
  <2>3. Scans'
    BY <1>1, <1>2, <1>5, <2>1, <2>2 DEF Scans, Quiet, NoRequest
  <2>4. QED
    BY <2>3 DEF Situation
<1>6. CASE scanEx' = "switch" /\ phase # "IDLE_TO_SEARCH" /\ UNCHANGED phase /\ Silent
           /\ NoRequest /\ UNCHANGED resetting
  <2>1. Named'
    BY <1>2, <1>6, NamedSame DEF Silent
  <2>2. Scans'
    BY <1>1, <1>2, <1>6, <2>1 DEF Scans, Quiet, NoRequest, Scanning
  <2>3. QED
    BY <2>2 DEF Situation
<1>7. QED
  BY <1>3, <1>4, <1>5, <1>6

LEMMA EndScanTaken ==
  ASSUME Types, NEW r \in {"EndScan"}, NEW s, Taken(r, s), UNCHANGED scanEx,
         \/ s = "SUCCESS" /\ Settle("IDLE", "SUCCESS") /\ NoRequest /\ UNCHANGED resetting
         \/ WcmWmReset(phase, notifyId)
         \/ Fatal
  PROVE  Situation'
<1>1. ~link /\ replies' = <<>> /\ ~resetting /\ ready' /\ requests = <<>>
  BY TakenFacts DEF Lossy, Frail
<1>2. /\ scanEx = "none" /\ phase = "SEARCH_TO_IDLE" /\ Named /\ slip' = slip /\ Up'
  BY TakenFacts DEF Home, Up
<1>3. CASE Fatal
  BY <1>1, <1>3, Fails
<1>4. CASE WcmWmReset(phase, notifyId)
  <2>1. Home("Reset", phase)
    BY <1>2 DEF Home, Scanning
  <2>2. QED
    BY <1>1, <1>2, <1>4, <2>1, Undoes
<1>5. CASE s = "SUCCESS" /\ Settle("IDLE", "SUCCESS") /\ NoRequest /\ UNCHANGED resetting
  <2>1. wm = "idle"
    BY <1>5 DEF Taken
  <2>2. QED
    BY <1>1, <1>2, <1>5, <2>1, Rests
<1>6. QED
  BY <1>3, <1>4, <1>5

LEMMA ConnectTaken ==
  ASSUME Types, NEW r \in {"StartConnectEx"}, NEW s, Taken(r, s), UNCHANGED scanEx,
         \/ /\ s = "SUCCESS" /\ phase = "IRREGULAR" /\ WcmWmReset("IDLE_TO_DCF", notifyId)
         \/ /\ s = "SUCCESS" /\ authId' = TRUE /\ Follow("StartDCF") /\ UNCHANGED resetting
         \/ WcmWmReset(IF phase = "IRREGULAR" THEN "IDLE_TO_DCF" ELSE phase, notifyId)
         \/ WcmWmReset("IDLE_TO_DCF", notifyId)
         \/ Fatal
  PROVE  Situation'
<1>1. ~resetting /\ ready' /\ requests = <<>> /\ After /\ NamedAs(phase, notifyId, due, FALSE)
  BY TakenFacts
<1>2. /\ scanEx = "none" /\ phase = "IDLE_TO_DCF" /\ Named /\ slip' = slip /\ Up'
  BY TakenFacts DEF Home, Up
<1>3. CASE Fatal
  BY <1>1, <1>3, Fails
<1>4. CASE WcmWmReset("IDLE_TO_DCF", notifyId)
  <2>1. Home("Reset", phase)
    BY <1>2 DEF Home
  <2>2. QED
    BY <1>1, <1>2, <1>4, <2>1, Undoes
<1>5. CASE s = "SUCCESS" /\ authId' = TRUE /\ Follow("StartDCF") /\ UNCHANGED resetting
  <2>1. "StartDCF" \in Requests /\ "StartDCF" \in Lossy /\ Home("StartDCF", phase)
    BY <1>2, RequestSet DEF Lossy, Frail, Home
  <2>2. replies' = <<>> => link
    BY <1>5 DEF Taken
  <2>3. QED
    BY <1>1, <1>2, <1>5, <2>1, <2>2, Goes
<1>6. QED
  BY <1>2, <1>3, <1>4, <1>5

LEMMA StartDCFTaken ==
  ASSUME Types, NEW r \in {"StartDCF"}, NEW s, Taken(r, s), UNCHANGED scanEx, authId' = authId,
         \/ s = "SUCCESS" /\ phase = "IRREGULAR" /\ WcmWmReset("IDLE_TO_DCF", notifyId)
         \/ /\ s = "SUCCESS" /\ phase # "IRREGULAR" /\ Settle("DCF", "SUCCESS")
            /\ NoRequest /\ UNCHANGED resetting
         \/ Fatal
  PROVE  Situation'
<1>1. ~resetting /\ ready' /\ requests = <<>> /\ After /\ NamedAs(phase, notifyId, due, FALSE)
  BY TakenFacts
<1>2. /\ scanEx = "none" /\ phase \in {"IDLE_TO_DCF", "IRREGULAR"} /\ Named /\ slip' = slip
      /\ Up'
  BY TakenFacts DEF Home, Up
<1>3. CASE Fatal
  BY <1>1, <1>3, Fails
<1>4. CASE phase = "IRREGULAR" /\ WcmWmReset("IDLE_TO_DCF", notifyId)
  <2>1. Home("Reset", "IDLE_TO_DCF")
    BY DEF Home
  <2>2. notifyId = "CONNECT"
    BY <1>4 DEF Taken, Housed
  <2>3. QED
    BY <1>1, <1>2, <1>4, <2>1, <2>2, Undoes
<1>5. CASE s = "SUCCESS" /\ phase # "IRREGULAR" /\ Settle("DCF", "SUCCESS")
           /\ NoRequest /\ UNCHANGED resetting
  <2>1. phase' = "DCF" /\ notifyId' = "COMMON" /\ due' = {}
    BY <1>2, <1>5, NamedOwes DEF Settle, SetPhase, WcmNotify, WcmNotifyAs
  <2>2. Named'
    BY <2>1 DEF Named, NamedAs
  <2>3. authId'
    BY DEF Taken, Housed
  <2>4. Calm'
    BY <1>1, <1>5, AfterCalm DEF NoRequest
  <2>5. Quiet' => wm' = "dcf" /\ link'
    BY <1>2, <1>5 DEF Taken, Quiet, NoRequest
  <2>6. Joined'
    BY <1>1, <1>2, <1>5, <2>1, <2>2, <2>3, <2>4, <2>5 DEF Joined
  <2>7. QED
    BY <2>6 DEF Situation
<1>6. QED
  BY <1>3, <1>4, <1>5

(* A failed disconnection is undone from the phase it is in.                 *)
LEMMA BackTaken ==
  ASSUME Types, NEW r \in {"EndDCF", "Disconnect"}, NEW s, Taken(r, s), UNCHANGED scanEx,
         WcmWmReset("DCF_TO_IDLE", notifyId)
  PROVE  Situation'
<1>1. ~resetting /\ phase \in {"DCF_TO_IDLE", "IRREGULAR"} /\ scanEx = "none"
  BY TakenFacts DEF Home
<1>2. Home("Reset", "DCF_TO_IDLE")
  BY DEF Home
<1>3. phase = "IRREGULAR" => notifyId = "DISCONNECT"
  BY DEF Taken, Housed
<1>4. QED
  BY <1>1, <1>2, <1>3, Undoes

LEMMA EndDCFTaken ==
  ASSUME Types, NEW r \in {"EndDCF"}, NEW s, Taken(r, s), UNCHANGED scanEx,
         \/ WcmWmReset("DCF_TO_IDLE", notifyId)
         \/ phase # "IRREGULAR" /\ Follow("Disconnect") /\ UNCHANGED resetting
  PROVE  Situation'
<1>1. ~resetting /\ phase \in {"DCF_TO_IDLE", "IRREGULAR"} /\ ready' /\ Up'
      /\ NamedAs(phase, notifyId, due, FALSE) /\ After
  BY TakenFacts DEF Home, Up
<1>2. CASE WcmWmReset("DCF_TO_IDLE", notifyId)
  BY <1>2, BackTaken
<1>3. CASE phase # "IRREGULAR" /\ Follow("Disconnect") /\ UNCHANGED resetting
  <2>1. "Disconnect" \in Requests /\ "Disconnect" \in Lossy /\ Home("Disconnect", phase)
    BY <1>1, <1>3, RequestSet DEF Lossy, Frail, Home
  <2>2. QED
    BY <1>1, <1>3, <2>1, Goes
<1>4. QED
  BY <1>2, <1>3

LEMMA DisconnectTaken ==
  ASSUME Types, Linked, NEW r \in {"Disconnect"}, NEW s, Taken(r, s), UNCHANGED scanEx,
         \/ WcmWmReset("DCF_TO_IDLE", notifyId)
         \/ /\ s = "SUCCESS" /\ Settle("IDLE", "SUCCESS")
            /\ NoRequest /\ UNCHANGED resetting
  PROVE  Situation'
<1>1. ~resetting /\ phase # "FATAL_ERROR" /\ ready' /\ Up' /\ Named /\ requests = <<>>
  BY TakenFacts DEF Up
<1>2. CASE WcmWmReset("DCF_TO_IDLE", notifyId)
  BY <1>2, BackTaken
<1>3. CASE s = "SUCCESS" /\ Settle("IDLE", "SUCCESS") /\ NoRequest /\ UNCHANGED resetting
  <2>1. wm = "idle" /\ replies' = <<>>
    BY <1>3 DEF Taken
  <2>2. ~link
    BY <2>1 DEF Linked
  <2>3. QED
    BY <1>1, <1>3, <2>1, <2>2, Rests
<1>4. QED
  BY <1>2, <1>3

LEMMA ResetTaken ==
  ASSUME Types, Linked, NEW r \in {"Reset"}, NEW s, Taken(r, s), UNCHANGED scanEx,
         \/ Fatal
         \/ /\ s = "SUCCESS" /\ resetting' = FALSE
            /\ \/ \E result : Settle("IDLE", result) /\ NoRequest
               \/ phase = "IDLE_TO_DCF" /\ Follow("StartConnectEx")
               \/ phase = "TERMINATING" /\ Follow("PowerOff")
  PROVE  Situation'
<1>1. phase # "FATAL_ERROR" /\ ready' /\ Up' /\ Named /\ requests = <<>> /\ After
      /\ (phase \in {"IDLE_TO_DCF", "TERMINATING"} => NamedAs(phase, notifyId, due, FALSE))
  BY TakenFacts DEF Up
<1>2. CASE Fatal
  BY <1>1, <1>2, Fails
<1>3. CASE s = "SUCCESS" /\ resetting' = FALSE
  <2>1. wm = "idle" /\ replies' = <<>>
    BY <1>3 DEF Taken
  <2>2. ~link
    BY <2>1 DEF Linked
  <2>3. CASE \E result : Settle("IDLE", result) /\ NoRequest
    BY <1>1, <1>3, <2>1, <2>2, <2>3, Rests
  <2>4. CASE phase = "IDLE_TO_DCF" /\ Follow("StartConnectEx")
    <3>1. "StartConnectEx" \in Requests /\ Home("StartConnectEx", phase)
      BY <2>4, RequestSet DEF Home
    <3>2. QED
      BY <1>1, <1>3, <2>1, <2>2, <2>4, <3>1, Goes
  <2>5. CASE phase = "TERMINATING" /\ Follow("PowerOff")
    <3>1. "PowerOff" \in Requests /\ Home("PowerOff", phase)
      BY <2>5, RequestSet DEF Home
    <3>2. QED
      BY <1>1, <1>3, <2>1, <2>2, <2>5, <3>1, Goes
  <2>6. QED
    BY <1>2, <1>3, <2>3, <2>4, <2>5
<1>4. QED
  BY <1>2, <1>3

-----------------------------------------------------------------------------
(* The answer of the first of two requests, or of a stuck one, is delivered. *)

LEMMA FirstFacts ==
  ASSUME NEW r, NEW s, TakenFirst(r, s)
  PROVE  /\ phase # "FATAL_ERROR" /\ ready' /\ slip' = slip /\ scanEx = "none" /\ ~link
         /\ notifyId = "TERMINATE" /\ due = {"TERMINATE"} /\ "overtaken" \in slip
         /\ Named
<1>1. phase \in {"TERMINATING", "DCF_TO_IDLE"} /\ (phase = "DCF_TO_IDLE" => resetting) /\ ~link
      /\ ready' /\ slip' = slip /\ scanEx = "none"
      /\ notifyId = "TERMINATE" /\ due = {"TERMINATE"} /\ "overtaken" \in slip
  BY DEF TakenFirst, Left, Up
<1>2. Named
  BY <1>1, OwnIs DEF Named, NamedAs
<1>3. QED
  BY <1>1, <1>2

(* The reset is left as the only request.                                    *)
LEMMA LeavesReset ==
  ASSUME Left("Reset"), ready', slip' = slip, UNCHANGED scanEx, scanEx = "none",
         Home("Reset", phase'), Named', resetting', UNCHANGED <<requests, wm, link>>
  PROVE  Situation'
<1> DEFINE q == "Reset"
<1>1. Left(q) /\ q = "Reset" /\ q \in Requests /\ q \in Lossy /\ q \notin Frail
      /\ OutcomesOf(q) = Plain
  BY RequestSet DEF Lossy, Frail, OutcomesOf
<1>2. Housed(q)'
  BY DEF Housed, Up
<1> HIDE DEF q
<1>3. CASE requests = <<q>> /\ replies' = <<>>
  <2>1. Waits(q)'
    BY <1>1, <1>3 DEF Waits, Left
  <2>2. QED
    BY <1>1, <1>2, <2>1 DEF Mid, Single, Situation
<1>4. ASSUME requests = <<>>, NEW t \in Plain, replies' = <<Reply(q, t)>>,
             t = "SUCCESS" => wm = "idle"
      PROVE  Situation'
  <2>1. Answered(q, t)'
    BY <1>1, <1>4 DEF Answered, Left
  <2>2. QED
    BY <1>1, <1>2, <1>4, <2>1 DEF Mid, Single, Situation
<1>5. QED
  BY <1>1, <1>3, <1>4 DEF Left

LEMMA FirstSettles ==
  ASSUME NEW r, NEW s, TakenFirst(r, s), UNCHANGED <<scanEx, requests, wm, link, resetting>>,
         resetting, Left("Reset"), NEW p \in {"DCF", "IRREGULAR"}, NEW result, Settle(p, result)
  PROVE  Situation'
<1>1. /\ phase # "FATAL_ERROR" /\ ready' /\ slip' = slip /\ scanEx = "none"
      /\ notifyId = "TERMINATE" /\ due = {"TERMINATE"}
  BY FirstFacts
<1>2. phase' = p /\ notifyId' = "COMMON" /\ due' = {}
  BY <1>1 DEF Settle, SetPhase, WcmNotify, WcmNotifyAs
<1>3. Named' /\ Home("Reset", phase')
  BY <1>2 DEF Named, NamedAs, Home
<1>4. QED
  BY <1>1, <1>3, LeavesReset

LEMMA FirstBacks ==
  ASSUME Types, NEW r \in Frail, NEW s, TakenFirst(r, s), UNCHANGED scanEx,
         WcmWmReset("DCF_TO_IDLE", notifyId)
  PROVE  Situation'
<1>1. /\ phase # "FATAL_ERROR" /\ ready' /\ slip' = slip /\ scanEx = "none" /\ ~link /\ Up'
      /\ notifyId = "TERMINATE" /\ due = {"TERMINATE"} /\ "overtaken" \in slip
  BY FirstFacts DEF Up
<1>2. r # "PowerOff" /\ r # "Reset"
  BY DEF Frail
<1>3. CASE resetting
  <2>1. phase' = "DCF_TO_IDLE" /\ notifyId' = notifyId /\ due' = due /\ resetting'
        /\ UNCHANGED <<requests, wm, link>>
    BY <1>1, <1>3, Leans
  <2>2. Left("Reset")
    BY <1>2, <1>3 DEF TakenFirst
  <2>3. Named' /\ Home("Reset", phase')
    BY <1>1, <2>1 DEF Named, NamedAs, Home
  <2>4. QED
    BY <1>1, <2>1, <2>2, <2>3, LeavesReset
<1>4. CASE ~resetting
  <2>1. Left("PowerOff")
    BY <1>2, <1>4 DEF TakenFirst
  <2>2. CASE SetPhase("FATAL_ERROR")
    BY <1>1, <2>2, Breaks DEF Situation
  <2>3. CASE Ask("Reset", "OPERATING") /\ SetPhase("DCF_TO_IDLE") /\ notifyId' = notifyId
             /\ UNCHANGED told /\ resetting' = TRUE
    <3>1. phase' = "DCF_TO_IDLE" /\ due' = due /\ requests' = Append(requests, "Reset")
          /\ UNCHANGED <<wm, link>>
      BY <1>1, <2>3 DEF SetPhase, told, Ask
    <3>2. wm \in States
      BY DEF Types, DriverTypes
    <3>3. CASE requests = <<"PowerOff">> /\ replies' = <<>>
      <4>1. requests' = <<"PowerOff", "Reset">>
        BY <3>1, <3>3, TwoItems
      <4>2. Pair("PowerOff", "Reset", States, Plain)'
        BY <3>1, <3>2, <3>3, <4>1 DEF Pair
      <4>3. Double'
        BY <1>1, <2>3, <3>1, <4>2 DEF Double
      <4>4. QED
        BY <4>3 DEF Situation
    <3>4. ASSUME requests = <<>>, NEW t \in Plain, replies' = <<Reply("PowerOff", t)>>
          PROVE  Situation'
      <4>1. requests' = <<"Reset">>
        BY <3>1, <3>4, OneItem
      <4>2. Pair("PowerOff", "Reset", States, Plain)'
        BY <3>4, <4>1 DEF Pair
      <4>3. Double'
        BY <1>1, <2>3, <3>1, <4>2 DEF Double
      <4>4. QED
        BY <4>3 DEF Situation
    <3>5. QED
      BY <2>1, <3>3, <3>4 DEF Left
  <2>4. QED
    BY <1>4, <2>2, <2>3 DEF WcmWmReset
<1>5. QED
  BY <1>3, <1>4

LEMMA StartDCFFirst ==
  ASSUME Types, NEW r \in {"StartDCF"}, NEW s, TakenFirst(r, s), UNCHANGED scanEx,
         \/ s = "SUCCESS" /\ Settle("DCF", "SUCCESS") /\ NoRequest /\ UNCHANGED resetting
         \/ Fatal
  PROVE  Situation'
<1>1. ready'
  BY FirstFacts
<1>2. CASE Fatal
  BY <1>1, <1>2, Fails
<1>3. CASE s = "SUCCESS" /\ Settle("DCF", "SUCCESS") /\ NoRequest /\ UNCHANGED resetting
  <2>1. s \notin Bad
    BY <1>3 DEF Bad
  <2>2. resetting /\ Left("Reset")
    BY <2>1 DEF TakenFirst
  <2>3. QED
    BY <1>3, <2>2, FirstSettles DEF NoRequest
<1>4. QED
  BY <1>2, <1>3

LEMMA EndDCFFirst ==
  ASSUME Types, NEW r \in {"EndDCF"}, NEW s, TakenFirst(r, s), UNCHANGED scanEx,
         \/ WcmWmReset("DCF_TO_IDLE", notifyId)
         \/ /\ s = "SUCCESS" /\ UNCHANGED resetting
            /\ \/ Ask("Disconnect", "OPERATING")
               \/ Ask("Disconnect", "FIFO_ERROR") /\ Settle("IRREGULAR", "FAILURE")
  PROVE  Situation'
<1>1. ~link /\ r \in Frail
  BY FirstFacts DEF Frail
<1>2. CASE WcmWmReset("DCF_TO_IDLE", notifyId)
  BY <1>1, <1>2, FirstBacks
<1>3. ~Ask("Disconnect", "OPERATING")
  BY <1>1 DEF Ask, Answers, Legal
<1>4. CASE s = "SUCCESS" /\ UNCHANGED resetting /\ Ask("Disconnect", "FIFO_ERROR")
           /\ Settle("IRREGULAR", "FAILURE")
  <2>1. s \notin Bad
    BY <1>4 DEF Bad
  <2>2. resetting /\ Left("Reset")
    BY <2>1 DEF TakenFirst
  <2>3. UNCHANGED <<requests, wm, link>>
    BY <1>4, RefusalStep
  <2>4. QED
    BY <1>4, <2>2, <2>3, FirstSettles
<1>5. QED
  BY <1>2, <1>3, <1>4

LEMMA PowerOffFirst ==
  ASSUME Types, NEW r \in {"PowerOff"}, NEW s, TakenFirst(r, s), UNCHANGED <<scanEx, resetting>>,
         \/ s = "SUCCESS" /\ Follow("Disable")
         \/ Settle("IRREGULAR", "FAILURE") /\ NoRequest
         \/ Fatal
  PROVE  Situation'
<1>1. /\ phase # "FATAL_ERROR" /\ ready' /\ slip' = slip /\ scanEx = "none" /\ ~link /\ Up'
      /\ notifyId = "TERMINATE" /\ due = {"TERMINATE"} /\ "overtaken" \in slip
  BY FirstFacts DEF Up
<1>2. phase = "DCF_TO_IDLE" /\ resetting /\ Left("Reset")
  BY DEF TakenFirst, Frail
<1>3. CASE Fatal
  BY <1>1, <1>3, Fails
<1>4. CASE Settle("IRREGULAR", "FAILURE") /\ UNCHANGED <<requests, wm, link>>
  BY <1>2, <1>4, FirstSettles
<1>5. CASE Ask("Disable", "OPERATING") /\ UNCHANGED phase /\ Silent
  <2>1. requests' = Append(requests, "Disable") /\ UNCHANGED <<wm, link>> /\ wm = "stop"
    BY <1>5, FromIs DEF Ask, Answers, Legal
  <2>2. phase' = phase /\ notifyId' = notifyId /\ due' = due
    BY <1>5 DEF Silent
  <2>3. CASE requests = <<"Reset">> /\ replies' = <<>>
    <3>1. requests' = <<"Reset", "Disable">>
      BY <2>1, <2>3, TwoItems
    <3>2. Pair("Reset", "Disable", {"stop"}, Bad)'
      BY <2>1, <2>3, <3>1 DEF Pair
    <3>3. Double'
      BY <1>1, <1>2, <2>1, <2>2, <3>2 DEF Double
    <3>4. QED
      BY <3>3 DEF Situation
  <2>4. ASSUME requests = <<>>, NEW t \in Plain, replies' = <<Reply("Reset", t)>>,
               t = "SUCCESS" => wm = "idle"
        PROVE  Situation'
    <3>1. requests' = <<"Disable">>
      BY <2>1, <2>4, OneItem
    <3>2. t \in Bad
      BY <2>1, <2>4 DEF Plain
    <3>3. Pair("Reset", "Disable", {"stop"}, Bad)'
      BY <2>4, <3>1, <3>2 DEF Pair
    <3>4. Double'
      BY <1>1, <1>2, <2>1, <2>2, <3>3 DEF Double
    <3>5. QED
      BY <3>4 DEF Situation
  <2>5. QED
    BY <1>2, <2>3, <2>4 DEF Left
<1>6. CASE Follow("Disable")
  <2>1. Ask("Disable", "FIFO_ERROR") => UNCHANGED <<requests, wm, link>>
    BY RefusalStep
  <2>2. QED
    BY <1>3, <1>4, <1>5, <1>6, <2>1 DEF Follow
<1>7. QED
  BY <1>3, <1>4, <1>6 DEF NoRequest

(* A stuck answer.                                                           *)
LEMMA StaysStuck ==
  ASSUME NEW r, NEW s, TakenStuck(r, s), UNCHANGED <<scanEx, requests, wm, link>>, resetting',
         phase' \in {"DCF", "DCF_TO_IDLE", "IDLE_TO_DCF", "IRREGULAR", "TERMINATING"}
  PROVE  Situation'
<1>1. requests' = <<>> /\ replies' = <<>> /\ Up' /\ "refused" \in slip'
  BY DEF TakenStuck, Stuck, Up
<1>2. Stuck'
  BY <1>1 DEF Stuck, Calm, CalmIs
<1>3. QED
  BY <1>2 DEF Situation

LEMMA StuckTaken ==
  ASSUME NEW r, NEW s, TakenStuck(r, s), UNCHANGED scanEx, ready,
         \/ Fatal
         \/ \E p \in {"DCF_TO_IDLE", "IDLE_TO_DCF"} : WcmWmReset(p, notifyId)
         \/ /\ UNCHANGED resetting
            /\ \/ \E p \in {"DCF", "IRREGULAR"} :
                     Settle(p, IF p = "DCF" THEN "SUCCESS" ELSE "FAILURE")
                       /\ UNCHANGED <<requests, wm, link>>
               \/ Ask("Disconnect", "OPERATING")
  PROVE  Situation'
<1>1. phase \in {"IRREGULAR", "TERMINATING"} /\ resetting /\ ~link /\ ready'
  BY DEF TakenStuck, Stuck
<1>2. CASE Fatal
  BY <1>1, <1>2, Fails
<1>3. CASE \E p \in {"DCF_TO_IDLE", "IDLE_TO_DCF"} : WcmWmReset(p, notifyId)
  <2>1. PICK p \in {"DCF_TO_IDLE", "IDLE_TO_DCF"} : WcmWmReset(p, notifyId)
    BY <1>3
  <2>2. phase' = p /\ resetting' /\ UNCHANGED <<requests, wm, link>>
    BY <1>1, <2>1, Leans
  <2>3. QED
    BY <2>1, <2>2, StaysStuck
<1>4. ~Ask("Disconnect", "OPERATING")
  BY <1>1 DEF Ask, Answers, Legal
<1>5. ASSUME NEW p \in {"DCF", "IRREGULAR"},
             Settle(p, IF p = "DCF" THEN "SUCCESS" ELSE "FAILURE"),
             UNCHANGED <<requests, wm, link>>, UNCHANGED resetting
      PROVE  Situation'
  <2>1. phase' = p
    BY <1>1, <1>5 DEF Settle, SetPhase
  <2>2. QED
    BY <1>1, <1>5, <2>1, StaysStuck
<1>6. QED
  BY <1>2, <1>3, <1>4, <1>5

-----------------------------------------------------------------------------
(* Every callback keeps the situation.                                       *)

(* No handler finds a request that its situation has not.                    *)
LEMMA Absent ==
  ASSUME NEW s
  PROVE  /\ \A r \in Requests \ (Frail \cup {"PowerOff", "Reset"}) : ~TakenFirst(r, s)
         /\ \A r \in Requests \ Frail : ~TakenStuck(r, s)
BY DEF TakenFirst, TakenStuck

LEMMA LossCallbacks ==
  ASSUME Types, Situation, ~Broken, WcmWmcbIndication \/ (ConnectionLost /\ UNCHANGED scanEx)
  PROVE  Situation'
BY IndicationLoses, ConnectionLoses, LossHeard

LEMMA CommonSituation ==
  ASSUME Types, Linked, Situation, ~Broken, WcmWmcbCommon
  PROVE  Situation'
<1> DEFINE Does(r) ==
      \/ r \in DOMAIN NextOf /\ Follow(NextOf[r])
      \/ r = "PowerOn" /\ Settle("IDLE", "SUCCESS") /\ NoRequest
      \/ /\ r = "Disable"
         /\ IF wm = "ready"
              THEN wm' = "off" /\ Settle("WAIT", "SUCCESS")
              ELSE UNCHANGED wm /\ Fatal
         /\ UNCHANGED <<link, requests, faults>>
<1>1. UNCHANGED <<resetting, scanEx>>
  BY DEF WcmWmcbCommon
<1>2. PICK r \in DOMAIN NextOf \cup {"PowerOn", "Disable"} :
         \/ Deliver(r, {"SUCCESS"}) /\ Does(r)
         \/ Deliver(r, {"FAILED"}) /\ Settle("IRREGULAR", "FAILURE") /\ NoRequest
         \/ Deliver(r, {"ILLEGAL_STATE"}) /\ Fatal /\ NoRequest
  BY DEF WcmWmcbCommon
<1>3. \E s : /\ Taken(r, s) \/ TakenFirst(r, s) \/ TakenStuck(r, s)
             /\ \/ s = "SUCCESS" /\ Does(r)
                \/ Settle("IRREGULAR", "FAILURE") /\ NoRequest
                \/ Fatal
  <2> HIDE DEF Does
  <2>1. CASE Deliver(r, {"SUCCESS"}) /\ Does(r)
    BY <2>1, Takes
  <2>2. CASE Deliver(r, {"FAILED"}) /\ Settle("IRREGULAR", "FAILURE") /\ NoRequest
    BY <2>2, Takes
  <2>3. CASE Deliver(r, {"ILLEGAL_STATE"}) /\ Fatal /\ NoRequest
    BY <2>3, Takes
  <2>4. QED
    BY <1>2, <2>1, <2>2, <2>3
<1>4. PICK s : /\ Taken(r, s) \/ TakenFirst(r, s) \/ TakenStuck(r, s)
               /\ \/ s = "SUCCESS" /\ Does(r)
                  \/ Settle("IRREGULAR", "FAILURE") /\ NoRequest
                  \/ Fatal
  BY <1>3
<1>5. CASE Taken(r, s)
  <2>1. scanEx' = "none" /\ resetting' = resetting
    BY <1>1, <1>5, TakenFacts
  <2>2. QED
    BY <1>2, <1>4, <1>5, <2>1, CommonTaken
<1>6. r \in Requests \ Frail /\ r # "Reset"
  BY <1>2, NextOfIsRequest, RequestSet DEF NextOf, Frail
<1>7. CASE TakenFirst(r, s)
  <2>1. r \in {"PowerOff"}
    BY <1>6, <1>7, Absent
  <2>2. NextOf["PowerOff"] = "Disable"
    BY DEF NextOf
  <2>3. s = "SUCCESS" /\ Does(r) => Follow("Disable")
    BY <2>1, <2>2
  <2> HIDE DEF Does
  <2>4. QED
    BY <1>1, <1>4, <1>7, <2>1, <2>3, PowerOffFirst
<1>8. QED
  BY <1>4, <1>5, <1>6, <1>7, Absent

LEMMA ScanExSituation ==
  ASSUME Types, Linked, Situation, ~Broken, WcmWmcbScanEx
  PROVE  Situation'
<1> DEFINE r == "StartScanEx"
<1>1. \E s : Taken(r, s) \/ TakenFirst(r, s) \/ TakenStuck(r, s)
  BY Takes DEF WcmWmcbScanEx
<1>2. r \in Requests \ (Frail \cup {"PowerOff", "Reset"})
  BY RequestSet DEF Frail
<1>3. PICK s : Taken(r, s)
  BY <1>1, <1>2, Absent
<1>4. \/ /\ scanEx' = "switch"
         /\ \/ phase = "IDLE_TO_SEARCH" /\ Settle("SEARCH", "SUCCESS")
            \/ phase # "IDLE_TO_SEARCH" /\ UNCHANGED phase /\ Silent
         /\ NoRequest /\ UNCHANGED resetting
      \/ WcmWmReset(phase, notifyId) /\ UNCHANGED scanEx
      \/ Fatal
  BY DEF WcmWmcbScanEx
<1>5. r \in {"StartScanEx"}
  OBVIOUS
<1> HIDE DEF r
<1>6. QED
  BY <1>3, <1>4, <1>5, ScanTaken

LEMMA EndScanSituation ==
  ASSUME Types, Linked, Situation, ~Broken, WcmWmcbEndScan
  PROVE  Situation'
<1> DEFINE r == "EndScan"
           Does(s) == \/ s = "SUCCESS" /\ Settle("IDLE", "SUCCESS") /\ NoRequest /\ UNCHANGED resetting
                      \/ WcmWmReset(phase, notifyId)
                      \/ Fatal
<1>1. r \in Requests \ (Frail \cup {"PowerOff", "Reset"}) /\ r \in {"EndScan"} /\ UNCHANGED scanEx
  BY RequestSet DEF Frail, WcmWmcbEndScan
<1>2. \E results : /\ Deliver(r, results) /\ results \cap {"DISCONNECTED", "AUTO_DISCONNECT"} = {}
                   /\ \A s \in results : Does(s)
  <2>1. CASE Deliver(r, {"SUCCESS"}) /\ Settle("IDLE", "SUCCESS") /\ NoRequest /\ UNCHANGED resetting
    BY <2>1
  <2>2. CASE Deliver(r, {"FAILED"}) /\ WcmWmReset(phase, notifyId)
    BY <2>2
  <2>3. CASE Deliver(r, {"ILLEGAL_STATE"}) /\ Fatal
    BY <2>3
  <2>4. QED
    BY <2>1, <2>2, <2>3 DEF WcmWmcbEndScan
<1> HIDE DEF r, Does
<1>3. PICK s : Taken(r, s) /\ Does(s)
  BY <1>1, <1>2, Takes, Absent
<1>4. QED
  BY <1>1, <1>3, EndScanTaken DEF Does

LEMMA ConnectSituation ==
  ASSUME Types, Linked, Situation, ~Broken, WcmWmcbConnect
  PROVE  Situation'
<1> DEFINE r == "StartConnectEx"
           Does(s) ==
             \/ s = "SUCCESS" /\ phase = "IRREGULAR" /\ WcmWmReset("IDLE_TO_DCF", notifyId)
             \/ s = "SUCCESS" /\ authId' = TRUE /\ Follow("StartDCF") /\ UNCHANGED resetting
             \/ WcmWmReset(IF phase = "IRREGULAR" THEN "IDLE_TO_DCF" ELSE phase, notifyId)
             \/ WcmWmReset("IDLE_TO_DCF", notifyId)
             \/ Fatal
<1>1. r \in Requests \ (Frail \cup {"PowerOff", "Reset"}) /\ r \in {"StartConnectEx"}
  BY RequestSet DEF Frail
<1>2. UNCHANGED scanEx /\ (ConnectionLost \/ Connected \/ NeverConnected)
  BY ConnectSplits
<1>3. CASE Connected \/ NeverConnected
  <2>1. \E results : /\ Deliver(r, results)
                     /\ results \cap {"DISCONNECTED", "AUTO_DISCONNECT"} = {}
                     /\ \A s \in results : Does(s)
    <3>1. CASE Connected
      BY <3>1 DEF Connected
    <3>2. CASE NeverConnected
      BY <3>2 DEF NeverConnected
    <3>3. QED
      BY <1>3, <3>1, <3>2
  <2> HIDE DEF r, Does
  <2>2. PICK s : Taken(r, s) /\ Does(s)
    BY <1>1, <2>1, Takes, Absent
  <2>3. QED
    BY <1>1, <1>2, <2>2, ConnectTaken DEF Does
<1>4. QED
  BY <1>2, <1>3, LossCallbacks

LEMMA StartDCFSituation ==
  ASSUME Types, Linked, Situation, ~Broken, WcmWmcbStartDCF
  PROVE  Situation'
<1> DEFINE r == "StartDCF"
           Does(s) ==
             \/ s = "SUCCESS" /\ phase = "IRREGULAR" /\ WcmWmReset("IDLE_TO_DCF", notifyId)
             \/ /\ s = "SUCCESS" /\ phase # "IRREGULAR" /\ Settle("DCF", "SUCCESS")
                /\ NoRequest /\ UNCHANGED resetting
             \/ Fatal
<1>1. r \in {"StartDCF"}
  OBVIOUS
<1>2. UNCHANGED scanEx /\ authId' = authId
  BY DEF WcmWmcbStartDCF, ScanFrame
<1>3. \E results : /\ Deliver(r, results) /\ results \cap {"DISCONNECTED", "AUTO_DISCONNECT"} = {}
                   /\ \A s \in results : Does(s)
  BY DEF WcmWmcbStartDCF
<1> HIDE DEF r, Does
<1>4. PICK s : (Taken(r, s) \/ TakenFirst(r, s) \/ TakenStuck(r, s)) /\ Does(s)
  BY <1>3, Takes
<1>5. ready
  BY <1>3 DEF Deliver
<1>6. CASE Taken(r, s)
  BY <1>1, <1>2, <1>4, <1>6, StartDCFTaken DEF Does
<1>7. CASE TakenFirst(r, s)
  <2>1. phase # "IRREGULAR"
    BY <1>7 DEF TakenFirst
  <2>2. QED
    BY <1>1, <1>2, <1>4, <1>7, <2>1, StartDCFFirst DEF Does
<1>8. CASE TakenStuck(r, s)
  <2>1. Settle("DCF", "SUCCESS") =>
           \E p \in {"DCF", "IRREGULAR"} : Settle(p, IF p = "DCF" THEN "SUCCESS" ELSE "FAILURE")
    OBVIOUS
  <2>2. QED
    BY <1>2, <1>4, <1>5, <1>8, <2>1, StuckTaken DEF Does, NoRequest
<1>9. QED
  BY <1>4, <1>6, <1>7, <1>8

LEMMA EndDCFSituation ==
  ASSUME Types, Linked, Situation, ~Broken, WcmWmcbEndDCF
  PROVE  Situation'
<1> DEFINE r == "EndDCF"
           Asked1 == Ask("Disconnect", "OPERATING") /\ UNCHANGED phase /\ Silent
           Quits1 == Ask("Disconnect", "FIFO_ERROR") /\ Settle("IRREGULAR", "FAILURE")
           Does(s) ==
             \/ WcmWmReset("DCF_TO_IDLE", notifyId)
             \/ s = "SUCCESS" /\ phase # "IRREGULAR" /\ (Asked1 \/ Quits1) /\ UNCHANGED resetting
<1>1. r \in {"EndDCF"}
  OBVIOUS
<1>2. UNCHANGED scanEx
  BY DEF WcmWmcbEndDCF
<1>3. \E results : /\ Deliver(r, results) /\ results \cap {"DISCONNECTED", "AUTO_DISCONNECT"} = {}
                   /\ \A s \in results : Does(s)
  BY DEF WcmWmcbEndDCF
<1> HIDE DEF r, Does
<1>4. PICK s : (Taken(r, s) \/ TakenFirst(r, s) \/ TakenStuck(r, s)) /\ Does(s)
  BY <1>3, Takes
<1>5. ready
  BY <1>3 DEF Deliver
<1>6. CASE Taken(r, s)
  <2>1. Asked1 \/ Quits1 => Follow("Disconnect")
    BY DEF Follow
  <2>2. QED
    BY <1>1, <1>2, <1>4, <1>6, <2>1, EndDCFTaken DEF Does
<1>7. CASE TakenFirst(r, s)
  BY <1>1, <1>2, <1>4, <1>7, EndDCFFirst DEF Does
<1>8. CASE TakenStuck(r, s)
  <2>1. Quits1 =>
           \E p \in {"DCF", "IRREGULAR"} : Settle(p, IF p = "DCF" THEN "SUCCESS" ELSE "FAILURE")
                                             /\ UNCHANGED <<requests, wm, link>>
    BY RefusalStep
  <2>2. QED
    BY <1>2, <1>4, <1>5, <1>8, <2>1, StuckTaken DEF Does
<1>9. QED
  BY <1>4, <1>6, <1>7, <1>8

LEMMA DisconnectedSituation ==
  ASSUME Types, Linked, Situation, ~Broken, WcmWmcbDisconnect
  PROVE  Situation'
<1> DEFINE r == "Disconnect"
           Does(s) ==
             \/ WcmWmReset("DCF_TO_IDLE", notifyId)
             \/ /\ s = "SUCCESS" /\ Settle("IDLE", "SUCCESS")
                /\ NoRequest /\ UNCHANGED resetting
<1>1. r \in {"Disconnect"} /\ r \in Frail
  BY DEF Frail
<1>2. UNCHANGED scanEx
  BY DEF WcmWmcbDisconnect
<1>3. \E results : /\ Deliver(r, results) /\ results \cap {"DISCONNECTED", "AUTO_DISCONNECT"} = {}
                   /\ \A s \in results : Does(s)
  BY DEF WcmWmcbDisconnect
<1> HIDE DEF r, Does
<1>4. PICK s : (Taken(r, s) \/ TakenFirst(r, s) \/ TakenStuck(r, s)) /\ Does(s)
  BY <1>3, Takes
<1>5. ready /\ "SUCCESS" \notin Bad
  BY <1>3 DEF Deliver, Bad
<1>6. CASE Taken(r, s)
  BY <1>1, <1>2, <1>4, <1>6, DisconnectTaken DEF Does
<1>7. CASE TakenFirst(r, s)
  <2>1. s \in Bad
    BY <1>1, <1>7 DEF TakenFirst
  <2>2. QED
    BY <1>1, <1>2, <1>4, <1>5, <1>7, <2>1, FirstBacks DEF Does
<1>8. CASE TakenStuck(r, s)
  <2>1. s \in Bad
    BY <1>1, <1>8 DEF TakenStuck
  <2>2. QED
    BY <1>2, <1>4, <1>5, <1>8, <2>1, StuckTaken DEF Does
<1>9. QED
  BY <1>4, <1>6, <1>7, <1>8

LEMMA ResetSituation ==
  ASSUME Types, Linked, Situation, ~Broken, WcmWmcbReset
  PROVE  Situation'
<1> DEFINE r == "Reset"
           Does(s) ==
             \/ Fatal
             \/ /\ s = "SUCCESS" /\ resetting' = FALSE
                /\ \/ \E result : Settle("IDLE", result) /\ NoRequest
                   \/ phase = "IDLE_TO_DCF" /\ Follow("StartConnectEx")
                   \/ phase = "TERMINATING" /\ Follow("PowerOff")
<1>1. r \in {"Reset"} /\ r \in Requests \ Frail
  BY RequestSet DEF Frail
<1>2. UNCHANGED scanEx
  BY DEF WcmWmcbReset
<1>3. \E results : /\ Deliver(r, results) /\ results \cap {"DISCONNECTED", "AUTO_DISCONNECT"} = {}
                   /\ \A s \in results : Does(s)
  <2>1. Reconnect => Follow("StartConnectEx") \/ (Settle("IDLE", "FAILURE") /\ NoRequest)
    BY DEF Reconnect
  <2>2. QED
    BY <2>1 DEF WcmWmcbReset
<1> HIDE DEF r, Does
<1>4. PICK s : (Taken(r, s) \/ TakenFirst(r, s) \/ TakenStuck(r, s)) /\ Does(s)
  BY <1>3, Takes
<1>5. CASE Taken(r, s)
  BY <1>1, <1>2, <1>4, <1>5, ResetTaken DEF Does
<1>6. CASE TakenFirst(r, s)
  <2>1. s \in Bad
    BY <1>1, <1>6 DEF TakenFirst, Frail
  <2>2. Fatal
    BY <1>4, <2>1 DEF Does, Bad
  <2>3. QED
    BY <1>6, <2>2, FirstFacts, Fails
<1>7. QED
  BY <1>1, <1>4, <1>5, <1>6, Absent

LEMMA ScanSituation ==
  ASSUME Types, Linked, Situation, ~Broken, ScanSwitch \/ ScanNext
  PROVE  Situation'
<1>1. scanEx # "none" /\ UNCHANGED <<ready, replies, slip>>
  BY DEF ScanSwitch, ScanNext
<1>2. Scans
  BY <1>1 DEF Situation, Off, Idle, Joined, Irregular, Single, Double, Stuck, Housed, Up
<1>3. /\ ready' /\ phase \in {"SEARCH", "SEARCH_TO_IDLE", "TERMINATING"} /\ Named /\ ~resetting
      /\ requests = <<>> /\ replies' = <<>> /\ ~link /\ slip' = slip
  BY <1>1, <1>2 DEF Scans, Quiet
<1>4. NamedAs(phase, notifyId, due, FALSE) /\ After
  BY <1>3 DEF Named, NamedAs, After, CalmIs
<1>5. {"StartScanEx", "EndScan", "Reset"} \subseteq Requests
  BY RequestSet
<1>6. CASE ScanSwitch /\ phase = "SEARCH"
  <2>1. notifyId' = "FOUND_AP" /\ scanEx' = "next" /\ NoRequest /\ UNCHANGED <<phase, told, resetting>>
    BY <1>6 DEF ScanSwitch
  <2>2. Named'
    BY <1>3, <1>6, <2>1, OwnIs DEF Named, NamedAs, told
  <2>3. Scans'
    BY <1>3, <1>6, <2>1, <2>2 DEF Scans, Quiet, NoRequest
  <2>4. QED
    BY <2>3 DEF Situation
<1>7. CASE ScanSwitch /\ phase = "SEARCH_TO_IDLE"
  <2>1. scanEx' = "none" /\ Follow("EndScan") /\ UNCHANGED resetting
    BY <1>7 DEF ScanSwitch
  <2>2. Home("EndScan", phase)
    BY <1>7 DEF Home
  <2>3. QED
    BY <1>3, <1>4, <1>5, <1>7, <2>1, <2>2, Goes DEF Up
<1>8. CASE ScanSwitch /\ phase = "TERMINATING"
  <2>1. scanEx' = "none" /\ WcmWmReset("TERMINATING", notifyId)
    BY <1>8 DEF ScanSwitch
  <2>2. Home("Reset", "TERMINATING")
    BY DEF Home, Scanning
  <2>3. QED
    BY <1>3, <1>4, <1>8, <2>1, <2>2, Repairs DEF Up
<1>9. CASE ScanNext
  <2>1. scanEx' = "none" /\ Follow("StartScanEx") /\ UNCHANGED resetting
    BY <1>9 DEF ScanNext
  <2>2. Home("StartScanEx", phase)
    BY <1>3 DEF Home, Scanning
  <2>3. QED
    BY <1>3, <1>4, <1>5, <2>1, <2>2, Goes DEF Up
<1>10. QED
  BY <1>3, <1>6, <1>7, <1>8, <1>9

LEMMA StepSituation ==
  ASSUME PhaseInv, [Next]_vars
  PROVE  PhaseInv'
<1>1. Types /\ Linked /\ Situation
  BY DEF PhaseInv
<1>2. Types' /\ Linked'
  BY <1>1, StepTypes, LinkedStep
<1>3. Situation'
  <2>1. CASE Broken
    BY <2>1, BrokenStep DEF Situation
  <2>2. CASE ~Broken /\ Callback
    <3>1. CASE WcmWmcbIndication
      BY <1>1, <2>2, <3>1, LossCallbacks
    <3>2. QED
      BY <1>1, <2>2, <3>1, CommonSituation, ScanExSituation, EndScanSituation, ConnectSituation,
         StartDCFSituation, EndDCFSituation, DisconnectedSituation, ResetSituation DEF Callback
  <2>3. CASE ~Broken /\ (ScanSwitch \/ ScanNext)
    BY <1>1, <2>3, ScanSituation
  <2>4. CASE Call
    BY <1>1, <2>4, CallSituation
  <2>5. CASE RunRequest
    BY <1>1, <2>5, RunSituation
  <2>6. CASE LoseLink
    BY <1>1, <2>6, LoseSituation
  <2>7. CASE UNCHANGED vars
    <3>1. UNCHANGED <<ready, phase, notifyId, resetting, authId, scanEx, wm, link, requests,
                      replies, due, slip>>
      BY <2>7 DEF vars, wcm, driver, told
    <3>2. Situation' <=> Situation
      BY <3>1 DEF Situation, Broken, Off, Idle, Scans, Joined, Irregular, Single, Double, Stuck,
                  Named, NamedAs, Up, Quiet, Calm, CalmIs, Housed, Mid, Waits, WaitsLost,
                  Answered, LostAnswered, AnsweredLost, Pair
    <3>3. QED
      BY <1>1, <3>2
  <2>8. QED
    BY <2>1, <2>2, <2>3, <2>4, <2>5, <2>6, <2>7 DEF Next
<1>4. QED
  BY <1>2, <1>3 DEF PhaseInv

LEMMA InitSituation == Init => PhaseInv
<1>1. SUFFICES ASSUME Init PROVE PhaseInv
  OBVIOUS
<1>2. Types
  BY <1>1, InitTypes
<1>3. Linked /\ Off
  BY <1>1 DEF Init, Linked, Off, Quiet
<1>4. QED
  BY <1>2, <1>3 DEF PhaseInv, Situation

LEMMA PhaseInvariant == Spec => []PhaseInv
<1>1. Init => PhaseInv
  BY InitSituation
<1>2. PhaseInv /\ [Next]_vars => PhaseInv'
  BY StepSituation
<1>3. QED
  BY <1>1, <1>2, PTL DEF Spec

-----------------------------------------------------------------------------
(* What the situations promise.                                              *)

LEMMA UnderWay ==
  ASSUME NEW r \in Requests
  PROVE  /\ \A i \in DOMAIN requests : requests[i] = r => r \in Pending
         /\ \A i \in DOMAIN replies, s \in Outcomes : replies[i] = Reply(r, s) => r \in Pending
<1>1. ASSUME NEW i \in DOMAIN requests, requests[i] = r
      PROVE  r \in Pending
  BY <1>1 DEF Pending
<1>2. ASSUME NEW i \in DOMAIN replies, NEW s \in Outcomes, replies[i] = Reply(r, s)
      PROVE  r \in Pending
  <2>1. Reply(r, s) \in {replies[j] : j \in DOMAIN replies} \ Losses
    BY <1>2, AnswerIsNoLoss
  <2>2. r \in {m.request : m \in {replies[j] : j \in DOMAIN replies} \ Losses}
    BY <2>1, ReplyParts
  <2>3. QED
    BY <2>2 DEF Pending
<1>3. QED
  BY <1>1, <1>2

LEMMA MidPending ==
  ASSUME NEW r \in Requests, Mid(r)
  PROVE  r \in Pending
<1>1. OutcomesOf(r) \subseteq Outcomes
  BY DEF OutcomesOf, Outcomes, Plain, Bad, Refusals
<1>2. CASE requests = <<r>>
  <2>1. 1 \in DOMAIN requests /\ requests[1] = r
    BY <1>2
  <2>2. QED
    BY <2>1, UnderWay
<1>3. ASSUME NEW s \in OutcomesOf(r),
             \/ replies = <<Reply(r, s)>>
             \/ \E l \in Losses : replies = <<Reply(r, s), l>>
      PROVE  r \in Pending
  <2>1. 1 \in DOMAIN replies /\ replies[1] = Reply(r, s)
    BY <1>3
  <2>2. QED
    BY <1>1, <2>1, UnderWay
<1>4. ASSUME NEW s \in OutcomesOf(r), \E l \in Losses : replies = <<l, Reply(r, s)>>
      PROVE  r \in Pending
  <2>1. 2 \in DOMAIN replies /\ replies[2] = Reply(r, s)
    BY <1>4
  <2>2. QED
    BY <1>1, <2>1, UnderWay
<1>5. QED
  BY <1>2, <1>3, <1>4 DEF Mid, Waits, WaitsLost, Answered, LostAnswered, AnsweredLost

LEMMA PairPending ==
  ASSUME NEW r \in Requests, NEW q \in Requests, NEW w, NEW a \in SUBSET Plain, Pair(r, q, w, a)
  PROVE  r \in Pending /\ q \in Pending
<1>1. Plain \subseteq Outcomes
  BY DEF Outcomes, Plain, Bad, Refusals
<1>2. CASE requests = <<r, q>>
  <2>1. {1, 2} \subseteq DOMAIN requests /\ requests[1] = r /\ requests[2] = q
    BY <1>2
  <2>2. QED
    BY <2>1, UnderWay
<1>3. ASSUME requests = <<q>>, NEW s \in a, replies = <<Reply(r, s)>>
      PROVE  r \in Pending /\ q \in Pending
  <2>1. 1 \in DOMAIN requests /\ requests[1] = q /\ 1 \in DOMAIN replies /\ replies[1] = Reply(r, s)
    BY <1>3
  <2>2. QED
    BY <1>1, <2>1, UnderWay
<1>4. ASSUME NEW s \in a, NEW t \in Plain, replies = <<Reply(r, s), Reply(q, t)>>
      PROVE  r \in Pending /\ q \in Pending
  <2>1. {1, 2} \subseteq DOMAIN replies /\ replies[1] = Reply(r, s) /\ replies[2] = Reply(q, t)
    BY <1>4
  <2>2. QED
    BY <1>1, <2>1, UnderWay
<1>5. QED
  BY <1>2, <1>3, <1>4 DEF Pair

LEMMA QuietPending ==
  ASSUME Quiet
  PROVE  Pending = {}
BY DEF Quiet, Pending

LEMMA InvQuiet == PhaseInv => RestIsQuiet
<1>1. SUFFICES ASSUME Types, Situation PROVE RestIsQuiet
  BY DEF PhaseInv
<1>2. TypeOK
  BY <1>1, TypesSharper
<1>3. ASSUME ~ready \/ phase = "WAIT"
      PROVE  wm = "off" /\ requests = <<>> /\ replies = <<>>
  <2>1. Off
    BY <1>1, <1>3 DEF Situation, Broken, Off, Idle, Scans, Joined, Irregular, Single, Double, Stuck,
                       Housed, Home, Scanning, Up
  <2>2. QED
    BY <2>1 DEF Off, Quiet
<1>4. ASSUME phase = "IDLE"
      PROVE  Pending = {} /\ ~resetting /\ wm = "idle"
  <2>1. Idle
    BY <1>1, <1>4 DEF Situation, Broken, Off, Idle, Scans, Joined, Irregular, Single, Double, Stuck,
                       Housed, Home, Scanning, Up
  <2>2. QED
    BY <2>1, QuietPending DEF Idle
<1>5. QED
  BY <1>2, <1>3, <1>4 DEF RestIsQuiet

LEMMA InvBacked == PhaseInv => ResetBacked
<1>1. SUFFICES ASSUME Situation, resetting, "refused" \notin slip, phase # "FATAL_ERROR"
               PROVE  "Reset" \in Pending
  BY DEF PhaseInv, ResetBacked
<1>2. Single \/ Double
  BY <1>1 DEF Situation, Broken, Off, Idle, Scans, Joined, Irregular, Stuck
<1>3. CASE Single
  <2>1. PICK r \in Requests : Housed(r) /\ Mid(r)
    BY <1>3 DEF Single
  <2>2. r = "Reset"
    BY <1>1, <2>1 DEF Housed
  <2>3. QED
    BY <2>1, <2>2, MidPending
<1>4. CASE Double
  <2>1. /\ "PowerOff" \in Requests /\ "Reset" \in Requests /\ "Disable" \in Requests
        /\ Frail \subseteq Requests /\ Bad \subseteq Plain /\ Plain \subseteq Plain
    BY RequestSet DEF Frail, Plain
  <2>2. ASSUME NEW r \in Frail, Pair(r, "Reset", States, IF r = "Disconnect" THEN Bad ELSE Plain)
        PROVE  "Reset" \in Pending
    <3>1. (IF r = "Disconnect" THEN Bad ELSE Plain) \subseteq Plain
      BY <2>1
    <3>2. QED
      BY <2>1, <2>2, <3>1, PairPending
  <2>3. Pair("PowerOff", "Reset", States, Plain) => "Reset" \in Pending
    BY <2>1, PairPending
  <2>4. Pair("Reset", "Disable", {"stop"}, Bad) => "Reset" \in Pending
    BY <2>1, PairPending
  <2>5. QED
    BY <1>1, <1>4, <2>2, <2>3, <2>4 DEF Double
<1>5. QED
  BY <1>2, <1>3, <1>4

LEMMA InvJoined == PhaseInv => DcfJoined
<1>1. SUFFICES ASSUME Situation, phase = "DCF", ~resetting
               PROVE  /\ authId
                      /\ \/ wm = "dcf" /\ link
                         \/ \E i \in DOMAIN replies : replies[i] \in Losses
  BY DEF PhaseInv, DcfJoined
<1>2. Joined
  BY <1>1 DEF Situation, Broken, Off, Idle, Scans, Irregular, Single, Double, Stuck,
              Housed, Home, Scanning
<1>3. authId /\ Calm /\ (Quiet => wm = "dcf" /\ link)
  BY <1>2 DEF Joined
<1>4. CASE Quiet
  BY <1>3, <1>4
<1>5. CASE ~Quiet
  <2>1. PICK l \in Losses : replies = <<l>>
    BY <1>3, <1>5 DEF Quiet, Calm, CalmIs
  <2>2. 1 \in DOMAIN replies /\ replies[1] = l
    BY <2>1
  <2>3. QED
    BY <1>3, <2>2
<1>6. QED
  BY <1>4, <1>5

LEMMA InvAnswered == PhaseInv => RestIsAnswered
<1>1. SUFFICES ASSUME Situation,
                      \/ phase \in {"IDLE", "WAIT", "SEARCH"}
                      \/ phase = "DCF" /\ ~resetting
                      \/ phase = "IRREGULAR" /\ Pending = {} /\ ~Abandoned
               PROVE  due = {}
  BY DEF PhaseInv, RestIsAnswered, AtRest
<1>2. CASE phase \in {"IDLE", "WAIT"}
  BY <1>1, <1>2 DEF Situation, Broken, Off, Idle, Scans, Joined, Irregular, Single, Double, Stuck,
                    Housed, Home, Scanning
<1>3. CASE phase = "SEARCH" \/ (phase = "DCF" /\ ~resetting)
  <2>1. Named
    BY <1>1, <1>3 DEF Situation, Broken, Off, Idle, Scans, Joined, Irregular, Single, Double, Stuck,
                      Housed, Home, Scanning
  <2>2. QED
    BY <1>3, <2>1 DEF Named, NamedAs, Transitional
<1>4. CASE phase = "IRREGULAR" /\ Pending = {} /\ ~Abandoned
  <2>1. "refused" \notin slip /\ "uninitialized" \notin slip
    BY <1>4 DEF Abandoned
  <2>2. ~Single
    BY <1>4, MidPending DEF Single
  <2>3. Irregular
    BY <1>1, <1>4, <2>1, <2>2 DEF Situation, Broken, Off, Idle, Scans, Joined, Double, Stuck
  <2>4. QED
    BY <2>1, <2>3 DEF Irregular
<1>5. QED
  BY <1>1, <1>2, <1>3, <1>4

-----------------------------------------------------------------------------
(* A notice of success is true.                                              *)

(* This step notifies success under the pending name.                        *)
Tells ==
  /\ notifyId \in Asked /\ notifyId' = "COMMON"
  /\ notice' = [id |-> notifyId, result |-> "SUCCESS"]
KeepsWord ==
  \/ phase' \in Promised[notifyId]
  \/ "overtaken" \in slip
  \/ phase = "FATAL_ERROR"
  \/ phase = "IRREGULAR" /\ notifyId = "CONNECT"

(* What the parts of the handlers notify is no success, or it is Settle.     *)
LEMMA PartsTell ==
  ASSUME Tells
  PROVE  /\ ~Silent /\ ~Fatal /\ notifyId' # notifyId
         /\ \A p : ~Settle(p, "FAILURE")
         /\ \A r : ~Follow(r)
         /\ \A p, id : id # "COMMON" => ~WcmWmReset(p, id)
         /\ \A p, id : id # "COMMON" => ~Accept(p, id)
         /\ \A r, p, q, id : id # "COMMON" => ~Begin(r, p, q, id)
<1>1. notifyId # "COMMON" /\ notifyId' = "COMMON"
  BY DEF Tells, Asked
<1>2. notice'.result = "SUCCESS"
  BY DEF Tells
<1>3. \A p, result : Settle(p, result) => notice'.result = result
  BY DEF Settle, WcmNotify, WcmNotifyAs
<1>4. ~Silent /\ ~Fatal /\ \A p : ~Settle(p, "FAILURE")
  BY <1>1, <1>2, <1>3 DEF Silent, Fatal
<1>5. \A r : ~Follow(r)
  BY <1>4 DEF Follow
<1>6. ASSUME NEW p, NEW id, id # "COMMON", WcmWmReset(p, id)
      PROVE  FALSE
  <2>1. notice'.result = "FATAL_ERROR"
    BY <1>1, <1>6 DEF WcmWmReset, WcmNotifyAs
  <2>2. QED
    BY <1>2, <2>1
<1>7. \A p, id : id # "COMMON" => ~Accept(p, id)
  BY <1>1 DEF Accept
<1>8. \A r, p, q, id : id # "COMMON" => ~Begin(r, p, q, id)
  BY <1>4, <1>7 DEF Begin
<1>9. QED
  BY <1>1, <1>4, <1>5, <1>6, <1>7, <1>8

LEMMA PromisedIs ==
  /\ Promised["STARTUP"] = {"IDLE"} /\ Promised["CLEANUP"] = {"WAIT"}
  /\ Promised["BEGIN_SEARCH"] = {"SEARCH"} /\ Promised["END_SEARCH"] = {"IDLE"}
  /\ Promised["CONNECT"] = {"DCF"} /\ Promised["DISCONNECT"] = {"IDLE"}
  /\ Promised["TERMINATE"] = {"WAIT"}
BY DEF Promised

(* Only one call notifies nothing under a name that it gives up: a terminate *)
(* of a driver that was never enabled.                                       *)
LEMMA CallTells ==
  ASSUME PhaseInv, Call
  PROVE  ~Tells
<1>1. SUFFICES ASSUME Tells PROVE FALSE
  OBVIOUS
<1>2. Situation /\ Linked
  BY DEF PhaseInv
<1>3. /\ ~Silent /\ notifyId' # notifyId
      /\ \A p, id : id # "COMMON" => ~Accept(p, id)
      /\ \A r, p, q, id : id # "COMMON" => ~Begin(r, p, q, id)
  BY <1>1, PartsTell
<1>4. notifyId \in Asked
  BY <1>1 DEF Tells
<1>5. CASE WCM_Init
  <2>1. Off
    BY <1>2, <1>5 DEF WCM_Init, Situation, Broken, Off, Idle, Scans, Joined, Irregular, Single,
                      Double, Stuck, Housed, Up
  <2>2. QED
    BY <1>4, <2>1 DEF Off, Asked
<1>6. CASE WCM_TerminateAsync
  <2>1. /\ ready /\ phase \in {"IDLE", "DCF", "IRREGULAR", "SEARCH"} /\ ~resetting
        /\ phase # "SEARCH" /\ wm = "ready"
    BY <1>3, <1>6 DEF WCM_TerminateAsync
  <2>2. ~(Single \/ Joined \/ Idle)
    BY <2>1 DEF Single, Housed, Home, Scanning, Near, Joined, Idle, Calm, CalmIs, Quiet
  <2>3. Irregular
    BY <1>2, <2>1, <2>2 DEF Situation, Broken, Off, Scans, Double, Stuck
  <2>4. due = {}
    BY <2>1, <2>3 DEF Irregular, Near
  <2>5. QED
    BY <1>4, <2>1, <2>3, <2>4 DEF Irregular, Named, NamedAs, Asked, Transitional
<1>7. CASE WCM_Finish \/ WCM_StartupAsync
  BY <1>3, <1>7 DEF WCM_Finish, WCM_StartupAsync
<1>8. CASE WCM_CleanupAsync \/ WCM_BeginSearchAsync \/ WCM_EndSearchAsync \/ WCM_ConnectAsync
           \/ WCM_DisconnectAsync
  BY <1>3, <1>8 DEF WCM_CleanupAsync, WCM_BeginSearchAsync, WCM_EndSearchAsync, WCM_ConnectAsync,
                    WCM_DisconnectAsync
<1>9. QED
  BY <1>5, <1>6, <1>7, <1>8 DEF Call

(* A request r whose success settles the phase, to p.                        *)
Success(r, p) ==
  \/ r = "PowerOn" /\ p = "IDLE"
  \/ r = "Disable" /\ p = "WAIT"
  \/ r = "StartScanEx" /\ p = "SEARCH" /\ phase = "IDLE_TO_SEARCH"
  \/ r = "EndScan" /\ p = "IDLE"
  \/ r \in {"StartDCF", "Disconnect"} /\ phase # "IRREGULAR"
       /\ p = (IF r = "StartDCF" THEN "DCF" ELSE "IDLE")
  \/ r = "Reset" /\ p = "IDLE" /\ phase \in {"SEARCH_TO_IDLE", "DCF", "IRREGULAR", "DCF_TO_IDLE"}

LEMMA CallbackTells ==
  ASSUME Types, Callback, Tells
  PROVE  \E r, p : Deliver(r, {"SUCCESS"}) /\ Settle(p, "SUCCESS") /\ Success(r, p)
<1>1. /\ ~Silent /\ ~Fatal /\ notifyId' # notifyId /\ notifyId # "COMMON"
      /\ \A p : ~Settle(p, "FAILURE")
      /\ \A r : ~Follow(r)
      /\ \A p, id : id # "COMMON" => ~WcmWmReset(p, id)
  BY PartsTell DEF Tells, Asked
<1>2. CASE WcmWmcbIndication
  BY <1>1, <1>2 DEF WcmWmcbIndication
<1>3. CASE WcmWmcbCommon
  BY <1>1, <1>3 DEF WcmWmcbCommon, Success
<1>4. CASE WcmWmcbScanEx \/ WcmWmcbEndScan
  BY <1>1, <1>4 DEF WcmWmcbScanEx, WcmWmcbEndScan, Success
<1>5. CASE WcmWmcbConnect
  BY <1>1, <1>5, ConnectSplits DEF ConnectionLost, Connected, NeverConnected
<1>6. CASE WcmWmcbStartDCF \/ WcmWmcbDisconnect
  BY <1>1, <1>6 DEF WcmWmcbStartDCF, WcmWmcbDisconnect, Success
<1>7. CASE WcmWmcbEndDCF
  BY <1>1, <1>7 DEF WcmWmcbEndDCF
<1>8. CASE WcmWmcbReset
  BY <1>1, <1>8 DEF WcmWmcbReset, Reconnect, Success
<1>9. QED
  BY <1>2, <1>3, <1>4, <1>5, <1>6, <1>7, <1>8 DEF Callback

LEMMA CallbackTrue ==
  ASSUME PhaseInv, Callback, Tells, ~Broken
  PROVE  KeepsWord
<1>1. Types /\ Linked /\ Situation
  BY DEF PhaseInv
<1>2. PICK r, p : Deliver(r, {"SUCCESS"}) /\ Settle(p, "SUCCESS") /\ Success(r, p)
  BY <1>1, CallbackTells
<1>3. PICK s \in {"SUCCESS"} : Taken(r, s) \/ TakenFirst(r, s) \/ TakenStuck(r, s)
  BY <1>1, <1>2, Takes
<1>4. CASE TakenFirst(r, s)
  BY <1>4 DEF TakenFirst, KeepsWord
<1>5. CASE TakenStuck(r, s)
  <2>1. r = "StartDCF"
    BY <1>2, <1>3, <1>5 DEF TakenStuck, Success, Frail, Bad
  <2>2. phase # "IRREGULAR"
    BY <1>2, <2>1 DEF Success
  <2>3. QED
    BY <1>5, <2>2 DEF TakenStuck, KeepsWord
<1>6. CASE Taken(r, s)
  <2>1. phase # "FATAL_ERROR" /\ Home(r, phase) /\ (resetting <=> (r = "Reset")) /\ Named
    BY <1>6, TakenFacts
  <2>2. phase' = p
    BY <1>2, <2>1 DEF Settle, SetPhase
  <2>3. CASE phase \in Transitional /\ notifyId = Own[phase]
    <3>1. CASE r \in {"PowerOn", "Disable", "EndScan"}
      BY <1>2, <2>1, <2>2, <2>3, <3>1, OwnIs, PromisedIs DEF Success, Home, KeepsWord
    <3>2. CASE r \in {"StartScanEx", "StartDCF", "Disconnect"}
      BY <1>2, <2>1, <2>2, <2>3, <3>2, OwnIs, PromisedIs DEF Success, Home, KeepsWord
    <3>3. CASE r = "Reset"
      BY <1>2, <2>1, <2>2, <2>3, <3>3, OwnIs, PromisedIs DEF Success, KeepsWord
    <3>4. QED
      BY <1>2, <3>1, <3>2, <3>3 DEF Success
  <2>4. CASE resetting /\ "overtaken" \in slip
    BY <2>4 DEF KeepsWord
  <2>5. CASE phase = "DCF" /\ notifyId \in {"COMMON", "DISCONNECT"}
    <3>1. r = "Reset" /\ notifyId = "DISCONNECT"
      BY <2>1, <2>5 DEF Home, Scanning, Tells, Asked
    <3>2. QED
      BY <1>2, <2>2, <3>1, PromisedIs DEF Success, KeepsWord
  <2>6. CASE phase = "IRREGULAR" /\ notifyId \in {"COMMON", "CONNECT", "DISCONNECT"}
    <3>1. notifyId = "CONNECT" => KeepsWord
      BY <2>6 DEF KeepsWord
    <3>2. r = "Reset" /\ p = "IDLE"
      BY <1>2, <2>1, <2>6 DEF Success, Home, Scanning
    <3>3. notifyId = "DISCONNECT" => KeepsWord
      BY <2>2, <3>2, PromisedIs DEF KeepsWord
    <3>4. QED
      BY <2>6, <3>1, <3>3 DEF Tells, Asked
  <2>7. CASE phase = "SEARCH" /\ notifyId \in {"COMMON", "FOUND_AP"}
    BY <2>7 DEF Tells, Asked
  <2>8. QED
    BY <2>1, <2>3, <2>4, <2>5, <2>6, <2>7 DEF Named, NamedAs
<1>7. QED
  BY <1>3, <1>4, <1>5, <1>6

LEMMA StepTrue ==
  ASSUME PhaseInv, [Next]_vars, Tells
  PROVE  KeepsWord
<1>1. notifyId' # notifyId /\ (\A r : ~Follow(r)) /\ ~Fatal
      /\ (\A p, id : id # "COMMON" => ~WcmWmReset(p, id)) /\ notifyId # "COMMON"
      /\ notifyId' = "COMMON"
  BY PartsTell DEF Tells, Asked
<1>2. CASE Broken
  BY <1>2 DEF Broken, KeepsWord
<1>3. CASE ~Broken /\ Callback
  BY <1>3, CallbackTrue
<1>4. CASE ScanSwitch \/ ScanNext
  BY <1>1, <1>4 DEF ScanSwitch, ScanNext
<1>5. CASE RunRequest \/ LoseLink \/ UNCHANGED vars
  BY <1>1, <1>5 DEF RunRequest, LoseLink, vars, wcm
<1>6. CASE Call
  BY <1>6, CallTells
<1>7. QED
  BY <1>2, <1>3, <1>4, <1>5, <1>6 DEF Next

-----------------------------------------------------------------------------

(* Rest: while the program is down or waits to be started the driver is off  *)
(* and owes no callback, so WCM_Finish drops a work area that nobody uses;   *)
(* in IDLE the driver is idle with nothing under way, so the next call of    *)
(* the application does not meet the callbacks of an earlier one.            *)
THEOREM RestSafe == Spec => []RestIsQuiet
BY PhaseInvariant, InvQuiet, PTL

(* The reset flag of WcmWmReset stands for a WM_Reset under way, however     *)
(* callbacks, losses and calls interleave, unless one was refused to         *)
(* WCM_TerminateAsync.                                                       *)
THEOREM ResetSafe == Spec => []ResetBacked
BY PhaseInvariant, InvBacked, PTL

(* In phase DCF without a reset the program has its association id, and the  *)
(* driver is connected or is about to report the loss.                       *)
THEOREM JoinedSafe == Spec => []DcfJoined
BY PhaseInvariant, InvJoined, PTL

(* No accepted call is forgotten: when the phase machine rests, each has     *)
(* been notified under its own name.                                         *)
THEOREM AnsweredSafe == Spec => []RestIsAnswered
BY PhaseInvariant, InvAnswered, PTL

(* WcmNotify reports a success in the phase that the call promised, the      *)
(* weaknesses named in NoticeTrue excepted.                                  *)
THEOREM NoticesTrue == Spec => NoticeTrue
<1>1. PhaseInv /\ [Next]_vars =>
        [ \A id \in Asked :
            notifyId = id /\ notifyId' = "COMMON" /\ notice' = [id |-> id, result |-> "SUCCESS"]
              => \/ phase' \in Promised[id]
                 \/ "overtaken" \in slip
                 \/ phase = "FATAL_ERROR"
                 \/ phase = "IRREGULAR" /\ id = "CONNECT" ]_vars
  BY StepTrue DEF Tells, KeepsWord
<1>2. QED
  BY <1>1, PhaseInvariant, PTL DEF Spec, NoticeTrue

-----------------------------------------------------------------------------
(* The list of access points (module WcmApList).                             *)
(*                                                                           *)
(* A whole list is a chain through some blocks in some order o: ListInv says *)
(* there is one, the operators that unlink and link a block turn it into     *)
(* another one, and what the list shows is the access points along it.  The  *)
(* blocks that nobody points at may change; the locks nest, so nobody points *)
(* at a block while the list is free.                                        *)

Lists == [count : 0 .. maxBlock, head : Links, tail : Links, block : [Blocks -> Block]]

(* A list of k blocks, in the order o: both chains run through it.           *)
On(o, k, n) == IF n \in 1 .. k THEN o[n] ELSE 0
Chain(l, o, k) ==
  /\ o \in [1 .. k -> Blocks]
  /\ \A i, j \in 1 .. k : o[i] = o[j] => i = j
  /\ l.head = On(o, k, 1) /\ l.tail = On(o, k, k)
  /\ \A n \in 1 .. k : /\ l.block[o[n]].previous = On(o, k, n - 1)
                       /\ l.block[o[n]].next = On(o, k, n + 1)

(* It has the occupied blocks, under the indexes below the count,            *)
Chained(l, o) ==
  /\ l \in Lists
  /\ Chain(l, o, l.count)
  /\ \A b \in Blocks : l.block[b].occupied <=> \E n \in 1 .. l.count : o[n] = b
  /\ {l.block[b].index : b \in {c \in Blocks : l.block[c].occupied}} = 0 .. l.count - 1

(* and no access point twice, whatever is in block e.                        *)
Labelled(l, e) ==
  \A b \in Blocks \ {e} : l.block[b].occupied =>
    /\ l.block[b].bssid \in Bssids
    /\ \A c \in Blocks \ {e} : l.block[c].occupied /\ l.block[b].bssid = l.block[c].bssid => b = c

(* Locks nest: the first one found the list free and the others did not.     *)
Nested ==
  /\ apListLock <=> held # <<>>
  /\ \A i \in 1 .. Len(held) : held[i] <=> i > 1
  /\ bd # 0 => held # <<>>
ListTypes ==
  /\ exchange \in BOOLEAN /\ apListLock \in BOOLEAN
  /\ held \in Seq(BOOLEAN) /\ Len(held) <= MaxNest
  /\ bd \in Links /\ snapshot \in Block

ListInv ==
  /\ ApListConstants /\ ListTypes /\ Nested /\ ReadStable
  /\ \E o : Chained(buf, o) /\ Labelled(buf, 0)

LEMMA ListConstants ==
  ASSUME ApListConstants
  PROVE  maxBlock \in Nat /\ NoBssid \notin Bssids /\ Levels \subseteq Nat /\ MaxNest \in Nat
         /\ 0 \notin Blocks /\ Links = Blocks \cup {0}
BY DEF ApListConstants, Blocks, Links

LEMMA LinkedIs ==
  ASSUME ApListConstants, NEW l, NEW o, Chained(l, o)
  PROVE  /\ l \in Lists /\ Chain(l, o, l.count) /\ l.count \in Nat /\ l.count <= maxBlock
         /\ o \in [1 .. l.count -> Blocks]
         /\ \A i, n \in 1 .. l.count : o[i] = o[n] => i = n
<1>1. l \in Lists /\ Chain(l, o, l.count)
  BY DEF Chained
<1>2. l.count \in 0 .. maxBlock
  BY <1>1 DEF Lists
<1>3. l.count \in Nat /\ l.count <= maxBlock
  BY <1>2, ListConstants
<1>4. o \in [1 .. l.count -> Blocks] /\ \A i, n \in 1 .. l.count : o[i] = o[n] => i = n
  BY <1>1 DEF Chain
<1>5. QED
  BY <1>1, <1>3, <1>4

-----------------------------------------------------------------------------
(* Following the links gives the order.                                      *)

Following(g) ==
  g = [n \in Nat |-> IF n = 0 THEN 0
                     ELSE IF n = 1 THEN buf.head
                     ELSE IF g[n - 1] = 0 THEN 0
                     ELSE buf.block[g[n - 1]].next]

LEMMA NthFollows ==
  ASSUME NEW g, Following(g)
  PROVE  Following(Nth)
<1>1. Nth = CHOOSE h : Following(h)
  BY DEF Nth, Following
<1>2. Following(CHOOSE h : Following(h))
  OBVIOUS
<1>3. QED
  BY <1>1, <1>2

LEMMA NthIs ==
  ASSUME ApListConstants, NEW o, Chained(buf, o)
  PROVE  \A n \in Nat : Nth[n] = On(o, buf.count, n)
<1> DEFINE k == buf.count
           g == [n \in Nat |-> On(o, k, n)]
<1>1. k \in Nat /\ o \in [1 .. k -> Blocks] /\ 0 \notin Blocks
  BY ListConstants DEF Chained, Chain, Lists
<1>2. \A n \in 1 .. k : o[n] # 0 /\ buf.block[o[n]].next = On(o, k, n + 1)
  BY <1>1 DEF Chained, Chain
<1>3. buf.head = On(o, k, 1)
  BY DEF Chained, Chain
<1> HIDE DEF k
<1>4. \A n \in Nat : n > 1 => On(o, k, n) = IF On(o, k, n - 1) = 0 THEN 0 ELSE buf.block[On(o, k, n - 1)].next
  <2>1. SUFFICES ASSUME NEW n \in Nat, n > 1
                 PROVE  On(o, k, n) = IF On(o, k, n - 1) = 0 THEN 0 ELSE buf.block[On(o, k, n - 1)].next
    OBVIOUS
  <2>2. CASE n - 1 \in 1 .. k
    <3>1. On(o, k, n - 1) = o[n - 1] /\ o[n - 1] # 0 /\ buf.block[o[n - 1]].next = On(o, k, (n - 1) + 1)
      BY <1>2, <2>2 DEF On
    <3>2. (n - 1) + 1 = n
      BY <2>1
    <3>3. QED
      BY <3>1, <3>2
  <2>3. CASE n - 1 \notin 1 .. k
    <3>1. n \notin 1 .. k
      BY <1>1, <2>1, <2>3
    <3>2. QED
      BY <2>3, <3>1 DEF On
  <2>4. QED
    BY <2>2, <2>3
<1>5. On(o, k, 0) = 0
  BY DEF On
<1>6. Following(g)
  <2>1. \A n \in Nat : g[n] = On(o, k, n)
    OBVIOUS
  <2>2. \A n \in Nat : n > 1 => n - 1 \in Nat
    OBVIOUS
  <2> HIDE DEF g
  <2>3. ASSUME NEW n \in Nat
        PROVE  On(o, k, n) = IF n = 0 THEN 0
                             ELSE IF n = 1 THEN buf.head
                             ELSE IF g[n - 1] = 0 THEN 0
                             ELSE buf.block[g[n - 1]].next
    <3>1. CASE n > 1
      <4>1. g[n - 1] = On(o, k, n - 1)
        BY <2>1, <2>2, <3>1
      <4>2. n # 0 /\ n # 1
        BY <3>1
      <4>3. QED
        BY <1>4, <3>1, <4>1, <4>2
    <3>2. CASE ~(n > 1)
      <4>1. n = 0 \/ n = 1
        BY <3>2
      <4>2. QED
        BY <1>3, <1>5, <4>1
    <3>3. QED
      BY <3>1, <3>2
  <2>4. [n \in Nat |-> On(o, k, n)]
          = [n \in Nat |-> IF n = 0 THEN 0
                           ELSE IF n = 1 THEN buf.head
                           ELSE IF g[n - 1] = 0 THEN 0
                           ELSE buf.block[g[n - 1]].next]
    BY <2>3
  <2>5. QED
    BY <2>4 DEF Following, g
<1>7. /\ Nth[0] = 0 /\ Nth[1] = buf.head
      /\ \A n \in Nat : n > 1 => Nth[n] = IF Nth[n - 1] = 0 THEN 0 ELSE buf.block[Nth[n - 1]].next
  <2>1. Following(Nth)
    BY <1>6, NthFollows
  <2>2. \A n \in Nat : Nth[n] = IF n = 0 THEN 0
                           ELSE IF n = 1 THEN buf.head
                           ELSE IF Nth[n - 1] = 0 THEN 0
                           ELSE buf.block[Nth[n - 1]].next
    BY <2>1 DEF Following
  <2>3. \A n \in Nat : n > 1 => n # 0 /\ n # 1
    OBVIOUS
  <2>4. QED
    BY <2>2, <2>3
<1> DEFINE Astray == {n \in Nat : Nth[n] # On(o, k, n)}
<1>8. Astray = {}
  <2>1. SUFFICES ASSUME Astray # {} PROVE FALSE
    OBVIOUS
  <2>2. PICK n \in Astray : \A m \in Astray : ~(<<m, n>> \in OpToRel(<, Nat))
    BY <2>1, NatLessThanWellFounded, WFMin
  <2>3. n \in Nat /\ Nth[n] # On(o, k, n)
    OBVIOUS
  <2>4. \A m \in Nat : m < n => Nth[m] = On(o, k, m)
    BY <2>2, <2>3 DEF OpToRel
  <2>5. n > 1
    <3>1. n # 0 /\ n # 1
      BY <1>3, <1>5, <1>7, <2>3
    <3>2. QED
      BY <2>3, <3>1
  <2>6. n - 1 \in Nat /\ n - 1 < n
    BY <2>3, <2>5
  <2>7. Nth[n - 1] = On(o, k, n - 1)
    BY <2>4, <2>6
  <2>8. QED
    BY <1>4, <1>7, <2>3, <2>5, <2>7
<1>9. QED
  BY <1>8 DEF k

(* A search gives a block of the list that fits, or NULL when none does.     *)
Hits(S) == {n \in Blocks : Nth[n] \in S}
Least(H) == CHOOSE n \in H : \A m \in H : n <= m

LEMMA LeastIs ==
  ASSUME NEW H \in SUBSET Nat, H # {}
  PROVE  Least(H) \in H /\ \A m \in H : Least(H) <= m
<1>1. PICK x \in H : \A y \in H : ~(<<y, x>> \in OpToRel(<, Nat))
  BY NatLessThanWellFounded, WFMin
<1>2. \A y \in H : ~(y < x)
  BY <1>1 DEF OpToRel
<1>3. \A y \in H : x <= y
  BY <1>2
<1>4. QED
  BY <1>3 DEF Least

LEMMA FirstIs ==
  ASSUME ApListConstants, NEW o, Chained(buf, o), NEW S \in SUBSET Blocks
  PROVE  \/ First(S) = 0 /\ \A n \in 1 .. buf.count : o[n] \notin S
         \/ \E n \in 1 .. buf.count : First(S) = o[n] /\ o[n] \in S
<1>1. First(S) = IF Hits(S) = {} THEN 0 ELSE Nth[Least(Hits(S))]
  BY DEF First, Hits, Least
<1>2. buf.count \in Nat /\ buf.count <= maxBlock /\ maxBlock \in Nat /\ 0 \notin S
  BY ListConstants DEF Chained, Lists
<1>3. \A n \in Blocks : n \in Nat /\ Nth[n] = On(o, buf.count, n)
  BY <1>2, NthIs DEF Blocks
<1>4. \A n \in Hits(S) : n \in 1 .. buf.count /\ o[n] \in S /\ Nth[n] = o[n]
  BY <1>2, <1>3 DEF Hits, On
<1>5. \A n \in 1 .. buf.count : o[n] \in S => n \in Hits(S)
  BY <1>2, <1>3 DEF Hits, On, Blocks
<1>6. CASE Hits(S) = {}
  BY <1>1, <1>5, <1>6
<1>7. CASE Hits(S) # {}
  <2>1. Hits(S) \in SUBSET Nat
    BY <1>3 DEF Hits
  <2>2. Least(Hits(S)) \in Hits(S)
    BY <1>7, <2>1, LeastIs
  <2>3. QED
    BY <1>1, <1>4, <1>7, <2>2
<1>8. QED
  BY <1>6, <1>7

-----------------------------------------------------------------------------
(* Taking a block out of the chain and putting it at the end.                *)

SameData(l, m) ==
  /\ m.count = l.count
  /\ \A c \in Blocks : /\ m.block[c].occupied = l.block[c].occupied
                       /\ m.block[c].index = l.block[c].index
                       /\ m.block[c].bssid = l.block[c].bssid
                       /\ m.block[c].level = l.block[c].level

LEMMA UnlinkIs ==
  ASSUME ApListConstants, NEW l \in Lists, NEW b \in Blocks
  PROVE  LET m == Unlink(l, b)
             before == l.block[b].previous
             behind == l.block[b].next
         IN /\ m \in Lists /\ SameData(l, m)
            /\ m.head = IF before = 0 THEN behind ELSE l.head
            /\ m.tail = IF behind = 0 THEN before ELSE l.tail
            /\ \A c \in Blocks :
                 /\ m.block[c].next = IF c = before THEN behind ELSE l.block[c].next
                 /\ m.block[c].previous = IF c = behind THEN before ELSE l.block[c].previous
<1> DEFINE before == l.block[b].previous
           behind == l.block[b].next
           blocks == [c \in Blocks |->
                        [l.block[c] EXCEPT !.next = IF c = before THEN behind ELSE l.block[c].next,
                                           !.previous = IF c = behind THEN before ELSE l.block[c].previous]]
           m == [l EXCEPT !.head = IF before = 0 THEN behind ELSE l.head,
                          !.tail = IF behind = 0 THEN before ELSE l.tail,
                          !.block = blocks]
<1>1. Unlink(l, b) = m
  BY DEF Unlink
<1>2. before \in Links /\ behind \in Links /\ l.block \in [Blocks -> Block]
  BY DEF Lists, Block
<1> HIDE DEF before, behind
<1>3. \A c \in Blocks :
        /\ blocks[c] \in Block
        /\ blocks[c].next = IF c = before THEN behind ELSE l.block[c].next
        /\ blocks[c].previous = IF c = behind THEN before ELSE l.block[c].previous
        /\ blocks[c].occupied = l.block[c].occupied /\ blocks[c].index = l.block[c].index
        /\ blocks[c].bssid = l.block[c].bssid /\ blocks[c].level = l.block[c].level
  BY <1>2 DEF Block
<1>4. blocks \in [Blocks -> Block]
  BY <1>3
<1> HIDE DEF blocks
<1>5. m \in Lists /\ m.block = blocks /\ m.count = l.count
      /\ m.head = (IF before = 0 THEN behind ELSE l.head) /\ m.tail = (IF behind = 0 THEN before ELSE l.tail)
  BY <1>2, <1>4 DEF Lists
<1> HIDE DEF m
<1>6. SameData(l, m)
  BY <1>3, <1>5 DEF SameData
<1>7. QED
  BY <1>1, <1>3, <1>5, <1>6 DEF before, behind

LEMMA LinkLastIs ==
  ASSUME ApListConstants, NEW l \in Lists, NEW b \in Blocks
  PROVE  LET m == LinkLast(l, b)
         IN /\ m \in Lists /\ SameData(l, m)
            /\ m.head = IF l.tail = 0 THEN b ELSE l.head
            /\ m.tail = b
            /\ \A c \in Blocks :
                 /\ m.block[c].next = IF c = b THEN 0 ELSE IF c = l.tail THEN b ELSE l.block[c].next
                 /\ m.block[c].previous = IF c = b THEN l.tail ELSE l.block[c].previous
<1> DEFINE blocks == [c \in Blocks |->
        IF c = b THEN [l.block[c] EXCEPT !.next = 0, !.previous = l.tail]
        ELSE IF c = l.tail THEN [l.block[c] EXCEPT !.next = b]
        ELSE l.block[c]]
           m == [l EXCEPT !.head = IF l.tail = 0 THEN b ELSE l.head, !.tail = b, !.block = blocks]
<1>1. LinkLast(l, b) = m
  BY DEF LinkLast
<1>2. l.tail \in Links /\ l.head \in Links /\ 0 \in Links /\ b \in Links /\ l.block \in [Blocks -> Block]
  BY ListConstants DEF Lists
<1>3. \A c \in Blocks :
        /\ blocks[c] \in Block
        /\ blocks[c].next = IF c = b THEN 0 ELSE IF c = l.tail THEN b ELSE l.block[c].next
        /\ blocks[c].previous = IF c = b THEN l.tail ELSE l.block[c].previous
        /\ blocks[c].occupied = l.block[c].occupied /\ blocks[c].index = l.block[c].index
        /\ blocks[c].bssid = l.block[c].bssid /\ blocks[c].level = l.block[c].level
  BY <1>2 DEF Block
<1>4. blocks \in [Blocks -> Block]
  BY <1>3
<1> HIDE DEF blocks
<1>5. m \in Lists /\ m.block = blocks /\ m.count = l.count /\ m.tail = b
      /\ m.head = (IF l.tail = 0 THEN b ELSE l.head)
  BY <1>2, <1>4 DEF Lists
<1> HIDE DEF m
<1>6. SameData(l, m)
  BY <1>3, <1>5 DEF SameData
<1>7. QED
  BY <1>1, <1>3, <1>5, <1>6

Drop(o, k, j) == [n \in 1 .. k - 1 |-> IF n < j THEN o[n] ELSE o[n + 1]]
Add(o, k, b)  == [n \in 1 .. k + 1 |-> IF n <= k THEN o[n] ELSE b]
Move(o, k, j) == Add(Drop(o, k, j), k - 1, o[j])

LEMMA UnlinkChain ==
  ASSUME ApListConstants, NEW l \in Lists, NEW k \in Nat, NEW o, Chain(l, o, k), NEW j \in 1 .. k
  PROVE  Chain(Unlink(l, o[j]), Drop(o, k, j), k - 1)
<1> DEFINE p == Drop(o, k, j)
           b == o[j]
           m == Unlink(l, b)
           before == On(o, k, j - 1)
           behind == On(o, k, j + 1)
<1>1. /\ o \in [1 .. k -> Blocks] /\ \A i, n \in 1 .. k : o[i] = o[n] => i = n
      /\ l.head = On(o, k, 1) /\ l.tail = On(o, k, k) /\ 0 \notin Blocks
      /\ \A n \in 1 .. k : l.block[o[n]].previous = On(o, k, n - 1) /\ l.block[o[n]].next = On(o, k, n + 1)
  BY ListConstants DEF Chain
<1>2. \A n \in 1 .. k - 1 : /\ n < j => n \in 1 .. k /\ p[n] = o[n]
                            /\ ~(n < j) => n + 1 \in 1 .. k /\ p[n] = o[n + 1]
  BY DEF Drop
<1>3. b \in Blocks /\ l.block[b].previous = before /\ l.block[b].next = behind
  BY <1>1
<1>4. /\ m.head = IF before = 0 THEN behind ELSE l.head
      /\ m.tail = IF behind = 0 THEN before ELSE l.tail
      /\ \A c \in Blocks :
           /\ m.block[c].next = IF c = before THEN behind ELSE l.block[c].next
           /\ m.block[c].previous = IF c = behind THEN before ELSE l.block[c].previous
  BY <1>3, UnlinkIs
<1>5. p \in [1 .. k - 1 -> Blocks]
  <2>1. \A n \in 1 .. k - 1 : (IF n < j THEN o[n] ELSE o[n + 1]) \in Blocks
    BY <1>1
  <2>2. QED
    BY <2>1 DEF Drop
<1> HIDE DEF p, m, b
<1>6. \A i, n \in 1 .. k - 1 : p[i] = p[n] => i = n
  <2>1. SUFFICES ASSUME NEW i \in 1 .. k - 1, NEW n \in 1 .. k - 1, p[i] = p[n] PROVE i = n
    OBVIOUS
  <2>2. CASE i < j /\ n < j
    BY <1>1, <1>2, <2>1, <2>2
  <2>3. CASE ~(i < j) /\ ~(n < j)
    <3>1. i + 1 = n + 1
      BY <1>1, <1>2, <2>1, <2>3
    <3>2. QED
      BY <3>1
  <2>4. CASE i < j /\ ~(n < j)
    <3>1. i = n + 1
      BY <1>1, <1>2, <2>1, <2>4
    <3>2. QED
      BY <2>4, <3>1
  <2>5. CASE ~(i < j) /\ n < j
    <3>1. i + 1 = n
      BY <1>1, <1>2, <2>1, <2>5
    <3>2. QED
      BY <2>5, <3>1
  <2>6. QED
    BY <2>2, <2>3, <2>4, <2>5
<1>7. \A n \in Int : On(p, k - 1, n) = IF n < j THEN On(o, k, n) ELSE On(o, k, n + 1)
  <2>1. SUFFICES ASSUME NEW n \in Int
                 PROVE  On(p, k - 1, n) = IF n < j THEN On(o, k, n) ELSE On(o, k, n + 1)
    OBVIOUS
  <2>2. CASE n \in 1 .. k - 1
    BY <1>2, <2>2 DEF On
  <2>3. CASE n \notin 1 .. k - 1
    <3>1. n < j => n \notin 1 .. k
      BY <2>3
    <3>2. ~(n < j) => n + 1 \notin 1 .. k
      BY <2>3
    <3>3. QED
      BY <2>3, <3>1, <3>2 DEF On
  <2>4. QED
    BY <2>2, <2>3
<1>8. m.head = On(p, k - 1, 1)
  <2>1. On(p, k - 1, 1) = IF 1 < j THEN On(o, k, 1) ELSE On(o, k, 2)
    BY <1>7
  <2>2. CASE j = 1
    <3>1. before = 0 /\ behind = On(o, k, 2)
      BY <2>2 DEF On
    <3>2. QED
      BY <1>4, <2>1, <2>2, <3>1
  <2>3. CASE j # 1
    <3>1. before # 0 /\ 1 < j
      BY <1>1, <2>3 DEF On
    <3>2. QED
      BY <1>1, <1>4, <2>1, <3>1
  <2>4. QED
    BY <2>2, <2>3
<1>9. m.tail = On(p, k - 1, k - 1)
  <2>1. On(p, k - 1, k - 1) = IF k - 1 < j THEN On(o, k, k - 1) ELSE On(o, k, (k - 1) + 1)
    BY <1>7
  <2>2. CASE j = k
    <3>1. behind = 0 /\ before = On(o, k, k - 1)
      BY <2>2 DEF On
    <3>2. k - 1 < j
      BY <2>2
    <3>3. QED
      BY <1>4, <2>1, <3>1, <3>2
  <2>3. CASE j # k
    <3>1. behind # 0 /\ ~(k - 1 < j) /\ (k - 1) + 1 = k
      BY <1>1, <2>3 DEF On
    <3>2. QED
      BY <1>1, <1>4, <2>1, <3>1
  <2>4. QED
    BY <2>2, <2>3
<1>10. ASSUME NEW n \in 1 .. k - 1
       PROVE  m.block[p[n]].previous = On(p, k - 1, n - 1) /\ m.block[p[n]].next = On(p, k - 1, n + 1)
  <2>1. /\ On(p, k - 1, n - 1) = IF n - 1 < j THEN On(o, k, n - 1) ELSE On(o, k, (n - 1) + 1)
        /\ On(p, k - 1, n + 1) = IF n + 1 < j THEN On(o, k, n + 1) ELSE On(o, k, (n + 1) + 1)
        /\ p[n] \in Blocks
    BY <1>5, <1>7
  <2>2. \A i \in 1 .. k : /\ o[i] = before <=> i = j - 1
                          /\ o[i] = behind <=> i = j + 1
    BY <1>1 DEF On
  <2>3. CASE n < j
    <3>1. n \in 1 .. k /\ p[n] = o[n] /\ n - 1 < j
      BY <1>2, <2>3
    <3>2. l.block[p[n]].previous = On(o, k, n - 1) /\ l.block[p[n]].next = On(o, k, n + 1)
      BY <1>1, <3>1
    <3>3. p[n] # behind
      BY <2>2, <2>3, <3>1
    <3>4. m.block[p[n]].previous = On(p, k - 1, n - 1)
      BY <1>4, <2>1, <3>1, <3>2, <3>3
    <3>5. CASE n = j - 1
      <4>1. p[n] = before /\ ~(n + 1 < j) /\ (n + 1) + 1 = j + 1
        BY <2>2, <3>1, <3>5
      <4>2. QED
        BY <1>4, <2>1, <3>4, <4>1
    <3>6. CASE n # j - 1
      <4>1. p[n] # before /\ n + 1 < j
        BY <2>2, <2>3, <3>1, <3>6
      <4>2. QED
        BY <1>4, <2>1, <3>2, <3>4, <4>1
    <3>7. QED
      BY <3>5, <3>6
  <2>4. CASE ~(n < j)
    <3>1. n + 1 \in 1 .. k /\ p[n] = o[n + 1] /\ ~(n + 1 < j) /\ (n - 1) + 1 = n /\ (n + 1) - 1 = n
      BY <1>2, <2>4
    <3>2. l.block[p[n]].previous = On(o, k, n) /\ l.block[p[n]].next = On(o, k, (n + 1) + 1)
      BY <1>1, <3>1
    <3>3. p[n] # before
      BY <2>2, <2>4, <3>1
    <3>4. m.block[p[n]].next = On(p, k - 1, n + 1)
      BY <1>4, <2>1, <3>1, <3>2, <3>3
    <3>5. CASE n = j
      <4>1. p[n] = behind /\ n - 1 < j /\ n - 1 = j - 1
        BY <2>2, <3>1, <3>5
      <4>2. QED
        BY <1>4, <2>1, <3>4, <4>1
    <3>6. CASE n # j
      <4>1. p[n] # behind /\ ~(n - 1 < j)
        BY <2>2, <2>4, <3>1, <3>6
      <4>2. QED
        BY <1>4, <2>1, <3>1, <3>2, <3>4, <4>1
    <3>7. QED
      BY <3>5, <3>6
  <2>5. QED
    BY <2>3, <2>4
<1>11. QED
  BY <1>5, <1>6, <1>8, <1>9, <1>10 DEF Chain, p, m, b

LEMMA LinkLastChain ==
  ASSUME ApListConstants, NEW l \in Lists, NEW k \in Nat, NEW o, Chain(l, o, k),
         NEW b \in Blocks, \A n \in 1 .. k : o[n] # b
  PROVE  Chain(LinkLast(l, b), Add(o, k, b), k + 1)
<1> DEFINE p == Add(o, k, b)
           m == LinkLast(l, b)
<1>1. /\ o \in [1 .. k -> Blocks] /\ \A i, n \in 1 .. k : o[i] = o[n] => i = n
      /\ l.head = On(o, k, 1) /\ l.tail = On(o, k, k) /\ 0 \notin Blocks
      /\ \A n \in 1 .. k : l.block[o[n]].previous = On(o, k, n - 1) /\ l.block[o[n]].next = On(o, k, n + 1)
  BY ListConstants DEF Chain
<1>2. p[k + 1] = b /\ \A n \in 1 .. k : p[n] = o[n]
  BY DEF Add
<1>3. /\ m.head = IF l.tail = 0 THEN b ELSE l.head
      /\ m.tail = b
      /\ \A c \in Blocks :
           /\ m.block[c].next = IF c = b THEN 0 ELSE IF c = l.tail THEN b ELSE l.block[c].next
           /\ m.block[c].previous = IF c = b THEN l.tail ELSE l.block[c].previous
  BY LinkLastIs
<1>4. p \in [1 .. k + 1 -> Blocks]
  <2>1. \A n \in 1 .. k + 1 : (IF n <= k THEN o[n] ELSE b) \in Blocks
    BY <1>1
  <2>2. QED
    BY <2>1 DEF Add
<1> HIDE DEF p, m
<1>5. \A n \in 1 .. k + 1 : n = k + 1 \/ n \in 1 .. k
  OBVIOUS
<1>6. \A i, n \in 1 .. k + 1 : p[i] = p[n] => i = n
  BY <1>1, <1>2, <1>5
<1>7. \A n \in Int : On(p, k + 1, n) = IF n = k + 1 THEN b ELSE On(o, k, n)
  <2>1. \A n \in Int : n \in 1 .. k + 1 <=> n = k + 1 \/ n \in 1 .. k
    OBVIOUS
  <2>2. k + 1 \notin 1 .. k
    OBVIOUS
  <2>3. QED
    BY <1>2, <2>1, <2>2 DEF On
<1>8. l.tail = 0 <=> k = 0
  BY <1>1 DEF On
<1>9. m.head = On(p, k + 1, 1)
  <2>1. On(p, k + 1, 1) = IF 1 = k + 1 THEN b ELSE On(o, k, 1)
    BY <1>7
  <2>2. QED
    BY <1>1, <1>3, <1>8, <2>1
<1>10. m.tail = On(p, k + 1, k + 1)
  BY <1>3, <1>7
<1>11. ASSUME NEW n \in 1 .. k + 1
       PROVE  m.block[p[n]].previous = On(p, k + 1, n - 1) /\ m.block[p[n]].next = On(p, k + 1, n + 1)
  <2>1. /\ On(p, k + 1, n - 1) = On(o, k, n - 1)
        /\ On(p, k + 1, n + 1) = IF n + 1 = k + 1 THEN b ELSE On(o, k, n + 1)
    <3>1. n - 1 \in Int /\ n + 1 \in Int /\ n - 1 # k + 1
      OBVIOUS
    <3>2. QED
      BY <1>7, <3>1
  <2>2. CASE n = k + 1
    <3>1. p[n] = b /\ n - 1 = k /\ n + 1 # k + 1 /\ On(o, k, n + 1) = 0
      BY <1>2, <2>2 DEF On
    <3>2. QED
      BY <1>1, <1>3, <2>1, <3>1
  <2>3. CASE n \in 1 .. k
    <3>1. p[n] = o[n] /\ p[n] # b /\ p[n] \in Blocks
      BY <1>1, <1>2, <2>3
    <3>2. l.block[p[n]].previous = On(o, k, n - 1) /\ l.block[p[n]].next = On(o, k, n + 1)
      BY <1>1, <2>3, <3>1
    <3>3. p[n] = l.tail <=> n = k
      BY <1>1, <2>3, <3>1 DEF On
    <3>4. n + 1 = k + 1 <=> n = k
      OBVIOUS
    <3>5. m.block[p[n]].previous = On(p, k + 1, n - 1)
      BY <1>3, <2>1, <3>1, <3>2
    <3>6. m.block[p[n]].next = On(p, k + 1, n + 1)
      BY <1>3, <2>1, <3>1, <3>2, <3>3, <3>4
    <3>7. QED
      BY <3>5, <3>6
  <2>4. QED
    BY <1>5, <2>2, <2>3
<1>12. QED
  BY <1>4, <1>6, <1>9, <1>10, <1>11 DEF Chain, p, m

(* A block of the list moves to its end.                                     *)
LEMMA MoveIs ==
  ASSUME ApListConstants, NEW l, NEW o, Chained(l, o), NEW j \in 1 .. l.count
  PROVE  /\ Chained(WcmAppendApList(l, o[j]), Move(o, l.count, j))
         /\ SameData(l, WcmAppendApList(l, o[j]))
<1> DEFINE k == l.count
           b == o[j]
           u == Unlink(l, b)
           m == LinkLast(u, b)
           p == Drop(o, k, j)
           q == Add(p, k - 1, b)
<1>1. /\ l \in Lists /\ k \in Nat /\ Chain(l, o, k) /\ b \in Blocks
      /\ o \in [1 .. k -> Blocks] /\ \A i, n \in 1 .. k : o[i] = o[n] => i = n
  <2>1. b \in Blocks
    BY LinkedIs
  <2>2. QED
    BY <2>1, LinkedIs
<1>2. u \in Lists /\ SameData(l, u) /\ Chain(u, p, k - 1)
  BY <1>1, UnlinkIs, UnlinkChain
<1>3. \A n \in 1 .. k - 1 : p[n] # b /\ p[n] \in Blocks
  <2>1. SUFFICES ASSUME NEW n \in 1 .. k - 1 PROVE p[n] # b /\ p[n] \in Blocks
    OBVIOUS
  <2>2. CASE n < j
    <3>1. p[n] = o[n] /\ n \in 1 .. k /\ n # j
      BY <1>1, <2>2 DEF Drop
    <3>2. QED
      BY <1>1, <3>1
  <2>3. CASE ~(n < j)
    <3>1. p[n] = o[n + 1] /\ n + 1 \in 1 .. k /\ n + 1 # j
      BY <1>1, <2>3 DEF Drop
    <3>2. QED
      BY <1>1, <3>1
  <2>4. QED
    BY <2>2, <2>3
<1>4. k - 1 \in Nat /\ (k - 1) + 1 = k
  BY <1>1
<1> HIDE DEF p, u
<1>5. m \in Lists /\ SameData(u, m)
  BY <1>1, <1>2, LinkLastIs
<1>6. Chain(m, q, k)
  <2>1. Chain(m, q, (k - 1) + 1)
    BY <1>1, <1>2, <1>3, <1>4, LinkLastChain
  <2>2. QED
    BY <1>4, <2>1
<1>7. SameData(l, m) /\ m.count = k
  BY <1>2, <1>5 DEF SameData
<1>8. \A c \in Blocks : (\E n \in 1 .. k : q[n] = c) <=> (\E n \in 1 .. k : o[n] = c)
  <2>1. q[k] = b /\ \A n \in 1 .. k - 1 : q[n] = p[n]
    BY <1>1, <1>4 DEF Add
  <2>2. \A n \in 1 .. k - 1 : (n < j => p[n] = o[n]) /\ (~(n < j) => p[n] = o[n + 1])
    BY <1>1 DEF p, Drop
  <2>3. ASSUME NEW n \in 1 .. k PROVE \E i \in 1 .. k : o[i] = q[n]
    <3>1. CASE n = k
      BY <2>1, <3>1
    <3>2. CASE n # k
      <4>1. n \in 1 .. k - 1 /\ n \in 1 .. k /\ n + 1 \in 1 .. k
        BY <1>1, <3>2
      <4>2. QED
        BY <2>1, <2>2, <4>1
    <3>3. QED
      BY <3>1, <3>2
  <2>4. ASSUME NEW n \in 1 .. k PROVE \E i \in 1 .. k : q[i] = o[n]
    <3>1. CASE n < j
      <4>1. n \in 1 .. k - 1 /\ n \in 1 .. k
        BY <1>1, <3>1
      <4>2. QED
        BY <2>1, <2>2, <3>1, <4>1
    <3>2. CASE n = j
      <4>1. k \in 1 .. k
        BY <1>1
      <4>2. QED
        BY <2>1, <3>2, <4>1
    <3>3. CASE n > j
      <4>1. n - 1 \in 1 .. k - 1 /\ n - 1 \in 1 .. k /\ ~(n - 1 < j) /\ (n - 1) + 1 = n
        BY <1>1, <3>3
      <4>2. q[n - 1] = o[n]
        BY <2>1, <2>2, <4>1
      <4>3. QED
        BY <4>1, <4>2
    <3>4. QED
      BY <3>1, <3>2, <3>3
  <2>5. QED
    BY <2>3, <2>4
<1> HIDE DEF k, b, m, q
<1>9. \A c \in Blocks : m.block[c].occupied <=> \E n \in 1 .. m.count : q[n] = c
  <2>1. \A c \in Blocks : l.block[c].occupied <=> \E n \in 1 .. k : o[n] = c
    BY DEF Chained, k
  <2>2. m.count = k /\ \A c \in Blocks : m.block[c].occupied = l.block[c].occupied
    BY <1>7 DEF SameData, k
  <2>3. QED
    BY <1>8, <2>1, <2>2
<1>10. {m.block[c].index : c \in {d \in Blocks : m.block[d].occupied}} = 0 .. m.count - 1
  <2>1. {m.block[c].index : c \in {d \in Blocks : m.block[d].occupied}}
          = {l.block[c].index : c \in {d \in Blocks : l.block[d].occupied}}
    BY <1>7 DEF SameData
  <2>2. QED
    BY <1>7, <2>1 DEF Chained, k
<1>11. Chained(m, q)
  BY <1>5, <1>6, <1>7, <1>9, <1>10 DEF Chained
<1>12. QED
  BY <1>7, <1>11 DEF WcmAppendApList, Move, k, b, m, q, u, p

(* The labels of a block are written.                                        *)
Label(l, b, x, v) == [l EXCEPT !.block[b].bssid = x, !.block[b].level = v]

LEMMA LabelIs ==
  ASSUME ApListConstants, NEW l, NEW o, Chained(l, o), NEW b \in Blocks, NEW x \in Bssids,
         NEW v \in Levels, Labelled(l, b),
         \A c \in Blocks \ {b} : l.block[c].occupied => l.block[c].bssid # x
  PROVE  LET m == Label(l, b, x, v)
         IN /\ Chained(m, o) /\ Labelled(m, 0) /\ m.count = l.count /\ m.head = l.head
            /\ m.block[b].bssid = x /\ m.block[b].level = v
            /\ \A c \in Blocks \ {b} : m.block[c].bssid = l.block[c].bssid /\ m.block[c].level = l.block[c].level
<1> DEFINE m == Label(l, b, x, v)
           w == [l.block[b] EXCEPT !.bssid = x, !.level = v]
<1>1. l \in Lists /\ l.block \in [Blocks -> Block] /\ l.block[b] \in Block
  BY DEF Chained, Lists
<1>2. /\ w \in Block /\ w.bssid = x /\ w.level = v /\ w.occupied = l.block[b].occupied
      /\ w.index = l.block[b].index /\ w.previous = l.block[b].previous /\ w.next = l.block[b].next
  BY <1>1 DEF Block
<1>3. m = [l EXCEPT !.block = [l.block EXCEPT ![b] = w]]
  BY <1>1 DEF Label, Lists, Block
<1> HIDE DEF w
<1>4. /\ m \in Lists /\ m.count = l.count /\ m.head = l.head /\ m.tail = l.tail
      /\ m.block[b] = w /\ \A c \in Blocks \ {b} : m.block[c] = l.block[c]
  BY <1>1, <1>2, <1>3 DEF Lists
<1> HIDE DEF m
<1>5. \A c \in Blocks : /\ m.block[c].occupied = l.block[c].occupied
                        /\ m.block[c].index = l.block[c].index
                        /\ m.block[c].previous = l.block[c].previous
                        /\ m.block[c].next = l.block[c].next
  BY <1>2, <1>4
<1>6. {m.block[c].index : c \in {d \in Blocks : m.block[d].occupied}}
        = {l.block[c].index : c \in {d \in Blocks : l.block[d].occupied}}
  BY <1>5
<1>7. Chain(m, o, m.count)
  BY <1>4, <1>5 DEF Chained, Chain
<1>8. Chained(m, o)
  BY <1>4, <1>5, <1>6, <1>7 DEF Chained
<1>9. Labelled(m, 0)
  BY <1>2, <1>4, <1>5 DEF Labelled
<1>10. QED
  BY <1>2, <1>4, <1>8, <1>9 DEF m

(* A list that is not full has an empty block.                              *)
LEMMA SomeEmpty ==
  ASSUME ApListConstants, NEW o, Chained(buf, o), buf.count < maxBlock
  PROVE  EmptyBlocks # {}
<1> DEFINE k == buf.count
<1>1. /\ k \in Nat /\ maxBlock \in Nat /\ Blocks = 1 .. maxBlock
      /\ \A b \in Blocks : buf.block[b].occupied <=> \E n \in 1 .. k : o[n] = b
  BY ListConstants DEF Chained, Lists, Blocks
<1>2. SUFFICES ASSUME EmptyBlocks = {} PROVE FALSE
  OBVIOUS
<1>3. \A b \in Blocks : \E n \in 1 .. k : o[n] = b
  BY <1>1, <1>2 DEF EmptyBlocks
<1> HIDE DEF k
<1>4. PICK f \in [Blocks -> 1 .. k] : \A b \in Blocks : o[f[b]] = b
  <2>1. [b \in Blocks |-> CHOOSE n \in 1 .. k : o[n] = b] \in [Blocks -> 1 .. k]
    BY <1>3
  <2>2. \A b \in Blocks : o[[c \in Blocks |-> CHOOSE n \in 1 .. k : o[n] = c][b]] = b
    BY <1>3
  <2>3. QED
    BY <2>1, <2>2
<1>5. IsFiniteSet(1 .. k) /\ Cardinality(1 .. k) = k /\ IsFiniteSet(Blocks) /\ Cardinality(Blocks) = maxBlock
  BY <1>1, FS_Interval
<1>6. Cardinality(1 .. k) < Cardinality(Blocks)
  BY <1>5 DEF k
<1>7. \E x, y \in Blocks : x # y /\ f[x] = f[y]
  BY <1>5, <1>6, FS_PigeonHole
<1>8. QED
  BY <1>4, <1>7

(* The new block joins the end under the next index.                         *)
LEMMA AllocIs ==
  ASSUME ApListConstants, NEW o, Chained(buf, o), Labelled(buf, 0), buf.count < maxBlock
  PROVE  LET b == WcmAllocApList.to
             m == WcmAllocApList.list
         IN /\ b \in Blocks /\ ~buf.block[b].occupied
            /\ Chained(m, Add(o, buf.count, b)) /\ Labelled(m, b) /\ m.count = buf.count + 1
            /\ \A c \in Blocks : /\ m.block[c].bssid = buf.block[c].bssid
                                 /\ m.block[c].level = buf.block[c].level
                                 /\ c # b => m.block[c].occupied = buf.block[c].occupied
<1> DEFINE k == buf.count
           b == Least(EmptyBlocks)
           w == [buf.block[b] EXCEPT !.occupied = TRUE, !.index = k]
           l == [buf EXCEPT !.block = [buf.block EXCEPT ![b] = w]]
           n == LinkLast(l, b)
           m == [n EXCEPT !.count = @ + 1]
<1>1. /\ buf \in Lists /\ k \in Nat /\ k < maxBlock /\ maxBlock \in Nat /\ Chain(buf, o, k)
      /\ buf.block \in [Blocks -> Block]
  BY ListConstants DEF Chained, Lists
<1>2. EmptyBlocks # {} /\ b \in EmptyBlocks
  <2>1. EmptyBlocks # {} /\ EmptyBlocks \in SUBSET Nat
    BY SomeEmpty DEF EmptyBlocks, Blocks
  <2>2. QED
    BY <2>1, LeastIs
<1>3. b \in Blocks /\ ~buf.block[b].occupied
  BY <1>2 DEF EmptyBlocks
<1>4. WcmAllocApList = [to |-> b, list |-> m]
  <2>1. [buf EXCEPT !.block[b].occupied = TRUE, !.block[b].index = buf.count] = l
    BY <1>1, <1>3 DEF Lists, Block
  <2>2. b = CHOOSE e \in EmptyBlocks : \A c \in EmptyBlocks : e <= c
    BY DEF Least
  <2>3. ~(buf.count >= maxBlock)
    BY <1>1
  <2> HIDE DEF b, l, k
  <2>4. QED
    BY <1>2, <2>1, <2>2, <2>3 DEF WcmAllocApList
<1> HIDE DEF b
<1>5. /\ w \in Block /\ w.occupied = TRUE /\ w.index = k /\ w.bssid = buf.block[b].bssid
      /\ w.level = buf.block[b].level /\ w.next = buf.block[b].next /\ w.previous = buf.block[b].previous
  <2>1. k \in 0 .. maxBlock /\ buf.block[b] \in Block
    BY <1>1, <1>3
  <2>2. QED
    BY <2>1 DEF Block
<1> HIDE DEF w
<1>6. /\ l \in Lists /\ l.count = k /\ l.head = buf.head /\ l.tail = buf.tail
      /\ l.block[b] = w /\ \A c \in Blocks \ {b} : l.block[c] = buf.block[c]
  BY <1>1, <1>3, <1>5 DEF Lists
<1> HIDE DEF l
<1>7. \A i \in 1 .. k : o[i] # b /\ o[i] \in Blocks
  BY <1>1, <1>3 DEF Chained, Chain
<1>8. Chain(l, o, k)
  BY <1>1, <1>6, <1>7 DEF Chain
<1>9. n \in Lists /\ SameData(l, n) /\ Chain(n, Add(o, k, b), k + 1)
  BY <1>1, <1>3, <1>6, <1>7, <1>8, LinkLastIs, LinkLastChain
<1> HIDE DEF n
<1>10. /\ m \in Lists /\ m.count = k + 1 /\ m.block = n.block /\ m.head = n.head /\ m.tail = n.tail
  <2>1. n.count = k /\ k + 1 \in 0 .. maxBlock
    BY <1>1, <1>6, <1>9 DEF SameData
  <2>2. QED
    BY <1>9, <2>1 DEF Lists
<1> HIDE DEF m
<1>11. Chain(m, Add(o, k, b), m.count)
  BY <1>9, <1>10 DEF Chain
<1>12. /\ m.block[b].occupied /\ m.block[b].index = k
       /\ \A c \in Blocks : /\ m.block[c].bssid = buf.block[c].bssid
                            /\ m.block[c].level = buf.block[c].level
                            /\ c # b => /\ m.block[c].occupied = buf.block[c].occupied
                                        /\ m.block[c].index = buf.block[c].index
  BY <1>3, <1>5, <1>6, <1>9, <1>10 DEF SameData
<1>13. \A c \in Blocks : m.block[c].occupied <=> \E i \in 1 .. m.count : Add(o, k, b)[i] = c
  <2>1. Add(o, k, b)[k + 1] = b /\ \A i \in 1 .. k : Add(o, k, b)[i] = o[i]
    BY <1>1 DEF Add
  <2>2. \A i \in 1 .. k + 1 : i = k + 1 \/ i \in 1 .. k
    BY <1>1
  <2>3. k + 1 \in 1 .. k + 1 /\ \A i \in 1 .. k : i \in 1 .. k + 1
    BY <1>1
  <2>4. \A c \in Blocks : buf.block[c].occupied <=> \E i \in 1 .. k : o[i] = c
    BY DEF Chained
  <2>5. ASSUME NEW c \in Blocks, c # b PROVE m.block[c].occupied <=> \E i \in 1 .. k + 1 : Add(o, k, b)[i] = c
    BY <1>12, <2>1, <2>2, <2>3, <2>4, <2>5
  <2>6. m.block[b].occupied <=> \E i \in 1 .. k + 1 : Add(o, k, b)[i] = b
    BY <1>12, <2>1, <2>3
  <2>7. QED
    BY <1>10, <2>5, <2>6
<1>14. {m.block[c].index : c \in {d \in Blocks : m.block[d].occupied}} = 0 .. m.count - 1
  <2>1. {buf.block[c].index : c \in {d \in Blocks : buf.block[d].occupied}} = 0 .. k - 1
    BY DEF Chained
  <2>2. {m.block[c].index : c \in {d \in Blocks : m.block[d].occupied}}
          = {buf.block[c].index : c \in {d \in Blocks : buf.block[d].occupied}} \cup {k}
    BY <1>3, <1>12
  <2>3. 0 .. (k + 1) - 1 = (0 .. k - 1) \cup {k}
    BY <1>1
  <2>4. QED
    BY <1>10, <2>1, <2>2, <2>3
<1>15. Chained(m, Add(o, k, b))
  BY <1>10, <1>11, <1>13, <1>14 DEF Chained
<1>16. Labelled(m, b)
  <2>1. 0 \notin Blocks
    BY ListConstants
  <2>2. QED
    BY <1>3, <1>12, <2>1 DEF Labelled
<1>17. QED
  BY <1>3, <1>4, <1>10, <1>12, <1>15, <1>16

-----------------------------------------------------------------------------
(* What the list shows, in its order.                                        *)

Entries == [bssid : Bssids \cup {NoBssid}, level : Levels \cup {0}]
SeenOf(l, o) == [n \in 1 .. l.count |-> [bssid |-> l.block[o[n]].bssid, level |-> l.block[o[n]].level]]
Cut(S, j) == SubSeq(S, 1, j - 1) \o SubSeq(S, j + 1, Len(S))

LEMMA SeenType ==
  ASSUME ApListConstants, NEW l, NEW o, Chained(l, o)
  PROVE  /\ SeenOf(l, o) \in Seq(Entries)
         /\ Len(SeenOf(l, o)) = l.count /\ l.count \in Nat
         /\ \A n \in 1 .. l.count : SeenOf(l, o)[n] = [bssid |-> l.block[o[n]].bssid, level |-> l.block[o[n]].level]
<1> DEFINE k == l.count
<1>1. k \in Nat /\ \A n \in 1 .. k : o[n] \in Blocks /\ l.block[o[n]] \in Block
  <2>1. l \in Lists /\ Chain(l, o, k)
    BY DEF Chained
  <2> HIDE DEF k
  <2>2. k \in 0 .. maxBlock /\ l.block \in [Blocks -> Block]
    BY <2>1 DEF Lists, k
  <2>3. o \in [1 .. k -> Blocks]
    BY <2>1 DEF Chain
  <2>4. QED
    BY <2>2, <2>3, ListConstants
<1> HIDE DEF k
<1> DEFINE S == [n \in 1 .. k |-> [bssid |-> l.block[o[n]].bssid, level |-> l.block[o[n]].level]]
<1>2. \A n \in 1 .. k : [bssid |-> l.block[o[n]].bssid, level |-> l.block[o[n]].level] \in Entries
  BY <1>1 DEF Block, Entries
<1>3. S \in [1 .. k -> Entries]
  BY <1>2
<1>4. S \in Seq(Entries)
  BY <1>1, <1>3
<1>5. Len(S) = k
  BY <1>1, <1>3, <1>4, LenProperties
<1>6. S = SeenOf(l, o)
  BY DEF SeenOf, k
<1>7. \A n \in 1 .. k : S[n] = [bssid |-> l.block[o[n]].bssid, level |-> l.block[o[n]].level]
  OBVIOUS
<1>8. QED
  BY <1>1, <1>4, <1>5, <1>6, <1>7 DEF k

LEMMA CutIs ==
  ASSUME NEW E, NEW S \in Seq(E), NEW j \in 1 .. Len(S)
  PROVE  /\ Cut(S, j) \in Seq(E) /\ Len(Cut(S, j)) = Len(S) - 1
         /\ \A n \in 1 .. Len(S) - 1 : Cut(S, j)[n] = IF n < j THEN S[n] ELSE S[n + 1]
<1> DEFINE A == SubSeq(S, 1, j - 1)
           B == SubSeq(S, j + 1, Len(S))
<1>1. Len(S) \in Nat /\ j \in Nat /\ j >= 1 /\ j <= Len(S)
  OBVIOUS
<1>2. A \in Seq(E) /\ Len(A) = j - 1 /\ \A i \in 1 .. j - 1 : A[i] = S[i]
  BY <1>1
<1>3. B \in Seq(E) /\ Len(B) = Len(S) - j /\ \A i \in 1 .. Len(S) - j : B[i] = S[j + i]
  BY <1>1
<1> HIDE DEF A, B
<1>4. /\ A \o B \in Seq(E) /\ Len(A \o B) = Len(A) + Len(B)
      /\ \A i \in 1 .. Len(A) + Len(B) : (A \o B)[i] = IF i <= Len(A) THEN A[i] ELSE B[i - Len(A)]
  BY <1>2, <1>3, ConcatProperties
<1>5. Len(A) + Len(B) = Len(S) - 1
  BY <1>1, <1>2, <1>3
<1>6. ASSUME NEW n \in 1 .. Len(S) - 1 PROVE (A \o B)[n] = IF n < j THEN S[n] ELSE S[n + 1]
  <2>1. (A \o B)[n] = IF n <= j - 1 THEN A[n] ELSE B[n - (j - 1)]
    BY <1>2, <1>4, <1>5
  <2>2. CASE n < j
    <3>1. n <= j - 1 /\ n \in 1 .. j - 1
      BY <1>1, <2>2
    <3>2. QED
      BY <1>2, <2>1, <2>2, <3>1
  <2>3. CASE ~(n < j)
    <3>1. ~(n <= j - 1) /\ n - (j - 1) \in 1 .. Len(S) - j /\ j + (n - (j - 1)) = n + 1
      BY <1>1, <2>3
    <3>2. QED
      BY <1>3, <2>1, <2>3, <3>1
  <2>4. QED
    BY <2>2, <2>3
<1>7. QED
  BY <1>4, <1>5, <1>6 DEF Cut, A, B

(* A labelled block moves to the end: its entry is the last, the others      *)
(* close up.                                                                 *)
LEMMA EnterIs ==
  ASSUME ApListConstants, NEW l, NEW o, Chained(l, o), NEW j \in 1 .. l.count, NEW x \in Bssids,
         NEW v \in Levels, Labelled(l, o[j]),
         \A c \in Blocks \ {o[j]} : l.block[c].occupied => l.block[c].bssid # x
  PROVE  LET m == WcmAppendApList(Label(l, o[j], x, v), o[j])
             p == Move(o, l.count, j)
         IN /\ Chained(m, p) /\ Labelled(m, 0) /\ m.count = l.count
            /\ SeenOf(m, p) = Append(Cut(SeenOf(l, o), j), [bssid |-> x, level |-> v])
<1> DEFINE k == l.count
           b == o[j]
           w == Label(l, b, x, v)
           m == WcmAppendApList(w, b)
           p == Move(o, k, j)
           S == SeenOf(l, o)
           T == SeenOf(m, p)
           new == [bssid |-> x, level |-> v]
<1>1. /\ k \in Nat /\ b \in Blocks /\ o \in [1 .. k -> Blocks]
      /\ \A i, n \in 1 .. k : o[i] = o[n] => i = n
  <2>1. b \in Blocks
    BY LinkedIs
  <2>2. QED
    BY <2>1, LinkedIs
<1>2. /\ Chained(w, o) /\ Labelled(w, 0) /\ w.count = k
      /\ w.block[b].bssid = x /\ w.block[b].level = v
      /\ \A c \in Blocks \ {b} : w.block[c].bssid = l.block[c].bssid /\ w.block[c].level = l.block[c].level
  BY <1>1, LabelIs
<1> HIDE DEF w
<1>3. Chained(m, p) /\ SameData(w, m) /\ m.count = k
  <2>1. j \in 1 .. w.count
    BY <1>2
  <2>2. Chained(m, Move(o, w.count, j)) /\ SameData(w, m)
    BY <1>2, <2>1, MoveIs
  <2>3. QED
    BY <1>2, <2>2 DEF SameData
<1> HIDE DEF m
<1>4. Labelled(m, 0)
  BY <1>2, <1>3 DEF Labelled, SameData
<1>5. /\ S \in Seq(Entries) /\ Len(S) = k
      /\ \A n \in 1 .. k : S[n] = [bssid |-> l.block[o[n]].bssid, level |-> l.block[o[n]].level]
  <2>1. Chained(l, o)
    OBVIOUS
  <2>2. /\ SeenOf(l, o) \in Seq(Entries) /\ Len(SeenOf(l, o)) = l.count
        /\ \A n \in 1 .. l.count : SeenOf(l, o)[n] = [bssid |-> l.block[o[n]].bssid, level |-> l.block[o[n]].level]
    BY ONLY ApListConstants, <2>1, SeenType
  <2>3. QED
    BY <2>2
<1>6. /\ T \in Seq(Entries) /\ Len(T) = k
      /\ \A n \in 1 .. k : T[n] = [bssid |-> m.block[p[n]].bssid, level |-> m.block[p[n]].level]
  BY <1>3, SeenType
<1> HIDE DEF S, T
<1>7. /\ Cut(S, j) \in Seq(Entries) /\ Len(Cut(S, j)) = k - 1
      /\ \A n \in 1 .. k - 1 : Cut(S, j)[n] = IF n < j THEN S[n] ELSE S[n + 1]
  <2>1. S \in Seq(Entries) /\ j \in 1 .. Len(S)
    BY <1>5
  <2>2. QED
    BY <1>5, <2>1, CutIs
<1>8. new \in Entries
  BY DEF Entries
<1>9. /\ Append(Cut(S, j), new) \in Seq(Entries) /\ Len(Append(Cut(S, j), new)) = k
      /\ \A n \in 1 .. k - 1 : Append(Cut(S, j), new)[n] = Cut(S, j)[n]
      /\ Append(Cut(S, j), new)[k] = new
  <2>1. (k - 1) + 1 = k
    BY <1>1
  <2> HIDE DEF new
  <2>2. QED
    BY <1>7, <1>8, <2>1, AppendProperties
<1>10. p[k] = b /\ \A n \in 1 .. k - 1 : p[n] = IF n < j THEN o[n] ELSE o[n + 1]
  BY <1>1 DEF Move, Add, Drop
<1> HIDE DEF p
<1>11. T[k] = new
  <2>1. k \in 1 .. k
    BY <1>1
  <2>2. T[k] = [bssid |-> m.block[b].bssid, level |-> m.block[b].level]
    BY <1>6, <1>10, <2>1
  <2>3. QED
    BY <1>1, <1>2, <1>3, <2>2 DEF SameData
<1>12. ASSUME NEW n \in 1 .. k - 1 PROVE T[n] = Cut(S, j)[n]
  <2>1. PICK i \in 1 .. k : i = IF n < j THEN n ELSE n + 1
    <3>1. n \in 1 .. k /\ n + 1 \in 1 .. k
      BY <1>1
    <3>2. QED
      BY <3>1
  <2>2. p[n] = o[i] /\ Cut(S, j)[n] = S[i] /\ i # j
    <3>1. p[n] = o[i] /\ Cut(S, j)[n] = S[i]
      BY <1>7, <1>10, <2>1
    <3>2. i # j
      BY <2>1
    <3>3. QED
      BY <3>1, <3>2
  <2>3. o[i] \in Blocks \ {b}
    BY <1>1, <2>2
  <2>4. n \in 1 .. k
    BY <1>1
  <2>5. T[n] = [bssid |-> m.block[o[i]].bssid, level |-> m.block[o[i]].level]
    BY <1>6, <2>2, <2>4
  <2>6. m.block[o[i]].bssid = l.block[o[i]].bssid /\ m.block[o[i]].level = l.block[o[i]].level
    BY <1>2, <1>3, <2>3 DEF SameData
  <2>7. QED
    BY <1>5, <2>2, <2>5, <2>6
<1>13. T = Append(Cut(S, j), new)
  <2>1. \A n \in 1 .. k : T[n] = Append(Cut(S, j), new)[n]
    <3>1. \A n \in 1 .. k : n = k \/ n \in 1 .. k - 1
      BY <1>1
    <3>2. QED
      BY <1>9, <1>11, <1>12, <3>1
  <2> HIDE DEF new
  <2>2. QED
    BY <1>6, <1>9, <2>1, SeqEqual
<1>14. QED
  BY <1>3, <1>4, <1>13 DEF k, b, w, m, p, S, T

-----------------------------------------------------------------------------
(* An access point comes: where it goes, and what the list shows then.       *)

ShownAt(S, i, x) == i \in 1 .. Len(S) /\ S[i].bssid = x
Sees(S, T, x, v) ==
  LET new == [bssid |-> x, level |-> v] IN
  \/ \E i \in 1 .. Len(S) : ShownAt(S, i, x) /\ T = Append(Cut(S, i), new)
  \/ (\A i : ~ShownAt(S, i, x)) /\ Len(S) < maxBlock /\ T = Append(S, new)
  \/ (\A i : ~ShownAt(S, i, x)) /\ Len(S) = maxBlock /\ maxBlock > 0 /\ T = Append(Tail(S), new)

Enters(o, x, v) ==
  \E p : Chained(buf', p) /\ Labelled(buf', 0) /\ Sees(SeenOf(buf, o), SeenOf(buf', p), x, v)

LEMMA SearchIs ==
  ASSUME ApListConstants, NEW o, Chained(buf, o), NEW x
  PROVE  LET known == WcmSearchApList(x) IN
         \/ known = 0 /\ \A n \in 1 .. buf.count : buf.block[o[n]].bssid # x
         \/ known # 0 /\ \E n \in 1 .. buf.count : known = o[n] /\ buf.block[o[n]].bssid = x
<1> DEFINE B == {b \in Blocks : buf.block[b].bssid = x}
<1>1. \A n \in 1 .. buf.count : o[n] \in Blocks /\ o[n] # 0
  BY ListConstants DEF Chained, Chain
<1>2. \A n \in 1 .. buf.count : o[n] \in B <=> buf.block[o[n]].bssid = x
  BY <1>1
<1>3. B \in SUBSET Blocks
  OBVIOUS
<1>4. WcmSearchApList(x) = First(B)
  BY DEF WcmSearchApList
<1> HIDE DEF B
<1>5. \/ First(B) = 0 /\ \A n \in 1 .. buf.count : o[n] \notin B
      \/ \E n \in 1 .. buf.count : First(B) = o[n] /\ o[n] \in B
  BY <1>3, FirstIs
<1>6. QED
  BY <1>1, <1>2, <1>4, <1>5

(* A known access point is moved,                                            *)
LEMMA KnownEnters ==
  ASSUME ApListConstants, NEW o, Chained(buf, o), Labelled(buf, 0), NEW x \in Bssids, NEW v \in Levels,
         WCMi_EntryApList(x, v), WcmSearchApList(x) # 0
  PROVE  Enters(o, x, v)
<1>1. PICK j \in 1 .. buf.count : WcmSearchApList(x) = o[j] /\ buf.block[o[j]].bssid = x
  BY SearchIs
<1>2. buf' = WcmAppendApList(Label(buf, o[j], x, v), o[j])
  <2>1. Place(x) = [to |-> o[j], list |-> buf]
    BY <1>1 DEF Place
  <2>2. Place(x).to = o[j] /\ Place(x).list = buf
    BY <2>1
  <2>3. QED
    BY <2>2 DEF WCMi_EntryApList, Label
<1>3. o[j] \in Blocks /\ 0 \notin Blocks /\ buf.block[o[j]].occupied
  BY ListConstants DEF Chained, Chain
<1>4. Labelled(buf, o[j])
  BY <1>3 DEF Labelled
<1>5. \A c \in Blocks \ {o[j]} : buf.block[c].occupied => buf.block[c].bssid # x
  BY <1>1, <1>3 DEF Labelled
<1>6. /\ Chained(buf', Move(o, buf.count, j)) /\ Labelled(buf', 0)
      /\ SeenOf(buf', Move(o, buf.count, j)) = Append(Cut(SeenOf(buf, o), j), [bssid |-> x, level |-> v])
  BY <1>2, <1>4, <1>5, EnterIs
<1>7. /\ Len(SeenOf(buf, o)) = buf.count
      /\ SeenOf(buf, o)[j] = [bssid |-> buf.block[o[j]].bssid, level |-> buf.block[o[j]].level]
  BY SeenType
<1>8. j \in 1 .. Len(SeenOf(buf, o)) /\ ShownAt(SeenOf(buf, o), j, x)
  BY <1>1, <1>7 DEF ShownAt
<1>9. Sees(SeenOf(buf, o), SeenOf(buf', Move(o, buf.count, j)), x, v)
  BY <1>6, <1>8 DEF Sees
<1>10. QED
  BY <1>6, <1>9 DEF Enters

LEMMA Unnamed ==
  ASSUME ApListConstants, NEW o, Chained(buf, o), NEW x, WcmSearchApList(x) = 0
  PROVE  /\ \A i : ~ShownAt(SeenOf(buf, o), i, x)
         /\ \A c \in Blocks : buf.block[c].occupied => buf.block[c].bssid # x
<1>1. \A n \in 1 .. buf.count : buf.block[o[n]].bssid # x
  BY SearchIs
<1>2. /\ Len(SeenOf(buf, o)) = buf.count
      /\ \A n \in 1 .. buf.count :
           SeenOf(buf, o)[n] = [bssid |-> buf.block[o[n]].bssid, level |-> buf.block[o[n]].level]
  BY SeenType
<1>3. ASSUME NEW i, ShownAt(SeenOf(buf, o), i, x) PROVE FALSE
  <2>1. i \in 1 .. buf.count /\ SeenOf(buf, o)[i].bssid = x
    BY <1>2, <1>3 DEF ShownAt
  <2>2. SeenOf(buf, o)[i] = [bssid |-> buf.block[o[i]].bssid, level |-> buf.block[o[i]].level]
    BY <1>2, <2>1
  <2>3. QED
    BY <1>1, <2>1, <2>2
<1>4. \A c \in Blocks : buf.block[c].occupied <=> \E n \in 1 .. buf.count : o[n] = c
  BY DEF Chained
<1>5. \A i : ~ShownAt(SeenOf(buf, o), i, x)
  BY <1>3
<1>6. QED
  BY <1>1, <1>4, <1>5

(* a new one takes an empty block,                                           *)
LEMMA NewEnters ==
  ASSUME ApListConstants, NEW o, Chained(buf, o), Labelled(buf, 0), NEW x \in Bssids, NEW v \in Levels,
         WCMi_EntryApList(x, v), WcmSearchApList(x) = 0, buf.count < maxBlock
  PROVE  Enters(o, x, v)
<1> DEFINE fresh == WcmAllocApList
<1>0. PICK k \in Nat : k = buf.count
  BY ListConstants DEF Chained, Lists
<1>1. PICK b, m, q : k = buf.count /\ b = fresh.to /\ m = fresh.list /\ q = Add(o, k, b)
  BY <1>0
<1>2. /\ b \in Blocks /\ ~buf.block[b].occupied
      /\ Chained(m, q) /\ Labelled(m, b) /\ m.count = k + 1
      /\ \A c \in Blocks : /\ m.block[c].bssid = buf.block[c].bssid
                           /\ m.block[c].level = buf.block[c].level
                           /\ c # b => m.block[c].occupied = buf.block[c].occupied
  BY <1>1, AllocIs
<1>3. q[k + 1] = b /\ \A n \in 1 .. k : q[n] = o[n] /\ o[n] \in Blocks
  <2>1. \A n \in 1 .. k : n \in 1 .. k + 1 /\ n <= k
    BY <1>1
  <2>2. k + 1 \in 1 .. k + 1 /\ ~(k + 1 <= k)
    BY <1>1
  <2>3. QED
    BY <1>1, <2>1, <2>2 DEF Add, Chained, Chain
<1>4. buf' = WcmAppendApList(Label(m, q[k + 1], x, v), q[k + 1])
  <2>1. b # 0
    BY <1>2, ListConstants
  <2>2. Place(x) = WcmAllocApList
    BY <1>1, <2>1 DEF Place
  <2>3. Place(x).to = q[k + 1] /\ Place(x).list = m
    BY <1>1, <1>3, <2>2
  <2>4. QED
    BY <2>3 DEF WCMi_EntryApList, Label
<1>5. \A c \in Blocks \ {q[k + 1]} : m.block[c].occupied => m.block[c].bssid # x
  BY <1>2, <1>3, Unnamed
<1>6. PICK p : p = Move(q, m.count, k + 1)
  OBVIOUS
<1>7. /\ Chained(buf', p) /\ Labelled(buf', 0)
      /\ SeenOf(buf', p) = Append(Cut(SeenOf(m, q), k + 1), [bssid |-> x, level |-> v])
  <2>1. k + 1 \in 1 .. m.count /\ Labelled(m, q[k + 1])
    BY <1>2, <1>3
  <2>2. QED
    BY <1>2, <1>4, <1>5, <1>6, <2>1, EnterIs
<1>8. /\ SeenOf(buf, o) \in Seq(Entries) /\ Len(SeenOf(buf, o)) = k
      /\ \A n \in 1 .. k :
           SeenOf(buf, o)[n] = [bssid |-> buf.block[o[n]].bssid, level |-> buf.block[o[n]].level]
  BY <1>1, SeenType
<1>9. /\ SeenOf(m, q) \in Seq(Entries) /\ Len(SeenOf(m, q)) = k + 1
      /\ \A n \in 1 .. k + 1 :
           SeenOf(m, q)[n] = [bssid |-> m.block[q[n]].bssid, level |-> m.block[q[n]].level]
  BY <1>2, SeenType
<1>10. Cut(SeenOf(m, q), k + 1) = SeenOf(buf, o)
  <2>1. k + 1 \in 1 .. Len(SeenOf(m, q)) /\ (k + 1) - 1 = k
    BY <1>9
  <2>2. /\ Cut(SeenOf(m, q), k + 1) \in Seq(Entries) /\ Len(Cut(SeenOf(m, q), k + 1)) = (k + 1) - 1
        /\ \A n \in 1 .. (k + 1) - 1 :
             Cut(SeenOf(m, q), k + 1)[n] = IF n < k + 1 THEN SeenOf(m, q)[n] ELSE SeenOf(m, q)[n + 1]
    <3>1. SeenOf(m, q) \in Seq(Entries) /\ k + 1 \in 1 .. Len(SeenOf(m, q))
      BY <1>9, <2>1
    <3>2. /\ Cut(SeenOf(m, q), k + 1) \in Seq(Entries)
          /\ Len(Cut(SeenOf(m, q), k + 1)) = Len(SeenOf(m, q)) - 1
          /\ \A n \in 1 .. Len(SeenOf(m, q)) - 1 :
               Cut(SeenOf(m, q), k + 1)[n] = IF n < k + 1 THEN SeenOf(m, q)[n] ELSE SeenOf(m, q)[n + 1]
      BY ONLY <3>1, CutIs
    <3>3. QED
      BY <1>9, <3>2
  <2>3. \A n \in 1 .. k : n < k + 1 /\ n \in 1 .. k + 1
    OBVIOUS
  <2>4. ASSUME NEW n \in 1 .. k PROVE Cut(SeenOf(m, q), k + 1)[n] = SeenOf(buf, o)[n]
    <3>1. Cut(SeenOf(m, q), k + 1)[n] = SeenOf(m, q)[n]
      BY <2>1, <2>2, <2>3
    <3>2. QED
      <4>1. n \in 1 .. k + 1 /\ q[n] = o[n] /\ o[n] \in Blocks
        BY <1>3, <2>3
      <4>2. m.block[o[n]].bssid = buf.block[o[n]].bssid /\ m.block[o[n]].level = buf.block[o[n]].level
        BY <1>2, <4>1
      <4>3. SeenOf(m, q)[n] = [bssid |-> m.block[o[n]].bssid, level |-> m.block[o[n]].level]
        BY <1>9, <4>1
      <4>4. QED
        BY <1>8, <3>1, <4>2, <4>3
  <2>5. QED
    BY <1>8, <2>1, <2>2, <2>4, SeqEqual
<1>11. Sees(SeenOf(buf, o), SeenOf(buf', p), x, v)
  BY <1>1, <1>7, <1>8, <1>10, Unnamed DEF Sees
<1>12. QED
  BY <1>7, <1>11 DEF Enters

(* or, when the list is full and may exchange, the oldest one.               *)
LEMMA ExchangeEnters ==
  ASSUME ApListConstants, NEW o, Chained(buf, o), Labelled(buf, 0), NEW x \in Bssids, NEW v \in Levels,
         WCMi_EntryApList(x, v), WcmSearchApList(x) = 0, ~(buf.count < maxBlock)
  PROVE  Enters(o, x, v)
<1>1. PICK k \in Nat : k = buf.count /\ k = maxBlock
  BY ListConstants DEF Chained, Lists
<1>2. WcmAllocApList.to = 0
  BY <1>1 DEF WcmAllocApList
<1>3. Place(x) = [to |-> IF exchange THEN buf.head ELSE 0, list |-> buf]
  BY <1>2 DEF Place
<1>4. Place(x).to # 0
  BY DEF WCMi_EntryApList
<1>5. Place(x).to = buf.head /\ Place(x).list = buf /\ buf.head # 0
  BY <1>3, <1>4
<1>6. buf.head = On(o, k, 1)
  BY <1>1 DEF Chained, Chain
<1>7. 1 \in 1 .. k /\ buf.head = o[1] /\ k > 0
  <2>1. 1 \in 1 .. k /\ buf.head = o[1]
    BY <1>5, <1>6 DEF On
  <2>2. QED
    BY <2>1
<1>8. buf' = WcmAppendApList(Label(buf, o[1], x, v), o[1])
  BY <1>5, <1>7 DEF WCMi_EntryApList, Label
<1>9. Labelled(buf, o[1])
  BY ListConstants DEF Labelled
<1>10. \A c \in Blocks \ {o[1]} : buf.block[c].occupied => buf.block[c].bssid # x
  BY Unnamed
<1>11. PICK p : p = Move(o, buf.count, 1)
  OBVIOUS
<1>12. /\ Chained(buf', p) /\ Labelled(buf', 0)
       /\ SeenOf(buf', p) = Append(Cut(SeenOf(buf, o), 1), [bssid |-> x, level |-> v])
  <2>1. 1 \in 1 .. buf.count
    BY <1>1, <1>7
  <2>2. QED
    BY <1>8, <1>9, <1>10, <1>11, <2>1, EnterIs
<1>13. PICK S : S = SeenOf(buf, o)
  OBVIOUS
<1>14. S \in Seq(Entries) /\ Len(S) = k
  BY <1>1, <1>13, SeenType
<1>15. Cut(S, 1) = Tail(S)
  <2>1. /\ Cut(S, 1) \in Seq(Entries) /\ Len(Cut(S, 1)) = k - 1
        /\ \A n \in 1 .. k - 1 : Cut(S, 1)[n] = IF n < 1 THEN S[n] ELSE S[n + 1]
    BY <1>7, <1>14, CutIs
  <2>2. S # << >>
    BY <1>7, <1>14
  <2>3. Tail(S) \in Seq(Entries) /\ Len(Tail(S)) = k - 1 /\ \A n \in 1 .. k - 1 : Tail(S)[n] = S[n + 1]
    BY <1>14, <2>2, HeadTailProperties
  <2>4. \A n \in 1 .. k - 1 : ~(n < 1)
    OBVIOUS
  <2>5. \A n \in 1 .. k - 1 : Cut(S, 1)[n] = Tail(S)[n]
    BY <2>1, <2>3, <2>4
  <2>6. QED
    BY <2>1, <2>3, <2>5, SeqEqual
<1>16. Sees(SeenOf(buf, o), SeenOf(buf', p), x, v)
  BY <1>1, <1>7, <1>12, <1>13, <1>14, <1>15, Unnamed DEF Sees
<1>17. QED
  BY <1>12, <1>16 DEF Enters

LEMMA EntryStep ==
  ASSUME ApListConstants, NEW o, Chained(buf, o), Labelled(buf, 0), NEW x \in Bssids, NEW v \in Levels,
         WCMi_EntryApList(x, v)
  PROVE  Enters(o, x, v)
BY KnownEnters, NewEnters, ExchangeEnters

-----------------------------------------------------------------------------
(* The other steps.                                                          *)

LEMMA ClearedIs ==
  ASSUME ApListConstants
  PROVE  \E o : Chained(Cleared, o) /\ Labelled(Cleared, 0) /\ SeenOf(Cleared, o) = << >>
<1> DEFINE o == [n \in 1 .. 0 |-> 0]
<1>1. maxBlock \in Nat /\ 0 \in Links /\ 0 \in 0 .. maxBlock
  BY ListConstants
<1>2. Empty \in Block /\ ~Empty.occupied
  BY <1>1 DEF Empty, Block
<1>3. /\ Cleared.count = 0 /\ Cleared.head = 0 /\ Cleared.tail = 0
      /\ \A b \in Blocks : Cleared.block[b] = Empty
  BY DEF Cleared
<1>4. Cleared \in Lists
  BY <1>1, <1>2 DEF Cleared, Lists
<1>5. 1 .. 0 = {} /\ 0 .. 0 - 1 = {}
  OBVIOUS
<1>6. o \in [1 .. 0 -> Blocks]
  BY <1>5
<1>7. Chain(Cleared, o, 0)
  BY <1>3, <1>5, <1>6 DEF Chain, On
<1>8. {Cleared.block[b].index : b \in {c \in Blocks : Cleared.block[c].occupied}} = {}
  BY <1>2, <1>3
<1>9. \A b \in Blocks : ~Cleared.block[b].occupied
  BY <1>2, <1>3
<1>10. Chained(Cleared, o)
  BY <1>3, <1>4, <1>5, <1>7, <1>8, <1>9 DEF Chained
<1>11. Labelled(Cleared, 0)
  BY <1>9 DEF Labelled
<1>12. SeenOf(Cleared, o) = << >>
  <2>1. SeenOf(Cleared, o) \in Seq(Entries) /\ Len(SeenOf(Cleared, o)) = 0
    BY <1>3, <1>10, SeenType
  <2>2. QED
    BY <2>1, EmptySeq
<1>13. QED
  BY <1>10, <1>11, <1>12

LEMMA PointIs ==
  ASSUME ApListConstants, NEW o, Chained(buf, o), NEW i, WcmSearchIndexedApList(i) # 0
  PROVE  WcmSearchIndexedApList(i) \in Blocks /\ buf.block[WcmSearchIndexedApList(i)] \in Block
<1> DEFINE B == {b \in Blocks : buf.block[b].index = i}
<1>1. B \in SUBSET Blocks
  OBVIOUS
<1>2. First(B) # 0
  BY DEF WcmSearchIndexedApList
<1>3. First(B) \in B
  <2> HIDE DEF B
  <2>1. QED
    BY <1>1, <1>2, FirstIs
<1>4. WcmSearchIndexedApList(i) \in Blocks
  BY <1>3 DEF WcmSearchIndexedApList
<1>5. QED
  BY <1>4 DEF Chained, Lists

LEMMA FrontIs ==
  ASSUME NEW E, NEW S \in Seq(E), Len(S) > 0
  PROVE  /\ SubSeq(S, 1, Len(S) - 1) \in Seq(E) /\ Len(SubSeq(S, 1, Len(S) - 1)) = Len(S) - 1
         /\ \A i \in 1 .. Len(S) - 1 : SubSeq(S, 1, Len(S) - 1)[i] = S[i]
<1>1. PICK j \in 1 .. Len(S) : j = Len(S)
  <2>1. Len(S) \in 1 .. Len(S)
    OBVIOUS
  <2>2. QED
    BY <2>1
<1>2. Len(S) \in Nat /\ j \in Nat /\ j >= 1 /\ j <= Len(S)
  BY <1>1
<1>3. /\ SubSeq(S, 1, j - 1) \in Seq(E) /\ Len(SubSeq(S, 1, j - 1)) = j - 1
      /\ \A i \in 1 .. j - 1 : SubSeq(S, 1, j - 1)[i] = S[i]
  BY <1>2
<1>4. QED
  BY <1>1, <1>3

(* What the application holds is only touched by its own calls.              *)
LEMMA ReaderStep ==
  ASSUME ListInv, ApListNext
  PROVE  ListTypes' /\ Nested' /\ ReadStable'
<1>0. ApListConstants /\ ListTypes /\ Nested /\ ReadStable
  BY DEF ListInv
<1>1. PICK o : Chained(buf, o)
  BY DEF ListInv
<1>2. CASE \/ \E x \in Bssids, l \in Levels : WCMi_EntryApList(x, l)
           \/ \E mode \in BOOLEAN : WcmConfigure(mode)
           \/ WCM_ClearApList
  <2>1. held = << >> /\ exchange' \in BOOLEAN /\ UNCHANGED <<apListLock, readVars>>
    BY <1>0, <1>2 DEF WCMi_EntryApList, WcmConfigure, WCM_ClearApList, Nested, ListTypes
  <2>2. bd = 0
    BY <1>0, <2>1 DEF Nested
  <2>3. QED
    BY <1>0, <2>1, <2>2 DEF ListTypes, Nested, ReadStable, readVars
<1>3. CASE WCM_LockApList
  <2>1. /\ held \in Seq(BOOLEAN) /\ Len(held) < MaxNest /\ MaxNest \in Nat
        /\ held' = Append(held, apListLock) /\ apListLock' = TRUE /\ apListLock \in BOOLEAN
        /\ UNCHANGED <<buf, exchange, bd, snapshot>>
    BY <1>0, <1>3 DEF WCM_LockApList, ListTypes, ApListConstants
  <2>2. /\ held' \in Seq(BOOLEAN) /\ Len(held') = Len(held) + 1 /\ held'[Len(held) + 1] = apListLock
        /\ \A i \in 1 .. Len(held) : held'[i] = held[i]
    BY <2>1
  <2>3. Len(held) \in Nat /\ (held # << >> <=> Len(held) > 0)
    BY <2>1
  <2>4. held' # << >>
    BY <2>2, <2>3
  <2>5. \A i \in 1 .. Len(held') : held'[i] <=> i > 1
    <3>1. held'[Len(held) + 1] <=> Len(held) + 1 > 1
      <4>1. apListLock <=> Len(held) > 0
        BY <1>0, <2>3 DEF Nested
      <4>2. Len(held) > 0 <=> Len(held) + 1 > 1
        BY <2>3
      <4>3. QED
        BY <2>2, <4>1, <4>2
    <3>2. \A i \in 1 .. Len(held) : held'[i] <=> i > 1
      BY <1>0, <2>2 DEF Nested
    <3>3. \A i \in 1 .. Len(held) + 1 : i = Len(held) + 1 \/ i \in 1 .. Len(held)
      BY <2>3
    <3>4. QED
      BY <2>2, <3>1, <3>2, <3>3
  <2>6. Len(held') <= MaxNest
    BY <2>1, <2>2, <2>3
  <2>7. Nested'
    BY <2>1, <2>4, <2>5 DEF Nested
  <2>8. ListTypes'
    BY <1>0, <2>1, <2>2, <2>6 DEF ListTypes
  <2>9. QED
    BY <1>0, <2>1, <2>7, <2>8 DEF ReadStable
<1>4. CASE WCM_RestoreApList
  <2>1. /\ held \in Seq(BOOLEAN) /\ held # << >> /\ Len(held) <= MaxNest /\ MaxNest \in Nat
        /\ held' = SubSeq(held, 1, Len(held) - 1) /\ apListLock' = held[Len(held)]
        /\ UNCHANGED <<buf, exchange>>
    BY <1>0, <1>4 DEF WCM_RestoreApList, Restored, ListTypes, ApListConstants
  <2>2. Len(held) \in Nat /\ Len(held) > 0
    BY <2>1
  <2>3. /\ held' \in Seq(BOOLEAN) /\ Len(held') = Len(held) - 1
        /\ \A i \in 1 .. Len(held) - 1 : held'[i] = held[i]
    <3>1. PICK h : h = held
      OBVIOUS
    <3>2. h \in Seq(BOOLEAN) /\ Len(h) \in Nat /\ Len(h) > 0
      BY <2>1, <2>2, <3>1
    <3>3. /\ SubSeq(h, 1, Len(h) - 1) \in Seq(BOOLEAN) /\ Len(SubSeq(h, 1, Len(h) - 1)) = Len(h) - 1
          /\ \A i \in 1 .. Len(h) - 1 : SubSeq(h, 1, Len(h) - 1)[i] = h[i]
      BY <3>2, FrontIs
    <3>4. held' = SubSeq(h, 1, Len(h) - 1)
      BY <2>1, <3>1
    <3>5. QED
      BY <3>1, <3>3, <3>4
  <2>4. held' # << >> <=> Len(held) > 1
    BY <2>2, <2>3
  <2>5. apListLock' \in BOOLEAN /\ (apListLock' <=> Len(held) > 1)
    <3>1. Len(held) \in 1 .. Len(held)
      BY <2>2
    <3>2. held[Len(held)] \in BOOLEAN
      BY <2>1, <3>1
    <3>3. QED
      BY <1>0, <2>1, <3>1, <3>2 DEF Nested
  <2>6. \A i \in 1 .. Len(held') : held'[i] <=> i > 1
    <3>1. \A i \in 1 .. Len(held) - 1 : i \in 1 .. Len(held)
      BY <2>2
    <3>2. QED
      BY <1>0, <2>3, <3>1 DEF Nested
  <2>7. CASE Len(held) = 1
    <3>1. bd' = 0 /\ snapshot' = Empty
      BY <1>4, <2>7 DEF WCM_RestoreApList
    <3>2. 0 \in Links /\ Empty \in Block
      BY <1>0, ListConstants DEF Empty, Block
    <3>3. QED
      BY <1>0, <2>1, <2>2, <2>3, <2>4, <2>5, <2>6, <3>1, <3>2 DEF ListTypes, Nested, ReadStable
  <2>8. CASE Len(held) # 1
    <3>1. bd' = bd /\ snapshot' = snapshot
      BY <1>4, <2>8 DEF WCM_RestoreApList
    <3>2. Len(held) > 1
      <4>1. \A n \in Nat : n > 0 /\ n # 1 => n > 1
        OBVIOUS
      <4>2. QED
        BY <2>2, <2>8, <4>1
    <3>3. QED
      BY <1>0, <2>1, <2>2, <2>3, <2>4, <2>5, <2>6, <3>1, <3>2 DEF ListTypes, Nested, ReadStable
  <2>9. QED
    BY <2>7, <2>8
<1>5. ASSUME NEW i \in 0 .. maxBlock - 1, WCM_PointApList(i)
      PROVE  ListTypes' /\ Nested' /\ ReadStable'
  <2>1. PICK b : b = WcmSearchIndexedApList(i)
    OBVIOUS
  <2>2. /\ held # << >> /\ b # 0 /\ bd' = b /\ snapshot' = buf.block[b]
        /\ UNCHANGED <<buf, exchange, apListLock, held>>
    BY <1>5, <2>1 DEF WCM_PointApList
  <2>3. b \in Blocks /\ buf.block[b] \in Block
    BY <1>0, <1>1, <2>1, <2>2, PointIs
  <2>4. b \in Links
    BY <1>0, <2>3, ListConstants
  <2>5. QED
    BY <1>0, <2>2, <2>3, <2>4 DEF ListTypes, Nested, ReadStable
<1>6. QED
  BY <1>2, <1>3, <1>4, <1>5 DEF ApListNext

(* A step leaves the list alone, clears it, or enters one access point.      *)
Changes(o) ==
  \/ buf' = buf
  \/ \E p : Chained(buf', p) /\ Labelled(buf', 0) /\ SeenOf(buf', p) = << >>
  \/ \E x \in Bssids, v \in Levels : Enters(o, x, v)

LEMMA ListChanges ==
  ASSUME ListInv, NEW o, Chained(buf, o), [ApListNext]_apListVars
  PROVE  Changes(o)
<1>0. ApListConstants /\ Labelled(buf, 0)
  BY DEF ListInv
<1>1. CASE UNCHANGED apListVars
  BY <1>1 DEF apListVars, Changes
<1>2. ASSUME NEW x \in Bssids, NEW v \in Levels, WCMi_EntryApList(x, v) PROVE Changes(o)
  BY <1>0, <1>2, EntryStep DEF Changes
<1>3. CASE WCM_ClearApList \/ \E mode \in BOOLEAN : WcmConfigure(mode)
  <2>1. buf' = Cleared
    BY <1>3 DEF WCM_ClearApList, WcmConfigure
  <2>2. QED
    BY <1>0, <2>1, ClearedIs DEF Changes
<1>4. CASE WCM_LockApList \/ WCM_RestoreApList \/ \E i \in 0 .. maxBlock - 1 : WCM_PointApList(i)
  BY <1>4 DEF WCM_LockApList, WCM_RestoreApList, WCM_PointApList, Changes
<1>5. QED
  BY <1>1, <1>2, <1>3, <1>4 DEF ApListNext

LEMMA ListInit ==
  ASSUME ApListConstants, ApListInit
  PROVE  ListInv
<1>1. \E o : Chained(buf, o) /\ Labelled(buf, 0)
  BY ClearedIs DEF ApListInit
<1>2. 0 \in Links /\ Empty \in Block /\ MaxNest \in Nat
  BY ListConstants DEF Empty, Block
<1>3. ListTypes
  <2>1. exchange \in BOOLEAN /\ apListLock \in BOOLEAN /\ held = << >> /\ bd = 0 /\ snapshot = Empty
    BY DEF ApListInit
  <2>2. << >> \in Seq(BOOLEAN) /\ Len(<< >>) = 0 /\ 0 <= MaxNest
    BY <1>2
  <2>3. QED
    BY <1>2, <2>1, <2>2 DEF ListTypes
<1>4. Nested /\ ReadStable
  BY DEF ApListInit, Nested, ReadStable
<1>5. QED
  BY <1>1, <1>3, <1>4 DEF ListInv

LEMMA ListStep ==
  ASSUME ListInv, [ApListNext]_apListVars
  PROVE  ListInv'
<1>1. PICK o : Chained(buf, o) /\ Labelled(buf, 0)
  BY DEF ListInv
<1>2. Changes(o)
  BY <1>1, ListChanges
<1>3. \E p : Chained(buf', p) /\ Labelled(buf', 0)
  BY <1>1, <1>2 DEF Changes, Enters
<1>4. ListTypes' /\ Nested' /\ ReadStable'
  <2>1. CASE ApListNext
    BY <2>1, ReaderStep
  <2>2. CASE UNCHANGED apListVars
    BY <2>2 DEF ListInv, ListTypes, Nested, ReadStable, apListVars, readVars
  <2>3. QED
    BY <2>1, <2>2
<1>5. QED
  BY <1>3, <1>4 DEF ListInv, ApListConstants

-----------------------------------------------------------------------------
(* The theorems.                                                             *)

LEMMA WholeIs ==
  ASSUME ListInv
  PROVE  ListWhole
<1>0. ApListConstants /\ ListTypes
  BY DEF ListInv
<1>1. PICK o : Chained(buf, o) /\ Labelled(buf, 0)
  BY DEF ListInv
<1>2. PICK k \in Nat : k = buf.count
  BY <1>0, <1>1, ListConstants DEF Chained, Lists
<1>3. Chain(buf, o, k)
  BY <1>1, <1>2 DEF Chained
<1>4. \A n \in Nat : Nth[n] = On(o, k, n)
  BY <1>0, <1>1, <1>2, NthIs
<1>5. \A n \in 1 .. k : n \in Nat /\ n - 1 \in Nat /\ Nth[n] = o[n] /\ Nth[n - 1] = On(o, k, n - 1)
  BY <1>2, <1>4 DEF On
<1>6. ApListTypeOK
  BY <1>0, <1>1 DEF ListTypes, ApListTypeOK, Chained, Lists
<1>7. {Nth[n] : n \in 1 .. k} = Occupied
  <2>1. \A n \in 1 .. k : o[n] \in Blocks
    BY <1>3 DEF Chain
  <2>2. \A b \in Blocks : b \in Occupied <=> \E n \in 1 .. k : o[n] = b
    BY <1>1, <1>2 DEF Chained, Occupied
  <2>3. Occupied \subseteq Blocks
    BY DEF Occupied
  <2>4. QED
    BY <1>5, <2>1, <2>2, <2>3
<1>8. Nth[k] = buf.tail /\ Nth[k + 1] = 0
  <2>1. k \in Nat /\ k + 1 \in Nat /\ k + 1 \notin 1 .. k
    BY <1>2
  <2>2. Nth[k + 1] = 0
    BY <1>4, <2>1 DEF On
  <2>3. QED
    BY <1>3, <1>4, <2>1, <2>2 DEF Chain
<1>9. \A n \in 1 .. k : buf.block[Nth[n]].previous = Nth[n - 1]
  BY <1>3, <1>5 DEF Chain
<1>10. {buf.block[b].index : b \in Occupied} = 0 .. k - 1
  BY <1>1, <1>2 DEF Chained, Occupied
<1>11. \A b, c \in Occupied : buf.block[b].bssid = buf.block[c].bssid => b = c
  <2>1. 0 \notin Blocks
    BY <1>0, ListConstants
  <2>2. QED
    BY <1>1, <2>1 DEF Labelled, Occupied
<1>12. QED
  BY <1>2, <1>6, <1>7, <1>8, <1>9, <1>10, <1>11 DEF ListWhole

(* There is always an order of the blocks that both chains run through, the  *)
(* locks nest, and what the application reads is as it was.                  *)
THEOREM ListAlways == ApListSpec => []ListInv
<1>1. ApListInit => ListInv
  BY ApListAssumption, ListInit
<1>2. ListInv /\ [ApListNext]_apListVars => ListInv'
  BY ListStep
<1>3. QED
  BY <1>1, <1>2, PTL DEF ApListSpec

(* The list is whole after every entry, move and replacement                 *)
(* (aplist.c:131-208, 326-374).                                              *)
THEOREM ListSafe == ApListSpec => []ListWhole
<1>1. ListInv => ListWhole
  BY WholeIs
<1>2. QED
  BY <1>1, ListAlways, PTL

(* What the application points at stays as it was until it lets go           *)
(* (aplist.c:52-129).                                                        *)
THEOREM ReadSafe == ApListSpec => []ReadStable
<1>1. ListInv => ReadStable
  BY DEF ListInv
<1>2. QED
  BY <1>1, ListAlways, PTL

SeenTrue == \A o : Chained(buf, o) => SeenList = SeenOf(buf, o)

LEMMA SeenIs ==
  ASSUME ApListConstants
  PROVE  SeenTrue
<1>1. SUFFICES ASSUME NEW o, Chained(buf, o) PROVE SeenList = SeenOf(buf, o)
  BY DEF SeenTrue
<1>2. PICK k \in Nat : k = buf.count
  BY ListConstants, <1>1 DEF Chained, Lists
<1>3. \A n \in 1 .. k : n \in Nat /\ Nth[n] = o[n]
  BY <1>1, <1>2, NthIs DEF On
<1>4. \A n \in 1 .. k : o[n] # 0
  BY <1>1, <1>2, ListConstants DEF Chained, Chain
<1>5. \A n \in 1 .. k : Shown(Nth[n]) = buf.block[o[n]]
  BY <1>3, <1>4 DEF Shown
<1>6. [n \in 1 .. k |-> [bssid |-> Shown(Nth[n]).bssid, level |-> Shown(Nth[n]).level]]
        = [n \in 1 .. k |-> [bssid |-> buf.block[o[n]].bssid, level |-> buf.block[o[n]].level]]
  BY <1>5
<1>7. QED
  BY <1>2, <1>6 DEF SeenList, SeenOf

LEMMA CacheInit ==
  ASSUME ApListConstants, ApListInit, SeenTrue
  PROVE  Cache!Init
<1>1. PICK o : Chained(buf, o) /\ SeenOf(buf, o) = << >>
  BY ClearedIs DEF ApListInit
<1>2. QED
  BY <1>1 DEF SeenTrue, Cache!Init

(* Each change of the list is a step of the cache.                           *)
LEMMA CacheStep ==
  ASSUME ListInv, [ApListNext]_apListVars, SeenTrue, SeenTrue'
  PROVE  [Cache!Next]_SeenList
<1>0. ApListConstants
  BY DEF ListInv
<1>1. PICK o : Chained(buf, o)
  BY DEF ListInv
<1>2. SeenList = SeenOf(buf, o)
  BY <1>1 DEF SeenTrue
<1>3. \A p : Chained(buf', p) => SeenList' = SeenOf(buf', p)
  BY DEF SeenTrue
<1>4. CASE buf' = buf
  <2>1. SeenList' = SeenOf(buf, o)
    BY <1>1, <1>3, <1>4
  <2>2. QED
    BY <1>2, <2>1
<1>5. CASE \E p : Chained(buf', p) /\ Labelled(buf', 0) /\ SeenOf(buf', p) = << >>
  <2>1. SeenList' = << >>
    BY <1>3, <1>5
  <2>2. QED
    BY <2>1 DEF Cache!Next, Cache!Forget
<1>6. ASSUME NEW x \in Bssids, NEW v \in Levels, Enters(o, x, v)
      PROVE  [Cache!Next]_SeenList
  <2>1. PICK new : new = [bssid |-> x, level |-> v]
    OBVIOUS
  <2>2. Sees(SeenList, SeenList', x, v)
    BY <1>2, <1>3, <1>6 DEF Enters
  <2>3. SeenList \in Seq(Entries)
    BY <1>0, <1>1, <1>2, SeenType
  <2>4. DOMAIN SeenList = 1 .. Len(SeenList)
    BY <2>3
  <2>5. \A i : i \in Cache!At(x) <=> ShownAt(SeenList, i, x)
    BY <2>4 DEF Cache!At, ShownAt
  <2>6. \A i : Cache!Without(i) = Cut(SeenList, i)
    BY DEF Cache!Without, Cut
  <2>7. (\A i : ~ShownAt(SeenList, i, x)) => Cache!At(x) = {}
    BY <2>5
  <2>8. \/ \E i \in Cache!At(x) : SeenList' = Append(Cache!Without(i), new)
        \/ Cache!At(x) = {} /\ Len(SeenList) < maxBlock /\ SeenList' = Append(SeenList, new)
        \/ Cache!At(x) = {} /\ Len(SeenList) = maxBlock /\ maxBlock > 0
           /\ SeenList' = Append(Tail(SeenList), new)
    BY <2>1, <2>2, <2>5, <2>6, <2>7 DEF Sees
  <2>9. Cache!See(x, v)
    BY <2>1, <2>8 DEF Cache!See
  <2>10. QED
    BY <2>9 DEF Cache!Next
<1>7. Changes(o)
  BY <1>1, ListChanges
<1>8. QED
  BY <1>4, <1>5, <1>6, <1>7 DEF Changes

(* The blocks, their links and their recycling implement the cache of the    *)
(* access points seen last (aplist.c:131-208, 326-374).                      *)
THEOREM ListImplements == ApListSpec => LruSpec
<1>1. SeenTrue
  BY ApListAssumption, SeenIs
<1>2. ApListInit /\ SeenTrue => Cache!Init
  BY ApListAssumption, CacheInit
<1>3. ListInv /\ [ApListNext]_apListVars /\ SeenTrue /\ SeenTrue' => [Cache!Next]_SeenList
  BY CacheStep
<1>4. QED
  BY <1>1, <1>2, <1>3, ListAlways, PTL DEF ApListSpec, LruSpec, Cache!Spec

-----------------------------------------------------------------------------
(* The send mutex (module WcmSend).                                          *)
(*                                                                           *)
(* FrameWhole alone is not inductive: that no other frame is with the driver *)
(* when a thread copies its own follows from NeverStuck, which says who      *)
(* holds the mutex in terms of the frames the driver has.  The two together  *)
(* are.                                                                      *)

FramesInv == WcmSendConstants /\ FrameWhole /\ NeverStuck

USE DEF Free, SendResults, Places, ConnPhases

LEMMA FramesInit ==
  ASSUME WcmSendConstants, CpsifInit
  PROVE  FramesInv
<1>1. mutex.thread = NoThread /\ mutex.count = 0
      /\ mutex \in [thread : Threads \cup {NoThread, Irq}, count : Nat]
  BY DEF CpsifInit
<1>2. \A t \in Threads : pc[t] = "idle" /\ mutex.thread # t
  BY <1>1 DEF CpsifInit, WcmSendConstants
<1>3. CpsifTypeOK
  BY <1>1 DEF CpsifInit, CpsifTypeOK
<1> QED
  BY <1>1, <1>2, <1>3 DEF WcmSendConstants, CpsifInit, FramesInv, FrameWhole, NeverStuck

(* Waking the queue of the mutex moves threads from waiting to ready and no  *)
(* other.                                                                    *)
LEMMA WakeQueueOnly ==
  ASSUME NEW places \in [Threads -> Places]
  PROVE  /\ WakeQueue(places) \in [Threads -> Places]
         /\ \A u \in Threads :
              /\ WakeQueue(places)[u] # "waiting"
              /\ \A x \in {"idle", "sending", "sent"} :
                   WakeQueue(places)[u] = x <=> places[u] = x
BY DEF WakeQueue

(* A thread that locks the mutex, sends, and returns or sleeps.              *)
LEMMA LockAndSendStep ==
  ASSUME FramesInv, NEW t \in Threads, pc[t] \in {"idle", "ready"}, LockAndSend(t),
         UNCHANGED <<conn, alarm, sendResult, nulls, answer>>
  PROVE  FramesInv'
<1> USE DEF FramesInv, WcmSendConstants, FrameWhole, NeverStuck, CpsifTypeOK, conn
<1>1. CASE /\ mutex.thread # NoThread
           /\ pc' = [pc EXCEPT ![t] = "waiting"]
           /\ UNCHANGED <<mutex, sendBuf, frames>>
  BY <1>1
<1>2. ASSUME mutex.thread = NoThread
      PROVE  frames = {} /\ nulls = 0 /\ \A u \in Threads : pc[u] \notin {"sending", "sent"}
  BY <1>2
<1>3. ASSUME mutex.thread = NoThread, ReturnFrom(t), UNCHANGED <<mutex, frames>>,
             sendBuf' \in Threads \cup {NoThread}
      PROVE  FramesInv'
  <2> DEFINE P == [pc EXCEPT ![t] = "idle"]
  <2>1. P \in [Threads -> Places] /\ \A u \in Threads : P[u] \notin {"sending", "sent"}
    BY <1>2, <1>3
  <2>2. pc' = WakeQueue(P)
    BY <1>3 DEF ReturnFrom
  <2> HIDE DEF P
  <2>3. pc' \in [Threads -> Places]
        /\ \A u \in Threads : pc'[u] \notin {"waiting", "sending", "sent"}
    BY <2>1, <2>2, WakeQueueOnly
  <2> QED
    BY <1>2, <1>3, <2>3
<1>4. CASE mutex.thread = NoThread /\ (NotConnected(t) \/ Refused(t))
  BY <1>3, <1>4 DEF NotConnected, Refused
<1>5. CASE mutex.thread = NoThread /\ Accepted(t)
  BY <1>2, <1>5 DEF Accepted
<1> QED
  BY <1>1, <1>4, <1>5 DEF LockAndSend

LEMMA FinishStep ==
  ASSUME FramesInv, NEW t \in Threads, Finish(t)
  PROVE  FramesInv'
<1> USE DEF FramesInv, WcmSendConstants, FrameWhole, NeverStuck, CpsifTypeOK, conn
<1>1. pc[t] = "sent" /\ mutex.thread = t /\ nulls = 0
  BY DEF Finish
<1>2. frames = {} /\ \A u \in Threads \ {t} : pc[u] \notin {"sending", "sent"}
  BY <1>1
<1> DEFINE P == [pc EXCEPT ![t] = "idle"]
<1>3. P \in [Threads -> Places] /\ \A u \in Threads : P[u] \notin {"sending", "sent"}
  BY <1>2
<1>4. mutex' = Free /\ pc' = WakeQueue(P)
  BY <1>1 DEF Finish, ReturnFrom
<1> HIDE DEF P
<1>5. pc' \in [Threads -> Places]
      /\ \A u \in Threads : pc'[u] \notin {"waiting", "sending", "sent"}
  BY <1>3, <1>4, WakeQueueOnly
<1> QED
  BY <1>1, <1>2, <1>4, <1>5 DEF Finish

(* The driver's answer wakes the one thread whose frame it is.               *)
LEMMA WmCallbackStep ==
  ASSUME FramesInv, NEW t \in Threads, WcmCpsifWmCallback(t)
  PROVE  FramesInv'
<1> USE DEF FramesInv, WcmSendConstants, FrameWhole, NeverStuck, CpsifTypeOK, conn
<1>1. mutex.thread = t /\ pc[t] = "sending" /\ nulls = 0
  BY DEF WcmCpsifWmCallback
<1>2. \A u \in Threads \ {t} : pc[u] \notin {"sending", "sent"}
  BY <1>1
<1>3. pc' = [pc EXCEPT ![t] = "sent"]
  BY <1>1, <1>2 DEF WcmCpsifWmCallback
<1>4. frames' = {} /\ UNCHANGED <<conn, mutex, sendBuf, nulls>>
  BY <1>1, <1>2 DEF WcmCpsifWmCallback
<1>5. PICK r \in SendResults : sendResult' = r /\ answer' = [answer EXCEPT ![t] = r]
                           /\ (connPhase = "DCF" => alarm') /\ alarm' \in BOOLEAN
  BY DEF WcmCpsifWmCallback, WCMi_ResetKeepAliveAlarm
<1> QED
  BY <1>1, <1>2, <1>3, <1>4, <1>5

(* Giving the mutex back from an interrupt, one lock of the dummy thread.    *)
LEMMA KACallbackStep ==
  ASSUME FramesInv, WcmCpsifKACallback
  PROVE  FramesInv'
<1> USE DEF FramesInv, WcmSendConstants, FrameWhole, NeverStuck, CpsifTypeOK, conn
<1>1. UNCHANGED <<conn, alarm, sendBuf, sendResult, frames, answer>>
      /\ nulls' = nulls - 1 /\ nulls > 0
  BY DEF WcmCpsifKACallback
<1>2. mutex.thread = Irq /\ mutex.count = nulls
  BY <1>1
<1>3. frames = {} /\ \A u \in Threads : pc[u] \notin {"sending", "sent"}
  BY <1>2
<1>4. CASE mutex.count = 1
  <2>1. mutex' = Free /\ pc' = WakeQueue(pc)
    BY <1>2, <1>4 DEF WcmCpsifKACallback, WcmCpsifUnlockMutexInIRQ
  <2>2. pc' \in [Threads -> Places]
        /\ \A u \in Threads : pc'[u] \notin {"waiting", "sending", "sent"}
    BY <1>3, <2>1, WakeQueueOnly
  <2> QED
    BY <1>1, <1>2, <1>3, <1>4, <2>1, <2>2
<1>5. CASE mutex.count # 1
  <2>1. mutex' = [thread |-> Irq, count |-> mutex.count - 1] /\ pc' = pc
    BY <1>2, <1>5 DEF WcmCpsifKACallback, WcmCpsifUnlockMutexInIRQ
  <2> QED
    BY <1>1, <1>2, <1>3, <1>5, <2>1
<1> QED
  BY <1>4, <1>5

(* The alarm takes the mutex only when it is free or already the dummy       *)
(* thread's, once for each empty frame.                                      *)
LEMMA AlarmStep ==
  ASSUME FramesInv, WcmKeepAliveAlarm
  PROVE  FramesInv'
<1> USE DEF FramesInv, WcmSendConstants, FrameWhole, NeverStuck, CpsifTypeOK, conn
<1>1. UNCHANGED <<conn, sendBuf, sendResult, frames, answer>> /\ alarm' = (connPhase = "DCF")
  BY DEF WcmKeepAliveAlarm, WCMi_ResetKeepAliveAlarm
<1>2. CASE /\ CanSend /\ TryLockMutexInIRQ /\ nulls < NullMax
           /\ nulls' = nulls + 1
           /\ mutex' = [thread |-> Irq, count |-> mutex.count + 1]
           /\ UNCHANGED pc
  <2>1. mutex.count = nulls /\ \A u \in Threads : mutex.thread # u
    BY <1>2 DEF TryLockMutexInIRQ
  <2>2. \A u \in Threads : u \notin frames /\ pc[u] \notin {"sending", "sent"}
    BY <2>1
  <2> QED
    BY <1>1, <1>2, <2>1, <2>2
<1>3. CASE /\ TryLockMutexInIRQ
           /\ pc' = IF mutex.count = 0 THEN WakeQueue(pc) ELSE pc
           /\ UNCHANGED <<mutex, nulls>>
  <2>1. pc' \in [Threads -> Places]
        /\ \A u \in Threads : /\ pc'[u] = "waiting" => pc[u] = "waiting"
                              /\ \A x \in {"sending", "sent"} : pc'[u] = x <=> pc[u] = x
    BY <1>3, WakeQueueOnly
  <2> QED
    BY <1>1, <1>3, <2>1
<1>4. CASE UNCHANGED <<mutex, nulls, pc>>
  BY <1>1, <1>4
<1> QED
  BY <1>2, <1>3, <1>4 DEF WcmKeepAliveAlarm, WCMi_CpsifSendNullPacket

LEMMA ManagerStep ==
  ASSUME FramesInv, Manager
  PROVE  FramesInv'
<1> USE DEF FramesInv, WcmSendConstants, FrameWhole, NeverStuck, CpsifTypeOK, conn
<1>1. CASE ChangePhase
  <2>1. PICK p \in ConnPhases \ {"NULL"} : WcmSetPhase(p)
    BY <1>1 DEF ChangePhase
  <2>2. connPhase' \in ConnPhases /\ alarm' \in BOOLEAN /\ (connPhase' = "DCF" => alarm')
    BY <2>1 DEF WcmSetPhase
  <2> QED
    BY <1>1, <2>2 DEF ChangePhase
<1>2. CASE ResetBeginsOrEnds
  BY <1>2 DEF ResetBeginsOrEnds
<1>3. CASE InitOrFinish
  BY <1>3 DEF InitOrFinish
<1> QED
  BY <1>1, <1>2, <1>3 DEF Manager

LEMMA FramesStep ==
  ASSUME FramesInv, [CpsifNext]_cpsifVars
  PROVE  FramesInv'
<1>1. CASE UNCHANGED cpsifVars
  BY <1>1 DEF cpsifVars, conn, FramesInv, FrameWhole, NeverStuck, CpsifTypeOK
<1>2. ASSUME NEW t \in Threads, WCM_SendDCFData(t) \/ Retry(t)
      PROVE  FramesInv'
  BY <1>2, LockAndSendStep DEF WCM_SendDCFData, Retry
<1>3. ASSUME NEW t \in Threads, Thread(t)
      PROVE  FramesInv'
  BY <1>2, <1>3, FinishStep, WmCallbackStep DEF Thread
<1>4. CASE Interrupt
  BY <1>4, KACallbackStep, AlarmStep DEF Interrupt
<1> QED
  BY <1>1, <1>3, <1>4, ManagerStep DEF CpsifNext

(* The two together always hold.                                             *)
LEMMA FramesAlways == CpsifSpec => []FramesInv
<1>1. CpsifInit => FramesInv
  BY WcmSendAssumption, FramesInit
<1>2. FramesInv /\ [CpsifNext]_cpsifVars => FramesInv'
  BY FramesStep
<1>3. QED
  BY <1>1, <1>2, PTL DEF CpsifSpec

(* The frame with the driver is the one its caller gave, and a woken caller  *)
(* reads the answer to its own frame.                                        *)
THEOREM FramesAreWhole == CpsifSpec => []FrameWhole
<1>1. FramesInv => FrameWhole
  BY DEF FramesInv
<1>2. QED
  BY <1>1, FramesAlways, PTL

(* Whoever holds the mutex will give it back, nobody waits for a free mutex, *)
(* and a connection keeps its alarm.                                         *)
THEOREM NobodyIsStuck == CpsifSpec => []NeverStuck
<1>1. FramesInv => NeverStuck
  BY DEF FramesInv
<1>2. QED
  BY <1>1, FramesAlways, PTL
=============================================================================
