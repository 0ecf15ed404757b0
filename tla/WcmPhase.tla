------------------------------- MODULE WcmPhase -------------------------------
(***************************************************************************)
(* The phase machine of the connection manager, libraries/wcm/src/system.c. *)
(*                                                                         *)
(* An application call checks the phase, hands one request to the WM driver *)
(* and moves to a transitional phase; the driver's callback for the request *)
(* hands over the next request of the sequence or settles the phase and     *)
(* notifies the application.  Failures that can be undone are undone by     *)
(* WM_Reset, whose callback settles the phase.                              *)
(*                                                                         *)
(* A call runs with interrupts off and a callback runs in the driver's      *)
(* interrupt, so each is one action, except that WcmWmcbScanEx notifies in  *)
(* its middle and the application may call back from there.                 *)
(*                                                                         *)
(* The driver is external: it runs requests in order, a request is legal in *)
(* certain driver states, the driver can refuse or fail a request MaxFaults *)
(* times, and a connection can be lost at any time.                         *)
(***************************************************************************)
EXTENDS Naturals, Sequences

CONSTANTS
  Builds,     \* the sets of macros the program may be compiled with
  MaxFaults   \* how often the driver refuses or fails a legal request

Macros == {"SDK_PORT", "SDK_BUILD_ARM"}

ASSUME WcmAssumption == Builds \subseteq SUBSET Macros /\ MaxFaults \in Nat

VARIABLES
  build,      \* the macros of this program
  ready,      \* wcmw # NULL
  phase, notifyId, resetting,
  authId,     \* wcmw->authId # 0
  wlStatus,   \* wlStatusOnConnectFail is WCM_CONNECT_STATUSCODE_ILLEGAL_RATESET
  rateSet,    \* bssDesc.rateSet.support includes WCM_CAMOUFLAGE_RATESET
  scanEx,     \* where WcmWmcbScanEx is: "none", "switch" or "next"
  wm, link,   \* the driver's state; whether the access point still answers
  requests,   \* requests the driver has accepted and not run
  replies,    \* callbacks the driver has not delivered
  faults,
  due,        \* history: accepted requests that have not been notified
  notice,     \* history: the last notice
  slip        \* history: the known holes of the code that were stepped into

wcm    == <<ready, phase, notifyId, resetting, authId, wlStatus, rateSet>>
told   == <<due, notice>>
driver == <<wm, link, requests, replies, faults>>
vars   == <<build, wcm, scanEx, driver, told, slip>>

Transitional ==
  {"WAIT_TO_IDLE", "IDLE_TO_WAIT", "IDLE_TO_SEARCH", "SEARCH_TO_IDLE",
   "IDLE_TO_DCF", "DCF_TO_IDLE", "TERMINATING"}
Phases == Transitional \cup
  {"WAIT", "IDLE", "SEARCH", "DCF", "IRREGULAR", "FATAL_ERROR"}

Asked  == {"STARTUP", "CLEANUP", "BEGIN_SEARCH", "END_SEARCH", "CONNECT",
           "DISCONNECT", "TERMINATE"}
Notify == Asked \cup {"COMMON", "FOUND_AP"}
Results == {"SUCCESS", "FAILURE", "FATAL_ERROR"}

-----------------------------------------------------------------------------
(* The driver.  From[r] are the states in which request r is legal, To[r]    *)
(* the state it leads to.                                                    *)

Awake == {"idle", "scan", "child", "dcf"}
States == Awake \cup {"off", "ready", "stop"}

From == [Enable |-> {"ready"}, PowerOn |-> {"stop"}, PowerOff |-> {"idle"},
         Disable |-> {"stop"}, SetLifeTime |-> {"idle"},
         SetBeaconInd |-> {"idle"}, SetWEPKeyEx |-> {"idle"},
         StartConnectEx |-> {"idle"}, StartDCF |-> {"child"},
         EndDCF |-> {"dcf"}, Disconnect |-> {"child"},
         StartScanEx |-> {"idle", "scan"}, EndScan |-> {"scan"},
         Reset |-> Awake]

To == [Enable |-> "stop", PowerOn |-> "idle", PowerOff |-> "stop",
       Disable |-> "ready", SetLifeTime |-> "idle",
       SetBeaconInd |-> "idle", SetWEPKeyEx |-> "idle",
       StartConnectEx |-> "child", StartDCF |-> "dcf",
       EndDCF |-> "child", Disconnect |-> "idle",
       StartScanEx |-> "scan", EndScan |-> "idle",
       Reset |-> "idle"]

Requests == DOMAIN From

(* What the driver can answer to a request at once.                          *)
Legal(r) == wm \in From[r] /\ (r = "Disconnect" => link)
Answers(r) ==
  (IF Legal(r) THEN {"OPERATING"} ELSE {"ILLEGAL_STATE"})
    \cup (IF faults < MaxFaults THEN {"FIFO_ERROR", "ILLEGAL_STATE"} ELSE {})

(* The program hands request r to the driver, which answers a.               *)
Ask(r, a) ==
  /\ a \in Answers(r)
  /\ requests' = IF a = "OPERATING" THEN Append(requests, r) ELSE requests
  /\ faults' = IF a = "OPERATING" \/ ~Legal(r) THEN faults ELSE faults + 1
  /\ UNCHANGED <<wm, link>>

NoRequest == UNCHANGED <<wm, link, requests, faults>>

(* The outcomes of a connection attempt that is not a success.               *)
Refusals == {"FAILED", "ILLEGAL_RATESET", "NO_ENTRY"}

Reply(r, result) == [request |-> r, result |-> result]
Losses == {Reply("StartConnectEx", "DISCONNECTED"),
           Reply("Indication", "AUTO_DISCONNECT")}

(* What the driver still has to do or to report for a request.               *)
Pending ==
  {requests[i] : i \in DOMAIN requests}
    \cup {m.request : m \in {replies[i] : i \in DOMAIN replies} \ Losses}

(* The driver runs its oldest request.                                       *)
RunRequest ==
  /\ requests # <<>>
  /\ requests' = Tail(requests)
  /\ LET r == Head(requests) IN
     \/ /\ Legal(r)
        /\ wm' = To[r]
        /\ link' = (r = "StartConnectEx" \/ (link /\ r \notin {"Reset", "Disconnect"}))
        /\ \E s \in {"SUCCESS"} \cup {x \in {"BAD_AID"} : r = "StartConnectEx"} :
              replies' = Append(replies, Reply(r, s))
        /\ UNCHANGED faults
     \/ /\ Legal(r) /\ r = "StartConnectEx"
        /\ \E f \in Refusals : replies' = Append(replies, Reply(r, f))
        /\ UNCHANGED <<wm, link, faults>>
     \/ /\ Legal(r) /\ faults < MaxFaults
        /\ \E f \in {"FAILED", "ILLEGAL_STATE"} :
              replies' = Append(replies, Reply(r, f))
        /\ faults' = faults + 1
        /\ UNCHANGED <<wm, link>>
     \/ /\ ~Legal(r)
        /\ replies' = Append(replies, Reply(r, "ILLEGAL_STATE"))
        /\ UNCHANGED <<wm, link, faults>>
  /\ UNCHANGED <<build, wcm, scanEx, told, slip>>

(* The connection is lost.  The driver may stay in its state until a reset.  *)
LoseLink ==
  /\ link /\ wm \in {"child", "dcf"}
  /\ link' = FALSE
  /\ wm' \in {wm, "idle"}
  /\ \E l \in Losses : replies' = Append(replies, l)
  /\ UNCHANGED <<build, wcm, scanEx, requests, faults, told, slip>>

-----------------------------------------------------------------------------
(* Parts of the handlers.                                                    *)

(* WcmSetPhase: FATAL_ERROR is final.                                        *)
SetPhase(p) == phase' = IF phase = "FATAL_ERROR" THEN phase ELSE p

(* WcmNotify: the pending notification, here id, is used up.                 *)
WcmNotifyAs(id, result) ==
  /\ notifyId' = "COMMON"
  /\ notice' = [id |-> id, result |-> result]
  /\ due' = due \ {id}
WcmNotify(result) == WcmNotifyAs(notifyId, result)
Silent == UNCHANGED <<notifyId, due, notice>>

Settle(p, result) == SetPhase(p) /\ WcmNotify(result)
Fatal == Settle("FATAL_ERROR", "FATAL_ERROR")

(* A callback hands over the next request of its sequence.                   *)
Follow(r) ==
  \/ Ask(r, "OPERATING") /\ UNCHANGED phase /\ Silent
  \/ Ask(r, "FIFO_ERROR") /\ Settle("IRREGULAR", "FAILURE")
  \/ Ask(r, "ILLEGAL_STATE") /\ Fatal

(* Mutant: a refused reset is forgotten.                                     *)
WcmWmResetLoose(p, id) ==
  /\ SetPhase(p) /\ notifyId' = id /\ UNCHANGED told
  /\ \/ resetting /\ NoRequest /\ UNCHANGED resetting
     \/ ~resetting /\ resetting' = TRUE /\ \E a \in Answers("Reset") : Ask("Reset", a)

(* WcmWmReset, after the phase became p and the pending notification id.     *)
WcmWmReset(p, id) ==
  \/ /\ resetting
     /\ SetPhase(p) /\ notifyId' = id
     /\ NoRequest /\ UNCHANGED <<resetting, told>>
  \/ /\ ~resetting
     /\ resetting' = TRUE
     /\ \/ Ask("Reset", "OPERATING") /\ SetPhase(p) /\ notifyId' = id /\ UNCHANGED told
        \/ /\ \E a \in {"FIFO_ERROR", "ILLEGAL_STATE"} : Ask("Reset", a)
           /\ SetPhase("FATAL_ERROR") /\ WcmNotifyAs(id, "FATAL_ERROR")

(* Mutant: no name of the notice is stored.                                  *)
AcceptUnnamed(p, id) ==
  /\ SetPhase(p)
  /\ due' = IF id = "TERMINATE" THEN {id} ELSE due \cup {id}
  /\ UNCHANGED <<notice, notifyId>>

(* A call is accepted: the phase becomes p and id will be notified.  A       *)
(* termination replaces what was due.                                        *)
Accept(p, id) ==
  /\ SetPhase(p)
  /\ notifyId' = id
  /\ due' = IF id = "TERMINATE" THEN {id} ELSE due \cup {id}
  /\ UNCHANGED notice

(* A call hands request r to the driver; refused, the phase becomes q.       *)
Begin(r, p, q, id) ==
  \/ Ask(r, "OPERATING") /\ Accept(p, id)
  \/ Ask(r, "FIFO_ERROR") /\ SetPhase(q) /\ Silent
  \/ Ask(r, "ILLEGAL_STATE") /\ SetPhase("FATAL_ERROR") /\ Silent

-----------------------------------------------------------------------------
(* The application's calls.  A call that returns early changes nothing.      *)

Init ==
  /\ build \in Builds
  /\ ready = FALSE
  /\ phase = "WAIT" /\ notifyId = "COMMON" /\ resetting = FALSE
  /\ authId = FALSE /\ wlStatus = FALSE /\ rateSet = FALSE
  /\ scanEx = "none"
  /\ wm = "off" /\ link = FALSE /\ requests = <<>> /\ replies = <<>>
  /\ faults = 0
  /\ due = {} /\ notice = [id |-> "COMMON", result |-> "SUCCESS"]
  /\ slip = {}

WCM_Init ==
  /\ ~ready
  /\ ready' = TRUE
  /\ phase' = "WAIT" /\ notifyId' = "COMMON" /\ resetting' = FALSE
  /\ authId' = FALSE /\ wlStatus' = FALSE
  /\ UNCHANGED <<build, rateSet, scanEx, driver, told, slip>>

WCM_Finish ==
  /\ ready /\ phase = "WAIT"
  /\ ready' = FALSE
  /\ UNCHANGED <<build, phase, notifyId, resetting, authId, wlStatus, rateSet,
                 scanEx, driver, told, slip>>

CallFrame == UNCHANGED <<build, ready, authId, wlStatus, scanEx, replies>>

(* WM_Init succeeds in state off only; when it reports a disabled driver, or *)
(* no channel is allowed, nothing has changed.                               *)
WCM_StartupAsync ==
  /\ ready /\ phase = "WAIT"
  /\ \/ /\ wm = "off"
        /\ \/ /\ requests' = Append(requests, "Enable")
              /\ Accept("WAIT_TO_IDLE", "STARTUP")
              /\ UNCHANGED faults
           \/ /\ faults < MaxFaults /\ faults' = faults + 1
              /\ \E p \in {"IRREGULAR", "FATAL_ERROR"} : SetPhase(p)
              /\ Silent /\ UNCHANGED requests
        /\ wm' = "ready" /\ UNCHANGED link
     \/ /\ wm # "off"
        /\ SetPhase("FATAL_ERROR") /\ Silent /\ NoRequest
  /\ UNCHANGED <<resetting, rateSet, slip>> /\ CallFrame

WCM_CleanupAsync ==
  /\ ready /\ phase = "IDLE"
  /\ Begin("PowerOff", "IDLE_TO_WAIT", phase, "CLEANUP")
  /\ UNCHANGED <<resetting, rateSet, slip>> /\ CallFrame

WCM_BeginSearchAsync ==
  /\ ready /\ phase = "IDLE"
  /\ Begin("StartScanEx", "IDLE_TO_SEARCH", phase, "BEGIN_SEARCH")
  /\ UNCHANGED <<resetting, rateSet, slip>> /\ CallFrame

(* No request: the running scan ends at its next callback.                   *)
WCM_EndSearchAsync ==
  /\ ready /\ phase = "SEARCH"
  /\ Accept("SEARCH_TO_IDLE", "END_SEARCH")
  /\ NoRequest /\ UNCHANGED <<resetting, rateSet, slip>> /\ CallFrame

(* The rates of the access point may or may not include the camouflage ones. *)
WCM_ConnectAsync ==
  /\ ready /\ phase = "IDLE"
  /\ rateSet' \in BOOLEAN
  /\ Begin("SetLifeTime", "IDLE_TO_DCF", phase, "CONNECT")
  /\ UNCHANGED <<resetting, slip>> /\ CallFrame

(* Without SDK_BUILD_ARM no request is made and wmResult is uninitialized.   *)
WCM_DisconnectAsync ==
  /\ ready /\ phase = "DCF"
  /\ \/ /\ resetting
        /\ Accept("DCF_TO_IDLE", "DISCONNECT")
        /\ NoRequest /\ UNCHANGED slip
     \/ /\ ~resetting /\ "SDK_BUILD_ARM" \in build
        /\ Begin("EndDCF", "DCF_TO_IDLE", phase, "DISCONNECT")
        /\ UNCHANGED slip
     \/ /\ ~resetting /\ "SDK_BUILD_ARM" \notin build
        /\ \/ Accept("DCF_TO_IDLE", "DISCONNECT") /\ slip' = slip \cup {"uninitialized"}
           \/ SetPhase("FATAL_ERROR") /\ Silent /\ UNCHANGED slip
        /\ NoRequest
  /\ UNCHANGED <<resetting, rateSet>> /\ CallFrame

(* A termination may overtake requests of an irregular phase.  The reset     *)
(* flag is set before WM_Reset is tried, and stays set when that is refused. *)
NoteSlip ==
  slip' = slip
    \cup {x \in {"overtaken"} : phase = "IRREGULAR" /\ phase' = "TERMINATING" /\ Pending # {}}
    \cup {x \in {"refused"} : ~resetting /\ resetting' /\ phase' = phase}

WCM_TerminateAsync ==
  /\ ready /\ phase \in {"IDLE", "DCF", "IRREGULAR", "SEARCH"}
  /\ \/ /\ phase = "SEARCH" \/ resetting
        /\ Accept("TERMINATING", "TERMINATE")
        /\ NoRequest /\ UNCHANGED resetting
     \/ /\ phase # "SEARCH" /\ ~resetting
        /\ \/ /\ wm = "ready" /\ faults < MaxFaults
              /\ faults' = faults + 1
              /\ SetPhase("FATAL_ERROR") /\ Silent
              /\ UNCHANGED <<wm, link, requests, resetting>>
           \/ /\ wm = "ready"
              /\ wm' = "off" /\ SetPhase("WAIT") /\ notifyId' = "COMMON"
              /\ due' = {}
              /\ UNCHANGED <<notice, link, requests, faults, resetting>>
           \/ /\ wm \in {"stop", "idle"}
              /\ Begin(IF wm = "stop" THEN "Disable" ELSE "PowerOff",
                       "TERMINATING", phase, "TERMINATE")
              /\ UNCHANGED resetting
           \/ /\ wm \notin {"ready", "stop", "idle"}
              /\ resetting' = TRUE
              /\ Begin("Reset", "TERMINATING", phase, "TERMINATE")
  /\ NoteSlip /\ UNCHANGED rateSet /\ CallFrame

-----------------------------------------------------------------------------
(* The driver's callbacks.                                                   *)

(* The oldest callback, of request r with a result in results, is delivered. *)
Deliver(r, results) ==
  /\ ready /\ scanEx = "none" /\ replies # <<>>
  /\ Head(replies).request = r /\ Head(replies).result \in results
  /\ replies' = Tail(replies)
  /\ UNCHANGED <<build, ready, slip>>

WcmWmcbIndication ==
  /\ Deliver("Indication", {"AUTO_DISCONNECT"})
  /\ \/ /\ phase \in {"IDLE_TO_DCF", "DCF_TO_IDLE"}
        /\ SetPhase("IRREGULAR")
        /\ Silent /\ NoRequest /\ UNCHANGED resetting
     \/ /\ phase \in {"DCF", "IRREGULAR"}
        /\ WcmWmReset(phase, notifyId)
     \/ /\ phase \notin {"IDLE_TO_DCF", "DCF_TO_IDLE", "DCF", "IRREGULAR"}
        /\ Silent /\ NoRequest /\ UNCHANGED <<phase, resetting>>
  /\ UNCHANGED <<authId, wlStatus, rateSet, scanEx>>

NextOf == [Enable |-> "PowerOn", PowerOff |-> "Disable",
           SetLifeTime |-> "SetBeaconInd", SetBeaconInd |-> "SetWEPKeyEx",
           SetWEPKeyEx |-> "StartConnectEx"]

WcmWmcbCommon ==
  /\ \E r \in DOMAIN NextOf \cup {"PowerOn", "Disable"} :
       \/ /\ Deliver(r, {"SUCCESS"})
          /\ \/ r \in DOMAIN NextOf /\ Follow(NextOf[r])
             \/ r = "PowerOn" /\ Settle("IDLE", "SUCCESS") /\ NoRequest
             \/ /\ r = "Disable"
                /\ IF wm = "ready"
                     THEN wm' = "off" /\ Settle("WAIT", "SUCCESS")
                     ELSE UNCHANGED wm /\ Fatal
                /\ UNCHANGED <<link, requests, faults>>
       \/ Deliver(r, {"FAILED"}) /\ Settle("IRREGULAR", "FAILURE") /\ NoRequest
       \/ Deliver(r, {"ILLEGAL_STATE"}) /\ Fatal /\ NoRequest
  /\ UNCHANGED <<resetting, authId, wlStatus, rateSet, scanEx>>

ScanFrame == UNCHANGED <<authId, wlStatus, rateSet>>

(* The first callback of a search notifies that it has begun.                *)
WcmWmcbScanEx ==
  /\ \/ /\ Deliver("StartScanEx", {"SUCCESS"})
        /\ scanEx' = "switch"
        /\ \/ phase = "IDLE_TO_SEARCH" /\ Settle("SEARCH", "SUCCESS")
           \/ phase # "IDLE_TO_SEARCH" /\ UNCHANGED phase /\ Silent
        /\ NoRequest /\ UNCHANGED resetting
     \/ /\ Deliver("StartScanEx", {"FAILED"})
        /\ WcmWmReset(phase, notifyId) /\ UNCHANGED scanEx
     \/ /\ Deliver("StartScanEx", {"ILLEGAL_STATE"})
        /\ Fatal /\ NoRequest /\ UNCHANGED <<resetting, scanEx>>
  /\ ScanFrame

(* It goes on with what the phase is after that notice.  In a search it      *)
(* notifies what it found, and only then scans the next channel.             *)
ScanSwitch ==
  /\ scanEx = "switch"
  /\ \/ /\ phase = "SEARCH"
        /\ notifyId' = "FOUND_AP" /\ scanEx' = "next"
        /\ NoRequest /\ UNCHANGED <<phase, told, resetting>>
     \/ /\ phase = "SEARCH_TO_IDLE"
        /\ scanEx' = "none" /\ Follow("EndScan") /\ UNCHANGED resetting
     \/ /\ phase = "TERMINATING"
        /\ scanEx' = "none" /\ WcmWmReset(phase, notifyId)
     \/ /\ phase \notin {"SEARCH", "SEARCH_TO_IDLE", "TERMINATING"}
        /\ scanEx' = "none" /\ Fatal /\ NoRequest /\ UNCHANGED resetting
  /\ UNCHANGED <<build, ready, replies, slip>> /\ ScanFrame

ScanNext ==
  /\ scanEx = "next" /\ scanEx' = "none"
  /\ Follow("StartScanEx")
  /\ UNCHANGED <<build, ready, replies, slip, resetting>> /\ ScanFrame

WcmWmcbEndScan ==
  /\ \/ Deliver("EndScan", {"SUCCESS"}) /\ Settle("IDLE", "SUCCESS")
        /\ NoRequest /\ UNCHANGED resetting
     \/ Deliver("EndScan", {"FAILED"}) /\ WcmWmReset(phase, notifyId)
     \/ Deliver("EndScan", {"ILLEGAL_STATE"}) /\ Fatal
        /\ NoRequest /\ UNCHANGED resetting
  /\ UNCHANGED scanEx /\ ScanFrame

(* Mutant: a connection lost while it is made settles the phase at once.     *)
ConnectionLostEager ==
  /\ Deliver("StartConnectEx", {"DISCONNECTED"})
  /\ \/ phase = "DCF" /\ authId' = FALSE /\ WcmWmReset(phase, "DISCONNECT")
     \/ /\ phase # "DCF"
        /\ IF phase = "IDLE_TO_DCF" THEN Settle("IDLE", "FAILURE")
                                    ELSE UNCHANGED phase /\ Silent
        /\ NoRequest /\ UNCHANGED <<resetting, authId>>
  /\ UNCHANGED wlStatus

(* A lost connection.  In phase DCF it becomes a disconnection to notify.    *)
ConnectionLost ==
  /\ Deliver("StartConnectEx", {"DISCONNECTED"})
  /\ \/ /\ phase \in {"DCF_TO_IDLE", "IDLE_TO_DCF"}
        /\ authId' = (authId /\ phase # "DCF_TO_IDLE")
        /\ SetPhase("IRREGULAR")
        /\ Silent /\ NoRequest /\ UNCHANGED resetting
     \/ /\ phase = "DCF"
        /\ authId' = FALSE
        /\ WcmWmReset(phase, "DISCONNECT")
     \/ /\ phase = "IRREGULAR"
        /\ WcmWmReset(phase, notifyId) /\ UNCHANGED authId
     \/ /\ phase \notin {"DCF_TO_IDLE", "IDLE_TO_DCF", "DCF", "IRREGULAR"}
        /\ Silent /\ NoRequest /\ UNCHANGED <<phase, resetting, authId>>
  /\ UNCHANGED wlStatus

(* Without SDK_PORT WM_StartDCF is not called, and wmResult stays            *)
(* WM_ERRCODE_MAX.                                                           *)
Connected ==
  /\ Deliver("StartConnectEx", {"SUCCESS"})
  /\ \/ /\ phase = "IRREGULAR"
        /\ WcmWmReset("IDLE_TO_DCF", notifyId) /\ UNCHANGED authId
     \/ /\ phase # "IRREGULAR"
        /\ authId' = TRUE
        /\ \/ "SDK_PORT" \in build /\ Follow("StartDCF")
           \/ "SDK_PORT" \notin build /\ Fatal /\ NoRequest
        /\ UNCHANGED resetting
  /\ UNCHANGED wlStatus

WcmWmcbConnect ==
  /\ \/ ConnectionLost
     \/ Connected
     \/ /\ Deliver("StartConnectEx", {"BAD_AID"})
        /\ WcmWmReset(IF phase = "IRREGULAR" THEN "IDLE_TO_DCF" ELSE phase, notifyId)
        /\ UNCHANGED <<authId, wlStatus>>
     \/ /\ Deliver("StartConnectEx", {"FAILED", "ILLEGAL_RATESET", "NO_ENTRY"})
        /\ LET result == Head(replies).result IN
           wlStatus' = IF result = "NO_ENTRY" THEN wlStatus
                       ELSE result = "ILLEGAL_RATESET"
        /\ WcmWmReset("IDLE_TO_DCF", notifyId) /\ UNCHANGED authId
     \/ /\ Deliver("StartConnectEx", {"ILLEGAL_STATE"})
        /\ Fatal /\ NoRequest /\ UNCHANGED <<resetting, authId, wlStatus>>
  /\ UNCHANGED <<rateSet, scanEx>>

(* Mutant: the connection may have been lost meanwhile.                      *)
WcmWmcbStartDCFBlind ==
  /\ \/ Deliver("StartDCF", {"SUCCESS"}) /\ Settle("DCF", "SUCCESS")
     \/ Deliver("StartDCF", {"FAILED", "ILLEGAL_STATE"}) /\ Fatal
  /\ NoRequest /\ UNCHANGED <<resetting, scanEx>> /\ ScanFrame

WcmWmcbStartDCF ==
  /\ \/ /\ Deliver("StartDCF", {"SUCCESS"})
        /\ \/ phase = "IRREGULAR" /\ WcmWmReset("IDLE_TO_DCF", notifyId)
           \/ /\ phase # "IRREGULAR" /\ Settle("DCF", "SUCCESS")
              /\ NoRequest /\ UNCHANGED resetting
     \/ /\ Deliver("StartDCF", {"FAILED", "ILLEGAL_STATE"})
        /\ Fatal /\ NoRequest /\ UNCHANGED resetting
  /\ UNCHANGED scanEx /\ ScanFrame

(* An illegal state, rightly reported or not, means that the connection is   *)
(* gone already; no WM_Reset has to make up for it, so it costs no fault.    *)
WcmWmcbEndDCF ==
  /\ \/ /\ Deliver("EndDCF", {"SUCCESS"})
        /\ \/ phase = "IRREGULAR" /\ WcmWmReset("DCF_TO_IDLE", notifyId)
           \/ /\ phase # "IRREGULAR"
              /\ \/ /\ \/ Ask("Disconnect", "OPERATING") /\ UNCHANGED phase /\ Silent
                       \/ Ask("Disconnect", "FIFO_ERROR") /\ Settle("IRREGULAR", "FAILURE")
                    /\ UNCHANGED resetting
                 \/ /\ ~Legal("Disconnect") \/ faults < MaxFaults
                    /\ WcmWmReset("DCF_TO_IDLE", notifyId)
     \/ /\ Deliver("EndDCF", {"FAILED", "ILLEGAL_STATE"})
        /\ WcmWmReset("DCF_TO_IDLE", notifyId)
  /\ UNCHANGED scanEx /\ ScanFrame

WcmWmcbDisconnect ==
  /\ \/ /\ Deliver("Disconnect", {"SUCCESS"})
        /\ \/ /\ phase = "IRREGULAR"
              /\ WcmWmReset("DCF_TO_IDLE", notifyId) /\ UNCHANGED authId
           \/ /\ phase # "IRREGULAR"
              /\ authId' = FALSE /\ Settle("IDLE", "SUCCESS")
              /\ NoRequest /\ UNCHANGED resetting
     \/ /\ Deliver("Disconnect", {"FAILED", "ILLEGAL_STATE"})
        /\ WcmWmReset("DCF_TO_IDLE", notifyId) /\ UNCHANGED authId
  /\ UNCHANGED <<wlStatus, rateSet, scanEx>>

(* Mutants: the rates are not looked at, or the failure is not told.         *)
ReconnectAlways ==
  /\ wlStatus' = FALSE /\ UNCHANGED rateSet
  /\ \/ wlStatus /\ Follow("StartConnectEx")
     \/ ~wlStatus /\ Settle("IDLE", "FAILURE") /\ NoRequest
ReconnectHidden ==
  /\ wlStatus' = FALSE /\ UNCHANGED rateSet
  /\ Settle("IDLE", "SUCCESS") /\ NoRequest

(* The rates the access point refused are camouflaged once, and the          *)
(* connection is tried again.                                                *)
Reconnect ==
  /\ wlStatus' = FALSE
  /\ \/ /\ wlStatus /\ ~rateSet
        /\ rateSet' = TRUE
        /\ Follow("StartConnectEx")
     \/ /\ ~(wlStatus /\ ~rateSet)
        /\ Settle("IDLE", "FAILURE") /\ NoRequest /\ UNCHANGED rateSet

WcmWmcbReset ==
  /\ \/ /\ Deliver("Reset", {"SUCCESS"})
        /\ resetting' = FALSE /\ authId' = FALSE
        /\ \/ /\ phase \in {"IDLE_TO_SEARCH", "SEARCH"}
              /\ Settle("IDLE", "FAILURE")
              /\ NoRequest /\ UNCHANGED <<wlStatus, rateSet>>
           \/ /\ phase = "IDLE_TO_DCF" /\ Reconnect
           \/ /\ phase \in {"SEARCH_TO_IDLE", "DCF", "IRREGULAR", "DCF_TO_IDLE"}
              /\ Settle("IDLE", "SUCCESS")
              /\ NoRequest /\ UNCHANGED <<wlStatus, rateSet>>
           \/ /\ phase = "TERMINATING" /\ Follow("PowerOff")
              /\ UNCHANGED <<wlStatus, rateSet>>
           \/ /\ phase \in {"WAIT", "WAIT_TO_IDLE", "IDLE", "IDLE_TO_WAIT", "FATAL_ERROR"}
              /\ Fatal /\ NoRequest /\ UNCHANGED <<wlStatus, rateSet>>
     \/ /\ Deliver("Reset", {"FAILED", "ILLEGAL_STATE"})
        /\ Fatal /\ NoRequest
        /\ UNCHANGED <<resetting, authId, wlStatus, rateSet>>
  /\ UNCHANGED scanEx

Callback ==
  \/ WcmWmcbIndication \/ WcmWmcbCommon \/ WcmWmcbScanEx \/ WcmWmcbEndScan
  \/ WcmWmcbConnect \/ WcmWmcbStartDCF \/ WcmWmcbEndDCF \/ WcmWmcbDisconnect
  \/ WcmWmcbReset

Call ==
  \/ WCM_Init \/ WCM_Finish \/ WCM_StartupAsync \/ WCM_CleanupAsync
  \/ WCM_BeginSearchAsync \/ WCM_EndSearchAsync \/ WCM_ConnectAsync
  \/ WCM_DisconnectAsync \/ WCM_TerminateAsync

Next == Call \/ Callback \/ ScanSwitch \/ ScanNext \/ RunRequest \/ LoseLink

(* The driver works and its callbacks are delivered; nobody has to call.     *)
Fairness ==
  /\ WF_vars(RunRequest) /\ WF_vars(Callback)
  /\ WF_vars(ScanSwitch) /\ WF_vars(ScanNext)

Spec == Init /\ [][Next]_vars /\ Fairness

-----------------------------------------------------------------------------
TypeOK ==
  /\ build \in Builds /\ ready \in BOOLEAN
  /\ phase \in Phases /\ notifyId \in Notify
  /\ {resetting, authId, wlStatus, rateSet, link} \subseteq BOOLEAN
  /\ scanEx \in {"none", "switch", "next"}
  /\ wm \in States /\ faults \in 0 .. MaxFaults
  /\ requests \in Seq(Requests)
  /\ \A i \in DOMAIN replies : replies[i].request \in Requests \cup {"Indication"}
  /\ due \subseteq Asked
  /\ notice.id \in Notify /\ notice.result \in Results

(* The two holes in which a call is accepted and nothing is asked of the     *)
(* driver: after a refused WM_Reset left the reset flag set, and after the   *)
(* uninitialized result of WCM_DisconnectAsync.                              *)
Abandoned == {"refused", "uninitialized"} \cap slip # {}

(* While the program is down or waits to be started, the driver is off and   *)
(* has no callback left: WCM_Finish may drop the work area, which every      *)
(* callback uses without looking.  In IDLE the driver is idle with nothing   *)
(* under way, so that the callbacks of the next call are not those of an     *)
(* earlier one (system.c:158-166, 1150-1165).                                *)
RestIsQuiet ==
  /\ TypeOK
  /\ ~ready \/ phase = "WAIT" => wm = "off" /\ requests = <<>> /\ replies = <<>>
  /\ phase = "IDLE" => Pending = {} /\ ~resetting /\ wm = "idle"

(* The reset flag stands for a reset under way: whoever leaves his own       *)
(* recovery to it (WcmWmReset, WCM_DisconnectAsync, WCM_TerminateAsync) is   *)
(* served.  Excepted is a terminate whose WM_Reset was refused.              *)
ResetBacked ==
  resetting /\ "refused" \notin slip /\ phase # "FATAL_ERROR" => "Reset" \in Pending

(* A connection in use has an association id and a driver that is connected, *)
(* unless its loss is about to be reported or repaired.                      *)
DcfJoined ==
  phase = "DCF" /\ ~resetting
    => /\ authId
       /\ \/ wm = "dcf" /\ link
          \/ \E i \in DOMAIN replies : replies[i] \in Losses

(* The phases in which nothing is under way for the application: the stable  *)
(* ones, DCF when no reset is on its way to end it, and IRREGULAR when the   *)
(* driver owes no callback - but not the IRREGULAR that a loss of the        *)
(* connection leads an abandoned request to.                                 *)
AtRest ==
  \/ phase \in {"IDLE", "WAIT", "SEARCH"}
  \/ phase = "DCF" /\ ~resetting
  \/ phase = "IRREGULAR" /\ Pending = {} /\ ~Abandoned

(* Every accepted request is notified, under its own name, before the        *)
(* program rests; a termination answers the requests it replaced             *)
(* (system.c:694-820, 1027-1076 and the callbacks at 1207-1933).             *)
RestIsAnswered == AtRest => due = {}

(* A notice of success is given in the phase that it promises.  Excepted are *)
(* three weaknesses of the code: a terminate in phase IRREGULAR overtakes a  *)
(* connection request; a late callback comes after the fatal error that      *)
(* another call was told of; and a connection is lost while the failed       *)
(* attempt to make it is reset (WcmWmcbReset reports success whenever it     *)
(* finds IRREGULAR).                                                         *)
Promised == [STARTUP |-> {"IDLE"}, CLEANUP |-> {"WAIT"},
             BEGIN_SEARCH |-> {"SEARCH"}, END_SEARCH |-> {"IDLE"},
             CONNECT |-> {"DCF"}, DISCONNECT |-> {"IDLE"}, TERMINATE |-> {"WAIT"}]
NoticeTrue ==
  [][ \A id \in Asked :
        notifyId = id /\ notifyId' = "COMMON" /\ notice' = [id |-> id, result |-> "SUCCESS"]
          => \/ phase' \in Promised[id]
             \/ "overtaken" \in slip
             \/ phase = "FATAL_ERROR"
             \/ phase = "IRREGULAR" /\ id = "CONNECT" ]_vars

(* Every transitional phase ends, those of an abandoned request excepted.    *)
Settles ==
  phase \in Transitional
    ~> phase \notin Transitional \/ Abandoned
=============================================================================
