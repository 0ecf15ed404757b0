------------------------------ MODULE WcmSend ------------------------------
(***************************************************************************)
(* How frames leave the connection manager (libraries/wcm/src/cpsif.c) and *)
(* the keep-alive alarm of system.c, as the console build compiles them.   *)
(*                                                                         *)
(* One buffer, wcmw->sendBuf, holds the frame the WM driver is sending,    *)
(* and sendMutex guards it.  A thread locks the mutex, copies its frame,   *)
(* hands it to the driver and sleeps until the driver's callback.  The     *)
(* alarm sends an empty frame from an interrupt, where it cannot sleep: it *)
(* takes the mutex in the name of a thread that does not exist, and the    *)
(* driver's callback gives it back.                                        *)
(*                                                                         *)
(* A call runs with interrupts off and gives up the processor only to      *)
(* sleep, so each stretch between two sleeps is one action; an alarm or a  *)
(* callback is one action.  The driver is external: it refuses or accepts  *)
(* a frame, and answers every frame it accepted while it is powered.       *)
(***************************************************************************)
EXTENDS Naturals

CONSTANTS
  Threads,    \* threads that send
  NoThread,   \* the mutex is free
  Irq,        \* WCMCPSIF_DUMMY_IRQ_THREAD
  NullMax     \* bound: empty frames the driver holds at one time

WcmSendConstants ==
  /\ NoThread \notin Threads /\ Irq \notin Threads /\ Irq # NoThread
  /\ NullMax \in Nat
ASSUME WcmSendAssumption == WcmSendConstants

VARIABLES
  connPhase,     \* wcmw->phase; "NULL" when there is no wcmw
  connResetting, \* wcmw->resetting is WCM_RESETTING_ON
  alarm,         \* keepAliveAlarm is set
  mutex,         \* sendMutex: the holder and how often it locked
  pc,            \* where each thread is
  sendBuf,       \* the thread whose frame is in wcmw->sendBuf
  sendResult,    \* wcmCpsifw.sendResult
  frames,        \* threads whose frame the driver holds
  nulls,         \* empty frames the driver holds
  answer         \* history: the driver's answer to each thread's last frame

conn == <<connPhase, connResetting>>
cpsifVars == <<conn, alarm, mutex, pc, sendBuf, sendResult, frames, nulls, answer>>

ConnPhases  == {"NULL", "WAIT", "DCF", "FATAL_ERROR", "other"}
SendResults == {"SUCCESS", "FAILED"}
Free    == [thread |-> NoThread, count |-> 0]

(* "waiting" is asleep in the queue of the mutex and "ready" has been woken  *)
(* from it; "sending" is asleep in sendQ and "sent" has been woken from it.  *)
Places == {"idle", "waiting", "ready", "sending", "sent"}

CanSend == connPhase = "DCF" /\ ~connResetting

-----------------------------------------------------------------------------
(* Threads.                                                                  *)

(* OS_WakeupThread(&mutex->queue): all who wait for the mutex try again.     *)
WakeQueue(places) ==
  [u \in Threads |-> IF places[u] = "waiting" THEN "ready" ELSE places[u]]

ReturnFrom(t) == pc' = WakeQueue([pc EXCEPT ![t] = "idle"])

(* With the mutex held: the connection may have gone while the thread waited.*)
NotConnected(t) ==
  /\ ~CanSend
  /\ ReturnFrom(t)
  /\ UNCHANGED <<mutex, sendBuf, frames>>

(* The frame is copied before the driver is asked.                           *)
Refused(t) ==
  /\ CanSend
  /\ sendBuf' = t
  /\ ReturnFrom(t)
  /\ UNCHANGED <<mutex, frames>>

AcceptedUnlocked(t) ==
  /\ CanSend
  /\ sendBuf' = t
  /\ frames' = frames \cup {t}
  /\ pc' = WakeQueue([pc EXCEPT ![t] = "sending"])
  /\ UNCHANGED mutex

(* The driver takes the frame: the thread keeps the mutex while it sleeps.   *)
Accepted(t) ==
  /\ CanSend
  /\ sendBuf' = t
  /\ frames' = frames \cup {t}
  /\ mutex' = [thread |-> t, count |-> 1]
  /\ pc' = [pc EXCEPT ![t] = "sending"]

(* OS_LockMutex and what follows.                                            *)
LockAndSend(t) ==
  \/ /\ mutex.thread # NoThread
     /\ pc' = [pc EXCEPT ![t] = "waiting"]
     /\ UNCHANGED <<mutex, sendBuf, frames>>
  \/ /\ mutex.thread = NoThread
     /\ NotConnected(t) \/ Refused(t) \/ Accepted(t)

(* WCM_SendDCFData, or WCM_SendDCFDataEx, which copies a header and a body.  *)
WCM_SendDCFData(t) ==
  /\ pc[t] = "idle" /\ connPhase # "NULL"
  /\ LockAndSend(t)
  /\ UNCHANGED <<conn, alarm, sendResult, nulls, answer>>

(* A thread woken from the queue of the mutex tries again.                   *)
Retry(t) ==
  /\ pc[t] = "ready"
  /\ LockAndSend(t)
  /\ UNCHANGED <<conn, alarm, sendResult, nulls, answer>>

(* A thread woken from sendQ reads sendResult, unlocks and returns.          *)
Finish(t) ==
  /\ pc[t] = "sent"
  /\ IF mutex.thread = t
       THEN /\ mutex' = Free
            /\ ReturnFrom(t)
       ELSE /\ pc' = [pc EXCEPT ![t] = "idle"]
            /\ UNCHANGED mutex
  /\ UNCHANGED <<conn, alarm, sendBuf, sendResult, frames, nulls, answer>>

-----------------------------------------------------------------------------
(* The driver's callbacks and the alarm, in interrupts.                      *)

(* WCMi_ResetKeepAliveAlarm.                                                 *)
WCMi_ResetKeepAliveAlarm == alarm' = (connPhase = "DCF")

(* The driver has sent the frame of thread t, or failed to.                  *)
WcmCpsifWmCallback(t) ==
  /\ t \in frames
  /\ frames' = frames \ {t}
  /\ \E r \in SendResults :
       /\ sendResult' = r
       /\ answer' = [answer EXCEPT ![t] = r]
       /\ IF r = "SUCCESS" THEN WCMi_ResetKeepAliveAlarm ELSE UNCHANGED alarm
  /\ pc' = [u \in Threads |-> IF pc[u] = "sending" THEN "sent" ELSE pc[u]]
  /\ UNCHANGED <<conn, mutex, sendBuf, nulls>>

UnlockMutexInIRQForgets ==
  IF mutex.thread = Irq
    THEN /\ mutex' = IF mutex.count = 1 THEN Free
                     ELSE [mutex EXCEPT !.count = @ - 1]
         /\ UNCHANGED pc
    ELSE UNCHANGED <<mutex, pc>>

(* WcmCpsifUnlockMutexInIRQ.                                                 *)
WcmCpsifUnlockMutexInIRQ ==
  IF mutex.thread # Irq THEN UNCHANGED <<mutex, pc>>
  ELSE IF mutex.count = 1
    THEN mutex' = Free /\ pc' = WakeQueue(pc)
    ELSE mutex' = [mutex EXCEPT !.count = @ - 1] /\ UNCHANGED pc

(* The driver has sent an empty frame.                                       *)
WcmCpsifKACallback ==
  /\ nulls > 0
  /\ nulls' = nulls - 1
  /\ WcmCpsifUnlockMutexInIRQ
  /\ UNCHANGED <<conn, alarm, sendBuf, sendResult, frames, answer>>

(* WcmCpsifTryLockMutexInIRQ takes a mutex that is free or its own.          *)
TryLockMutexInIRQ == mutex.thread \in {NoThread, Irq}

(* WCMi_CpsifSendNullPacket.  A refused frame locks and unlocks.             *)
WCMi_CpsifSendNullPacket ==
  \/ /\ CanSend /\ TryLockMutexInIRQ
     /\ nulls < NullMax
     /\ nulls' = nulls + 1
     /\ mutex' = [thread |-> Irq, count |-> mutex.count + 1]
     /\ UNCHANGED pc
  \/ /\ CanSend /\ TryLockMutexInIRQ
     /\ pc' = IF mutex.count = 0 THEN WakeQueue(pc) ELSE pc
     /\ UNCHANGED <<mutex, nulls>>
  \/ /\ ~(CanSend /\ TryLockMutexInIRQ)
     /\ UNCHANGED <<mutex, nulls, pc>>

(* The alarm goes off.                                                       *)
WcmKeepAliveAlarm ==
  /\ alarm
  /\ WCMi_CpsifSendNullPacket
  /\ WCMi_ResetKeepAliveAlarm
  /\ UNCHANGED <<conn, sendBuf, sendResult, frames, answer>>

-----------------------------------------------------------------------------
(* The connection, as far as a sender sees it.                               *)

(* WcmSetPhase: FATAL_ERROR is final, the alarm belongs to DCF.              *)
WcmSetPhase(p) ==
  /\ connPhase' = IF connPhase = "FATAL_ERROR" THEN connPhase ELSE p
  /\ alarm' = (p = "DCF" \/ (alarm /\ connPhase # "DCF"))

(* Calls and callbacks of the phase machine (module WcmPhase).  The driver   *)
(* is powered off, the phase WAIT, only when it has answered every frame.    *)
ChangePhase ==
  /\ \E p \in ConnPhases \ {"NULL"} :
       /\ connPhase \notin {"NULL", p}
       /\ connPhase = "WAIT" => p # "DCF"
       /\ p = "WAIT" => connPhase # "DCF" /\ frames = {} /\ nulls = 0
       /\ WcmSetPhase(p)
  /\ UNCHANGED <<connResetting, mutex, pc, sendBuf, sendResult, frames, nulls, answer>>

(* WcmWmReset begins a reset and WcmWmcbReset ends it.                       *)
ResetBeginsOrEnds ==
  /\ connPhase # "NULL"
  /\ connResetting' = ~connResetting
  /\ UNCHANGED <<connPhase, alarm, mutex, pc, sendBuf, sendResult, frames, nulls, answer>>

(* WCM_Init, and WCM_Finish, which leaves the mutex as it is.                *)
InitOrFinish ==
  /\ \/ connPhase = "NULL" /\ connPhase' = "WAIT" /\ connResetting' = FALSE
     \/ connPhase = "WAIT" /\ connPhase' = "NULL" /\ UNCHANGED connResetting
  /\ UNCHANGED <<alarm, mutex, pc, sendBuf, sendResult, frames, nulls, answer>>

-----------------------------------------------------------------------------
(* WCMi_InitCpsif runs once, in the first WCM_Init.                          *)
CpsifInit ==
  /\ connPhase = "WAIT" /\ connResetting = FALSE /\ alarm = FALSE
  /\ mutex = Free
  /\ pc = [t \in Threads |-> "idle"]
  /\ sendBuf = NoThread /\ sendResult = "SUCCESS"
  /\ frames = {} /\ nulls = 0
  /\ answer = [t \in Threads |-> "SUCCESS"]

Thread(t) == WCM_SendDCFData(t) \/ Retry(t) \/ Finish(t) \/ WcmCpsifWmCallback(t)
Interrupt == WcmCpsifKACallback \/ WcmKeepAliveAlarm
Manager   == ChangePhase \/ ResetBeginsOrEnds \/ InitOrFinish

CpsifNext == (\E t \in Threads : Thread(t)) \/ Interrupt \/ Manager

CpsifSpec == CpsifInit /\ [][CpsifNext]_cpsifVars

-----------------------------------------------------------------------------
CpsifTypeOK ==
  /\ connPhase \in ConnPhases /\ connResetting \in BOOLEAN /\ alarm \in BOOLEAN
  /\ mutex \in [thread : Threads \cup {NoThread, Irq}, count : Nat]
  /\ pc \in [Threads -> Places]
  /\ sendBuf \in Threads \cup {NoThread} /\ sendResult \in SendResults
  /\ frames \subseteq Threads /\ nulls \in Nat
  /\ answer \in [Threads -> SendResults]

(* The driver sends what the caller gave: while it holds a thread's frame,   *)
(* the one buffer still has that frame, whoever else sends or is woken by    *)
(* the alarm; and the result a woken thread is about to read is the          *)
(* driver's answer to its own frame, not to another's.                       *)
FrameWhole ==
  /\ \A t \in frames : sendBuf = t
  /\ \A t \in Threads : pc[t] = "sent" => sendResult = answer[t]

(* Nobody is left asleep.  The mutex is held only by a thread whose frame    *)
(* the driver holds or that is about to unlock it, or by the interrupt for   *)
(* just as many empty frames as the driver holds; when it is free no thread  *)
(* waits in its queue.  A thread asleep in sendQ has its frame with the      *)
(* driver.  A connection never loses its keep-alive alarm.                   *)
NeverStuck ==
  /\ CpsifTypeOK
  /\ \A t \in Threads :
       /\ pc[t] = "sending" <=> t \in frames
       /\ pc[t] \in {"sending", "sent"} <=> mutex.thread = t
       /\ mutex.thread = t => mutex.count = 1 /\ nulls = 0
  /\ mutex.thread = Irq => mutex.count = nulls /\ nulls > 0
  /\ mutex.thread = NoThread =>
       mutex.count = 0 /\ nulls = 0 /\ \A t \in Threads : pc[t] # "waiting"
  /\ connPhase = "DCF" => alarm
=============================================================================
