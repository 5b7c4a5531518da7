-------------------------- MODULE ServerLifeProofs --------------------------
(***************************************************************************)
(* Theorems about ServerLife: its types, the order in which Stop takes the *)
(* server apart, and the hand-off of requests, which implements JsonCalls  *)
(* for any number of requests.                                             *)
(***************************************************************************)
EXTENDS ServerLife, TLAPS

\* Where the network thread has a request.
AtRequest == {"request", "inscheduler"} \cup InSubmit

\* There is a network thread only if it was created.
ThreadInv ==
    /\ main = "start" => net = "none"
    /\ ~ thread_created => net = "none"

\* The listeners go when the network thread has ended.
StopInv ==
    /\ main \in {"processors", "stopped"} => net \in {"none", "ended"}
    /\ processors = "null" => main \in {"stopped", "exit"}

\* The network thread has a request, that nobody will send again, just while it is at it.
RequestInv ==
    /\ current = NoRequest <=> net \notin AtRequest
    /\ current \notin to_come
    /\ net \in InSubmit => current \in ForFFFF

\* How far the request under way is: not executed while it is pending, executed once and
\* with its own result in m_json_result when it is not.
HandOffInv ==
    /\ \A r \in to_come : ran[r] = 0 /\ answer[r] = NoRequest
    /\ net \in AtRequest => answer[current] = NoRequest
    /\ net \in {"request", "inscheduler", "submit"} => ran[current] = 0
    /\ net \in {"locked", "wait"} /\ m_json_pending => ran[current] = 0
    /\ net \in {"locked", "wait"} /\ ~ m_json_pending => m_json_result = current
    /\ net = "answered" => result = current

LifeInv ==
    /\ LifeTypeOK /\ ThreadInv /\ StopInv /\ ListenersOutliveNetwork
    /\ RequestInv /\ PendingHasCaller /\ HandOffInv

-----------------------------------------------------------------------------
(* Steps *)

\* The steps that leave the network thread, its request and the hand-off alone.
Untouched ==
    UNCHANGED <<net, m_json_pending, m_json_method, given, to_come, current, source>>

\* The steps of the main and the timer thread, but two, leave the network thread alone.
LEMMA UntouchedSteps ==
    ASSUME \/ PtStart \/ StartMidi \/ AddFFFFCallback \/ LockJson \/ UnlockJson \/ Draw
           \/ PtStop \/ SchedulerStopped \/ DeleteScheduler \/ DeleteDaemon \/ HttpIsGone
           \/ DeleteOsc \/ ShutDaemonDown \/ Join \/ DeleteProcessors
           \/ Callback \/ AdvanceTime \/ EventsDone \/ UseAfterFree
    PROVE  Untouched
  BY Zenon DEF Untouched, PtStart, StartMidi, AddFFFFCallback, LockJson, UnlockJson, Draw,
     PtStop, SchedulerStopped, DeleteScheduler, DeleteDaemon, HttpIsGone, DeleteOsc,
     ShutDaemonDown, Join, DeleteProcessors, Callback, AdvanceTime, EventsDone,
     UseAfterFree, Exit, handoff, saved, given, calls

\* A step that leaves the request and the hand-off alone keeps what is said of them.
LEMMA UntouchedHandOff ==
    ASSUME RequestInv, PendingHasCaller, HandOffInv, Untouched
    PROVE  RequestInv' /\ PendingHasCaller' /\ HandOffInv'
  BY DEF Untouched, RequestInv, PendingHasCaller, HandOffInv, given

\* All steps: those above, one of the main thread that executes a request, one that begins
\* the network thread, and the network thread's own.
LEMMA StepKinds ==
    ASSUME [LifeNext]_vars
    PROVE  \/ UNCHANGED vars
           \/ Untouched
           \/ NewDaemon \/ ExecuteJson
           \/ NetTop \/ NetHttp \/ NetOsc \/ NetCheck \/ NetRequest \/ NetScheduled
           \/ Submit \/ CondWait \/ WakeUp \/ TakeResult \/ ReturnResult
  BY UntouchedSteps DEF LifeNext, Main, Network, Woken, SpuriousWakeUp

\* The request under way is the one that is pending, is executed once, and gets its result.
LEMMA HandOffStep ==
    ASSUME LifeTypeOK, ThreadInv, RequestInv, PendingHasCaller, HandOffInv, [LifeNext]_vars
    PROVE  RequestInv' /\ PendingHasCaller' /\ HandOffInv'
  <1> USE DEF RequestInv, PendingHasCaller, HandOffInv, AtRequest, InSubmit, BackInCheck
  <1>0. /\ to_come \subseteq Requests /\ ForFFFF \subseteq Requests
        /\ ran \in [Requests -> 0 .. 1]
        /\ answer \in [Requests -> Requests \cup {NoRequest}]
        /\ current \in Requests \cup {NoRequest} /\ NoRequest \notin Requests
        /\ m_json_pending \in BOOLEAN /\ source \in {"httpin", "oscin"}
    BY LifeAssumption DEF LifeTypeOK, FlagsOK, RequestsOK
  <1>1. CASE UNCHANGED vars
    BY <1>1, UntouchedHandOff DEF vars, Untouched, handoff, saved, calls
  <1>2. CASE Untouched
    BY <1>2, UntouchedHandOff
  <1>3. CASE NewDaemon
    <2>1. CASE Exit
      BY <2>1, UntouchedHandOff DEF Exit, Untouched, handoff, saved, calls
    <2>2. CASE ~ Exit
      BY <1>3, <2>2 DEF NewDaemon, ThreadInv, handoff, saved, given, calls
    <2> QED BY <2>1, <2>2
  <1>4. CASE ExecuteJson
    BY <1>0, <1>4 DEF ExecuteJson, calls
  <1>5. CASE NetTop \/ NetHttp \/ NetOsc
    BY <1>0, <1>5 DEF NetTop, NetHttp, NetOsc, handoff, saved, given, calls
  <1>6. CASE NetCheck
    BY <1>0, <1>6 DEF NetCheck, handoff, saved, given
  <1>7. CASE NetRequest \/ NetScheduled
    BY <1>0, <1>7 DEF NetRequest, NetScheduled, handoff, saved, given
  <1>8. CASE Submit
    BY <1>0, <1>8 DEF Submit, given, calls
  <1>9. CASE CondWait \/ WakeUp
    BY <1>0, <1>9 DEF CondWait, WakeUp, calls
  <1>10. CASE TakeResult
    BY <1>0, <1>10 DEF TakeResult, calls
  <1>11. CASE ReturnResult
    BY <1>0, <1>11 DEF ReturnResult, saved
  <1> QED
    BY StepKinds, <1>1, <1>2, <1>3, <1>4, <1>5, <1>6, <1>7, <1>8, <1>9, <1>10, <1>11

\* Stop's order: the network thread has ended before the listeners go.
LEMMA StopStep ==
    ASSUME ThreadInv, StopInv, ListenersOutliveNetwork, [LifeNext]_vars
    PROVE  ThreadInv' /\ StopInv' /\ ListenersOutliveNetwork'
  <1> USE DEF ThreadInv, StopInv, ListenersOutliveNetwork
  <1>1. CASE UNCHANGED vars
    BY <1>1 DEF vars, daemon
  <1>2. CASE Main
    <2>1. CASE NewDaemon
      BY <2>1 DEF NewDaemon, Exit, daemon
    <2>2. CASE PtStart \/ StartMidi \/ AddFFFFCallback
      BY <2>2 DEF PtStart, StartMidi, AddFFFFCallback, Exit, daemon
    <2>3. CASE LockJson \/ ExecuteJson \/ UnlockJson \/ Draw
      BY <2>3 DEF LockJson, ExecuteJson, UnlockJson, Draw, Exit, daemon
    <2>4. CASE PtStop \/ SchedulerStopped \/ DeleteScheduler \/ DeleteDaemon
      BY <2>4 DEF PtStop, SchedulerStopped, DeleteScheduler, DeleteDaemon, daemon
    <2>5. CASE HttpIsGone \/ DeleteOsc \/ ShutDaemonDown \/ Join \/ DeleteProcessors
      BY <2>5 DEF HttpIsGone, DeleteOsc, ShutDaemonDown, Join, DeleteProcessors, daemon
    <2> QED BY <1>2, <2>1, <2>2, <2>3, <2>4, <2>5 DEF Main
  <1>3. CASE Network \/ SpuriousWakeUp
    <2>1. CASE NetTop \/ NetHttp \/ NetOsc \/ NetCheck
      BY <2>1 DEF NetTop, NetHttp, NetOsc, NetCheck, daemon
    <2>2. CASE NetRequest \/ NetScheduled
      BY <2>2 DEF NetRequest, NetScheduled, BackInCheck, daemon
    <2>3. CASE Submit \/ CondWait \/ WakeUp \/ TakeResult \/ ReturnResult
      BY <2>3 DEF Submit, CondWait, WakeUp, TakeResult, ReturnResult, BackInCheck, daemon
    <2> QED BY <1>3, <2>1, <2>2, <2>3 DEF Network, Woken, SpuriousWakeUp
  <1>4. CASE Callback \/ AdvanceTime \/ EventsDone \/ UseAfterFree
    BY <1>4 DEF Callback, AdvanceTime, EventsDone, UseAfterFree, Exit, daemon
  <1> QED BY <1>1, <1>2, <1>3, <1>4 DEF LifeNext

\* The flags stay flags.
LEMMA FlagsStep ==
    ASSUME FlagsOK, [LifeNext]_vars
    PROVE  FlagsOK'
  <1> USE Zenon DEF FlagsOK
  <1>1. CASE UNCHANGED vars
    BY <1>1 DEF vars, handoff, saved, given, calls, midi, daemon
  <1>2. CASE Main
    <2>1. CASE NewDaemon
      BY <2>1 DEF NewDaemon, Exit, handoff, saved, given, calls, midi, daemon
    <2>2. CASE PtStart \/ StartMidi \/ AddFFFFCallback
      BY <2>2 DEF PtStart, StartMidi, AddFFFFCallback, Exit, handoff, saved, given, calls,
                  midi, daemon
    <2>3. CASE LockJson \/ UnlockJson \/ Draw
      BY <2>3 DEF LockJson, UnlockJson, Draw, Exit, handoff, saved, given, calls, midi,
                  daemon
    <2>4. CASE ExecuteJson
      BY <2>4 DEF ExecuteJson, handoff, saved, given, calls, midi, daemon
    <2>5. CASE PtStop \/ SchedulerStopped \/ DeleteScheduler \/ DeleteDaemon
      BY <2>5 DEF PtStop, SchedulerStopped, DeleteScheduler, DeleteDaemon, handoff, saved,
                  given, calls, midi, daemon
    <2>6. CASE HttpIsGone \/ DeleteOsc \/ ShutDaemonDown \/ Join \/ DeleteProcessors
      BY <2>6 DEF HttpIsGone, DeleteOsc, ShutDaemonDown, Join, DeleteProcessors, handoff,
                  saved, given, calls, midi, daemon
    <2> QED BY <1>2, <2>1, <2>2, <2>3, <2>4, <2>5, <2>6 DEF Main
  <1>3. CASE Network \/ SpuriousWakeUp
    <2>1. CASE NetTop \/ NetHttp \/ NetOsc \/ NetCheck
      BY <2>1 DEF NetTop, NetHttp, NetOsc, NetCheck, handoff, saved, given, calls, midi,
                  daemon
    <2>2. CASE NetRequest \/ NetScheduled
      BY <2>2 DEF NetRequest, NetScheduled, BackInCheck, handoff, saved, given, calls,
                  midi, daemon
    <2>3. CASE Submit \/ CondWait \/ WakeUp
      BY <2>3 DEF Submit, CondWait, WakeUp, handoff, saved, given, calls, midi, daemon
    <2>4. CASE TakeResult \/ ReturnResult
      BY <2>4 DEF TakeResult, ReturnResult, BackInCheck, handoff, saved, given, calls,
                  midi, daemon
    <2> QED BY <1>3, <2>1, <2>2, <2>3, <2>4 DEF Network, Woken, SpuriousWakeUp
  <1>4. CASE Callback \/ AdvanceTime \/ EventsDone \/ UseAfterFree
    BY <1>4 DEF Callback, AdvanceTime, EventsDone, UseAfterFree, Exit, handoff, saved,
                given, calls, midi, daemon
  <1> QED BY <1>1, <1>2, <1>3, <1>4 DEF LifeNext

LEMMA PlacesStep ==
    ASSUME PlacesOK, RequestsOK, [LifeNext]_vars
    PROVE  PlacesOK'
  <1> USE DEF PlacesOK, MainAt, NetAt, InSubmit, Starting, Running, Stopping
  <1>0. source \in {"httpin", "oscin"}
    BY DEF RequestsOK
  <1>1. CASE UNCHANGED vars
    BY <1>0, <1>1 DEF vars, handoff, saved, given, calls, midi, daemon
  <1>2. CASE Main
    <2>1. CASE NewDaemon
      BY <1>0, <2>1 DEF NewDaemon, Exit, handoff, saved, given, calls, midi, daemon
    <2>2. CASE PtStart \/ StartMidi \/ AddFFFFCallback
      BY <1>0, <2>2 DEF PtStart, StartMidi, AddFFFFCallback, Exit, handoff, saved, given,
                        calls, midi, daemon
    <2>3. CASE LockJson \/ UnlockJson \/ Draw
      BY <1>0, <2>3 DEF LockJson, UnlockJson, Draw, Exit, handoff, saved, given, calls,
                        midi, daemon
    <2>4. CASE ExecuteJson
      BY <1>0, <2>4 DEF ExecuteJson, handoff, saved, given, calls, midi, daemon
    <2>5. CASE PtStop \/ SchedulerStopped \/ DeleteScheduler \/ DeleteDaemon
      BY <1>0, <2>5 DEF PtStop, SchedulerStopped, DeleteScheduler, DeleteDaemon, handoff,
                        saved, given, calls, midi, daemon
    <2>6. CASE HttpIsGone \/ DeleteOsc \/ ShutDaemonDown \/ Join \/ DeleteProcessors
      BY <1>0, <2>6 DEF HttpIsGone, DeleteOsc, ShutDaemonDown, Join, DeleteProcessors,
                        handoff, saved, given, calls, midi, daemon
    <2> QED BY <1>2, <2>1, <2>2, <2>3, <2>4, <2>5, <2>6 DEF Main
  <1>3. CASE Network \/ SpuriousWakeUp
    <2>1. CASE NetTop \/ NetHttp \/ NetOsc \/ NetCheck
      BY <1>0, <2>1 DEF NetTop, NetHttp, NetOsc, NetCheck, handoff, saved, given, calls,
                        midi, daemon
    <2>2. CASE NetRequest \/ NetScheduled
      BY <1>0, <2>2 DEF NetRequest, NetScheduled, BackInCheck, handoff, saved, given,
                        calls, midi, daemon
    <2>3. CASE Submit \/ CondWait \/ WakeUp
      BY <1>0, <2>3 DEF Submit, CondWait, WakeUp, handoff, saved, given, calls, midi, daemon
    <2>4. CASE TakeResult \/ ReturnResult
      BY <1>0, <2>4 DEF TakeResult, ReturnResult, BackInCheck, handoff, saved, given,
                        calls, midi, daemon
    <2> QED BY <1>3, <2>1, <2>2, <2>3, <2>4 DEF Network, Woken, SpuriousWakeUp
  <1>4. CASE Callback \/ AdvanceTime \/ EventsDone \/ UseAfterFree
    BY <1>0, <1>4 DEF Callback, AdvanceTime, EventsDone, UseAfterFree, Exit, handoff,
                      saved, given, calls, midi, daemon
  <1> QED BY <1>1, <1>2, <1>3, <1>4 DEF LifeNext

\* A request is executed at most once, since what is pending was not executed yet.
LEMMA RequestsStep ==
    ASSUME RequestsOK, RequestInv, PendingHasCaller, HandOffInv, [LifeNext]_vars
    PROVE  RequestsOK'
  <1> USE DEF RequestsOK
  <1>0. ForFFFF \subseteq Requests /\ NoRequest \notin Requests
    BY LifeAssumption
  <1>1. CASE UNCHANGED vars
    BY <1>1 DEF vars, handoff, saved, given, calls, midi, daemon
  <1>2. CASE Main
    <2>1. CASE NewDaemon
      BY <2>1 DEF NewDaemon, Exit, handoff, saved, given, calls, midi, daemon
    <2>2. CASE PtStart \/ StartMidi \/ AddFFFFCallback
      BY <2>2 DEF PtStart, StartMidi, AddFFFFCallback, Exit, handoff, saved, given, calls,
                  midi, daemon
    <2>3. CASE LockJson \/ UnlockJson \/ Draw
      BY <2>3 DEF LockJson, UnlockJson, Draw, Exit, handoff, saved, given, calls, midi,
                  daemon
    <2>4. CASE ExecuteJson
      <3>1. m_json_pending => m_json_method \in Requests /\ ran[m_json_method] = 0
        BY <1>0 DEF PendingHasCaller, RequestInv, HandOffInv, AtRequest, InSubmit
      <3>2. ran' \in [Requests -> 0 .. 1]
        BY <2>4, <3>1 DEF ExecuteJson
      <3> QED BY <2>4, <3>1, <3>2 DEF ExecuteJson, calls
    <2>5. CASE PtStop \/ SchedulerStopped \/ DeleteScheduler \/ DeleteDaemon
      BY <2>5 DEF PtStop, SchedulerStopped, DeleteScheduler, DeleteDaemon, handoff, saved,
                  given, calls, midi, daemon
    <2>6. CASE HttpIsGone \/ DeleteOsc \/ ShutDaemonDown \/ Join \/ DeleteProcessors
      BY <2>6 DEF HttpIsGone, DeleteOsc, ShutDaemonDown, Join, DeleteProcessors, handoff,
                  saved, given, calls, midi, daemon
    <2> QED BY <1>2, <2>1, <2>2, <2>3, <2>4, <2>5, <2>6 DEF Main
  <1>3. CASE Network \/ SpuriousWakeUp
    <2>1. CASE NetTop \/ NetHttp \/ NetOsc \/ NetCheck
      BY <2>1 DEF NetTop, NetHttp, NetOsc, NetCheck, handoff, saved, given, calls, midi,
                  daemon
    <2>2. CASE NetRequest \/ NetScheduled
      BY <2>2 DEF NetRequest, NetScheduled, BackInCheck, handoff, saved, given, calls,
                  midi, daemon
    <2>3. CASE Submit \/ CondWait \/ WakeUp
      BY <2>3 DEF Submit, CondWait, WakeUp, handoff, saved, given, calls, midi, daemon
    <2>4. CASE TakeResult \/ ReturnResult
      BY <1>0, <2>4 DEF TakeResult, ReturnResult, BackInCheck, saved, calls, RequestInv,
                        AtRequest, InSubmit
    <2> QED BY <1>3, <2>1, <2>2, <2>3, <2>4 DEF Network, Woken, SpuriousWakeUp
  <1>4. CASE Callback \/ AdvanceTime \/ EventsDone \/ UseAfterFree
    BY <1>4 DEF Callback, AdvanceTime, EventsDone, UseAfterFree, Exit, handoff, saved,
                given, calls, midi, daemon
  <1> QED BY <1>1, <1>2, <1>3, <1>4 DEF LifeNext

\* The invariant holds at first.
LEMMA LifeInvInit == LifeInit => LifeInv
  <1> SUFFICES ASSUME LifeInit PROVE LifeInv
    OBVIOUS
  <1>1. FlagsOK
    BY Zenon DEF LifeInit, FlagsOK
  <1>2. PlacesOK
    BY DEF LifeInit, PlacesOK, MainAt, NetAt, InSubmit, Starting, Running, Stopping
  <1>3. RequestsOK
    BY DEF LifeInit, RequestsOK
  <1>4. RequestInv /\ HandOffInv
    BY LifeAssumption DEF LifeInit, RequestInv, HandOffInv, AtRequest, InSubmit
  <1>5. ThreadInv /\ StopInv /\ ListenersOutliveNetwork /\ PendingHasCaller
    BY DEF LifeInit, ThreadInv, StopInv, ListenersOutliveNetwork, PendingHasCaller
  <1> QED BY <1>1, <1>2, <1>3, <1>4, <1>5 DEF LifeInv, LifeTypeOK

\* Every step keeps it.
LEMMA LifeInvStep == LifeInv /\ [LifeNext]_vars => LifeInv'
  BY FlagsStep, PlacesStep, RequestsStep, StopStep, HandOffStep DEF LifeInv, LifeTypeOK

LEMMA SpecLifeInv == LifeSpec => []LifeInv
  BY LifeInvInit, LifeInvStep, PTL DEF LifeSpec

-----------------------------------------------------------------------------
(* The hand-off implements JsonCalls *)

\* A step that changes no stage, count or answer is a stutter.
LEMMA SameStages ==
    ASSUME ran' = ran, answer' = answer,
           \A r \in ForFFFF : Stage(r)' = Stage(r)
    PROVE  UNCHANGED Calls!callvars
  BY DEF Calls!callvars

\* What leaves the hand-off alone leaves the stages.
LEMMA UntouchedStages ==
    ASSUME Untouched
    PROVE  UNCHANGED Calls!callvars
  <1>1. \A r \in ForFFFF : Stage(r)' = Stage(r)
    BY DEF Untouched, given, Stage
  <1> QED BY <1>1, SameStages DEF Untouched, given

\* The network thread's other steps are not at a request in submitJson, or do not change
\* how far it is.
LEMMA QuietStages ==
    ASSUME LifeTypeOK,
           \/ NewDaemon /\ main = "start" /\ net = "none"
           \/ NetTop \/ NetHttp \/ NetOsc \/ NetCheck \/ NetRequest \/ NetScheduled
           \/ CondWait \/ WakeUp \/ TakeResult
    PROVE  UNCHANGED Calls!callvars
  <1>1. UNCHANGED <<ran, answer, m_json_pending>>
    <2>1. CASE NewDaemon \/ NetTop \/ NetHttp \/ NetOsc \/ NetCheck
      BY <2>1 DEF NewDaemon, NetTop, NetHttp, NetOsc, NetCheck, Exit, handoff, saved, given
    <2>2. CASE NetRequest \/ NetScheduled \/ CondWait \/ WakeUp \/ TakeResult
      BY <2>2 DEF NetRequest, NetScheduled, CondWait, WakeUp, TakeResult, handoff, saved, given
    <2> QED BY <2>1, <2>2
  <1>2. \A r \in ForFFFF :
           r = current /\ net \in {"locked", "wait", "answered"}
              <=> r = current' /\ net' \in {"locked", "wait", "answered"}
    <2>1. CASE NewDaemon /\ main = "start" /\ net = "none"
      BY <2>1 DEF NewDaemon, Exit, calls
    <2>2. CASE NetTop \/ NetHttp \/ NetOsc \/ NetCheck
      BY <2>2 DEF NetTop, NetHttp, NetOsc, NetCheck, calls
    <2>3. CASE NetRequest \/ NetScheduled
      BY <2>3 DEF NetRequest, NetScheduled, BackInCheck, LifeTypeOK, RequestsOK
    <2>4. CASE CondWait \/ WakeUp \/ TakeResult
      BY <2>4 DEF CondWait, WakeUp, TakeResult, calls
    <2> QED BY <2>1, <2>2, <2>3, <2>4
  <1>3. \A r \in ForFFFF : Stage(r)' = Stage(r)
    BY <1>1, <1>2 DEF Stage
  <1> QED BY <1>1, <1>3, SameStages

\* Submit is Call: no other request is between call and answer.
LEMMA SubmitStages ==
    ASSUME LifeTypeOK, RequestInv, HandOffInv, Submit
    PROVE  Calls!CallsNext
  <1>0. PICK c \in ForFFFF : c = current
    BY DEF RequestInv, InSubmit, Submit
  <1>1. answer[c] = NoRequest
    BY <1>0 DEF HandOffInv, AtRequest, InSubmit, Submit
  <1>2. Stage(c) = "new" /\ Stage(c)' = "called"
    BY <1>0, <1>1 DEF Submit, Stage, given, calls
  <1>3. \A r \in ForFFFF : /\ Stage(r) \in {"new", "answered"}
                           /\ r # c => Stage(r)' = Stage(r)
    BY <1>0 DEF Submit, Stage, given, calls
  <1>4. UNCHANGED <<ran, answer>>
    BY DEF Submit, given
  <1>5. Calls!Call(c)
    BY <1>2, <1>3, <1>4 DEF Calls!Call
  <1> QED BY <1>5 DEF Calls!CallsNext

\* ExecuteJson is Execute of the pending request, or nothing.
LEMMA ExecuteStages ==
    ASSUME LifeTypeOK, RequestInv, PendingHasCaller, HandOffInv, ExecuteJson
    PROVE  Calls!CallsNext \/ UNCHANGED Calls!callvars
  <1>1. CASE m_json_pending
    <2>0. PICK c \in ForFFFF : c = current
      BY <1>1 DEF RequestInv, PendingHasCaller, InSubmit
    <2>1. m_json_method = c /\ net \in {"locked", "wait"} /\ answer[c] = NoRequest
      BY <1>1, <2>0 DEF PendingHasCaller, HandOffInv, AtRequest, InSubmit
    <2>2. Stage(c) = "called" /\ Stage(c)' = "executed"
      BY <1>1, <2>0, <2>1 DEF ExecuteJson, Stage, calls
    <2>3. \A r \in ForFFFF : r # c => Stage(r)' = Stage(r)
      BY <1>1, <2>0 DEF ExecuteJson, Stage, calls
    <2>4. ran \in [Requests -> 0 .. 1] /\ ForFFFF \subseteq Requests
      BY LifeAssumption DEF LifeTypeOK, RequestsOK
    <2>5. ran' = [ran EXCEPT ![c] = @ + 1] /\ answer' = answer
      BY <1>1, <2>1 DEF ExecuteJson
    <2>6. Calls!Execute(c)
      BY <2>2, <2>3, <2>4, <2>5 DEF Calls!Execute
    <2> QED BY <2>6 DEF Calls!CallsNext
  <1>2. CASE ~ m_json_pending
    <2>1. UNCHANGED <<m_json_pending, ran, answer, net, current>>
      BY <1>2 DEF ExecuteJson, calls
    <2>2. \A r \in ForFFFF : Stage(r)' = Stage(r)
      BY <2>1 DEF Stage
    <2> QED BY <2>1, <2>2, SameStages
  <1> QED BY <1>1, <1>2

\* ReturnResult is Answer, with the result of that request.
LEMMA ReturnStages ==
    ASSUME LifeTypeOK, RequestInv, PendingHasCaller, HandOffInv, ReturnResult
    PROVE  Calls!CallsNext
  <1>0. PICK c \in ForFFFF : c = current
    BY DEF RequestInv, InSubmit, ReturnResult
  <1>1. /\ c \in Requests /\ c # NoRequest
        /\ answer[c] = NoRequest /\ result = c /\ ~ m_json_pending
    BY <1>0, LifeAssumption DEF PendingHasCaller, HandOffInv, AtRequest, InSubmit, ReturnResult
  <1>2. answer' = [answer EXCEPT ![c] = c] /\ ran' = ran
    BY <1>0, <1>1 DEF ReturnResult
  <1>3. answer \in [Requests -> Requests \cup {NoRequest}] /\ ForFFFF \subseteq Requests
    BY LifeAssumption DEF LifeTypeOK, RequestsOK
  <1>4. Stage(c) = "executed"
    BY <1>0, <1>1 DEF ReturnResult, Stage
  <1>5. Stage(c)' = "answered"
    BY <1>1, <1>2, <1>3 DEF Stage
  <1>6. \A r \in ForFFFF : r # c => answer'[r] = answer[r] /\ r # current'
    BY <1>2, <1>3, LifeAssumption DEF ReturnResult, BackInCheck
  <1>7. \A r \in ForFFFF : r # c => Stage(r)' = Stage(r)
    BY <1>0, <1>6 DEF Stage
  <1>8. Calls!Answer(c)
    BY <1>2, <1>3, <1>4, <1>5, <1>7 DEF Calls!Answer
  <1> QED BY <1>8 DEF Calls!CallsNext

LEMMA InitStages == LifeInit => Calls!CallsInit
  BY LifeAssumption DEF LifeInit, Calls!CallsInit, Stage

LEMMA StepStages == LifeInv /\ [LifeNext]_vars => [Calls!CallsNext]_(Calls!callvars)
  <1> SUFFICES ASSUME LifeInv, [LifeNext]_vars
               PROVE  Calls!CallsNext \/ UNCHANGED Calls!callvars
    OBVIOUS
  <1> USE DEF LifeInv
  <1>1. CASE UNCHANGED vars
    BY <1>1, UntouchedStages DEF vars, Untouched, handoff, saved, calls
  <1>2. CASE NewDaemon
    BY <1>2, QuietStages DEF NewDaemon, ThreadInv
  <1>3. CASE Submit
    BY <1>3, SubmitStages
  <1>4. CASE ReturnResult
    BY <1>4, ReturnStages
  <1> QED BY <1>1, <1>2, <1>3, <1>4, StepKinds, UntouchedStages, QuietStages, ExecuteStages

-----------------------------------------------------------------------------
(* Theorems *)

\* The three threads keep their types, for any requests over HTTP and OSC in any order: no
\* request is executed twice.
THEOREM LifeTypeCorrect == LifeSpec => []LifeTypeOK
  <1>1. LifeInv => LifeTypeOK
    BY DEF LifeInv
  <1> QED BY <1>1, SpecLifeInv, PTL

\* Whatever fails at the start, and wherever the network thread is when the window closes,
\* the listeners are deleted when that thread has ended or was never made.
THEOREM ListenersAreLast == LifeSpec => []ListenersOutliveNetwork
  <1>1. LifeInv => ListenersOutliveNetwork
    BY DEF LifeInv
  <1> QED BY <1>1, SpecLifeInv, PTL

\* Nothing is pending whose caller has gone on, and may have freed it.
THEOREM PendingIsWaitedFor == LifeSpec => []PendingHasCaller
  <1>1. LifeInv => PendingHasCaller
    BY DEF LifeInv
  <1> QED BY <1>1, SpecLifeInv, PTL

\* submitJson keeps its promise, for any requests of any number, though its condition may
\* wake up for no reason and the main thread may stop at any frame: each request is executed
\* once, by the main thread, between its call and its answer, and gets its own result.
THEOREM HandOffImplementsCalls == LifeSpec => ImplementsCalls
  BY InitStages, StepStages, SpecLifeInv, PTL DEF LifeSpec, ImplementsCalls, Calls!CallsSpec
=============================================================================
