----------------------------- MODULE ServerLife -----------------------------
(***************************************************************************)
(* The life of the server inside FFFF, and the hand-off of JSON requests:  *)
(* the main thread starts the server, draws frame after frame, and stops   *)
(* the server; the network thread (VizDaemon) looks after the HTTP server  *)
(* and OSC, and hands requests for "ffff." to the main thread, for which   *)
(* it waits; the timer thread calls VizScheduler::Callback.  Left out: the *)
(* 100 ms the network thread sleeps first, and what requests do.           *)
(***************************************************************************)
EXTENDS Naturals, FiniteSets

CONSTANTS
    Requests,       \* requests that come over HTTP or OSC /api, each once
    ForFFFF,        \* those whose method begins with "ffff."
    NoRequest,      \* the request of a thread that has none
    NoOne           \* the owner of a lock that nobody has

ASSUME LifeAssumption ==
    /\ ForFFFF \subseteq Requests
    /\ NoRequest \notin Requests

VARIABLES
    main,           \* where the main thread is
    net,            \* where the network thread is
    timer,          \* where the timer thread is
    json_mutex,     \* who has _json_mutex
    m_json_pending, m_json_method, m_json_result,
    result,         \* submitJson's local
    signaled,       \* m_json_cond was signaled, and the waiter is still to wake
    to_come,        \* requests nobody has sent yet
    current, source,    \* the request the network thread is at, and where it came from
    ran,            \* how often each request was executed by the main thread
    answer,         \* what FFFF_json returned for it
    ffff_callback,  \* AddJsonCallback "ffff" was called
    m_scheduler,    \* "live", "freed" before the pointer is cleared, "null"
    m_running, ticking,     \* of the scheduler, and of the Pt timer
    m_httpserver, shouldbeshutdown,
    m_oscinput,     \* "live", "freed" before the pointer is cleared, "null"
    thread_created, daemon_shutting_down,
    processors      \* m_jsonprocessor, m_oscprocessor and the others

saved   == <<json_mutex, m_json_pending, m_json_method>>
given   == <<m_json_result, result, signaled, ran, answer>>
handoff == <<saved, given>>
calls   == <<to_come, current, source, ffff_callback>>
midi    == <<m_scheduler, m_running, ticking>>
daemon  == <<m_httpserver, shouldbeshutdown, m_oscinput, thread_created,
             daemon_shutting_down>>
vars    == <<main, net, timer, handoff, calls, midi, daemon, processors>>

Starting == {"start", "startmidi", "midi", "callback"}
Running  == {"frame", "json", "unlock", "draw"}
Stopping == {"stop", "ptstopped", "scheduler", "schedulerfreed", "daemon", "httpwait",
             "oscdelete", "oscfreed", "shutdown", "join", "processors"}
MainAt   == Starting \cup Running \cup Stopping \cup {"stopped", "exit"}
InSubmit == {"submit", "locked", "wait", "answered"}
NetAt    == {"none", "top", "http", "httpin", "osc", "oscin", "request", "inscheduler",
             "ended"} \cup InSubmit

LifeInit ==
    /\ main = "start" /\ net = "none" /\ timer = "out"
    /\ json_mutex = NoOne /\ signaled = FALSE
    /\ m_json_pending = FALSE /\ m_json_method = NoRequest /\ m_json_result = NoRequest
    /\ result = NoRequest
    /\ to_come = Requests /\ current = NoRequest /\ source = "httpin" /\ ffff_callback = FALSE
    /\ ran = [r \in Requests |-> 0]
    /\ answer = [r \in Requests |-> NoRequest]
    /\ m_scheduler = "live" /\ m_running = FALSE /\ ticking = FALSE
    /\ m_httpserver = "null" /\ shouldbeshutdown = FALSE /\ m_oscinput = "null"
    /\ thread_created = FALSE /\ daemon_shutting_down = FALSE
    /\ processors = "live"

-----------------------------------------------------------------------------
(* The main thread: VizServer::Start, the frames, FFFF's hand-off *)

\* DoFFFF catches an exception outside a request, and the process exits, with all threads.
Exit ==
    /\ main' = "exit"
    /\ UNCHANGED <<net, timer, handoff, calls, midi, daemon, processors>>

\* new VizDaemon.  Networking may be out of order (then there are no listeners, and no
\* thread), OSC be switched off, and pthread_create fail; a port that is in use throws.
NewDaemon ==
    /\ main = "start"
    /\ \/ Exit
       \/ /\ main' = "startmidi"
          /\ \E listening, osc, created \in BOOLEAN :
                /\ m_httpserver' = IF listening THEN "live" ELSE "null"
                /\ m_oscinput' = IF listening /\ osc THEN "live" ELSE "null"
                /\ thread_created' = (listening /\ created)
                /\ net' = IF listening /\ created THEN "top" ELSE "none"
          /\ UNCHANGED <<timer, handoff, calls, midi, shouldbeshutdown,
                         daemon_shutting_down, processors>>

\* Pt_Start; the timer begins to call back.
PtStart ==
    /\ main = "startmidi"
    /\ main' = "midi" /\ ticking' = TRUE
    /\ UNCHANGED <<net, timer, handoff, calls, m_scheduler, m_running, daemon, processors>>

\* The rest of StartMidi.  A wrong "midimerges" throws.
StartMidi ==
    /\ main = "midi"
    /\ \/ Exit
       \/ /\ main' = "callback" /\ m_running' = TRUE
          /\ UNCHANGED <<net, timer, handoff, calls, m_scheduler, ticking, daemon,
                         processors>>

AddFFFFCallback ==
    /\ main = "callback"
    /\ main' = "frame" /\ ffff_callback' = TRUE
    /\ UNCHANGED <<net, timer, handoff, to_come, current, source, midi, daemon, processors>>

\* checkAndExecuteJSON
LockJson ==
    /\ main = "frame" /\ json_mutex = NoOne
    /\ main' = "json" /\ json_mutex' = "main"
    /\ UNCHANGED <<net, timer, m_json_pending, m_json_method, given, calls, midi, daemon, processors>>

\* Mutant of ExecuteJson: m_json_pending stays TRUE.
ExecuteJson_StillPending ==
    /\ main = "json"
    /\ main' = "unlock"
    /\ IF m_json_pending
       THEN /\ m_json_result' = m_json_method
            /\ ran' = [ran EXCEPT ![m_json_method] = @ + 1]
            /\ signaled' = (net = "wait")
       ELSE UNCHANGED <<m_json_result, ran, signaled>>
    /\ UNCHANGED <<net, timer, saved, result, answer, calls, midi, daemon, processors>>

\* Mutant of ExecuteJson: m_json_cond is not signaled.
ExecuteJson_NoSignal ==
    /\ main = "json"
    /\ main' = "unlock"
    /\ IF m_json_pending
       THEN /\ m_json_result' = m_json_method
            /\ ran' = [ran EXCEPT ![m_json_method] = @ + 1]
            /\ m_json_pending' = FALSE
       ELSE UNCHANGED <<m_json_result, ran, m_json_pending>>
    /\ UNCHANGED <<net, timer, json_mutex, m_json_method, result, signaled, answer, calls,
                   midi, daemon, processors>>

\* A request's exceptions are caught: whatever it does, there is a result for it.
ExecuteJson ==
    /\ main = "json"
    /\ main' = "unlock"
    /\ IF m_json_pending
       THEN /\ m_json_result' = m_json_method
            /\ ran' = [ran EXCEPT ![m_json_method] = @ + 1]
            /\ m_json_pending' = FALSE
            /\ signaled' = (net = "wait")
       ELSE UNCHANGED <<m_json_result, ran, m_json_pending, signaled>>
    /\ UNCHANGED <<net, timer, json_mutex, m_json_method, result, answer, calls, midi,
                   daemon, processors>>

UnlockJson ==
    /\ main = "unlock"
    /\ main' = "draw" /\ json_mutex' = NoOne
    /\ UNCHANGED <<net, timer, m_json_pending, m_json_method, given, calls, midi, daemon, processors>>

\* Drawing, polling, CheckFPS, CheckAutoload; the window may be closed.
Draw ==
    /\ main = "draw"
    /\ \/ Exit
       \/ /\ main' \in {"frame", "stop"}
          /\ UNCHANGED <<net, timer, handoff, calls, midi, daemon, processors>>

-----------------------------------------------------------------------------
(* The main thread: VizServer::Stop *)

\* VizScheduler::Stop: Pt_Stop (timeKillEvent) does not wait for a call that is under way.
PtStop ==
    /\ main = "stop"
    /\ main' = "ptstopped" /\ ticking' = FALSE
    /\ UNCHANGED <<net, timer, handoff, calls, m_scheduler, m_running, daemon, processors>>

SchedulerStopped ==
    /\ main = "ptstopped"
    /\ main' = "scheduler" /\ m_running' = FALSE
    /\ UNCHANGED <<net, timer, handoff, calls, m_scheduler, ticking, daemon, processors>>

DeleteScheduler ==
    /\ \/ main = "scheduler" /\ m_scheduler' = "freed" /\ main' = "schedulerfreed"
       \/ main = "schedulerfreed" /\ m_scheduler' = "null" /\ main' = "daemon"
    /\ UNCHANGED <<net, timer, handoff, calls, m_running, ticking, daemon, processors>>

\* ~VizDaemon
DeleteDaemon ==
    /\ main = "daemon"
    /\ IF m_httpserver = "live"
       THEN main' = "httpwait" /\ shouldbeshutdown' = TRUE
       ELSE main' = "oscdelete" /\ UNCHANGED shouldbeshutdown
    /\ UNCHANGED <<net, timer, handoff, calls, midi, m_httpserver, m_oscinput, thread_created,
                   daemon_shutting_down, processors>>

\* while (m_httpserver != NULL) Sleep(1)
HttpIsGone ==
    /\ main = "httpwait" /\ m_httpserver = "null"
    /\ main' = "oscdelete"
    /\ UNCHANGED <<net, timer, handoff, calls, midi, daemon, processors>>

DeleteOsc ==
    /\ \/ /\ main = "oscdelete" /\ m_oscinput = "null"
          /\ main' = "shutdown" /\ UNCHANGED m_oscinput
       \/ /\ main = "oscdelete" /\ m_oscinput = "live"
          /\ main' = "oscfreed" /\ m_oscinput' = "freed"
       \/ /\ main = "oscfreed"
          /\ main' = "shutdown" /\ m_oscinput' = "null"
    /\ UNCHANGED <<net, timer, handoff, calls, midi, m_httpserver, shouldbeshutdown,
                   thread_created, daemon_shutting_down, processors>>

\* Mutant of ShutDaemonDown: pthread_detach in place of pthread_join, as was tried once.
ShutDaemonDown_Detach ==
    /\ main = "shutdown"
    /\ main' = "processors" /\ daemon_shutting_down' = TRUE
    /\ UNCHANGED <<net, timer, handoff, calls, midi, m_httpserver, shouldbeshutdown,
                   m_oscinput, thread_created, processors>>

ShutDaemonDown ==
    /\ main = "shutdown"
    /\ main' = IF thread_created THEN "join" ELSE "processors"
    /\ daemon_shutting_down' = TRUE
    /\ UNCHANGED <<net, timer, handoff, calls, midi, m_httpserver, shouldbeshutdown,
                   m_oscinput, thread_created, processors>>

Join ==
    /\ main = "join" /\ net = "ended"
    /\ main' = "processors"
    /\ UNCHANGED <<net, timer, handoff, calls, midi, daemon, processors>>

\* The listeners are deleted last.
DeleteProcessors ==
    /\ main = "processors"
    /\ main' = "stopped" /\ processors' = "null"
    /\ UNCHANGED <<net, timer, handoff, calls, midi, daemon>>

Main ==
    \/ NewDaemon \/ PtStart \/ StartMidi \/ AddFFFFCallback
    \/ LockJson \/ ExecuteJson \/ UnlockJson \/ Draw
    \/ PtStop \/ SchedulerStopped \/ DeleteScheduler \/ DeleteDaemon \/ HttpIsGone
    \/ DeleteOsc \/ ShutDaemonDown \/ Join \/ DeleteProcessors

-----------------------------------------------------------------------------
(* The network thread: VizDaemon::network_input_threadfunc *)

NetTop ==
    /\ net = "top"
    /\ net' = IF daemon_shutting_down THEN "ended" ELSE "http"
    /\ UNCHANGED <<main, timer, handoff, calls, midi, daemon, processors>>

\* Mutant of NetHttp: the server is given up while it is to be looked after, too.
NetHttp_NeverGivenUp ==
    /\ net = "http"
    /\ net' = IF m_httpserver = "live" /\ ~ shouldbeshutdown THEN "httpin" ELSE "osc"
    /\ UNCHANGED <<main, timer, handoff, calls, midi, daemon, processors>>

\* The HTTP server is given up, not deleted, when the main thread asks for it.
NetHttp ==
    /\ net = "http"
    /\ net' = IF m_httpserver = "live" /\ ~ shouldbeshutdown THEN "httpin" ELSE "osc"
    /\ m_httpserver' = IF shouldbeshutdown THEN "null" ELSE m_httpserver
    /\ UNCHANGED <<main, timer, handoff, calls, midi, shouldbeshutdown, m_oscinput,
                   thread_created, daemon_shutting_down, processors>>

\* Nobody ever asks m_oscinput to shut down.
NetOsc ==
    /\ net = "osc"
    /\ net' = IF m_oscinput = "null" THEN "top" ELSE "oscin"
    /\ UNCHANGED <<main, timer, handoff, calls, midi, daemon, processors>>

\* In Check: a request is complete, or there is nothing more for now.
NetCheck ==
    /\ net \in {"httpin", "oscin"}
    /\ \/ /\ \E r \in to_come : current' = r /\ to_come' = to_come \ {r}
          /\ source' = net /\ net' = "request"
       \/ /\ net' = IF net = "httpin" THEN "osc" ELSE "top"
          /\ UNCHANGED <<to_come, current, source>>
    /\ UNCHANGED <<main, timer, handoff, ffff_callback, midi, daemon, processors>>

\* processJson is over, and the network thread goes on with Check.
BackInCheck == net' = source /\ current' = NoRequest

\* A request for FFFF, or one for the server, most of which need the scheduler: a null
\* pointer fails, which over HTTP is an answer, and over OSC is caught by nobody.
NetRequest ==
    /\ net = "request"
    /\ \/ /\ current \in ForFFFF /\ ffff_callback
          /\ net' = "submit" /\ UNCHANGED <<main, timer, current>>
       \/ /\ current \in ForFFFF /\ ~ ffff_callback
          /\ BackInCheck /\ UNCHANGED <<main, timer>>
       \/ /\ current \notin ForFFFF /\ m_scheduler # "null"
          /\ net' = "inscheduler" /\ UNCHANGED <<main, timer, current>>
       \/ /\ current \notin ForFFFF /\ m_scheduler = "null" /\ source = "httpin"
          /\ BackInCheck /\ UNCHANGED <<main, timer>>
       \/ /\ current \notin ForFFFF /\ m_scheduler = "null" /\ source = "oscin"
          /\ main' = "exit" /\ UNCHANGED <<net, timer, current>>
    /\ UNCHANGED <<handoff, to_come, source, ffff_callback, midi, daemon, processors>>

NetScheduled ==
    /\ net = "inscheduler"
    /\ BackInCheck
    /\ UNCHANGED <<main, timer, handoff, to_come, source, ffff_callback, midi, daemon,
                   processors>>

\* submitJson: VizLock, and the request is saved.
Submit ==
    /\ net = "submit" /\ json_mutex = NoOne
    /\ net' = "locked" /\ json_mutex' = "net"
    /\ m_json_pending' = TRUE /\ m_json_method' = current
    /\ UNCHANGED <<main, timer, given, calls, midi, daemon, processors>>

\* while (m_json_pending): pthread_cond_wait gives the lock up ...
CondWait ==
    /\ net = "locked" /\ m_json_pending
    /\ net' = "wait" /\ json_mutex' = NoOne /\ signaled' = FALSE
    /\ UNCHANGED <<main, timer, m_json_pending, m_json_method, m_json_result, result, ran,
                   answer, calls, midi, daemon, processors>>

\* Mutant of WakeUp: if (m_json_pending) in place of while.
WakeUp_If ==
    /\ net = "wait" /\ json_mutex = NoOne
    /\ net' = "answered" /\ result' = m_json_result /\ signaled' = FALSE
    /\ UNCHANGED <<main, timer, saved, m_json_result, ran, answer, calls, midi, daemon,
                   processors>>

\* ... and takes it again, when it was signaled, or for no reason.
WakeUp ==
    /\ net = "wait" /\ json_mutex = NoOne
    /\ net' = "locked" /\ json_mutex' = "net" /\ signaled' = FALSE
    /\ UNCHANGED <<main, timer, m_json_pending, m_json_method, m_json_result, result, ran,
                   answer, calls, midi, daemon, processors>>

Woken == signaled /\ WakeUp
SpuriousWakeUp == ~ signaled /\ WakeUp

TakeResult ==
    /\ net = "locked" /\ ~ m_json_pending
    /\ net' = "answered" /\ json_mutex' = NoOne /\ result' = m_json_result
    /\ UNCHANGED <<main, timer, m_json_pending, m_json_method, m_json_result, signaled, ran,
                   answer, calls, midi, daemon, processors>>

\* FFFF_json stores the result again, without the lock, and returns it.
ReturnResult ==
    /\ net = "answered"
    /\ m_json_result' = result
    /\ answer' = [answer EXCEPT ![current] = result]
    /\ BackInCheck
    /\ UNCHANGED <<main, timer, saved, result, signaled, ran, to_come, source,
                   ffff_callback, midi, daemon, processors>>

Network ==
    \/ NetTop \/ NetHttp \/ NetOsc \/ NetCheck \/ NetRequest \/ NetScheduled
    \/ Submit \/ CondWait \/ Woken \/ TakeResult \/ ReturnResult

-----------------------------------------------------------------------------
(* The timer thread: VizScheduler::Callback *)

Callback ==
    /\ timer = "out" /\ ticking /\ m_running
    /\ timer' = "in"
    /\ UNCHANGED <<main, net, handoff, calls, midi, daemon, processors>>

\* VizAssert(m_running == true) throws; midi_callback catches.
AdvanceTime ==
    /\ timer = "in"
    /\ timer' = IF m_running THEN "advance" ELSE "out"
    /\ UNCHANGED <<main, net, handoff, calls, midi, daemon, processors>>

EventsDone ==
    /\ timer = "advance"
    /\ timer' = "out"
    /\ UNCHANGED <<main, net, handoff, calls, midi, daemon, processors>>

-----------------------------------------------------------------------------
OscInUse ==
    \/ net = "oscin"
    \/ source = "oscin" /\ net \in {"request", "inscheduler"} \cup InSubmit

SchedulerInUse == net = "inscheduler" \/ timer # "out"

\* What is used after it was freed may also end the process.
UseAfterFree ==
    /\ (OscInUse /\ m_oscinput # "live") \/ (SchedulerInUse /\ m_scheduler # "live")
    /\ Exit

Alive == main # "exit"

LifeNext ==
    /\ Alive
    /\ \/ Main \/ Network \/ SpuriousWakeUp
       \/ Callback \/ AdvanceTime \/ EventsDone
       \/ UseAfterFree

\* Both threads are scheduled; a thread that waits for a mutex that is again and again
\* free gets it, as the main thread sleeps between frames without it.
LifeSpec ==
    /\ LifeInit /\ [][LifeNext]_vars
    /\ WF_vars(Main) /\ WF_vars(Alive /\ Network) /\ SF_vars(Alive /\ (Submit \/ Woken))
    /\ WF_vars(Alive /\ (AdvanceTime \/ EventsDone))

-----------------------------------------------------------------------------
(* Properties *)

FlagsOK ==
    /\ m_json_pending \in BOOLEAN /\ signaled \in BOOLEAN /\ ffff_callback \in BOOLEAN
    /\ m_running \in BOOLEAN /\ ticking \in BOOLEAN /\ shouldbeshutdown \in BOOLEAN
    /\ thread_created \in BOOLEAN /\ daemon_shutting_down \in BOOLEAN

PlacesOK ==
    /\ main \in MainAt /\ net \in NetAt /\ timer \in {"out", "in", "advance"}
    /\ json_mutex \in {"main", "net", NoOne}
    /\ m_scheduler \in {"live", "freed", "null"} /\ m_oscinput \in {"live", "freed", "null"}
    /\ m_httpserver \in {"live", "null"} /\ processors \in {"live", "null"}

RequestsOK ==
    /\ {m_json_method, m_json_result, result, current} \subseteq Requests \cup {NoRequest}
    /\ to_come \subseteq Requests /\ source \in {"httpin", "oscin"}
    /\ ran \in [Requests -> 0 .. 1]
    /\ answer \in [Requests -> Requests \cup {NoRequest}]

LifeTypeOK == FlagsOK /\ PlacesOK /\ RequestsOK

Stage(r) ==
    IF answer[r] # NoRequest THEN "answered"
    ELSE IF r = current /\ net \in {"locked", "wait", "answered"}
    THEN IF m_json_pending THEN "called" ELSE "executed"
    ELSE "new"

\* The hand-off keeps submitJson's promise (FFFF.h:68): a request is executed once, by the
\* main thread, after it was saved and before it is answered, and gets its own result.
Calls == INSTANCE JsonCalls WITH
    Requests <- ForFFFF, NoAnswer <- NoRequest,
    stage <- [r \in ForFFFF |-> Stage(r)],
    ran <- [r \in ForFFFF |-> ran[r]],
    answer <- [r \in ForFFFF |-> answer[r]]
ImplementsCalls == Calls!CallsSpec

\* VizServer::Stop deletes the listeners last: when they are gone, so is the network
\* thread, which would call them.
ListenersOutliveNetwork == processors = "null" => net \in {"none", "ended"}

\* What the main thread may execute belongs to a request whose caller still waits: its
\* m_json_params is the caller's, who frees it once it has an answer.
PendingHasCaller ==
    m_json_pending => net \in {"locked", "wait"} /\ m_json_method = current

\* While frames are drawn, every request handed over gets out of submitJson.
AnsweredWhileDrawn == net = "wait" ~> net # "wait" \/ main \in Stopping \cup {"exit"}

\* Stop ends, unless the network thread waits for a frame that will not be drawn, or was
\* never created (~VizDaemon waits for it to give the HTTP server up).
StopEnds ==
    main = "stop" ~> main \in {"stopped", "exit"} \/ net = "wait" \/ net = "none"

\* FFFF.h:68: "submitJson should save JSON things, and then wait for draw() to be called
\* and actually execute them, before returning": what is submitted is answered.
SubmittedIsAnswered == net = "wait" ~> net # "wait" \/ main = "exit"
=============================================================================
