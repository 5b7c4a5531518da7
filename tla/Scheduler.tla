------------------------------ MODULE Scheduler ------------------------------
(***************************************************************************)
(* VizScheduler (src/Viz/VizScheduler.cpp): a time-ordered list of MIDI    *)
(* events, played by the periodic PortTime callback, and a second list,    *)
(* the queue, through which everybody else hands over new events.          *)
(*                                                                         *)
(* Threads: the PortTime callback, and the callers (the network thread     *)
(* with OSC cursors and JSON requests, the render threads of the plugins). *)
(* Each list has a mutex.  The callback takes the one of "scheduled" with  *)
(* TryLock and gives up if it is held; it nests the one of "queue" in it.  *)
(* QueueRemoveBefore takes neither.                                        *)
(*                                                                         *)
(* An operation on one list is one step here; the loops over the pointers  *)
(* are in module SchedEventList.                                           *)
(***************************************************************************)
EXTENDS EventList

CONSTANTS
    Callers,        \* the threads that call the scheduler
    Callback,       \* the PortTime callback thread
    NoThread,       \* holder of a free mutex
    CallerOps,      \* the operations the callers use
    EventIds,       \* addresses of VizSchedEvents: bounds the live events
    CursorIds,
    Notes,          \* channel and pitch of a MIDI message
    Msgs,           \* the MidiMsgs that are sent, each a unit with click 0
    Phrases,        \* the MidiPhrases that are sent, as sequences of units
    Loopings,       \* [loop, fade]: what VizSchedEvent::init takes from mp
    MidiMerge,      \* MIDI input is merged to an output (one merge port)
    PeriodicANO,    \* m_periodic_ANO
    MaxClick        \* time is capped: MaxClick stands for every later click

CURSORID_FOR_MIDIMERGE == -2
MIN_VELOCITY == 5
SCHEDID_ALL == 0      \* also the cursor id of what play_midifile schedules

Threads == Callers \cup {Callback}

Kinds == {"on", "off", "control"}

Units == [click : Nat, kind : Kinds, note : Notes, vel : 0 .. 127]

SchedIds == CursorIds \cup {SCHEDID_ALL, CURSORID_FOR_MIDIMERGE}

\* A VizSchedEvent.  "part" tells the events that a looped phrase leaves
\* behind from the phrase; "started" is a history variable: something of the
\* event was already played, so it is a loop or a phrase that goes on.
\* MidiPhrase::insert keeps the units of a phrase ordered by click.
Events ==
    {e \in [id : EventIds, part : Nat, cursorid : SchedIds, click : Nat,
            type : {"MIDIMSG", "MIDIPHRASE"}, units : Seq(Units),
            loop : Nat, fade : 0 .. 100, started : BOOLEAN] :
        TimeOrdered(e.units) /\ (e.type = "MIDIMSG" => Len(e.units) = 1)}

AllOps == {"QueueMidiMsg", "QueueMidiPhrase", "QueueClear",
           "QueueRemoveBefore", "ScheduleMidiMsg", "ScheduleMidiPhrase",
           "ScheduleClear", "ANO", "ClearNotesDown", "SetClicksPerSecond"}

ASSUME ThreadsAssumption ==
    /\ Callback \notin Callers
    /\ NoThread \notin Threads
    /\ CallerOps \subseteq AllOps

ASSUME DataAssumption ==
    /\ MaxClick \in Nat
    /\ MidiMerge \in BOOLEAN
    /\ PeriodicANO \in BOOLEAN
    /\ {SCHEDID_ALL, CURSORID_FOR_MIDIMERGE} \cap CursorIds = {}
    /\ Msgs \subseteq Units
    /\ Phrases \subseteq Seq(Units)
    /\ \A ph \in Phrases : TimeOrdered(ph)
    /\ Loopings \subseteq [loop : Nat, fade : 0 .. 100]

VARIABLES
    currentclick,   \* m_currentclick
    scheduled,      \* m_scheduled
    queue,          \* m_queue
    sched_lock,     \* holder of _scheduled_mutex
    queue_lock,     \* holder of _queue_mutex
    pc,             \* where each thread is
    hand,           \* the phrase that DoEventAndDelete will requeue, if any
    playing,        \* what DoMidiMsgEvent is about to send, if anything
    nevents,        \* nevents of AdvanceTimeAndDoEvents, capped at 1
    removal,        \* arguments of a QueueRemoveBefore that is half done
    sounding,       \* the notes that sound on the MIDI output (external)
    notesdown       \* m_notesdown

lists == <<scheduled, queue>>
locks == <<sched_lock, queue_lock>>
doing == <<hand, playing, nevents>>
midi  == <<sounding, notesdown>>
vars  == <<currentclick, lists, locks, pc, doing, removal, midi>>

-----------------------------------------------------------------------------
(* Events *)

FreeIds ==
    EventIds \ {e.id : e \in ToSet(scheduled) \cup ToSet(queue)
                                \cup ToSet(hand)}

\* The constructors of VizSchedEvent; a controller does not loop (loopctrl
\* is off).
MsgEvent(id, m, clk, cursorid, mp) ==
    [id |-> id, part |-> 0, cursorid |-> cursorid, click |-> clk,
     type |-> "MIDIMSG", units |-> <<m>>,
     loop |-> IF m.kind = "control" THEN 0 ELSE mp.loop, fade |-> mp.fade,
     started |-> FALSE]

PhraseEvent(id, ph, clk, cursorid, mp) ==
    [id |-> id, part |-> 0, cursorid |-> cursorid, click |-> clk,
     type |-> "MIDIPHRASE", units |-> ph, loop |-> mp.loop, fade |-> mp.fade,
     started |-> FALSE]

\* VizSchedEvent::init with looping off, or with mp == NULL.
NoLooping == [loop |-> 0, fade |-> 0]

NewMsgs ==
    {MsgEvent(id, m, clk, c, mp) : id \in FreeIds, m \in Msgs,
        clk \in 0 .. MaxClick, c \in CursorIds, mp \in Loopings}

NewPhrases(cursorids, mps) ==
    {PhraseEvent(id, ph, clk, c, mp) : id \in FreeIds, ph \in Phrases,
        clk \in 0 .. MaxClick, c \in cursorids, mp \in mps}

\* newv = (int)(oldv * m_loopfade + 0.5), fade being in percent.
FadedVelocity(vel, fade) == (vel * fade + 50) \div 100

\* The unit as _handleLoopEvent leaves it: a note-on gets quieter.
Faded(u, fade) ==
    IF u.kind = "on" THEN [u EXCEPT !.vel = FadedVelocity(@, fade)] ELSE u

\* _handleLoopEvent lets the loop go on.
LoopContinues(u, fade) ==
    u.kind = "on" => FadedVelocity(u.vel, fade) >= MIN_VELOCITY

\* Mutant of RestOfPhrase: the difference of the clicks the wrong way round.
RestOfPhrase_Backwards(e) ==
    IF Len(e.units) > 1
    THEN <<[e EXCEPT !.click = @ + (e.units[1].click - e.units[2].click),
                     !.units = Tail(@), !.started = TRUE]>>
    ELSE <<>>

\* What a phrase leaves to be requeued: the event, later, with the next unit.
RestOfPhrase(e) ==
    IF Len(e.units) > 1
    THEN <<[e EXCEPT !.click = @ + (e.units[2].click - e.units[1].click),
                     !.units = Tail(@), !.started = TRUE]>>
    ELSE <<>>

\* Sending a message to the output: a note-on with velocity 0 is a note-off.
IsNoteOn(u)  == u.kind = "on" /\ u.vel > 0
IsNoteOff(u) == u.kind = "off" \/ (u.kind = "on" /\ u.vel = 0)

After(notes, u) ==
    CASE IsNoteOn(u)  -> notes \cup {u.note}
      [] IsNoteOff(u) -> notes \ {u.note}
      [] OTHER        -> notes

-----------------------------------------------------------------------------
Init ==
    /\ currentclick = 0
    /\ scheduled = <<>> /\ queue = <<>>
    /\ sched_lock = NoThread /\ queue_lock = NoThread
    /\ pc = [t \in Threads |-> "idle"]
    /\ hand = <<>> /\ playing = <<>> /\ nevents = 0
    /\ removal = [t \in Threads |-> <<>>]
    /\ sounding = {} /\ notesdown = {}

GoTo(t, label) == pc' = [pc EXCEPT ![t] = label]

-----------------------------------------------------------------------------
(* The callers.  A caller calls when it is idle; the callback itself calls *)
(* QueueMidiMsg, QueueMidiPhrase and QueueRemoveBefore from its clients.   *)

MayCall(t, op) == op \in CallerOps /\ t \in Callers /\ pc[t] = "idle"

\* Where a thread calls the Queue operations from, and where it returns to.
CallsFrom(t) == IF t = Callback THEN "click" ELSE "idle"

\* QueueMidiMsg, QueueMidiPhrase: the event goes to the queue, under its lock.
QueueAddEvent(t, e) ==
    /\ queue_lock = NoThread
    /\ queue' = InsertEvent(queue, e)
    /\ UNCHANGED <<currentclick, scheduled, locks, pc, doing, removal, midi>>

QueueMidiMsg(t) ==
    /\ MayCall(t, "QueueMidiMsg")
    /\ \E e \in NewMsgs : QueueAddEvent(t, e)

QueueMidiPhrase(t) ==
    /\ MayCall(t, "QueueMidiPhrase")
    /\ \E e \in NewPhrases(CursorIds, Loopings) : QueueAddEvent(t, e)

QueueClear(t) ==
    /\ MayCall(t, "QueueClear")
    /\ queue_lock = NoThread
    /\ queue' = <<>>
    /\ UNCHANGED <<currentclick, scheduled, locks, pc, doing, removal, midi>>

\* QueueRemoveBefore goes over "scheduled", then over "queue", without a lock.
RemoveFromScheduled(t, cursorid, clk) ==
    /\ scheduled' = DeleteAllBefore(scheduled, cursorid, clk)
    /\ removal' = [removal EXCEPT ![t] = <<[cursorid |-> cursorid, click |-> clk]>>]
    /\ GoTo(t, "removing")
    /\ UNCHANGED <<currentclick, queue, locks, doing, midi>>

QueueRemoveBefore(t) ==
    /\ MayCall(t, "QueueRemoveBefore")
    /\ \E c \in CursorIds, clk \in 0 .. MaxClick : RemoveFromScheduled(t, c, clk)

RemoveFromQueue(t) ==
    /\ pc[t] = "removing"
    /\ queue' = DeleteAllBefore(queue, removal[t][1].cursorid, removal[t][1].click)
    /\ removal' = [removal EXCEPT ![t] = <<>>]
    /\ GoTo(t, CallsFrom(t))
    /\ UNCHANGED <<currentclick, scheduled, locks, doing, midi>>

\* LockScheduled of a Schedule operation; the callback fails to get the lock
\* from here to the end of the operation.
LockScheduled(t) ==
    /\ \E op \in {"ScheduleMidiMsg", "ScheduleMidiPhrase", "ScheduleClear"} :
          MayCall(t, op) /\ GoTo(t, op)
    /\ sched_lock = NoThread
    /\ sched_lock' = t
    /\ UNCHANGED <<currentclick, lists, queue_lock, doing, removal, midi>>

\* The rest of a Schedule operation, which leaves "scheduled" as s.
FinishSchedule(t, s) ==
    /\ scheduled' = s
    /\ sched_lock' = NoThread
    /\ GoTo(t, "idle")
    /\ UNCHANGED <<currentclick, queue, queue_lock, doing, removal, midi>>

\* With no id free the event is not made: EventIds is a bound of the model.
ScheduleMidiMsg(t) ==
    /\ pc[t] = "ScheduleMidiMsg"
    /\ \/ \E e \in NewMsgs : FinishSchedule(t, InsertEvent(scheduled, e))
       \/ FreeIds = {} /\ FinishSchedule(t, scheduled)

ScheduleMidiPhrase(t) ==
    /\ pc[t] = "ScheduleMidiPhrase"
    /\ \/ \E e \in NewPhrases({SCHEDID_ALL}, {NoLooping}) :
             FinishSchedule(t, InsertEvent(scheduled, e))
       \/ FreeIds = {} /\ FinishSchedule(t, scheduled)

Cleared(cursorid, s) ==
    IF cursorid = SCHEDID_ALL THEN <<>> ELSE DeleteAllId(s, cursorid)

ScheduleClear(t, cursorid) ==
    /\ pc[t] = "ScheduleClear"
    /\ FinishSchedule(t, Cleared(cursorid, scheduled))

\* All notes off, on every channel of every output.
ANO(t) ==
    /\ MayCall(t, "ANO")
    /\ sounding' = {}
    /\ UNCHANGED <<currentclick, lists, locks, pc, doing, removal, notesdown>>

ClearNotesDown(t) ==
    /\ MayCall(t, "ClearNotesDown")
    /\ notesdown' = {}
    /\ UNCHANGED <<currentclick, lists, locks, pc, doing, removal, sounding>>

\* The click of now, recomputed at another rate: it may go back.
SetClicksPerSecond(t) ==
    /\ MayCall(t, "SetClicksPerSecond")
    /\ currentclick' \in 0 .. MaxClick
    /\ UNCHANGED <<lists, locks, pc, doing, removal, midi>>

Caller(t) ==
    \/ QueueMidiMsg(t) \/ QueueMidiPhrase(t) \/ QueueClear(t)
    \/ QueueRemoveBefore(t) \/ RemoveFromQueue(t)
    \/ LockScheduled(t) \/ ScheduleMidiMsg(t) \/ ScheduleMidiPhrase(t)
    \/ \E c \in CursorIds \cup {SCHEDID_ALL} : ScheduleClear(t, c)
    \/ ANO(t) \/ ClearNotesDown(t) \/ SetClicksPerSecond(t)

-----------------------------------------------------------------------------
(* The callback: VizScheduler::Callback, periodically. *)

\* AdvanceTimeAndDoEvents finds a later click and sets m_currentclick.  Time
\* never ends: at the cap, MaxClick stands for a later click too.
AdvanceTime ==
    /\ pc[Callback] = "idle"
    /\ \E c \in 0 .. MaxClick :
          /\ c > currentclick \/ c = MaxClick
          /\ currentclick' = c
    /\ GoTo(Callback, "click")
    /\ UNCHANGED <<lists, locks, doing, removal, midi>>

\* clickssofar <= m_currentclick: there is nothing to do but to poll input.
SameClick ==
    /\ pc[Callback] = "idle"
    /\ GoTo(Callback, "poll")
    /\ UNCHANGED <<currentclick, lists, locks, doing, removal, midi>>

\* A client of the callback, a plugin, queues an event.
ClientQueues ==
    \/ /\ "QueueMidiMsg" \in CallerOps
       /\ \E e \in NewMsgs : QueueAddEvent(Callback, e)
    \/ /\ "QueueMidiPhrase" \in CallerOps
       /\ \E e \in NewPhrases(CursorIds, Loopings) : QueueAddEvent(Callback, e)

\* processAdvanceClickTo: the plugins, and the cursors that time out or that
\* the shared memory moves (_checkSharedMem), queue and remove events.
ClickClient ==
    /\ pc[Callback] = "click"
    /\ \/ ClientQueues
       \/ /\ "QueueRemoveBefore" \in CallerOps
          /\ \E c \in CursorIds, clk \in 0 .. MaxClick :
                RemoveFromScheduled(Callback, c, clk)

\* Mutant of TryLockScheduled: err is not looked at.
TryLockScheduled_ErrIgnored ==
    /\ pc[Callback] = "click"
    /\ sched_lock' = Callback /\ GoTo(Callback, "due")
    /\ nevents' = 0
    /\ UNCHANGED <<currentclick, lists, queue_lock, hand, playing, removal, midi>>

\* "if we can't get the lock, we just give up"
TryLockScheduled ==
    /\ pc[Callback] = "click"
    /\ IF sched_lock = NoThread
       THEN sched_lock' = Callback /\ GoTo(Callback, "due")
       ELSE UNCHANGED sched_lock /\ GoTo(Callback, "poll")
    /\ nevents' = 0
    /\ UNCHANGED <<currentclick, lists, queue_lock, hand, playing, removal, midi>>

\* e is the first event of "scheduled", and it is time for it.
Due(e) ==
    /\ pc[Callback] = "due"
    /\ scheduled # <<>>
    /\ e = Head(scheduled)
    /\ e.click <= currentclick

Requeue(q, rest) == IF rest = <<>> THEN q ELSE InsertEvent(q, rest[1])

\* DoEventAndDelete comes to DoMidiMsgEvent, which sends u.
StartPlaying(u, rest) ==
    /\ playing' = <<u>>
    /\ hand' = rest
    /\ GoTo(Callback, "play")

\* Mutants of HandleLoopEvent: the event is inserted into "scheduled" again, it
\* is requeued but not popped, or the clear waits for the lock (lockit is true).
HandleLoopEvent_Direct(e2, rest) ==
    IF LoopContinues(e2.units[1], e2.fade)
    THEN /\ scheduled' = InsertEvent(Tail(scheduled),
                                     [e2 EXCEPT !.units[1] = Faded(@, e2.fade)])
         /\ UNCHANGED queue
         /\ StartPlaying(Faded(e2.units[1], e2.fade), rest)
    ELSE /\ scheduled' = Cleared(e2.cursorid, Tail(scheduled))
         /\ queue' = Requeue(queue, rest)
         /\ UNCHANGED <<playing, hand, pc>>

HandleLoopEvent_NotPopped(e2, rest) ==
    IF LoopContinues(e2.units[1], e2.fade)
    THEN /\ queue' = InsertEvent(queue, [e2 EXCEPT !.units[1] = Faded(@, e2.fade)])
         /\ UNCHANGED scheduled
         /\ StartPlaying(Faded(e2.units[1], e2.fade), rest)
    ELSE /\ scheduled' = Cleared(e2.cursorid, Tail(scheduled))
         /\ queue' = Requeue(queue, rest)
         /\ UNCHANGED <<playing, hand, pc>>

HandleLoopEvent_Locks(e2, rest) ==
    IF LoopContinues(e2.units[1], e2.fade)
    THEN /\ queue' = InsertEvent(queue, [e2 EXCEPT !.units[1] = Faded(@, e2.fade)])
         /\ scheduled' = Tail(scheduled)
         /\ StartPlaying(Faded(e2.units[1], e2.fade), rest)
    ELSE /\ sched_lock = NoThread
         /\ scheduled' = Cleared(e2.cursorid, Tail(scheduled))
         /\ queue' = Requeue(queue, rest)
         /\ UNCHANGED <<playing, hand, pc>>

\* _handleLoopEvent(e2).  A note that has become too quiet is not played: it
\* clears "scheduled" for its cursor, and what follows of a phrase is requeued.
HandleLoopEvent(e2, rest) ==
    IF LoopContinues(e2.units[1], e2.fade)
    THEN /\ queue' = InsertEvent(queue, [e2 EXCEPT !.units[1] = Faded(@, e2.fade)])
         /\ scheduled' = Tail(scheduled)
         /\ StartPlaying(Faded(e2.units[1], e2.fade), rest)
    ELSE /\ scheduled' = Cleared(e2.cursorid, Tail(scheduled))
         /\ queue' = Requeue(queue, rest)
         /\ UNCHANGED <<playing, hand, pc>>

\* DoEventAndDelete, up to DoMidiMsgEvent, for a single message.
DoMidiMsg ==
    \E e \in ToSet(scheduled) :
        /\ Due(e)
        /\ e.type = "MIDIMSG"
        /\ IF e.loop > 0
           THEN HandleLoopEvent([e EXCEPT !.click = @ + e.loop, !.started = TRUE], <<>>)
           ELSE /\ scheduled' = Tail(scheduled)
                /\ UNCHANGED queue
                /\ StartPlaying(e.units[1], <<>>)
        /\ nevents' = 1
        /\ UNCHANGED <<currentclick, locks, removal, midi>>

\* The event a looped phrase leaves for its first unit; the constructor gets
\* no mp here, so that it does not loop and its fade factor is 0.
LoopedUnit(e) ==
    [MsgEvent(e.id, e.units[1], e.click + e.loop, e.cursorid, NoLooping)
        EXCEPT !.part = Len(e.units), !.started = TRUE]

\* The same for a phrase.  Looping a controller is left out, as for merging
\* below: LoopedUnit's constructor reads mp, which is NULL.
DoMidiPhrase ==
    \E e \in ToSet(scheduled) :
        /\ Due(e)
        /\ e.type = "MIDIPHRASE"
        /\ \/ /\ e.units = <<>>
              /\ scheduled' = Tail(scheduled)
              /\ UNCHANGED <<queue, playing, hand, pc>>
           \/ /\ e.units # <<>> /\ e.loop > 0
              /\ e.units[1].kind # "control"
              /\ HandleLoopEvent(LoopedUnit(e), RestOfPhrase(e))
           \/ /\ e.units # <<>> /\ e.loop = 0
              /\ scheduled' = Tail(scheduled)
              /\ UNCHANGED queue
              /\ StartPlaying(e.units[1], RestOfPhrase(e))
        /\ nevents' = 1
        /\ UNCHANGED <<currentclick, locks, removal, midi>>

\* Mutant of SendMidiMsg: the phrase is not requeued.
SendMidiMsg_PhraseLost ==
    /\ pc[Callback] = "play"
    /\ sounding' = After(sounding, playing[1])
    /\ notesdown' = After(notesdown, playing[1])
    /\ UNCHANGED queue
    /\ hand' = <<>> /\ playing' = <<>>
    /\ GoTo(Callback, "due")
    /\ UNCHANGED <<currentclick, scheduled, locks, nevents, removal>>

\* SendMidiMsg with _maintainNotesDown, then the requeueing of a phrase.
SendMidiMsg ==
    /\ pc[Callback] = "play"
    /\ sounding' = After(sounding, playing[1])
    /\ notesdown' = After(notesdown, playing[1])
    /\ queue' = Requeue(queue, hand)
    /\ hand' = <<>> /\ playing' = <<>>
    /\ GoTo(Callback, "due")
    /\ UNCHANGED <<currentclick, scheduled, locks, nevents, removal>>

\* The loop of AdvanceTimeAndDoEvents ends and _addQueueToScheduled begins.
LockQueue ==
    /\ pc[Callback] = "due"
    /\ scheduled # <<>> => Head(scheduled).click > currentclick
    /\ queue_lock = NoThread
    /\ queue_lock' = Callback
    /\ GoTo(Callback, "move")
    /\ UNCHANGED <<currentclick, lists, sched_lock, doing, removal, midi>>

AddQueueToScheduled ==
    /\ pc[Callback] = "move"
    /\ queue # <<>>
    /\ scheduled' = InsertEvent(scheduled, Head(queue))
    /\ queue' = Tail(queue)
    /\ UNCHANGED <<currentclick, locks, pc, doing, removal, midi>>

\* Mutants of UnlockScheduled: not all of the queue has been moved, or the lock of
\* "scheduled" is kept, always or after a pass that did something.
UnlockScheduled_TooEarly ==
    /\ pc[Callback] = "move"
    /\ queue_lock' = NoThread /\ sched_lock' = NoThread
    /\ GoTo(Callback, "poll")
    /\ UNCHANGED <<currentclick, lists, doing, removal, midi>>

UnlockScheduled_Kept ==
    /\ pc[Callback] = "move"
    /\ queue = <<>>
    /\ queue_lock' = NoThread
    /\ GoTo(Callback, "poll")
    /\ UNCHANGED <<currentclick, lists, sched_lock, doing, removal, midi>>

UnlockScheduled_KeptIfBusy ==
    /\ pc[Callback] = "move"
    /\ queue = <<>>
    /\ queue_lock' = NoThread
    /\ sched_lock' = IF nevents = 0 THEN NoThread ELSE sched_lock
    /\ GoTo(Callback, "poll")
    /\ UNCHANGED <<currentclick, lists, doing, removal, midi>>

\* Both locks go; with m_periodic_ANO, notes may be cut after an idle pass.
UnlockScheduled ==
    /\ pc[Callback] = "move"
    /\ queue = <<>>
    /\ queue_lock' = NoThread /\ sched_lock' = NoThread
    /\ GoTo(Callback, "poll")
    /\ \/ UNCHANGED sounding
       \/ PeriodicANO /\ nevents = 0 /\ sounding' = {}
    /\ UNCHANGED <<currentclick, lists, doing, removal, notesdown>>

\* What the callback itself does about a message from a MIDI input, which may
\* be merged to the output.  Merging a controller is left out: the constructor
\* then reads mp, which is NULL.
TakeMidiInput(m) ==
    /\ notesdown' = After(notesdown, m)
    /\ IF MidiMerge
       THEN /\ m.kind # "control"
            /\ \E id \in FreeIds :
                  queue' = InsertEvent(queue,
                             MsgEvent(id, m, currentclick,
                                      CURSORID_FOR_MIDIMERGE, NoLooping))
       ELSE UNCHANGED queue
    /\ queue_lock = NoThread
    /\ UNCHANGED <<currentclick, scheduled, locks, pc, doing, removal, sounding>>

\* Messages are polled; m_midiinput_client passes each to the plugins, which
\* may queue events of their own (VizLooper echoes a note when recording).
PollMidiInput ==
    /\ pc[Callback] = "poll"
    /\ ClientQueues \/ \E m \in Msgs : TakeMidiInput(m)

PollDone ==
    /\ pc[Callback] = "poll"
    /\ GoTo(Callback, "idle")
    /\ UNCHANGED <<currentclick, lists, locks, doing, removal, midi>>

\* What the callback does once it runs; it need not find input.
WithinCallback ==
    \/ RemoveFromQueue(Callback)
    \/ TryLockScheduled \/ DoMidiMsg \/ DoMidiPhrase \/ SendMidiMsg
    \/ LockQueue \/ AddQueueToScheduled \/ UnlockScheduled \/ PollDone

CallbackStep ==
    \/ AdvanceTime \/ SameClick \/ ClickClient \/ PollMidiInput
    \/ WithinCallback

-----------------------------------------------------------------------------
Next == CallbackStep \/ \E t \in Callers : Caller(t)

Spec == Init /\ [][Next]_vars

\* What a caller has begun, with or without a lock.
WithinCall(t) ==
    \/ RemoveFromQueue(t) \/ ScheduleMidiMsg(t) \/ ScheduleMidiPhrase(t)
    \/ \E c \in CursorIds \cup {SCHEDID_ALL} : ScheduleClear(t, c)

\* The timer calls the callback again and again, and not always at the same
\* click (SF: SameClick disables AdvanceTime for a while); its clients make
\* finitely many calls and return (SF: a QueueRemoveBefore disables
\* TryLockScheduled for a while); a thread that has begun an operation
\* finishes it; nobody has to call the scheduler.
Fairness ==
    /\ SF_vars(AdvanceTime)
    /\ SF_vars(TryLockScheduled)
    /\ WF_vars(WithinCallback)
    /\ \A t \in Callers : WF_vars(WithinCall(t))

LiveSpec == Spec /\ Fairness

-----------------------------------------------------------------------------
(* Properties *)

CallbackLabels == {"idle", "click", "removing", "due", "play", "move", "poll"}
CallerLabels   == {"idle", "removing", "ScheduleMidiMsg", "ScheduleMidiPhrase",
                   "ScheduleClear"}

\* The state has the types of the declarations in VizScheduler.h.
TypeOK ==
    /\ currentclick \in Nat
    /\ scheduled \in Seq(Events) /\ queue \in Seq(Events)
    /\ sched_lock \in Threads \cup {NoThread}
    /\ queue_lock \in {NoThread, Callback}
    /\ pc \in [Threads -> CallbackLabels \cup CallerLabels]
    /\ pc[Callback] \in CallbackLabels
    /\ \A t \in Callers : pc[t] \in CallerLabels
    /\ hand \in Seq(Events) /\ playing \in Seq(Units)
    /\ nevents \in 0 .. 1
    /\ removal \in [Threads -> Seq([cursorid : CursorIds, click : Nat])]
    /\ sounding \subseteq Notes /\ notesdown \subseteq Notes

\* Both lists are always ordered by click, which the callback relies on when
\* it stops at the first event that is not due ("VizSchedEventList is sorted
\* by time"), although an event's click changes when it loops.
ListsTimeOrdered == TimeOrdered(scheduled) /\ TimeOrdered(queue)

Key(e) == <<e.id, e.part>>
Keys(s) == {Key(s[i]) : i \in DOMAIN s}
NoRepeat(s) == \A i, j \in DOMAIN s : Key(s[i]) = Key(s[j]) => i = j

\* An event is in one list, once, or in the callback's hands: its m_next and
\* m_prev can serve only one list, and whoever holds it deletes it.
EachEventOnce ==
    /\ NoRepeat(scheduled) /\ NoRepeat(queue)
    /\ Keys(scheduled) \cap Keys(queue) = {}
    /\ Keys(hand) \cap (Keys(scheduled) \cup Keys(queue)) = {}

\* The lock of "scheduled" excludes the callback's pass over the events from
\* the Schedule operations, and the queue's lock is nested in it.
Exclusion ==
    /\ pc[Callback] \in {"due", "play", "move"} <=> sched_lock = Callback
    /\ pc[Callback] = "move" <=> queue_lock = Callback
    /\ \A t \in Callers :
          pc[t] \notin {"idle", "removing"} <=> sched_lock = t

\* What has begun to play, a loop or a phrase, is in "scheduled" whenever the
\* callback does not hold the lock: its passage through the queue is not seen.
StartedIsScheduled ==
    sched_lock # Callback =>
        /\ \A e \in ToSet(queue) : ~ e.started
        /\ hand = <<>> /\ playing = <<>>

\* ScheduleClear of everything ends every loop and every phrase that has begun:
\* nothing of them is in the queue to come back.
ClearStopsPlayback ==
    [][\A t \in Callers :
          ScheduleClear(t, SCHEDID_ALL) =>
              /\ scheduled' = <<>>
              /\ \A e \in ToSet(queue') : ~ e.started]_vars

\* While the callback goes through the due events nothing joins "scheduled",
\* whatever is requeued or queued meanwhile: a pass is finite.
NothingJoinsPass ==
    [][pc[Callback] \in {"due", "play"} =>
          pc'[Callback] = "move" \/ ToSet(scheduled') \subseteq ToSet(scheduled)]_vars

\* The two lists and what the callback holds implement one set of pending
\* events: nothing is lost, doubled or done early by the way an event takes.
\* A QueueRemoveBefore on the way to a list counts as a part of "click".
Turn == IF pc[Callback] = "removing" THEN "click" ELSE pc[Callback]

timeline ==
    INSTANCE Timeline WITH
        Events   <- Events,
        MayClear <- CallerOps \cap {"QueueClear", "ScheduleClear", "QueueRemoveBefore"} # {},
        now      <- currentclick,
        pending  <- ToSet(scheduled) \cup ToSet(queue) \cup ToSet(hand),
        turn     <- Turn

ImplementsTimeline == timeline!Spec

\* The callers do not keep the lock of "scheduled" busy for ever.
LockGetsFree == <>[](sched_lock \notin Callers)

\* Every queued event gets to "scheduled" in the end, unless it is removed,
\* although the callback gives up whenever it finds the lock taken.
QueueDrains ==
    LockGetsFree =>
        \A id \in EventIds :
            (\E e \in ToSet(queue) : e.id = id /\ ~ e.started)
                ~> ~ \E e \in ToSet(queue) : e.id = id /\ ~ e.started

\* Every scheduled event whose time has come is played or removed.
DueIsDone ==
    LockGetsFree =>
        \A id \in EventIds :
            (\E e \in ToSet(scheduled) : e.id = id /\ e.click <= currentclick)
                ~> ~ \E e \in ToSet(scheduled) : e.id = id /\ e.click <= currentclick

\* Nobody waits for a list for ever: each lock is free again and again, though
\* the callback nests one in the other, calls ScheduleClear's code with its own
\* lock held, and keeps it until a pass over events that loop has ended.
LocksComeFree == []<>(sched_lock = NoThread) /\ []<>(queue_lock = NoThread)
=============================================================================
