------------------------------- MODULE Cursors -------------------------------
(***************************************************************************)
(* The server's cursors (VizServer.cpp) and the brushes that follow them   *)
(* (VizBrush.cpp, CursorBehaviour.cpp).  The network thread gets TUIO      *)
(* messages, which may be lost, repeated or late; the timer thread reads   *)
(* the tracker's outlines and lets cursors up that were not touched for a  *)
(* while; the host disables brushes, gives them other session ids and has  *)
(* them load other parameters for MIDI.                                    *)
(***************************************************************************)
EXTENDS Naturals, Sequences, SequencesExt

CONSTANTS
    Sids,           \* session ids, as the senders number them
    NumBrushes,     \* the brushes, numbered by their handles
    Regions,        \* the session ids of each brush at first, which may overlap
    NormalAtFirst,  \* whether each brush makes held notes at first
    Timeout,        \* 100 ms, in units of Elapse
    Net, Timer,     \* the two threads that use the cursors
    NoThread, NoBrush,
    MaxCursor,      \* bound: the cursors there are over time
    MaxChanges      \* bound: how often the host changes a brush

Brushes == 1 .. NumBrushes     \* in the order of the map of callbacks

ASSUME CursorsAssumption ==
    /\ NumBrushes \in Nat
    /\ Sids # {} /\ Regions \in [Brushes -> SUBSET Sids]
    /\ NormalAtFirst \in [Brushes -> BOOLEAN]
    /\ Timeout \in Nat \ {0}
    /\ Net # Timer /\ NoThread \notin {Net, Timer}
    /\ MaxCursor \in Nat /\ MaxChanges \in Nat
    /\ NoBrush \notin Brushes

VARIABLES
    cursors,        \* m_cursors, by cursorid
    next_cursorid,  \* m_next_cursorid
    sid, source,    \* of every cursor
    age,            \* the time since m_lasttouchedInSeconds
    pending,        \* the brush that made m_pending_noteoff, or NoBrush
    cursors_lock,   \* holder of _cursors_mutex
    pc, msg,        \* of both threads: where it is, the session it is about to set
    touching,       \* the cursor that _touchCursorSid found
    outlines,       \* the sids of the frame that are not yet processed
    place,          \* the iterator of _checkCursorUp
    input,          \* IsConnected() && InputEnabled() of a brush
    region,         \* sid_min .. sid_max of a brush
    normal,         \* midiparams of a brush: loaded, and not arpeggiate
    tracked,        \* CursorBehaviour::m_cursors of a brush
    owed,           \* note-ons a brush has queued for a cursor and not ended
    changes         \* how often the host has changed a brush

servervars == <<cursors, next_cursorid, sid, source, age>>
threadvars == <<cursors_lock, pc, msg, touching, outlines, place>>
brushvars  == <<pending, tracked, owed>>
hostvars   == <<input, region, normal, changes>>
cvars      == <<servervars, threadvars, brushvars, hostvars>>

CursorIds == 1 .. MaxCursor
NoCursor  == 0
AnySid    == CHOOSE s \in Sids : TRUE
Sessions  == Sids \X {"osc", "sharedmem"}
Session(c) == <<sid[c], source[c]>>
Live      == ToSet(cursors)
SourceOf(t) == IF t = Net THEN "osc" ELSE "sharedmem"

CursorsInit ==
    /\ cursors = <<>> /\ next_cursorid = 1
    /\ sid = [c \in CursorIds |-> AnySid]
    /\ source = [c \in CursorIds |-> "osc"]
    /\ age = [c \in CursorIds |-> 0]
    /\ cursors_lock = NoThread
    /\ pc = [t \in {Net, Timer} |-> "idle"]
    /\ msg = [t \in {Net, Timer} |-> AnySid]
    /\ touching = NoCursor /\ outlines = {} /\ place = 1
    /\ pending = [c \in CursorIds |-> NoBrush]
    /\ tracked = [b \in Brushes |-> {}]
    /\ owed = [b \in Brushes |-> [c \in CursorIds |-> 0]]
    /\ input = [b \in Brushes |-> TRUE]
    /\ region = Regions /\ normal = NormalAtFirst /\ changes = 0

-----------------------------------------------------------------------------
(* processCursor: the callbacks of the brushes, in the order of the map. *)

\* The brushes that vizlet_cursor and _inRegion let a session id through to.
Audience(s) == {b \in Brushes : input[b] /\ s \in region[b]}

\* Those of them for which _cursorMidi gets to _genNormalMidi.  The others make
\* nothing (midiparams == NULL) or phrases, each of which ends its own note.
Players(s) == {b \in Audience(s) : normal[b]}

\* _trackCursors of all of them.
TrackDown(A, c) ==
    tracked' = [b \in Brushes |-> IF b \in A THEN tracked[b] \cup {c} ELSE tracked[b]]
TrackUp(A, c) ==
    tracked' = [b \in Brushes |-> IF b \in A THEN tracked[b] \ {c} ELSE tracked[b]]

LastOf(S) == CHOOSE b \in S : \A a \in S : a <= b

\* Every player makes a note-on, but the cursor keeps one note-off: the last.
ProcessDown(c, s) ==
    LET P == Players(s)
    IN  /\ TrackDown(Audience(s), c)
        /\ owed' = [b \in Brushes |-> IF b \in P THEN [owed[b] EXCEPT ![c] = @ + 1]
                                                ELSE owed[b]]
        /\ pending' = IF P = {} THEN pending ELSE [pending EXCEPT ![c] = LastOf(P)]

\* Mutant of ProcessDrag: a note ends at another pitch, and none begins.
ProcessDrag_NoNewNote(c, moved) ==
    IF moved = {} \/ pending[c] = NoBrush
    THEN UNCHANGED brushvars
    ELSE /\ owed' = [owed EXCEPT ![pending[c]][c] = @ - 1]
         /\ UNCHANGED <<pending, tracked>>

\* "moved" are the players for which the pitch is not that of the note-off: each
\* ends the note of the one before and begins its own.
ProcessDrag(c, moved) ==
    IF moved = {} \/ pending[c] = NoBrush
    THEN UNCHANGED brushvars
    ELSE /\ pending' = [pending EXCEPT ![c] = LastOf(moved)]
         /\ owed' = [b \in Brushes |-> [owed[b] EXCEPT ![c] =
                        IF pending[c] = LastOf(moved) THEN @
                        ELSE IF b = pending[c] THEN @ - 1
                        ELSE IF b = LastOf(moved) THEN @ + 1 ELSE @]]
         /\ UNCHANGED tracked

\* Mutant of ProcessUp: the pending note-off is dropped and not sent.
ProcessUp_NoteKept(c) ==
    /\ TrackUp(Audience(sid[c]), c)
    /\ pending' = [pending EXCEPT ![c] = NoBrush]
    /\ UNCHANGED owed

\* Mutant of ProcessUp: the note ends, and the brush still follows the cursor.
ProcessUp_StillTracked(c) ==
    IF Players(sid[c]) = {} \/ pending[c] = NoBrush
    THEN UNCHANGED brushvars
    ELSE /\ owed' = [owed EXCEPT ![pending[c]][c] = @ - 1]
         /\ pending' = [pending EXCEPT ![c] = NoBrush]
         /\ UNCHANGED tracked

\* The first player that hears of it sends the note-off.
ProcessUp(c) ==
    /\ TrackUp(Audience(sid[c]), c)
    /\ IF Players(sid[c]) = {} \/ pending[c] = NoBrush
       THEN UNCHANGED <<owed, pending>>
       ELSE /\ owed' = [owed EXCEPT ![pending[c]][c] = @ - 1]
            /\ pending' = [pending EXCEPT ![c] = NoBrush]

-----------------------------------------------------------------------------
(* _setCursor and _getCursor, with the cursors locked *)

Find(s, src) == {c \in Live : sid[c] = s /\ source[c] = src}

LockCursors(t, s) ==
    /\ cursors_lock = NoThread
    /\ cursors_lock' = t
    /\ pc' = [pc EXCEPT ![t] = "set"] /\ msg' = [msg EXCEPT ![t] = s]

\* The thread has finished its _setCursor: the timer goes on with the outlines.
UnlockCursors(t) ==
    /\ cursors_lock' = NoThread
    /\ pc' = [pc EXCEPT ![t] = IF t = Net THEN "idle" ELSE "outlines"]
    /\ msg' = [msg EXCEPT ![t] = AnySid]

\* Mutant of NewCursor: ids are used again.
NewCursor_IdReused(t) ==
    LET c == Len(cursors) + 1
    IN  /\ pc[t] = "set" /\ Find(msg[t], SourceOf(t)) = {}
        /\ c \in CursorIds \ Live
        /\ next_cursorid' = c + 1
        /\ cursors' = Append(cursors, c)
        /\ sid' = [sid EXCEPT ![c] = msg[t]]
        /\ source' = [source EXCEPT ![c] = SourceOf(t)]
        /\ age' = [age EXCEPT ![c] = 0]
        /\ ProcessDown(c, msg[t])
        /\ UnlockCursors(t)
        /\ UNCHANGED <<touching, outlines, place, hostvars>>

NewCursor(t) ==
    LET c == next_cursorid
    IN  /\ pc[t] = "set" /\ Find(msg[t], SourceOf(t)) = {}
        /\ c \in CursorIds
        /\ next_cursorid' = c + 1
        /\ cursors' = Append(cursors, c)
        /\ sid' = [sid EXCEPT ![c] = msg[t]]
        /\ source' = [source EXCEPT ![c] = SourceOf(t)]
        /\ age' = [age EXCEPT ![c] = 0]
        /\ ProcessDown(c, msg[t])
        /\ UnlockCursors(t)
        /\ UNCHANGED <<touching, outlines, place, hostvars>>

\* Mutant of DragCursor: it returns without unlocking.
DragCursor_KeepsLock(t) ==
    /\ pc[t] = "set"
    /\ \E c \in Find(msg[t], SourceOf(t)), moved \in SUBSET Players(msg[t]) :
          ProcessDrag(c, moved) /\ age' = [age EXCEPT ![c] = 0]
    /\ pc' = [pc EXCEPT ![t] = IF t = Net THEN "idle" ELSE "outlines"]
    /\ msg' = [msg EXCEPT ![t] = AnySid]
    /\ UNCHANGED <<cursors, next_cursorid, sid, source, cursors_lock, touching,
                   outlines, place, hostvars>>

DragCursor(t) ==
    /\ pc[t] = "set"
    /\ \E c \in Find(msg[t], SourceOf(t)), moved \in SUBSET Players(msg[t]) :
          ProcessDrag(c, moved) /\ age' = [age EXCEPT ![c] = 0]
    /\ UnlockCursors(t)
    /\ UNCHANGED <<cursors, next_cursorid, sid, source, touching, outlines, place,
                   hostvars>>

\* Bound: beyond MaxCursor no cursor comes.
NoMoreCursors(t) ==
    /\ pc[t] = "set" /\ Find(msg[t], SourceOf(t)) = {}
    /\ next_cursorid > MaxCursor
    /\ UnlockCursors(t)
    /\ UNCHANGED <<servervars, brushvars, touching, outlines, place, hostvars>>

-----------------------------------------------------------------------------
(* processOsc on the network thread: "set" and "alive" of one session.  A message *)
(* that is lost does not come, and any may come at any time.                     *)

OscSet(s) ==
    /\ pc[Net] = "idle"
    /\ LockCursors(Net, s)
    /\ UNCHANGED <<servervars, brushvars, touching, outlines, place, hostvars>>

\* _getCursor(..., true) locks, looks and unlocks ...
OscAlive(s) ==
    /\ pc[Net] = "idle" /\ cursors_lock = NoThread
    /\ \E c \in Find(s, "osc") : touching' = c
    /\ pc' = [pc EXCEPT ![Net] = "touch"]
    /\ UNCHANGED <<servervars, brushvars, cursors_lock, msg, outlines, place, hostvars>>

\* ... and then the cursor is touched.  If it was deleted meanwhile, the write
\* goes to free memory, or to a cursor that was allocated there.
Touch ==
    /\ pc[Net] = "touch"
    /\ \/ touching \in Live /\ age' = [age EXCEPT ![touching] = 0]
       \/ touching \notin Live /\ UNCHANGED age
       \/ /\ touching \notin Live
          /\ \E c \in Live : c > touching /\ age' = [age EXCEPT ![c] = 0]
    /\ pc' = [pc EXCEPT ![Net] = "idle"] /\ touching' = NoCursor
    /\ UNCHANGED <<cursors, next_cursorid, sid, source, brushvars, cursors_lock,
                   msg, outlines, place, hostvars>>

-----------------------------------------------------------------------------
(* _advanceClickTo on the timer thread *)

\* _checkSharedMem finds a new frame of outlines, or nothing new.
CheckSharedMem(frame) ==
    /\ pc[Timer] = "idle"
    /\ pc' = [pc EXCEPT ![Timer] = "outlines"]
    /\ outlines' = frame
    /\ UNCHANGED <<servervars, brushvars, cursors_lock, msg, touching, place, hostvars>>

ProcessOutline(s) ==
    /\ pc[Timer] = "outlines" /\ s \in outlines
    /\ outlines' = outlines \ {s}
    /\ LockCursors(Timer, s)
    /\ UNCHANGED <<servervars, brushvars, touching, place, hostvars>>

\* "if (TryLockCursors() != 0) return"
TryLockCursors ==
    /\ pc[Timer] = "outlines" /\ outlines = {}
    /\ IF cursors_lock = NoThread
       THEN cursors_lock' = Timer /\ pc' = [pc EXCEPT ![Timer] = "check"] /\ place' = 1
       ELSE pc' = [pc EXCEPT ![Timer] = "idle"] /\ UNCHANGED <<cursors_lock, place>>
    /\ UNCHANGED <<servervars, brushvars, msg, touching, outlines, hostvars>>

\* Mutant of CursorUp: the cursor stays in the list.
CursorUp_NotErased ==
    /\ pc[Timer] = "check" /\ place <= Len(cursors)
    /\ LET c == cursors[place] IN age[c] > Timeout /\ ProcessUp(c)
    /\ place' = place + 1
    /\ UNCHANGED <<servervars, cursors_lock, pc, msg, touching, outlines, hostvars>>

\* One iteration of _checkCursorUp: the cursor is due ...
CursorUp ==
    /\ pc[Timer] = "check" /\ place <= Len(cursors)
    /\ LET c == cursors[place]
       IN  /\ age[c] > Timeout
           /\ ProcessUp(c)
           /\ cursors' = RemoveAt(cursors, place)
           /\ age' = [age EXCEPT ![c] = 0]
    /\ UNCHANGED <<next_cursorid, sid, source, threadvars, hostvars>>

\* ... or it is not.
CursorStays ==
    /\ pc[Timer] = "check" /\ place <= Len(cursors)
    /\ age[cursors[place]] <= Timeout
    /\ place' = place + 1
    /\ UNCHANGED <<servervars, brushvars, cursors_lock, pc, msg, touching, outlines,
                   hostvars>>

\* advanceTo smooths the positions, which are left out.
CheckDone ==
    /\ pc[Timer] = "check" /\ place > Len(cursors)
    /\ cursors_lock' = NoThread
    /\ pc' = [pc EXCEPT ![Timer] = "idle"] /\ place' = 1
    /\ UNCHANGED <<servervars, brushvars, msg, touching, outlines, hostvars>>

-----------------------------------------------------------------------------
(* Time, and the host. *)

\* Ages beyond the timeout are all alike.
Elapse ==
    /\ \E c \in Live : age[c] <= Timeout
    /\ age' = [c \in CursorIds |-> IF c \in Live /\ age[c] <= Timeout
                                   THEN age[c] + 1 ELSE age[c]]
    /\ UNCHANGED <<cursors, next_cursorid, sid, source, threadvars, brushvars, hostvars>>

\* set_enableinput, ProcessConnect, ProcessDisconnect.
SetEnableInput(b) ==
    /\ changes < MaxChanges /\ changes' = changes + 1
    /\ input' = [input EXCEPT ![b] = ~ @]
    /\ UNCHANGED <<servervars, threadvars, brushvars, region, normal>>

SetSidrange(b, sids) ==
    /\ changes < MaxChanges /\ changes' = changes + 1
    /\ region' = [region EXCEPT ![b] = sids]
    /\ UNCHANGED <<servervars, threadvars, brushvars, input, normal>>

\* set_midi or _reloadParams: a file that arpeggiates or does not; set_midi also with
\* one that cannot be read, after which midiparams is NULL until the next.
SetMidiParams(b) ==
    /\ changes < MaxChanges /\ changes' = changes + 1
    /\ normal' = [normal EXCEPT ![b] = ~ @]
    /\ UNCHANGED <<servervars, threadvars, brushvars, input, region>>

SetCursor(t) == NewCursor(t) \/ DragCursor(t) \/ NoMoreCursors(t)

NetStep == \/ \E s \in Sids : OscSet(s) \/ OscAlive(s)
           \/ SetCursor(Net) \/ Touch

Check == CursorUp \/ CursorStays \/ CheckDone

TimerStep == \/ \E frame \in SUBSET Sids : CheckSharedMem(frame)
             \/ \E s \in Sids : ProcessOutline(s)
             \/ SetCursor(Timer) \/ TryLockCursors \/ Check

HostStep ==
    \E b \in Brushes :
        \/ SetEnableInput(b) \/ SetMidiParams(b)
        \/ \E s \in Sids : SetSidrange(b, {s})

CursorsNext == NetStep \/ TimerStep \/ Elapse \/ HostStep

CursorsSpec == CursorsInit /\ [][CursorsNext]_cvars

\* The timer is periodic, a thread that has begun goes on, and a mutex that is free
\* again and again is got in the end.  No message and no frame has to come.
CursorsFairness ==
    /\ WF_cvars(Elapse)
    /\ WF_cvars(\E frame \in SUBSET Sids : CheckSharedMem(frame))
    /\ SF_cvars(\E s \in Sids : ProcessOutline(s))
    /\ WF_cvars(SetCursor(Timer) \/ TryLockCursors \/ Check)
    /\ WF_cvars(SetCursor(Net) \/ Touch)

CursorsLiveSpec == CursorsSpec /\ CursorsFairness

-----------------------------------------------------------------------------
(* Properties *)

\* The types of the server's and the brushes' fields; no note is ended twice.
CursorsTypeOK ==
    /\ cursors \in Seq(CursorIds) /\ IsInjective(cursors)
    /\ next_cursorid \in 1 .. MaxCursor + 1
    /\ sid \in [CursorIds -> Sids]
    /\ source \in [CursorIds -> {"osc", "sharedmem"}]
    /\ age \in [CursorIds -> 0 .. Timeout + 1]
    /\ pending \in [CursorIds -> Brushes \cup {NoBrush}]
    /\ cursors_lock \in {Net, Timer, NoThread}
    /\ pc \in [{Net, Timer} -> {"idle", "set", "touch", "outlines", "check"}]
    /\ msg \in [{Net, Timer} -> Sids]
    /\ touching \in CursorIds \cup {NoCursor}
    /\ outlines \subseteq Sids
    /\ place \in Nat \ {0}
    /\ input \in [Brushes -> BOOLEAN] /\ region \in [Brushes -> SUBSET Sids]
    /\ normal \in [Brushes -> BOOLEAN]
    /\ tracked \in [Brushes -> SUBSET CursorIds]
    /\ owed \in [Brushes -> [CursorIds -> Nat]]
    /\ changes \in 0 .. MaxChanges

Life == INSTANCE CursorLife WITH
    last     <- next_cursorid - 1,
    owner    <- [c \in Live |-> Session(c)],
    followed <- tracked

\* The next three hold as long as the host has left the brushes alone.  A brush that is
\* disabled, gets other session ids or loads other parameters between a cursor's down
\* and its up does not hear of the up, or makes nothing of it.
HostWasQuiet == changes = 0

\* The list, its lock, the timeout and the callbacks implement cursors that begin
\* once, with an id that is "permanently unique (not reused like session id)", one
\* for a session, and that end at the same time for all who follow them.
ImplementsCursorLife ==
    Life!LifeInit /\ [][HostWasQuiet' => [Life!LifeNext]_(Life!lifevars)]_cvars

\* A brush follows cursors that exist: _genControlMidi reads "the average of all the
\* cursors in the region we're in" through the pointers in "tracked".
TrackedAreLive == HostWasQuiet => \A b \in Brushes : tracked[b] \subseteq Live

OnePlayer(s) == \A a, b \in Players(s) : a = b
NoneOwed(c)  == \A b \in Brushes : owed[b][c] = 0

\* "if you hold a cursor down, the note will stay on until you release the cursor":
\* when a cursor is gone, the notes that brushes began for it were ended, through all
\* its drags, exactly if no two brushes played its session.  Of two that did, which
\* FFFF gives the same session ids in a pipeline, one overwrites m_pending_noteoff of
\* the other, and a note-on is left without its note-off.
NotesReleased ==
    HostWasQuiet =>
        \A c \in (1 .. next_cursorid - 1) \ Live : NoneOwed(c) <=> OnePlayer(sid[c])

\* A cursor that nobody touches any more goes up, whatever becomes of the messages
\* of other cursors and although TryLock may fail, if only it succeeds at times.
AbandonedGoesUp ==
    []<>(pc[Timer] = "check")
        => \A c \in CursorIds : <>[](c \notin Live) \/ []<>(c \in Live /\ age[c] = 0)

\* The timer thread comes back from the cursors, so that MIDI goes on.
TimerReturns == pc[Timer] # "idle" ~> pc[Timer] = "idle"
=============================================================================
