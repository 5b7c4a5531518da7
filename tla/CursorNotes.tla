----------------------------- MODULE CursorNotes -----------------------------
(***************************************************************************)
(* The notes of cursors: CursorBehaviour::_genNormalMidi on top of the     *)
(* scheduler.  The network thread brings a cursor down and drags it as OSC *)
(* says, the PortTime callback as the shared memory says, in its click     *)
(* client, both with the lock on the cursors; the callback lets it up when *)
(* it gets that lock.  A note-on waits for the next multiple of the        *)
(* cursor's quantum; its note-off is kept in the cursor until the cursor   *)
(* goes up or gets to another pitch.                                       *)
(***************************************************************************)
EXTENDS Scheduler

CONSTANTS
    Net,        \* the network thread, one of the callers
    Quants,     \* the quanta in clicks, which depend on the cursor's height
    Velocity,   \* of the notes
    NoNote      \* m_pending_noteoff == NULL

ASSUME NotesAssumption ==
    /\ Net \in Callers
    /\ Quants \subseteq Nat \ {0}
    /\ Velocity \in 1 .. 127
    /\ NoNote \notin Notes
    /\ CallerOps = {}       \* nobody else uses the scheduler

VARIABLES
    cursor,         \* the cursors by cursorid
    cursors_lock,   \* holder of _cursors_mutex
    setting         \* where the holder of the lock is in _setCursor, and its
                    \* local variables

cursorvars == <<cursor, cursors_lock, setting>>
allvars    == <<vars, cursorvars>>

\* "pitch" and "quant" stand for the position.  A cursor id is used once.
Cursors == [state : {"new", "down", "up"}, pitch : Notes, quant : Quants,
            pending_noteoff : Notes \cup {NoNote}, noteon_click : Nat]

NewCursor == [state |-> "new", pitch |-> CHOOSE n \in Notes : TRUE,
              quant |-> CHOOSE q \in Quants : TRUE,
              pending_noteoff |-> NoNote, noteon_click |-> 0]

Setters == {Net, Callback}

NotSetting == [at |-> "idle", cursorid |-> CHOOSE c \in CursorIds : TRUE, nowquant |-> 0]

quantizeToNext(tm, q) == tm - (tm % q) + q

\* m_looping is off.
CursorMsg(id, kind, pitch, clk, c) ==
    MsgEvent(id, [click |-> 0, kind |-> kind, note |-> pitch,
                  vel |-> IF kind = "on" THEN Velocity ELSE 0],
             clk, c, NoLooping)

\* The address of a new event: any that is free.  Addresses are only compared with
\* each other, so it makes no difference which one "new" returns.
NewId == CHOOSE id \in FreeIds : TRUE

\* _queueRegionMidiMsg.  The time that is modelled ends at MaxClick: nothing is
\* queued that could not be played (a bound of the model).
QueueRegionMidiMsg(t, kind, pitch, clk, c) ==
    /\ clk <= MaxClick
    /\ FreeIds # {}
    /\ QueueAddEvent(t, CursorMsg(NewId, kind, pitch, clk, c))

NotesInit ==
    /\ Init
    /\ cursor = [c \in CursorIds |-> NewCursor]
    /\ cursors_lock = NoThread
    /\ setting = NotSetting

-----------------------------------------------------------------------------
(* _setCursor on either thread, with the cursors locked.  The callback calls *)
(* it where it calls its click client.                                       *)

LockCursors(t) ==
    /\ pc[t] = CallsFrom(t) /\ cursors_lock = NoThread
    /\ cursors_lock' = t

\* Bound: the callback sets a cursor only if n events for it fit into the model's
\* ids and its note-on before MaxClick; otherwise time would end in its client.
HasRoom(t, n, quant) ==
    t = Callback =>
        /\ n <= Cardinality(FreeIds)
        /\ quantizeToNext(currentclick, quant) <= MaxClick

CursorDown(t, c, pitch, quant) ==
    /\ LockCursors(t) /\ HasRoom(t, 1, quant)
    /\ cursor[c].state = "new"
    /\ cursor' = [cursor EXCEPT ![c].state = "down", ![c].pitch = pitch,
                                ![c].quant = quant]
    /\ setting' = [setting EXCEPT !.at = "remove", !.cursorid = c]
    /\ UNCHANGED vars

\* A drag to the same pitch only moves the cursor.
CursorMove(t, c, quant) ==
    /\ pc[t] = CallsFrom(t) /\ cursors_lock = NoThread
    /\ cursor[c].state = "down"
    /\ cursor' = [cursor EXCEPT ![c].quant = quant]
    /\ UNCHANGED <<vars, cursors_lock, setting>>

\* To another pitch: the note ends, "to make sure it happens after the noteon".
CursorDrag(t, c, pitch, quant) ==
    /\ LockCursors(t) /\ HasRoom(t, 2, quant)
    /\ cursor[c].state = "down"
    /\ pitch # cursor[c].pending_noteoff
    /\ cursor' = [cursor EXCEPT ![c].pitch = pitch, ![c].quant = quant]
    /\ QueueRegionMidiMsg(t, "off", cursor[c].pending_noteoff,
                          cursor[c].noteon_click + 1, c)
    /\ setting' = [setting EXCEPT !.at = "remove", !.cursorid = c]

\* _queueNoteonWithNoteoffPending: remove what is queued up to the note-on ...
RemoveQueued ==
    /\ setting.at = "remove"
    /\ LET nowquant == quantizeToNext(currentclick, cursor[setting.cursorid].quant)
       IN  /\ RemoveFromScheduled(cursors_lock, setting.cursorid, nowquant)
           /\ setting' = [setting EXCEPT !.at = "noteon", !.nowquant = nowquant]
    /\ UNCHANGED <<cursor, cursors_lock>>

\* ... and queue the note-on.
QueueNoteon ==
    /\ setting.at = "noteon" /\ pc[cursors_lock] = CallsFrom(cursors_lock)
    /\ LET c == setting.cursorid
       IN  /\ QueueRegionMidiMsg(cursors_lock, "on", cursor[c].pitch,
                                 setting.nowquant, c)
           /\ cursor' = [cursor EXCEPT ![c].pending_noteoff = cursor[c].pitch,
                                       ![c].noteon_click = setting.nowquant]
    /\ cursors_lock' = NoThread
    /\ setting' = NotSetting

\* Mutant of CursorUp: the note-off is not quantized.
CursorUp_NotQuantized(c) ==
    /\ pc[Callback] = "click" /\ cursors_lock = NoThread
    /\ cursor[c].state = "down"
    /\ QueueRegionMidiMsg(Callback, "off", cursor[c].pending_noteoff, currentclick, c)
    /\ cursor' = [cursor EXCEPT ![c].state = "up", ![c].pending_noteoff = NoNote]
    /\ UNCHANGED <<cursors_lock, setting>>

\* _checkCursorUp in the click client: "if noteoff is not quantized, it may
\* precede noteon, resulting in stuck note".
CursorUp(c) ==
    /\ pc[Callback] = "click" /\ cursors_lock = NoThread
    /\ cursor[c].state = "down"
    /\ QueueRegionMidiMsg(Callback, "off", cursor[c].pending_noteoff,
                          quantizeToNext(currentclick, cursor[c].quant), c)
    /\ cursor' = [cursor EXCEPT ![c].state = "up", ![c].pending_noteoff = NoNote]
    /\ UNCHANGED <<cursors_lock, setting>>

\* The callback goes on from its click client when that has returned.
ClientReturned == pc[Callback] = "click" => cursors_lock # Callback

NotesNext ==
    \/ \E c \in CursorIds :
          \/ \E t \in Setters, pitch \in Notes, quant \in Quants :
                CursorDown(t, c, pitch, quant) \/ CursorDrag(t, c, pitch, quant)
          \/ \E t \in Setters, quant \in Quants : CursorMove(t, c, quant)
          \/ CursorUp(c)
    \/ RemoveQueued \/ QueueNoteon
    \/ RemoveFromQueue(Net) /\ UNCHANGED cursorvars
    \/ CallbackStep /\ ClientReturned /\ UNCHANGED cursorvars

NotesSpec == NotesInit /\ [][NotesNext]_allvars

\* What the scheduler's fairness says, and that a thread ends what it has begun;
\* no cursor has to come, to move or to go up.
NotesFairness ==
    /\ SF_allvars(AdvanceTime /\ UNCHANGED cursorvars)
    /\ SF_allvars(TryLockScheduled /\ ClientReturned /\ UNCHANGED cursorvars)
    /\ WF_allvars(WithinCallback /\ ClientReturned /\ UNCHANGED cursorvars)
    /\ WF_allvars(RemoveQueued) /\ WF_allvars(QueueNoteon)
    /\ WF_allvars(RemoveFromQueue(Net) /\ UNCHANGED cursorvars)

NotesLiveSpec == NotesSpec /\ NotesFairness

-----------------------------------------------------------------------------
(* Properties *)

NothingPending ==
    scheduled = <<>> /\ queue = <<>> /\ hand = <<>> /\ playing = <<>>

\* No note is stuck: when no cursor is down and all that was queued is played,
\* silence.  It needs that a note-off is played after its note-on although they
\* may have the same click and may take different ways through the lists.
NoStuckNote ==
    (NothingPending /\ \A c \in CursorIds : cursor[c].state # "down")
        => sounding = {}

\* Once all the cursors are up, silence comes.
NotesEnd ==
    (\A c \in CursorIds : cursor[c].state = "up") ~> sounding = {}
=============================================================================
