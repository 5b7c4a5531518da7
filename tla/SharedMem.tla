------------------------------ MODULE SharedMem ------------------------------
(***************************************************************************)
(* The shared memory through which a tracker (MMTT, another process, whose *)
(* code is not here) hands outlines of hands to VizServer: three buffers,  *)
(* each being constructed, to be displayed next, or displayed last; a      *)
(* mutex; and the opening and closing of the segment (UT_SharedMem), which *)
(* exists as long as anybody has it open.  The readers are the timer       *)
(* threads of the programs that have a VizServer.  Left out: a mutex that  *)
(* is held for 5 s (lock's result is not looked at), and resize.           *)
(***************************************************************************)
EXTENDS Integers, FiniteSets

CONSTANTS
    Readers,
    Tracker,
    NoOne,
    MaxFrames       \* bound: the tracker makes so many frames

ASSUME SharedMemAssumption ==
    /\ Tracker \notin Readers /\ NoOne \notin Readers \cup {Tracker}
    /\ MaxFrames \in Nat

BUFF_UNSET == -1
Buffers == 0 .. 2       \* NUM_BUFFS

VARIABLES
    tracker,        \* "off", "new", "idle", "constructing"
    holders,        \* who has the segment (and its info segment) open
    detach,         \* of UT_SharedMemInfo: the owner has closed
    mutex,
    version_ok,     \* the header is initialised: version = MMTT_SHM_VERSION_NUMBER
    seqnum,         \* < 0 while the tracker initialises
    stale,          \* lastUpdateTime is more than 10 s ago
    buff_being_constructed, buff_displayed_last_time, buff_to_display_next, buff_to_display,
    buff_inuse,
    content,        \* the frame in each buffer, 0 while it is written
    frames,         \* frames made so far
    pc,             \* where each reader is in _checkSharedMem
    outlines,       \* m_sharedmem_outlines is not NULL
    m_mmtt_seqnum   \* the last one the reader looked at

segment == <<holders, detach>>
buffs   == <<buff_being_constructed, buff_displayed_last_time, buff_to_display_next,
             buff_to_display, buff_inuse, content>>
header  == <<version_ok, seqnum, stale, buffs>>
readers == <<pc, outlines, m_mmtt_seqnum>>
vars    == <<tracker, segment, mutex, header, frames, readers>>

ShmInit ==
    /\ tracker = "off" /\ holders = {} /\ detach = FALSE /\ mutex = NoOne
    /\ version_ok = FALSE /\ seqnum = 0 /\ stale = FALSE
    /\ buff_being_constructed = BUFF_UNSET /\ buff_displayed_last_time = BUFF_UNSET
    /\ buff_to_display_next = BUFF_UNSET /\ buff_to_display = BUFF_UNSET
    /\ buff_inuse = [b \in Buffers |-> FALSE]
    /\ content = [b \in Buffers |-> 0]
    /\ frames = 0
    /\ pc = [r \in Readers |-> "out"]
    /\ outlines = [r \in Readers |-> FALSE]
    /\ m_mmtt_seqnum = [r \in Readers |-> 0]

-----------------------------------------------------------------------------
(* The tracker: its steps on the header are those the header is made for *)

\* createSharedMem fails when the segment exists (ERROR_ALREADY_EXISTS).
CreateSharedMem ==
    /\ tracker = "off" /\ holders = {}
    /\ tracker' = "new" /\ holders' = {Tracker} /\ detach' = FALSE
    /\ version_ok' = FALSE /\ seqnum' = 0 /\ stale' = FALSE
    /\ UNCHANGED <<mutex, buffs, frames, readers>>

\* xinit, and again when the tracker realigns: seqnum is negative.
InitHeader ==
    /\ tracker \in {"new", "idle"} /\ mutex = NoOne
    /\ tracker' = "idle" /\ version_ok' = TRUE /\ seqnum' = -1 /\ stale' = FALSE
    /\ buff_being_constructed' = BUFF_UNSET /\ buff_displayed_last_time' = BUFF_UNSET
    /\ buff_to_display_next' = BUFF_UNSET /\ buff_to_display' = BUFF_UNSET
    /\ buff_inuse' = [b \in Buffers |-> FALSE]
    /\ content' = [b \in Buffers |-> 0]
    /\ UNCHANGED <<segment, mutex, frames, readers>>

GrabUnusedBuffer ==
    /\ tracker = "idle" /\ mutex = NoOne /\ frames < MaxFrames
    /\ \E b \in Buffers :
          /\ ~ buff_inuse[b]
          /\ buff_inuse' = [buff_inuse EXCEPT ![b] = TRUE]
          /\ buff_being_constructed' = b
          /\ content' = [content EXCEPT ![b] = 0]
    /\ tracker' = "constructing" /\ frames' = frames + 1
    /\ UNCHANGED <<segment, mutex, version_ok, seqnum, stale, buff_displayed_last_time,
                   buff_to_display_next, buff_to_display, readers>>

\* A frame that was to be displayed next, and was not, is given up for the new one.  A
\* number that came before is assumed not to come back when the tracker starts anew.
Publish ==
    /\ tracker = "constructing" /\ mutex = NoOne
    /\ tracker' = "idle"
    /\ content' = [content EXCEPT ![buff_being_constructed] = frames]
    /\ buff_inuse' = [b \in Buffers |-> b # buff_to_display_next /\ buff_inuse[b]]
    /\ buff_to_display_next' = buff_being_constructed
    /\ buff_being_constructed' = BUFF_UNSET
    /\ seqnum' = frames /\ stale' = FALSE
    /\ UNCHANGED <<segment, mutex, version_ok, buff_displayed_last_time, buff_to_display,
                   frames, readers>>

\* UT_SharedMem::detach of the owner.
TrackerCloses ==
    /\ tracker # "off"
    /\ tracker' = "off" /\ holders' = holders \ {Tracker} /\ detach' = TRUE
    /\ UNCHANGED <<mutex, header, frames, readers>>

\* The process ends without it.
TrackerCrashes ==
    /\ tracker # "off"
    /\ tracker' = "off" /\ holders' = holders \ {Tracker}
    /\ UNCHANGED <<detach, mutex, header, frames, readers>>

\* 10 s without an update.
TimePasses ==
    /\ version_ok /\ seqnum >= 0 /\ ~ stale
    /\ stale' = TRUE
    /\ UNCHANGED <<tracker, segment, mutex, version_ok, seqnum, buffs, frames, readers>>

-----------------------------------------------------------------------------
(* A reader: VizServer::_checkSharedMem *)

\* _openSharedMemOutlines, every 5 s; what cannot be opened is closed at once.
OpenOutlines(r) ==
    /\ pc[r] = "out" /\ ~ outlines[r] /\ holders # {}
    /\ outlines' = [outlines EXCEPT ![r] = TRUE]
    /\ holders' = holders \cup {r}
    /\ UNCHANGED <<tracker, detach, mutex, header, frames, pc, m_mmtt_seqnum>>

\* getout
Unlock(r) == mutex' = NoOne /\ pc' = [pc EXCEPT ![r] = "out"]

CloseOutlines(r) ==
    /\ outlines' = [outlines EXCEPT ![r] = FALSE]
    /\ holders' = holders \ {r}

\* Mutant of Attached: detach is not looked at.
Attached_NoDetach == holders # {}

\* checkInfo detaches when the owner has; getMemory attaches again when there is a segment.
Attached == holders # {} /\ ~ detach

LockOutlines(r) ==
    /\ pc[r] = "out" /\ outlines[r] /\ mutex = NoOne
    /\ IF Attached
       THEN /\ mutex' = r /\ pc' = [pc EXCEPT ![r] = "look"]
            /\ holders' = holders \cup {r}
       ELSE holders' = holders \ {r} /\ UNCHANGED <<mutex, pc>>
    /\ UNCHANGED <<tracker, detach, header, frames, outlines, m_mmtt_seqnum>>

WrongVersion(r) ==
    /\ pc[r] = "look" /\ ~ version_ok
    /\ Unlock(r) /\ CloseOutlines(r)
    /\ UNCHANGED <<tracker, detach, header, frames, m_mmtt_seqnum>>

NotInitialising == seqnum >= 0

IsNew(r) == version_ok /\ NotInitialising /\ seqnum # m_mmtt_seqnum[r]

NothingNew(r) ==
    /\ pc[r] = "look" /\ version_ok /\ ~ IsNew(r)
    /\ Unlock(r)
    /\ UNCHANGED <<tracker, segment, header, frames, outlines, m_mmtt_seqnum>>

TooOld(r) ==
    /\ pc[r] = "look" /\ IsNew(r) /\ stale
    /\ m_mmtt_seqnum' = [m_mmtt_seqnum EXCEPT ![r] = seqnum]
    /\ Unlock(r) /\ CloseOutlines(r)
    /\ UNCHANGED <<tracker, detach, header, frames>>

\* Mutant of Rotate: the buffer displayed last stays in use.
Rotate_KeepsInUse ==
    IF buff_to_display_next = BUFF_UNSET
    THEN /\ buff_to_display' = buff_displayed_last_time
         /\ UNCHANGED <<buff_displayed_last_time, buff_to_display_next, buff_inuse>>
    ELSE /\ buff_to_display' = buff_to_display_next
         /\ buff_displayed_last_time' = buff_to_display_next
         /\ buff_to_display_next' = BUFF_UNSET
         /\ UNCHANGED buff_inuse

\* Mutant of Rotate: what was displayed last is displayed again, when there is such.
Rotate_LastFirst ==
    IF buff_to_display_next = BUFF_UNSET \/ buff_displayed_last_time # BUFF_UNSET
    THEN /\ buff_to_display' = buff_displayed_last_time
         /\ UNCHANGED <<buff_displayed_last_time, buff_to_display_next, buff_inuse>>
    ELSE /\ buff_to_display' = buff_to_display_next
         /\ buff_displayed_last_time' = buff_to_display_next
         /\ buff_to_display_next' = BUFF_UNSET
         /\ UNCHANGED buff_inuse

\* The buffer to be displayed next takes the place of the one displayed last; when there
\* is none (another reader has taken it), the one displayed last is displayed again.
Rotate ==
    IF buff_to_display_next = BUFF_UNSET
    THEN /\ buff_to_display' = buff_displayed_last_time
         /\ UNCHANGED <<buff_displayed_last_time, buff_to_display_next, buff_inuse>>
    ELSE /\ buff_to_display' = buff_to_display_next
         /\ buff_inuse' = [b \in Buffers |-> b # buff_displayed_last_time /\ buff_inuse[b]]
         /\ buff_displayed_last_time' = buff_to_display_next
         /\ buff_to_display_next' = BUFF_UNSET

\* Mutant of TakeFrame: m_mmtt_seqnum is not set.
TakeFrame_Again(r) ==
    /\ pc[r] = "look" /\ IsNew(r) /\ ~ stale
    /\ Rotate
    /\ pc' = [pc EXCEPT ![r] = "cursors"]
    /\ UNCHANGED <<tracker, segment, mutex, version_ok, seqnum, stale, buff_being_constructed,
                   content, frames, outlines, m_mmtt_seqnum>>

TakeFrame(r) ==
    /\ pc[r] = "look" /\ IsNew(r) /\ ~ stale
    /\ m_mmtt_seqnum' = [m_mmtt_seqnum EXCEPT ![r] = seqnum]
    /\ Rotate
    /\ pc' = [pc EXCEPT ![r] = "cursors"]
    /\ UNCHANGED <<tracker, segment, mutex, version_ok, seqnum, stale, buff_being_constructed,
                   content, frames, outlines>>

\* _processCursorsFromBuff reads the outlines in buff_to_display, with the mutex, up to here.
ProcessCursors(r) ==
    /\ pc[r] = "cursors"
    /\ Unlock(r)
    /\ UNCHANGED <<tracker, segment, header, frames, outlines, m_mmtt_seqnum>>

CheckSharedMem(r) ==
    \/ OpenOutlines(r) \/ LockOutlines(r)
    \/ WrongVersion(r) \/ NothingNew(r) \/ TooOld(r) \/ TakeFrame(r) \/ ProcessCursors(r)

-----------------------------------------------------------------------------
ShmNext ==
    \/ CreateSharedMem \/ InitHeader \/ GrabUnusedBuffer \/ Publish
    \/ TrackerCloses \/ TrackerCrashes \/ TimePasses
    \/ \E r \in Readers : CheckSharedMem(r)

\* A reader checks at every click, and gets the mutex that is always given back; a
\* tracker that is started again tries until it can.
ShmSpec ==
    /\ ShmInit /\ [][ShmNext]_vars
    /\ WF_vars(CreateSharedMem)
    /\ \A r \in Readers : WF_vars(CheckSharedMem(r)) /\ SF_vars(LockOutlines(r))

-----------------------------------------------------------------------------
(* Properties *)

BufferOrUnset == Buffers \cup {BUFF_UNSET}

ShmFlagsOK ==
    /\ detach \in BOOLEAN /\ version_ok \in BOOLEAN /\ stale \in BOOLEAN
    /\ buff_inuse \in [Buffers -> BOOLEAN]
    /\ outlines \in [Readers -> BOOLEAN]

ShmDataOK ==
    /\ tracker \in {"off", "new", "idle", "constructing"}
    /\ holders \subseteq Readers \cup {Tracker}
    /\ mutex \in Readers \cup {NoOne}
    /\ seqnum \in -1 .. MaxFrames /\ frames \in 0 .. MaxFrames
    /\ {buff_being_constructed, buff_displayed_last_time, buff_to_display_next,
        buff_to_display} \subseteq BufferOrUnset
    /\ content \in [Buffers -> 0 .. MaxFrames]
    /\ pc \in [Readers -> {"out", "look", "cursors"}]
    /\ m_mmtt_seqnum \in [Readers -> 0 .. MaxFrames]

ShmTypeOK == ShmFlagsOK /\ ShmDataOK

\* Three buffers are enough: while the readers hold one and another waits for them, the
\* tracker always finds one that is not in use (mmtt_sharedmem.h, NUM_BUFFS).
AlwaysAFreeBuffer == tracker = "idle" => \E b \in Buffers : ~ buff_inuse[b]

\* What the cursors are made from is the newest frame, and a whole one, in a buffer that is
\* there: none that the tracker constructs, and not BUFF_UNSET (VizServer.cpp:1176).
NewestWholeFrame ==
    \A r \in Readers :
        pc[r] = "cursors" => /\ buff_to_display # BUFF_UNSET /\ content[buff_to_display] # 0
                             /\ \A b \in Buffers : content[b] <= content[buff_to_display]

\* A reader does not leave a new frame there for ever: it takes it, drops it as too old,
\* or the tracker starts its numbers again, as long as the tracker has not closed.
NewIsTaken == \A r \in Readers : IsNew(r) ~> ~ IsNew(r) \/ detach

\* A tracker that has closed can start again: the readers let the segment go.
ClosedComesBack == tracker = "off" /\ detach ~> tracker = "new"
=============================================================================
