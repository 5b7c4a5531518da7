----------------------------- MODULE EventList -----------------------------
(***************************************************************************)
(* The operations of VizSchedEventList (src/Viz/VIzSchedEventList.cpp) on  *)
(* the list as a sequence: element 1 is m_first, the last one is m_last.   *)
(* An event is a record; only the fields "click", "cursorid", "type" and   *)
(* "units" are looked at here.  The doubly linked implementation is module *)
(* SchedEventList, which is checked to compute these same sequences.       *)
(***************************************************************************)
EXTENDS Integers, Sequences, FiniteSets, SequencesExt

\* "The list is time-ordered by the click value" (VizSchedEventList.h).
TimeOrdered(s) ==
    \A i, j \in DOMAIN s : i < j => s[i].click <= s[j].click

\* Mutant of InsertPosition: the old scheduler's push_back, without its sort.
InsertPosition_AtEnd(s, e) == Len(s) + 1

\* Where InsertEvent puts e: in front of the first event that is later than
\* e, so behind every event with an equal click; at the end if there is none.
InsertPosition(s, e) ==
    LET later == {i \in DOMAIN s : e.click < s[i].click}
    IN  IF later = {}
        THEN Len(s) + 1
        ELSE CHOOSE i \in later : \A j \in later : i <= j

InsertEvent(s, e) == InsertAt(s, InsertPosition(s, e), e)

\* s without the events at the positions in D, the others in their order.
Without(s, D) ==
    LET kept    == DOMAIN s \ D
        Rank(i) == Cardinality({k \in kept : k <= i})
    IN  [r \in 1 .. Cardinality(kept) |-> s[CHOOSE i \in kept : Rank(i) = r]]

\* DeleteAllId deletes every event of the cursor, note-offs included.
DeleteAllId(s, cursorid) ==
    Without(s, {i \in DOMAIN s : s[i].cursorid = cursorid})

IsNoteOffMsg(e) == e.type = "MIDIMSG" /\ e.units[1].kind = "off"

\* DeleteAllBefore spares what is later than beforeclk, and single note-offs.
ToDeleteBefore(e, cursorid, beforeclk) ==
    /\ e.cursorid = cursorid
    /\ e.click <= beforeclk
    /\ ~ IsNoteOffMsg(e)

DeleteAllBefore(s, cursorid, beforeclk) ==
    Without(s, {i \in DOMAIN s : ToDeleteBefore(s[i], cursorid, beforeclk)})

EventsOfSid(s, cursorid) == {i \in DOMAIN s : s[i].cursorid = cursorid}
=============================================================================
