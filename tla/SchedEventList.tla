--------------------------- MODULE SchedEventList ---------------------------
(***************************************************************************)
(* VizSchedEventList (src/Viz/VIzSchedEventList.cpp) as the doubly linked  *)
(* list it is, one iteration of a deleting loop at a time.  Spec takes it  *)
(* as its comments do ("We assume we're locked when this is called") and   *)
(* implements EventQueue.  UnlockedSpec is the list as QueueRemoveBefore   *)
(* uses it: DeleteAllBefore without the lock.                              *)
(***************************************************************************)
EXTENDS EventList

CONSTANTS
    Ids,        \* addresses of VizSchedEvents
    Null,
    Clicks,     \* clicks of the events
    Data        \* [cursorid, type, units] of the events

ASSUME ListAssumption ==
    /\ Null \notin Ids
    /\ Clicks \subseteq Nat
    /\ IsFiniteSet(Ids)

VARIABLES
    first, last,    \* m_first, m_last
    next, prev,     \* m_next, m_prev of every event
    ev,             \* what else an event has; NoEvent when it is deleted
    live,           \* the events that are allocated
    held,           \* those of them that were popped
    loop            \* a deleting loop: what it deletes, and its e

links == <<first, last, next, prev>>
vars  == <<links, ev, live, held, loop>>

NoLoop  == [op |-> "none", cursorid |-> Null, before |-> 0, e |-> Null]
NoEvent == [id |-> Null, click |-> 0, cursorid |-> Null, type |-> "none",
            units |-> <<>>]

Event(id, click, d) ==
    [id |-> id, click |-> click, cursorid |-> d.cursorid, type |-> d.type,
     units |-> d.units]

\* The events a traversal from m_first meets: the n-th one, or Null.
Reached[n \in 0 .. Cardinality(Ids)] ==
    IF n = 0 THEN first
    ELSE IF Reached[n - 1] = Null THEN Null ELSE next[Reached[n - 1]]

Length == Cardinality({n \in DOMAIN Reached : Reached[n] # Null})

\* The list as a traversal from m_first sees it.
Contents == [i \in 1 .. Length |-> Reached[i - 1]]

Init ==
    /\ first = Null /\ last = Null
    /\ next = [e \in Ids |-> Null] /\ prev = [e \in Ids |-> Null]
    /\ ev = [e \in Ids |-> NoEvent]
    /\ live = {} /\ held = {}
    /\ loop = NoLoop

-----------------------------------------------------------------------------
(* InsertEvent links e: into the empty list, in front, at the end, or in between. *)

LinkEmpty(e, click) ==
    /\ first = Null
    /\ next' = [next EXCEPT ![e] = Null]
    /\ prev' = [prev EXCEPT ![e] = Null]
    /\ first' = e /\ last' = e

\* Mutant of LinkFront: in front of an event with the same click.
LinkFront_Equal(e, click) ==
    /\ first # Null
    /\ click <= ev[first].click
    /\ next' = [next EXCEPT ![e] = first]
    /\ prev' = [prev EXCEPT ![e] = Null, ![first] = e]
    /\ first' = e
    /\ UNCHANGED last

LinkFront(e, click) ==
    /\ first # Null
    /\ click < ev[first].click
    /\ next' = [next EXCEPT ![e] = first]
    /\ prev' = [prev EXCEPT ![e] = Null, ![first] = e]
    /\ first' = e
    /\ UNCHANGED last

LinkBack(e, click) ==
    /\ first # Null
    /\ click >= ev[first].click
    /\ click >= ev[last].click
    /\ next' = [next EXCEPT ![e] = Null, ![last] = e]
    /\ prev' = [prev EXCEPT ![e] = last]
    /\ last' = e
    /\ UNCHANGED first

\* In front of the first event the traversal meets that is later.
LinkMiddle(e, click) ==
    /\ first # Null
    /\ click >= ev[first].click
    /\ click < ev[last].click
    /\ \E n \in 1 .. Length :
         /\ click < ev[Contents[n]].click
         /\ \A m \in 1 .. n - 1 : click >= ev[Contents[m]].click
         /\ LET t == Contents[n]
            IN  /\ next' = [next EXCEPT ![prev[t]] = e, ![e] = t]
                /\ prev' = [prev EXCEPT ![e] = prev[t], ![t] = e]
    /\ UNCHANGED <<first, last>>

Link(e, click) ==
    \/ LinkEmpty(e, click) \/ LinkFront(e, click)
    \/ LinkBack(e, click) \/ LinkMiddle(e, click)

-----------------------------------------------------------------------------
(* The operations.  Those that do not loop are one step. *)

\* A new event is inserted.
Insert ==
    \E e \in Ids \ live, click \in Clicks, d \in Data :
        /\ Link(e, click)
        /\ ev' = [ev EXCEPT ![e] = Event(e, click, d)]
        /\ live' = live \cup {e}
        /\ UNCHANGED <<held, loop>>

\* An event that was popped is inserted, perhaps at another click.
InsertAgain ==
    \E e \in held, click \in Clicks :
        /\ Link(e, click)
        /\ ev' = [ev EXCEPT ![e].click = click]
        /\ held' = held \ {e}
        /\ UNCHANGED <<live, loop>>

\* Mutant of PopFirst: the m_prev of the new first event stays.
PopFirst_KeepsPrev ==
    /\ first # Null
    /\ first' = next[first]
    /\ held' = held \cup {first}
    /\ UNCHANGED <<last, next, prev, ev, live, loop>>

\* m_last stays what it is when the list gets empty.
PopFirst ==
    /\ first # Null
    /\ first' = next[first]
    /\ prev' = IF next[first] = Null THEN prev
               ELSE [prev EXCEPT ![next[first]] = Null]
    /\ held' = held \cup {first}
    /\ UNCHANGED <<last, next, ev, live, loop>>

Free(e) ==
    /\ live' = live \ {e}
    /\ ev' = [ev EXCEPT ![e] = NoEvent]

\* Mutant of Delete: the pointer to the event is kept.
Delete_Dangling == \E e \in held : Free(e) /\ UNCHANGED <<links, held, loop>>

\* DoEventAndDelete deletes the event it popped.
Delete == \E e \in held : Free(e) /\ held' = held \ {e} /\ UNCHANGED <<links, loop>>

-----------------------------------------------------------------------------
(* DeleteAll, DeleteAllId, DeleteAllBefore: loops over the list. *)

StartLoop ==
    /\ loop.op = "none"
    /\ \E d \in Data, click \in Clicks,
          op \in {"DeleteAll", "DeleteAllId", "DeleteAllBefore"} :
            loop' = [op |-> op, cursorid |-> d.cursorid, before |-> click, e |-> first]
    /\ UNCHANGED <<links, ev, live, held>>

Doomed(e) ==
    \/ loop.op = "DeleteAll"
    \/ loop.op = "DeleteAllId" /\ ev[e].cursorid = loop.cursorid
    \/ loop.op = "DeleteAllBefore" /\ ToDeleteBefore(ev[e], loop.cursorid, loop.before)

UnlinkLast(e) ==
    /\ e = last
    /\ IF prev[e] = Null
       THEN first' = Null /\ last' = Null /\ UNCHANGED <<next, prev>>
       ELSE /\ next' = [next EXCEPT ![prev[e]] = Null]
            /\ last' = prev[e]
            /\ UNCHANGED <<first, prev>>

UnlinkFirst(e) ==
    /\ e = first /\ e # last
    /\ IF next[e] = Null
       THEN first' = Null /\ last' = Null /\ UNCHANGED <<next, prev>>
       ELSE /\ prev' = [prev EXCEPT ![next[e]] = Null]
            /\ first' = next[e]
            /\ UNCHANGED <<last, next>>

UnlinkMiddle(e) ==
    /\ e \notin {first, last}
    /\ next' = [next EXCEPT ![prev[e]] = next[e]]
    /\ prev' = [prev EXCEPT ![next[e]] = prev[e]]
    /\ UNCHANGED <<first, last>>

\* Mutant of Iterate: nexte is not read before the deletion.
Iterate_NoNexte ==
    /\ loop.e # Null
    /\ loop' = IF Doomed(loop.e) THEN loop ELSE [loop EXCEPT !.e = next[loop.e]]
    /\ IF Doomed(loop.e)
       THEN /\ Free(loop.e)
            /\ IF loop.op = "DeleteAll" THEN UNCHANGED links
               ELSE UnlinkLast(loop.e) \/ UnlinkFirst(loop.e) \/ UnlinkMiddle(loop.e)
       ELSE UNCHANGED <<links, ev, live>>
    /\ UNCHANGED held

\* One iteration; DeleteAll does not unlink what it deletes.
Iterate ==
    /\ loop.e # Null
    /\ loop' = [loop EXCEPT !.e = next[loop.e]]
    /\ IF Doomed(loop.e)
       THEN /\ Free(loop.e)
            /\ IF loop.op = "DeleteAll" THEN UNCHANGED links
               ELSE UnlinkLast(loop.e) \/ UnlinkFirst(loop.e) \/ UnlinkMiddle(loop.e)
       ELSE UNCHANGED <<links, ev, live>>
    /\ UNCHANGED held

EndLoop ==
    /\ loop.op # "none" /\ loop.e = Null
    /\ loop' = NoLoop
    /\ IF loop.op = "DeleteAll" THEN first' = Null /\ last' = Null
       ELSE UNCHANGED <<first, last>>
    /\ UNCHANGED <<next, prev, ev, live, held>>

-----------------------------------------------------------------------------
OneStepOperation == Insert \/ InsertAgain \/ PopFirst \/ Delete

LoopOperation == StartLoop \/ Iterate \/ EndLoop

\* Whoever uses the list holds its lock to the end of the operation.
Next == (loop.op = "none" /\ OneStepOperation) \/ LoopOperation

Spec == Init /\ [][Next]_vars

\* QueueRemoveBefore does not take the lock: the thread that has it goes on.
UnlockedNext ==
    \/ loop.op \in {"none", "DeleteAllBefore"} /\ OneStepOperation
    \/ LoopOperation

UnlockedSpec == Init /\ [][UnlockedNext]_vars

-----------------------------------------------------------------------------
(* Properties *)

FieldTypes ==
    /\ {first, last} \subseteq Ids \cup {Null}
    /\ next \in [Ids -> Ids \cup {Null}] /\ prev \in [Ids -> Ids \cup {Null}]
    /\ live \subseteq Ids /\ held \subseteq live
    /\ loop.e \in Ids \cup {Null}

\* Types of the fields.  What a traversal meets is allocated and not popped, but
\* for what a DeleteAll has deleted and not unlinked; and whatever is allocated and
\* not popped is met, so that it can be freed.
TypeOK ==
    /\ FieldTypes
    /\ loop.op # "DeleteAll" => ToSet(Contents) \subseteq live \ held
    /\ live \ held \subseteq ToSet(Contents)

\* What CheckSanity looks for, "UNEXPECTED A" to "UNEXPECTED F", at every step
\* of every operation, with what it leaves out: m_last is reached, and each
\* m_prev undoes an m_next.
CheckSanity ==
    first # Null =>
        /\ Length > 0 /\ Contents[Length] = last
        /\ prev[first] = Null /\ next[last] = Null
        /\ \A i \in 2 .. Length : prev[Contents[i]] = Contents[i - 1]

\* A loop never goes on from an event that was deleted or popped under it.
LoopEventIsLive == loop.e # Null => loop.e \in live \ held

\* The links represent a sequence, and every operation does to it what the
\* operation of module EventList says; a loop counts from its first step.
List == [i \in 1 .. Length |-> ev[Contents[i]]]

AbstractList ==
    CASE loop.op = "none"            -> List
      [] loop.op = "DeleteAll"       -> <<>>
      [] loop.op = "DeleteAllId"     -> DeleteAllId(List, loop.cursorid)
      [] loop.op = "DeleteAllBefore" -> DeleteAllBefore(List, loop.cursorid, loop.before)

eventqueue ==
    INSTANCE EventQueue WITH list <- AbstractList, held <- {ev[e] : e \in held}

ImplementsEventQueue == eventqueue!Spec
=============================================================================
