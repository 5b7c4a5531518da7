----------------------------- MODULE EventQueue -----------------------------
(***************************************************************************)
(* The abstract VizSchedEventList: a sequence of events ordered by click,  *)
(* and the events that were popped from it and are not deleted yet.        *)
(***************************************************************************)
EXTENDS EventList

CONSTANTS Ids, Clicks, Data   \* addresses; clicks; [cursorid, type, units]

VARIABLES list, held

Event(id, click, d) ==
    [id |-> id, click |-> click, cursorid |-> d.cursorid, type |-> d.type,
     units |-> d.units]

Init == list = <<>> /\ held = {}

Insert ==
    \E id \in Ids \ {e.id : e \in ToSet(list) \cup held} :
        \E click \in Clicks, d \in Data :
            list' = InsertEvent(list, Event(id, click, d)) /\ UNCHANGED held

PopFirst ==
    /\ list # <<>>
    /\ list' = Tail(list)
    /\ held' = held \cup {Head(list)}

\* An event that loops, or one that goes from list to list, is used again.
InsertAgain ==
    \E e \in held, click \in Clicks :
        /\ list' = InsertEvent(list, [e EXCEPT !.click = click])
        /\ held' = held \ {e}

Delete == \E e \in held : held' = held \ {e} /\ UNCHANGED list

Clear == list' = <<>> /\ UNCHANGED held

ClearId ==
    \E d \in Data : list' = DeleteAllId(list, d.cursorid) /\ UNCHANGED held

ClearBefore ==
    \E d \in Data, click \in Clicks :
        list' = DeleteAllBefore(list, d.cursorid, click) /\ UNCHANGED held

Next ==
    \/ Insert \/ PopFirst \/ InsertAgain \/ Delete
    \/ Clear \/ ClearId \/ ClearBefore

Spec == Init /\ [][Next]_<<list, held>>
=============================================================================
