------------------------------ MODULE Timeline ------------------------------
(***************************************************************************)
(* What VizScheduler promises to those who call it, whatever list an event *)
(* is in and whoever holds which lock: a set of pending events, from which *)
(* an event goes away only when it is due and is performed, or because it  *)
(* was asked for: by a clear, by QueueRemoveBefore, or by a loop of the    *)
(* same cursor that has faded out.  Module Scheduler implements it.        *)
(***************************************************************************)
EXTENDS EventList

CONSTANTS Events,   \* the events there may be
          MayClear  \* whether anybody calls QueueClear, ScheduleClear or
                    \* QueueRemoveBefore

VARIABLES now,      \* the current click
          pending,  \* the events still to be done
          turn      \* what the one who performs them is at

Init == now = 0 /\ pending = {} /\ turn = "idle"

gone == pending \ pending'
new  == pending' \ pending

Same(e, f) == e.id = f.id /\ e.part = f.part

\* Time passes; a change of tempo may even set it back.
Advance == UNCHANGED pending /\ now' \in Nat

\* A new event: no pending event is touched, or is the same as this one.
Submit ==
    /\ UNCHANGED now
    /\ gone = {}
    /\ \E e \in new :
         /\ new = {e}
         /\ e \in Events /\ ~ e.started
         /\ \A f \in pending : ~ Same(e, f)

\* What is left of e when it is due and its first unit was done: its repetition,
\* if it loops, and the rest of the phrase, if it is one.
Repetition(e, f) == e.loop > 0 /\ f.click = e.click + e.loop /\ Len(f.units) = 1

Continuation(e, f) ==
    /\ e.type = "MIDIPHRASE" /\ Len(e.units) > 1
    /\ f.units = Tail(e.units) /\ f.click >= e.click

FollowUp(e, f) ==
    /\ f \in Events /\ f.id = e.id /\ f.started
    /\ Repetition(e, f) \/ Continuation(e, f)

HasContinuation(e) == e.type = "MIDIPHRASE" /\ Len(e.units) > 1

\* Performing e: e is due, e alone goes, and all that follows it up comes.
Perform ==
    /\ UNCHANGED now
    /\ \E e \in gone :
         /\ gone = {e}
         /\ e.click <= now
         /\ \A f \in new : FollowUp(e, f)
         /\ e.loop > 0 /\ e.units # <<>> => \E f \in new : Repetition(e, f)
         /\ HasContinuation(e) => \E f \in new : Continuation(e, f)

\* A note of a loop is too quiet to go on: events of its cursor go with it, but
\* for the rest of the phrase that it is in.
FadeOut ==
    /\ UNCHANGED now
    /\ \E e \in gone :
         /\ e.click <= now
         /\ e.loop > 0 /\ e.units # <<>> /\ e.units[1].kind = "on"
         /\ \A d \in gone : d.cursorid = e.cursorid
         /\ \A f \in new : FollowUp(e, f)
         /\ HasContinuation(e) => \E f \in new : Continuation(e, f)

\* Removed because somebody asked for it, while the one who performs events is
\* elsewhere or goes on with what it is at.
Clear == MayClear /\ UNCHANGED <<now, turn>> /\ new = {}

Next == Advance \/ Submit \/ Perform \/ FadeOut \/ Clear

Spec == Init /\ [][Next]_<<now, pending, turn>>
=============================================================================
