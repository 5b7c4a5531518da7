----------------------------- MODULE CursorLife -----------------------------
(***************************************************************************)
(* What the server promises about cursors, without locks, times or lists:  *)
(* a cursor gets an id that was never used, no session has two cursors at  *)
(* once, and a cursor that goes up goes up for everybody who follows it.   *)
(***************************************************************************)
EXTENDS Naturals, Functions

CONSTANTS Sessions, Brushes

VARIABLES
    last,       \* the last cursorid that was given
    owner,      \* the session of every cursor that is down
    followed    \* the cursors each brush believes to be down

lifevars == <<last, owner, followed>>

LifeInit ==
    /\ last = 0
    /\ owner = [c \in {} |-> 0]
    /\ followed = [b \in Brushes |-> {}]

Down(s, audience) ==
    /\ s \notin Range(owner)
    /\ last' = last + 1
    /\ owner' = [c \in DOMAIN owner \cup {last + 1} |->
                    IF c = last + 1 THEN s ELSE owner[c]]
    /\ followed' = [b \in Brushes |-> IF b \in audience
                                      THEN followed[b] \cup {last + 1}
                                      ELSE followed[b]]

Up(c) ==
    /\ c \in DOMAIN owner
    /\ owner' = Restrict(owner, DOMAIN owner \ {c})
    /\ followed' = [b \in Brushes |-> followed[b] \ {c}]
    /\ UNCHANGED last

LifeNext ==
    \/ \E s \in Sessions, audience \in SUBSET Brushes : Down(s, audience)
    \/ \E c \in DOMAIN owner : Up(c)

LifeSpec == LifeInit /\ [][LifeNext]_lifevars
=============================================================================
