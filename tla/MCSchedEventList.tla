------------------------- MODULE MCSchedEventList -------------------------
(* Small instances of SchedEventList for TLC. *)
EXTENDS SchedEventList, TLC

Msg(c, kind) ==
    [cursorid |-> c, type |-> "MIDIMSG",
     units |-> <<[click |-> 0, kind |-> kind, note |-> 0, vel |-> 0]>>]

\* Two cursors; a note-off and what is not one.
SomeData == {Msg(1, "on"), Msg(1, "off"), Msg(2, "on")}

SomeClicks == {1, 2}

Symmetry == Permutations(Ids)
=============================================================================
