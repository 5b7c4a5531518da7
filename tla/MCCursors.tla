----------------------------- MODULE MCCursors -----------------------------
(* Small instances of Cursors for TLC. *)
EXTENDS Cursors, TLC

MCSids == {1, 2}

\* Session 2 is heard by both brushes, session 1 by the first only.
SharedRegions == (1 :> {1, 2}) @@ (2 :> {2})

AllNormal == [b \in 1 .. 2 |-> TRUE]

=============================================================================
