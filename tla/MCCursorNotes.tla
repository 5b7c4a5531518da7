--------------------------- MODULE MCCursorNotes ---------------------------
(* Small instances of CursorNotes for TLC. *)
EXTENDS CursorNotes

None == {}

OneQuant  == {2}
TwoQuants == {1, 2}
=============================================================================
