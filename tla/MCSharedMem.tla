----------------------------- MODULE MCSharedMem -----------------------------
(***************************************************************************)
(* Instances of SharedMem for TLC.                                         *)
(***************************************************************************)
EXTENDS SharedMem
=============================================================================
