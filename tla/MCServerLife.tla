---------------------------- MODULE MCServerLife ----------------------------
(***************************************************************************)
(* Instances of ServerLife for TLC.                                        *)
(***************************************************************************)
EXTENDS ServerLife
=============================================================================
