--------------------------- MODULE MCSocketServer ---------------------------
(***************************************************************************)
(* Instances of SocketServer for TLC.                                      *)
(***************************************************************************)
EXTENDS SocketServer
=============================================================================
