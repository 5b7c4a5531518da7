------------------------------- MODULE MCStreams -------------------------------
(***************************************************************************)
(* An instance of Streams for TLC: data of at most two tokens, which may   *)
(* look like ends of lines, and all OSC messages of one to three bytes,    *)
(* with everything SLIP escapes, two over each connection.                 *)
(***************************************************************************)
EXTENDS Streams

MCLengths == [length1 |-> 1, length2 |-> 2]
=============================================================================
