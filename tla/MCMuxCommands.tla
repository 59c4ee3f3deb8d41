--------------------------- MODULE MCMuxCommands ---------------------------
(* Small instances of MuxCommands for TLC. *)
EXTENDS MuxCommands

CONSTANTS c1, c2

MCSends == c1 :> 2 @@ c2 :> 1
=============================================================================
