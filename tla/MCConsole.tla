----------------------------- MODULE MCConsole -----------------------------
(* One tab.                                                                *)
EXTENDS Console, TLC

CONSTANTS t1, t2

=============================================================================
