------------------------------ MODULE MCAccess -----------------------------
(* One page, the other pages of its browser, one script, a window of three *)
(* ticks.                                                                  *)
EXTENDS Access, TLC

CONSTANTS p1, browser, script, k1, k2

=============================================================================
