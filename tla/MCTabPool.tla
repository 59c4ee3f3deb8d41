----------------------------- MODULE MCTabPool -----------------------------
(* TabPool on a small instance: two agents, two callers, a cap of 1 or 2.   *)
(* Its runs check liveness, so they use no symmetry.                        *)
EXTENDS TabPool

=============================================================================
