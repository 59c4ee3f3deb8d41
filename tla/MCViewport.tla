----------------------------- MODULE MCViewport -----------------------------
(* Heights: the floor of the gateway is 3, Chrome's windows are not smaller  *)
(* than 6, of which 2 or 3 are not content: a page gets its 3, or 4.         *)
EXTENDS Viewport, TLC

CONSTANTS t1, t2, c1, c2

Symmetry == Permutations({t1, t2}) \cup Permutations({c1, c2})

MCSizes == {1}
MCBars == {2, 3}

=============================================================================
