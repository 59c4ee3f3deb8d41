--------------------------- MODULE MCTakeoverHub ---------------------------
(* TakeoverHub on a small instance; viewers and pages are interchangeable.  *)
EXTENDS TakeoverHub, TLC

Symmetry == Permutations(Viewers) \cup Permutations(Pages)

=============================================================================
