--------------------------- MODULE MCMuxTargets ----------------------------
(* MuxTargets on small instances: peers, two clients of two agents, and    *)
(* the one connection of an agent.                                         *)
EXTENDS MuxTargets, TLC

CONSTANTS a1, a2, c1, c2

Peers == (c1 :> a1 @@ c2 :> a2)
Solo  == (c1 :> a1)

\* Targets are interchangeable, and so are two peers with their agents.
Swap == (a1 :> a2 @@ a2 :> a1 @@ c1 :> c2 @@ c2 :> c1)

Symmetry      == Permutations(Targets)
PeersSymmetry == Permutations(Targets) \cup {Swap}

=============================================================================
