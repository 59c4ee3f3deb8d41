--------------------------- MODULE ExclusiveLock ---------------------------
(***************************************************************************)
(* What a profile lock promises: at most one process owns the profile, and *)
(* it changes hands only by being free in between.  An owner gives it up,  *)
(* or loses it by dying or by being deprived of it.                        *)
(***************************************************************************)
CONSTANT Owners  \* who may own the profile

VARIABLE owners  \* who does

Init == owners = {}

Take(p) == owners = {} /\ owners' = {p}
Lose(p) == owners = {p} /\ owners' = {}

Next == \E p \in Owners : Take(p) \/ Lose(p)

Spec == Init /\ [][Next]_owners

=============================================================================
