---------------------------- MODULE MCLifecycle ----------------------------
(* Lifecycle on small instances.  The flag of identity i1 is a prefix of    *)
(* the flag of i2 in Prefix ("work", "work-twitter") and not in Apart.      *)
EXTENDS Lifecycle

CONSTANTS i1, i2

Apart  == [id \in Ids |-> {id}]
Prefix == [id \in Ids |-> IF id = i1 THEN Ids ELSE {id}]

=============================================================================
