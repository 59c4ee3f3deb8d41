--------------------------- MODULE MCProfileLock ---------------------------
(* Three processes of one host, any of them dead from before.              *)
EXTENDS ProfileLock, TLC

CONSTANTS p1, p2, p3, here

Three == (p1 :> here @@ p2 :> here @@ p3 :> here)

=============================================================================
