------------------------------ MODULE MCAccess ------------------------------
(* A browser on a node of the same user and one on a tagged node, both of   *)
(* which can also come over the LAN; ids for a tailnet row and paired ones. *)
EXTENDS Access, TLC

CONSTANTS b1, b2, n1, n2

MCNodeOf == b1 :> n1 @@ b2 :> n2
MCOwner == n1 :> "self" @@ n2 :> "self"
=============================================================================
