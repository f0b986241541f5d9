----------------------------- MODULE MCPairing -----------------------------
(* Two handlers and two codes; permuting either changes nothing.            *)
EXTENDS Pairing, TLC

Symmetry == Permutations(Redeemer) \cup Permutations(Code)
=============================================================================
