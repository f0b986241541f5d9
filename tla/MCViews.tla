------------------------------ MODULE MCViews ------------------------------
(* Requests that run side by side, and enough windows for a session that is *)
(* killed and made again; permuting either changes nothing.                 *)
EXTENDS Views, TLC

Symmetry == Permutations(Request) \cup Permutations(Windows)
=============================================================================
