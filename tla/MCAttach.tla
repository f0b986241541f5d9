------------------------------ MODULE MCAttach ------------------------------
(* One attach, with timers in the order of size that the code's have. *)
EXTENDS Attach
=============================================================================
