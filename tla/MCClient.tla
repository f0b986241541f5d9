------------------------------ MODULE MCClient ------------------------------
(* Two sessions, and sockets and timers enough for every way to have two. *)
EXTENDS Client
=============================================================================
