------------------------------- MODULE MCPage -------------------------------
(* One session that comes and goes, and two loads that may overlap. *)
EXTENDS Page
=============================================================================
