------------------------------ MODULE Browser -------------------------------
(***************************************************************************)
(* What the two modules of the browser share (webui/assets/app.js): Client *)
(* is the page's connection, Page what it asks of the daemon besides.      *)
(* Each moves these variables as far as its own part of the page does.     *)
(***************************************************************************)
CONSTANTS Session,    \* names of sessions
          Defined,    \* whether onResize is defined: a set of the cases to look at
          None

ASSUME NoneAssumption == None \notin Session
ASSUME DefinedAssumption == Defined \subseteq BOOLEAN

VARIABLES
    defined,          \* onResize is defined
    view,             \* what shows: the list or the terminal
    remembered        \* the session in localStorage, or None
=============================================================================
