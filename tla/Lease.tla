------------------------------- MODULE Lease -------------------------------
(***************************************************************************)
(* What one attach promises: a terminal that is held by right.  The right  *)
(* may come and go at any time.  It is checked every CheckInterval and not *)
(* in between; a holder found without it gets no further than one closing  *)
(* handshake; and the terminal can be given up whenever.                   *)
(*                                                                         *)
(* Attach implements it with goroutines and timers.  Access does for every *)
(* browser, on a right that the device list decides.                       *)
(***************************************************************************)
EXTENDS Naturals

CONSTANTS CheckInterval,  \* ticks between two checks
          CloseGrace      \* the longest a closing handshake takes, in ticks

VARIABLES
    held,     \* the terminal: "free", "open", or "closing" after a check failed
    right,    \* whether its holder may hold it
    clock,    \* ticks since it was opened or checked; at most as many to its end,
              \*   once it is closing
    exposed   \* for how many ticks in a row it has been held without the right

vars == <<held, right, clock, exposed>>

Init ==
    /\ held \in {"free", "open"}
    /\ right \in BOOLEAN
    /\ clock = 0 /\ exposed = 0

Open ==
    /\ held = "free"
    /\ held' = "open" /\ clock' = 0
    /\ UNCHANGED <<right, exposed>>

\* It goes with the right that its next holder would have.
GiveUp ==
    /\ held # "free"
    /\ held' = "free" /\ clock' = 0 /\ exposed' = 0
    /\ right' \in BOOLEAN

RightChanges ==
    /\ right' = ~right
    /\ exposed' = IF right' THEN 0 ELSE exposed
    /\ UNCHANGED <<held, clock>>

\* A check that finds no right never leaves the terminal as it was; one that
\* could not be made may end it too.  A handshake may be under way already.
Check ==
    /\ held = "open" /\ clock = CheckInterval
    /\ \/ right /\ held' = "open" /\ clock' = 0
       \/ held' = "closing" /\ clock' \in 0 .. CloseGrace
    /\ UNCHANGED <<right, exposed>>

Tick ==
    /\ \/ held = "open" /\ clock < CheckInterval
       \/ held = "closing" /\ clock < CloseGrace
    /\ clock' = clock + 1
    /\ exposed' = IF right THEN 0 ELSE exposed + 1
    /\ UNCHANGED <<held, right>>

Next == Open \/ GiveUp \/ RightChanges \/ Check \/ Tick

Spec == Init /\ [][Next]_vars
=============================================================================
