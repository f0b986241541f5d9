-------------------------------- MODULE Views --------------------------------
(***************************************************************************)
(* Package session on one tmux session and its phone view: List with its   *)
(* sweep, Open, Close, Create and Kill as the sequences of tmux commands   *)
(* that they are (session/tmux.go, attach.go), run side by side by the     *)
(* requests of the daemon while the desktop does as it likes.              *)
(*                                                                         *)
(* A tmux session is a name for a set of windows.  Grouped sessions, which *)
(* is what a session and its view are, share one set, and windows live as  *)
(* long as a session shows them.  All attaches to a session use the one    *)
(* view name, and that is what this module is about.                       *)
(***************************************************************************)
CONSTANTS Request,  \* requests, each with at most one operation at a time
          Windows,  \* bound: sets of windows there may be, one after the other
          None

ASSUME WindowsAssumption == None \notin Windows

VARIABLES
    session,  \* the windows of the tmux session, or None
    view,     \* the windows of the session named ViewName(session), or None
    used,     \* the windows there have been
    pc,       \* of each request: the tmux command that is next
    op,       \* of each request: what it is for
    listed,   \* of each request: the session, as its last list-sessions had it
    stray,    \* of each request: whether that list had a view with no client
    owns,     \* of each request: Attach.view is not empty
    client,   \* of each request: what its tmux client is attached to
    \* History, for the properties:
    outlived, \* the view is one whose daemon died
    faulted   \* a daemon died, or a tmux client could not be started

tmux == <<session, view, used>>
history == <<outlived, faulted>>
vars == <<tmux, pc, op, listed, stray, owns, client, history>>

Init ==
    /\ session = None /\ view = None /\ used = {}
    /\ pc = [r \in Request |-> "idle"]
    /\ op = [r \in Request |-> "none"]
    /\ listed = [r \in Request |-> None]
    /\ stray = [r \in Request |-> FALSE]
    /\ owns = [r \in Request |-> FALSE]
    /\ client = [r \in Request |-> "none"]
    /\ outlived = FALSE /\ faulted = FALSE

---------------------------------------------------------------------------
(* tmux, as far as package session relies on it.                           *)

Attached(target) == \E r \in Request : client[r] = target

\* The clients of a session that ends exit.
Exit(targets) ==
    client' = [r \in Request |-> IF client[r] \in targets THEN "none" ELSE client[r]]

\* kill-session -t view, which fails where there is none.
EndView == view' = None /\ outlived' = FALSE /\ Exit({"view"})

\* Windows nobody has seen.
Opened(w) == w \in Windows \ used /\ used' = used \cup {w}

---------------------------------------------------------------------------
(* The requests.                                                           *)

Goto(r, l) == pc' = [pc EXCEPT ![r] = l]

Finish(r) ==
    /\ Goto(r, "idle")
    /\ op' = [op EXCEPT ![r] = "none"]
    /\ listed' = [listed EXCEPT ![r] = None]
    /\ stray' = [stray EXCEPT ![r] = FALSE]

\* List, Open, Create and Kill; all of them list first.
Begin(r, o) ==
    /\ pc[r] = "idle"
    /\ Goto(r, "list")
    /\ op' = [op EXCEPT ![r] = o]
    /\ UNCHANGED <<tmux, listed, stray, owns, client, history>>

\* list-sessions.
ListSessions(r) ==
    /\ pc[r] = "list"
    /\ listed' = [listed EXCEPT ![r] = session]
    /\ stray' = [stray EXCEPT ![r] = view # None /\ ~Attached("view")]
    /\ Goto(r, "sweep")
    /\ UNCHANGED <<tmux, op, owns, client, history>>

\* What an operation does once it knows whether the session exists.
AfterList(o, exists) ==
    IF o = "open" /\ exists THEN "killStale"
    ELSE IF o = "create" /\ ~exists THEN "newSession"
    ELSE IF o = "kill" /\ exists THEN "killView"
    ELSE "idle"

\* The rest of List: a view that had no client is collected, if the request is
\* not cancelled by then.
Sweep(r) ==
    /\ pc[r] = "sweep"
    /\ (stray[r] /\ EndView) \/ UNCHANGED <<view, outlived, client>>
    /\ IF AfterList(op[r], listed[r] # None) = "idle"
       THEN Finish(r)
       ELSE Goto(r, AfterList(op[r], listed[r] # None)) /\ UNCHANGED <<op, listed, stray>>
    /\ UNCHANGED <<session, used, owns, faulted>>

\* createView begins by killing the view there is.  The error is ignored.
KillStale(r) ==
    /\ pc[r] = "killStale"
    /\ EndView \/ UNCHANGED <<view, outlived, client>>
    /\ Goto(r, "group")
    /\ UNCHANGED <<session, used, op, listed, stray, owns, faulted>>

\* Faulty variant, for ShowsSession: a new session, but not one of the group.
GroupAnew(r) ==
    /\ pc[r] = "group"
    /\ \/ /\ view = None
          /\ \E w \in Windows : Opened(w) /\ view' = w
          /\ owns' = [owns EXCEPT ![r] = TRUE]
       \/ UNCHANGED <<view, used, owns>>
    /\ Goto(r, "attach")
    /\ UNCHANGED <<session, op, listed, stray, client, history>>

\* Faulty variant, for StaleNeverShown: a view that is there will do.
GroupReuses(r) ==
    /\ pc[r] = "group"
    /\ \/ /\ view' = IF view = None THEN session ELSE view
          /\ owns' = [owns EXCEPT ![r] = view' # None]
          /\ UNCHANGED used
       \/ UNCHANGED <<view, used, owns>>
    /\ Goto(r, "attach")
    /\ UNCHANGED <<session, op, listed, stray, client, history>>

\* new-session -t session -s view: a view of what the session shows by now, or,
\* where it has gone meanwhile, of a group of its own.  Where it fails, Open goes
\* for the session itself.
Group(r) ==
    /\ pc[r] = "group"
    /\ \/ /\ view = None
          /\ IF session # None THEN view' = session /\ UNCHANGED used
             ELSE \E w \in Windows : Opened(w) /\ view' = w
          /\ owns' = [owns EXCEPT ![r] = TRUE]
       \/ UNCHANGED <<view, used, owns>>
    /\ Goto(r, "attach")
    /\ UNCHANGED <<session, op, listed, stray, client, history>>

Target(r) == IF owns[r] THEN "view" ELSE "session"

\* attach-session.  A client whose target is not there exits at once, which the
\* daemon sees as the end of the PTY.
AttachSession(r) ==
    /\ pc[r] = "attach"
    /\ IF (IF owns[r] THEN view ELSE session) # None
       THEN client' = [client EXCEPT ![r] = Target(r)]
       ELSE UNCHANGED client
    /\ Goto(r, "live")
    /\ UNCHANGED <<tmux, op, listed, stray, owns, history>>

\* The client cannot be started: Open returns without its Attach, and the view
\* stays behind.
StartFails(r) ==
    /\ pc[r] = "attach"
    /\ Finish(r)
    /\ owns' = [owns EXCEPT ![r] = FALSE]
    /\ faulted' = TRUE
    /\ UNCHANGED <<tmux, client, outlived>>

\* Faulty variant, for TypeOK: the PTY is closed and its process is not killed.
DetachUnkilled(r) ==
    /\ pc[r] = "live"
    /\ IF owns[r] THEN Goto(r, "endView") /\ UNCHANGED <<op, listed, stray>> ELSE Finish(r)
    /\ UNCHANGED <<tmux, owns, client, history>>

\* Close, for whichever reason: the PTY and the tmux client go first, ...
Detach(r) ==
    /\ pc[r] = "live"
    /\ client' = [client EXCEPT ![r] = "none"]
    /\ IF owns[r] THEN Goto(r, "endView") /\ UNCHANGED <<op, listed, stray>> ELSE Finish(r)
    /\ UNCHANGED <<tmux, owns, history>>

\* Faulty variant, for NoViewLeft: only a view that is in nobody's use is killed.
CloseViewUnused(r) ==
    /\ pc[r] = "endView"
    /\ IF pc = [q \in Request |-> IF q = r THEN "endView" ELSE "idle"]
       THEN EndView ELSE UNCHANGED <<view, outlived, client>>
    /\ owns' = [owns EXCEPT ![r] = FALSE]
    /\ Finish(r)
    /\ UNCHANGED <<session, used, faulted>>

\* ... and then the view, whoever is on it by now.
CloseView(r) ==
    /\ pc[r] = "endView"
    /\ EndView
    /\ owns' = [owns EXCEPT ![r] = FALSE]
    /\ Finish(r)
    /\ UNCHANGED <<session, used, faulted>>

\* Create: new-session, which may also exit with 0 and no session; List once more.
NewSession(r) ==
    /\ pc[r] = "newSession"
    /\ \/ /\ session = None
          /\ \E w \in Windows : Opened(w) /\ session' = w
       \/ UNCHANGED <<session, used>>
    /\ \/ Goto(r, "list") /\ op' = [op EXCEPT ![r] = "verify"] /\ UNCHANGED <<listed, stray>>
       \/ Finish(r)
    /\ UNCHANGED <<view, owns, client, history>>

\* Kill takes the view first ...
KillView(r) ==
    /\ pc[r] = "killView"
    /\ EndView
    /\ Goto(r, "killSession")
    /\ UNCHANGED <<session, used, op, listed, stray, owns, faulted>>

\* ... and the session then.
KillSession(r) ==
    /\ pc[r] = "killSession"
    /\ session' = None
    /\ Exit({"session"})
    /\ Finish(r)
    /\ UNCHANGED <<view, used, owns, history>>

\* The request's context is cancelled, or tmux fails, where an error is returned.
GiveUp(r) ==
    /\ pc[r] \in {"list", "killView", "killSession"}
    /\ Finish(r)
    /\ UNCHANGED <<tmux, owns, client, history>>

---------------------------------------------------------------------------
(* The surroundings.                                                       *)

DesktopOpens ==
    /\ session = None
    /\ \E w \in Windows : Opened(w) /\ session' = w
    /\ UNCHANGED <<view, pc, op, listed, stray, owns, client, history>>

\* kill-session: the view, if there is one, keeps the windows.
DesktopKills ==
    /\ session # None
    /\ session' = None
    /\ Exit({"session"})
    /\ UNCHANGED <<view, used, pc, op, listed, stray, owns, history>>

\* The last window of a group is closed, by whoever types in it.
WindowsClose(w) ==
    /\ w \in {session, view} \ {None}
    /\ session' = IF session = w THEN None ELSE session
    /\ view' = IF view = w THEN None ELSE view
    /\ outlived' = (outlived /\ view # w)
    /\ Exit((IF session = w THEN {"session"} ELSE {}) \cup (IF view = w THEN {"view"} ELSE {}))
    /\ UNCHANGED <<used, pc, op, listed, stray, owns, faulted>>

\* Its requests go, and so do its tmux clients, whose terminals it held.
DaemonDies ==
    /\ pc' = [r \in Request |-> "idle"]
    /\ op' = [r \in Request |-> "none"]
    /\ listed' = [r \in Request |-> None]
    /\ stray' = [r \in Request |-> FALSE]
    /\ owns' = [r \in Request |-> FALSE]
    /\ client' = [r \in Request |-> "none"]
    /\ outlived' = (view # None)
    /\ faulted' = TRUE
    /\ UNCHANGED tmux

Step(r) ==
    \/ ListSessions(r) \/ Sweep(r) \/ GiveUp(r)
    \/ KillStale(r) \/ Group(r) \/ AttachSession(r) \/ StartFails(r)
    \/ Detach(r) \/ CloseView(r)
    \/ NewSession(r) \/ KillView(r) \/ KillSession(r)

Next ==
    \/ \E r \in Request :
        \/ \E o \in {"list", "open", "create", "kill"} : Begin(r, o)
        \/ Step(r)
    \/ DesktopOpens \/ DesktopKills
    \/ \E w \in Windows : WindowsClose(w)
    \/ DaemonDies

Spec == Init /\ [][Next]_vars

---------------------------------------------------------------------------
Label == {"idle", "list", "sweep", "killStale", "group", "attach", "live",
          "endView", "newSession", "killView", "killSession"}

\* Types, and that every tmux client has an attach that will end it.
TypeOK ==
    /\ session \in Windows \cup {None}
    /\ view \in Windows \cup {None}
    /\ used \in SUBSET Windows
    /\ pc \in [Request -> Label]
    /\ op \in [Request -> {"none", "list", "open", "create", "verify", "kill"}]
    /\ listed \in [Request -> Windows \cup {None}]
    /\ stray \in [Request -> BOOLEAN]
    /\ owns \in [Request -> BOOLEAN]
    /\ client \in [Request -> {"none", "session", "view"}]
    /\ \A r \in Request : client[r] # "none" => pc[r] = "live"
    /\ outlived \in BOOLEAN
    /\ faulted \in BOOLEAN

\* "Created on attach and destroyed on detach" (README): when nothing is under
\* way no view is left behind, however the attaches that shared its name and the
\* sweeps came in between, unless the daemon or the start of a client failed.
NoViewLeft ==
    (\A r \in Request : pc[r] = "idle") /\ ~faulted => view = None

\* A phone is never shown the view of a daemon that is gone, with "whatever
\* window that dead session was last looking at" (createView).
StaleNeverShown == outlived => ~Attached("view")

\* The phone gets "exactly what the desktop is showing" (viewSuffix): if the
\* session is the one its Open listed, its view shows the same windows, although
\* other attaches may have made the view anew and old ones may lie about.
ShowsSession ==
    [][\A r \in Request :
         client[r] = "none" /\ client'[r] = "view" /\ listed[r] = session
            => view = session]_vars
==============================================================================
