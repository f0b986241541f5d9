------------------------------ MODULE Daemon ------------------------------
(***************************************************************************)
(* The life of the daemon: serve of main.go, Run and shutdown of server.go *)
(* with a goroutine for every listener, the systemd unit that starts it    *)
(* and starts it again, and `lan on` and `lan off`, which change the       *)
(* configuration and restart it.                                           *)
(*                                                                         *)
(* Of the configuration only lan.enabled is kept.  A file is replaced by a *)
(* rename and read whole, so loading and saving are one step each.  The    *)
(* connections of a server are left out: Shutdown waits 5 s for them at    *)
(* most and leaves the attaches alone.                                     *)
(*                                                                         *)
(* A name that Access has too begins with Daemon.                          *)
(***************************************************************************)
EXTENDS Naturals, FiniteSets

CONSTANTS Tail,  \* the addresses of the tailnet, a listener for each
          Cli,   \* lan commands that may run at once
          Lan,   \* the LAN listener
          Unset  \* nothing, where a configuration or a cause will be

ASSUME ListenerAssumption ==
    IsFiniteSet(Tail) /\ Tail # {} /\ Lan \notin Tail /\ Unset \notin BOOLEAN

Listener == Tail \cup {Lan}

VARIABLES
    file,    \* lan.enabled in config.json
    wanted,  \* history: the unit was started and neither stopped nor terminated since
    unit,    \* "inactive", "active", "stopping", "restarting" or "backoff"
    pc,      \* where serve and Run are
    cfg,     \* the configuration that serve loaded
    told,    \* ctx is done: SIGTERM came
    ln,      \* the goroutine of each listener
    errs,    \* errors in the channel errs
    cause,   \* what the select took: "told" or "error"
    shut,    \* servers whose Shutdown was called: Tail's one, and Lan
    cli,     \* where each lan command is
    orphan   \* history: a lan command saved and did not live to restart

daemonVars == <<file, wanted, unit, pc, cfg, told, ln, errs, cause, shut, cli, orphan>>

process == <<pc, cfg, told, ln, errs, cause, shut>>

NoListener == [l \in Listener |-> "none"]

DaemonInit ==
    /\ file = FALSE
    /\ wanted = FALSE /\ unit = "inactive"
    /\ pc = "down" /\ cfg = Unset /\ told = FALSE
    /\ ln = NoListener /\ errs = 0 /\ cause = Unset /\ shut = {}
    /\ cli = [x \in Cli |-> "idle"] /\ orphan = FALSE

---------------------------------------------------------------------------
(* systemd *)

\* The process is gone.  Restart=on-failure.
Exits(failed) ==
    /\ unit' = IF unit = "active" /\ failed THEN "backoff"
               ELSE IF unit \in {"active", "stopping"} THEN "inactive" ELSE unit
    /\ pc' = "down" /\ cfg' = Unset /\ told' = FALSE
    /\ ln' = NoListener /\ errs' = 0 /\ cause' = Unset /\ shut' = {}

\* ExecStart, at once or RestartSec after a failure.
Start ==
    /\ pc = "down" /\ unit \in {"restarting", "backoff"}
    /\ unit' = "active"
    /\ pc' = "starting"
    /\ UNCHANGED <<file, wanted, cfg, told, ln, errs, cause, shut, cli, orphan>>

\* systemctl start, stop and restart.  A running process is sent SIGTERM.
\* Starting an active unit does nothing, even if its process is about to exit.
SystemctlStart ==
    /\ wanted' = (wanted \/ unit # "active" \/ ~told)
    /\ unit' = (IF unit \in {"inactive", "stopping"} THEN "restarting" ELSE unit)
    /\ UNCHANGED <<file, process, cli, orphan>>

SystemctlStop ==
    /\ wanted' = FALSE
    /\ unit' = (IF pc = "down" THEN "inactive" ELSE "stopping")
    /\ told' = (pc # "down")
    /\ UNCHANGED <<file, pc, cfg, ln, errs, cause, shut, cli, orphan>>

SystemctlRestart ==
    /\ wanted' = TRUE
    /\ unit' = "restarting"
    /\ told' = (pc # "down")
    /\ UNCHANGED <<file, pc, cfg, ln, errs, cause, shut>>

\* SIGTERM from elsewhere: the unit is told nothing.
Terminated ==
    /\ pc # "down" /\ ~told
    /\ told' = TRUE
    /\ wanted' = FALSE
    /\ UNCHANGED <<file, unit, pc, cfg, ln, errs, cause, shut, cli, orphan>>

\* The process dies: a panic, the OOM killer.
Dies ==
    /\ pc # "down"
    /\ Exits(TRUE)
    /\ UNCHANGED <<file, wanted, cli, orphan>>

---------------------------------------------------------------------------
(* serve, Run *)

\* A SIGTERM that serve has not hooked yet ends the process, which is no failure.
Unhooked ==
    /\ pc = "starting" /\ told
    /\ Exits(FALSE)
    /\ UNCHANGED <<file, wanted, cli, orphan>>

\* The configuration, and the signals.
Load ==
    /\ pc = "starting" /\ ~told
    /\ pc' = "probing"
    /\ cfg' = file
    /\ orphan' = FALSE
    /\ UNCHANGED <<file, wanted, unit, told, ln, errs, cause, shut, cli>>

\* The configuration, the tailnet, the stores or a tailnet address fails.  The
\* listeners that were bound are closed.
StartFails ==
    /\ pc \in {"starting", "probing"}
    /\ Exits(TRUE)
    /\ UNCHANGED <<file, wanted, cli, orphan>>

Bind ==
    /\ pc = "probing"
    /\ pc' = "bound"
    /\ ln' = [l \in Listener |-> IF l = Lan THEN "none" ELSE "serving"]
    /\ UNCHANGED <<file, wanted, unit, cfg, told, errs, cause, shut, cli, orphan>>

\* The LAN listener, if it is enabled; without an address or a free port the
\* daemon goes on without it.
BindLan ==
    /\ pc = "bound"
    /\ pc' = "serving"
    /\ \/ cfg /\ ln' = [ln EXCEPT ![Lan] = "serving"]
       \/ UNCHANGED ln
    /\ UNCHANGED <<file, wanted, unit, cfg, told, errs, cause, shut, cli, orphan>>

\* The server of a listener: one serves all tailnet addresses.
ServerOf(l) == IF l = Lan THEN {Lan} ELSE Tail

\* Faulty variant, for Steady: the LAN's goroutine reports like the others.
ListenerFailsAll(l) ==
    /\ ln[l] = "serving" /\ ~(ServerOf(l) \subseteq shut)
    /\ ln' = [ln EXCEPT ![l] = "failed"]
    /\ UNCHANGED <<file, wanted, unit, pc, cfg, told, errs, cause, shut, cli, orphan>>

\* Serve returns an error.  That of the LAN is only logged.
ListenerFails(l) ==
    /\ ln[l] = "serving" /\ ~(ServerOf(l) \subseteq shut)
    /\ ln' = [ln EXCEPT ![l] = IF l = Lan THEN "done" ELSE "failed"]
    /\ UNCHANGED <<file, wanted, unit, pc, cfg, told, errs, cause, shut, cli, orphan>>

\* Faulty variant, for ExitsWhenTold: a channel without a buffer.
NoRoom == pc = "serving" /\ errs = 0

\* errs is made with room for an error of every tailnet listener.
Room == errs < Cardinality(Tail)

\* The goroutine reports it and returns.
Report(l) ==
    /\ ln[l] = "failed"
    /\ Room
    /\ errs' = errs + 1
    /\ ln' = [ln EXCEPT ![l] = "reported"]
    /\ UNCHANGED <<file, wanted, unit, pc, cfg, told, cause, shut, cli, orphan>>

\* Run's select.
Select ==
    /\ pc = "serving"
    /\ pc' = "closing"
    /\ \/ told /\ cause' = "told" /\ UNCHANGED errs
       \/ errs > 0 /\ cause' = "error" /\ errs' = errs - 1
    /\ UNCHANGED <<file, wanted, unit, cfg, told, ln, shut, cli, orphan>>

\* Faulty variant, for ExitsWhenTold: the LAN's shutdown is deferred to the end
\* of Run, after wg.Wait.
ShutdownDeferred ==
    /\ pc = "closing"
    /\ shut' = Tail /\ pc' = "waiting"
    /\ UNCHANGED <<file, wanted, unit, cfg, told, ln, errs, cause, cli, orphan>>

\* shutdownAll: the tailnet's server, then that of the LAN if it was bound.
Shutdown ==
    /\ pc = "closing"
    /\ \/ shut = {} /\ shut' = Tail /\ pc' = (IF ln[Lan] = "none" THEN "waiting" ELSE pc)
       \/ shut # {} /\ shut' = Listener /\ pc' = "waiting"
    /\ UNCHANGED <<file, wanted, unit, cfg, told, ln, errs, cause, cli, orphan>>

\* Serve returns ErrServerClosed.
ServeReturns(l) ==
    /\ ln[l] = "serving" /\ ServerOf(l) \subseteq shut
    /\ ln' = [ln EXCEPT ![l] = "done"]
    /\ UNCHANGED <<file, wanted, unit, pc, cfg, told, errs, cause, shut, cli, orphan>>

\* Faulty variant, for ComesBack: Run returns nil after a listener failed too.
WaitNil ==
    /\ pc = "waiting"
    /\ \A l \in Listener : ln[l] \in {"none", "done", "reported"}
    /\ Exits(FALSE)
    /\ UNCHANGED <<file, wanted, cli, orphan>>

\* wg.Wait, and main exits with 1 if Run returned an error.
Wait ==
    /\ pc = "waiting"
    /\ \A l \in Listener : ln[l] \in {"none", "done", "reported"}
    /\ Exits(cause = "error")
    /\ UNCHANGED <<file, wanted, cli, orphan>>

---------------------------------------------------------------------------
(* lanCmd and restartDaemon.  What it loads is not read again but for the  *)
(* fields left out.                                                        *)

At(x, from, to) == cli[x] = from /\ cli' = [cli EXCEPT ![x] = to]

Save(x) ==
    /\ At(x, "idle", "saved")
    /\ file' \in BOOLEAN
    /\ UNCHANGED <<wanted, unit, process, orphan>>

\* is-active answers yes for "active" alone.
IsActive(x) ==
    /\ At(x, "saved", IF unit = "active" THEN "restart" ELSE "idle")
    /\ UNCHANGED <<file, wanted, unit, process, orphan>>

Restart(x) ==
    /\ At(x, "restart", "idle")
    /\ SystemctlRestart
    /\ UNCHANGED orphan

\* It is interrupted, or systemctl fails.
CliDies(x) ==
    /\ cli[x] \in {"saved", "restart"}
    /\ cli' = [cli EXCEPT ![x] = "idle"]
    /\ orphan' = TRUE
    /\ UNCHANGED <<file, wanted, unit, process>>

User == \/ SystemctlStart
        \/ SystemctlStop
        \/ SystemctlRestart /\ UNCHANGED <<cli, orphan>>

Serving == Unhooked \/ Load \/ Bind \/ BindLan \/ Select \/ Shutdown \/ Wait

DaemonNext ==
    \/ Start \/ User \/ Terminated \/ Dies \/ StartFails \/ Serving
    \/ \E l \in Listener : ListenerFails(l) \/ Report(l) \/ ServeReturns(l)
    \/ \E x \in Cli : Save(x) \/ IsActive(x) \/ Restart(x) \/ CliDies(x)

AllServing == \A l \in Tail : ln[l] = "serving"

\* systemd starts what it is to start, and the process and its goroutines run.
\* A start that is tried again and again succeeds in the end, with the tailnet's
\* listeners up when it gets to its select.
Fairness ==
    /\ WF_daemonVars(Start) /\ WF_daemonVars(Unhooked)
    /\ SF_daemonVars(Load) /\ SF_daemonVars(Bind) /\ SF_daemonVars(BindLan /\ AllServing)
    /\ WF_daemonVars(BindLan) /\ WF_daemonVars(Select) /\ WF_daemonVars(Shutdown) /\ WF_daemonVars(Wait)
    /\ \A l \in Listener : WF_daemonVars(Report(l)) /\ WF_daemonVars(ServeReturns(l))

DaemonSpec == DaemonInit /\ [][DaemonNext]_daemonVars /\ Fairness

---------------------------------------------------------------------------
DaemonTypeOK ==
    /\ file \in BOOLEAN /\ wanted \in BOOLEAN
    /\ unit \in {"inactive", "active", "stopping", "restarting", "backoff"}
    /\ pc \in {"down", "starting", "probing", "bound", "serving", "closing", "waiting"}
    /\ unit \in {"active", "stopping"} => pc # "down"
    /\ unit \in {"inactive", "backoff"} => pc = "down"
    /\ cfg \in BOOLEAN \cup {Unset} /\ (cfg = Unset <=> pc \in {"down", "starting"})
    /\ told \in BOOLEAN
    /\ ln \in [Listener -> {"none", "serving", "failed", "reported", "done"}]
    /\ errs \in 0 .. Cardinality(Tail)
    /\ cause \in {Unset, "told", "error"}
    /\ shut \in {{}, Tail, Listener}
    /\ cli \in [Cli -> {"idle", "saved", "restart"}]
    /\ orphan \in BOOLEAN

\* A running daemon serves the configuration that is in the file, but for one
\* that is being told so: lan on and lan off change the file first and restart
\* after that, whatever the other one and systemd do meanwhile.
ConfigInForce ==
    unit = "active" /\ cfg # Unset /\ ~orphan /\ (\A x \in Cli : cli[x] = "idle")
        => cfg = file

\* The daemon stops serving only because it was told to or because a listener
\* of the tailnet failed, never for the LAN's.
StopsForCause ==
    pc \in {"closing", "waiting"} =>
        told \/ (cause = "error" /\ \E l \in Tail : ln[l] = "reported")

\* A goroutine whose Serve has failed never waits to report it: errs has room for
\* an error of every tailnet listener (Run), each reports once, and the LAN's not at all.
NobodyBlocks == \A l \in Listener : ln[l] = "failed" => Room

\* "Every server that must be shut down before wg.Wait() returns" (Run) is: wg.Wait
\* waits for no goroutine whose Serve goes on.
NobodyServesOn ==
    pc = "waiting" => \A l \in Listener : ln[l] = "serving" => ServerOf(l) \subseteq shut

Steady == DaemonTypeOK /\ ConfigInForce /\ StopsForCause /\ NobodyBlocks /\ NobodyServesOn

\* A daemon that is told to exit does, whichever listeners fail before, during
\* and after its select: nobody waits for a goroutine that cannot report or for
\* a server that was not shut down.
ExitsWhenTold == told ~> pc = "down"

\* As long as it is to run, the daemon comes to serve on every address of the
\* tailnet, again and again: a listener that fails takes the whole process
\* down, with an exit code on which systemd starts it anew.
ComesBack == []<>(~wanted \/ (pc = "serving" /\ AllServing))
=============================================================================
