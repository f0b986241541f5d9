------------------------------- MODULE Attach -------------------------------
(***************************************************************************)
(* One attach from the moment it is open: the handler and the four         *)
(* goroutines of server/sessions.go, the context they share, the           *)
(* websocket, the PTY and the tmux client behind it, and Attach.Close.     *)
(* They must all end once any one of them does, the client may vanish      *)
(* without a word, and a read of the PTY does not notice that the context  *)
(* is cancelled.                                                           *)
(*                                                                         *)
(* Time passes in ticks, and not while a goroutine has something to do.    *)
(***************************************************************************)
EXTENDS Naturals

CONSTANTS CheckInterval,      \* capabilityCheckInterval, in ticks
          KeepaliveInterval,  \* keepaliveInterval
          PongTimeout,        \* pongTimeout
          WriteTimeout,       \* attachWriteTimeout
          CloseGrace          \* the longest a closing handshake takes

ASSUME TimeAssumption ==
    /\ {CheckInterval, KeepaliveInterval, PongTimeout, WriteTimeout} \subseteq Nat \ {0}
    /\ CloseGrace \in Nat
    /\ PongTimeout < KeepaliveInterval

VARIABLES
    pc,         \* of the handler and of each goroutine: what it is doing
    cancelled,  \* the context they share is
    wire,       \* the websocket, as the server has it
    told,       \* the close code the client was sent, or 0
    pty,        \* the PTY: open or closed
    child,      \* the tmux client: running, exited or reaped
    peer,       \* the client: here, silent (out of range) or closed
    right,      \* what watchCapability would find in the device store
    clock,      \* ticks of each timer, for how many the client was lost, and for
                \*   how many it has held a terminal without the right to
    \* History, for the properties:
    causes,     \* what else may end an attach: the session or the right was lost; and
                \*   "away": the client has not been there, if only for a moment
    quiet       \* for how many ticks on end the client has not been there; Patience from
                \*   when it has not for so long, or has hung up

vars == <<pc, cancelled, wire, told, pty, child, peer, right, clock, causes, quiet>>
history == <<causes, quiet>>
outside == <<peer, right, history>>
tmuxSide == <<pty, child>>

\* The shorter of the times that keepalive and pumpOutput wait for a client.
Patience == IF PongTimeout < WriteTimeout THEN PongTimeout ELSE WriteTimeout

Init ==
    /\ pc = [handler |-> "wait", input |-> "read", watch |-> "wait",
             keep |-> "wait", output |-> "read"]
    /\ cancelled = FALSE
    /\ wire = "open" /\ told = 0
    /\ pty = "open" /\ child = "running"
    /\ peer = "here" /\ right = TRUE
    /\ clock = [watch |-> 0, keep |-> 0, ping |-> 0, write |-> 0, close |-> 0, lost |-> 0,
               exposed |-> 0]
    /\ causes = {} /\ quiet = 0

Goto(g, l) == pc' = [pc EXCEPT ![g] = l]

\* A goroutine returns; all of them defer cancel().
Ends(g) == Goto(g, "done") /\ cancelled' = TRUE

---------------------------------------------------------------------------
(* The websocket library, as the handlers rely on it.                      *)

\* conn.Close sends its code, unless a close is under way, and then waits for
\* the client to answer.
BeginClose(g, code) ==
    /\ Goto(g, "close")
    /\ wire' = IF wire = "open" THEN "closing" ELSE wire
    /\ told' = IF wire = "open" /\ peer = "here" THEN code ELSE told

\* conn.Close returns, at the latest when its own deadline has passed.
EndClose(g) ==
    /\ pc[g] = "close"
    /\ Ends(g)
    /\ wire' = "closed"
    /\ UNCHANGED <<told, tmuxSide, clock, outside>>

\* A Read, Write or Ping that will not succeed.
Broken == cancelled \/ wire = "closed" \/ peer = "closed"

---------------------------------------------------------------------------
(* pumpInput.                                                              *)

\* A resize that fails and a control frame that does not parse change nothing.
Receive(frame) ==
    /\ pc.input = "read" /\ peer = "here" /\ wire # "closed" /\ ~cancelled
    /\ Goto("input", IF frame = "binary" THEN "write" ELSE "read")
    /\ UNCHANGED <<cancelled, wire, told, tmuxSide, clock, outside>>

\* Faulty variant, for TypeOK: the deferred cancel is missing.
ReadFailsAlone ==
    /\ pc.input = "read"
    /\ Broken \/ (wire = "closing" /\ peer = "here")
    /\ Goto("input", "done")
    /\ wire' = "closed"
    /\ UNCHANGED <<cancelled, told, tmuxSide, clock, outside>>

\* A Read fails when the client has gone or answers a Close, or when the context
\* is cancelled; in each case the library closes the connection.
ReadFails ==
    /\ pc.input = "read"
    /\ Broken \/ (wire = "closing" /\ peer = "here")
    /\ Ends("input")
    /\ wire' = "closed"
    /\ UNCHANGED <<told, tmuxSide, clock, outside>>

WriteInput ==
    /\ pc.input = "write"
    /\ \/ pty = "open" /\ Goto("input", "read") /\ UNCHANGED cancelled
       \/ ~(pty = "open" /\ child = "running") /\ Ends("input")
    /\ UNCHANGED <<wire, told, tmuxSide, clock, outside>>

---------------------------------------------------------------------------
(* watchCapability and keepalive.                                          *)

\* Both select on the context and a ticker.
Stops(g) ==
    /\ pc[g] = "wait"
    /\ cancelled
    /\ Ends(g)
    /\ UNCHANGED <<wire, told, tmuxSide, clock, outside>>

\* Faulty variant, for KeepsLease: a watcher that is told no asks once more.
CheckTwice ==
    /\ pc.watch = "wait"
    /\ clock.watch = CheckInterval
    /\ clock' = [clock EXCEPT !.watch = 0]
    /\ \/ UNCHANGED <<pc, wire, told>>
       \/ ~right /\ BeginClose("watch", 1008)
    /\ UNCHANGED <<cancelled, tmuxSide, outside>>

\* Faulty variant, for CutOffIsTold: it only returns, and the rest follows.
CheckUntold ==
    /\ pc.watch = "wait"
    /\ clock.watch = CheckInterval
    /\ clock' = [clock EXCEPT !.watch = 0]
    /\ IF right THEN UNCHANGED <<pc, cancelled>> ELSE Ends("watch")
    /\ UNCHANGED <<wire, told, tmuxSide, outside>>

Check ==
    /\ pc.watch = "wait"
    /\ clock.watch = CheckInterval
    /\ clock' = [clock EXCEPT !.watch = 0]
    /\ IF right THEN UNCHANGED <<pc, wire, told>> ELSE BeginClose("watch", 1008)
    /\ UNCHANGED <<cancelled, tmuxSide, outside>>

Ping ==
    /\ pc.keep = "wait"
    /\ clock.keep = KeepaliveInterval
    /\ Goto("keep", "ping")
    /\ clock' = [clock EXCEPT !.keep = 0]
    /\ UNCHANGED <<cancelled, wire, told, tmuxSide, outside>>

\* Faulty variant, for DetachPrompt: a ping that was sent counts as answered.
PongOnceSent ==
    /\ pc.keep = "ping"
    /\ wire = "open"
    /\ Goto("keep", "wait")
    /\ clock' = [clock EXCEPT !.ping = 0]
    /\ UNCHANGED <<cancelled, wire, told, tmuxSide, outside>>

\* Faulty variant, for NoDropWithoutCause: all pings have one deadline.
PongKeepsDeadline ==
    /\ pc.keep = "ping"
    /\ peer = "here" /\ wire = "open" /\ pc.input = "read"
    /\ Goto("keep", "wait")
    /\ UNCHANGED <<cancelled, wire, told, tmuxSide, clock, outside>>

\* It takes a Read under way for the answer to be seen.
Pong ==
    /\ pc.keep = "ping"
    /\ peer = "here" /\ wire = "open" /\ pc.input = "read"
    /\ Goto("keep", "wait")
    /\ clock' = [clock EXCEPT !.ping = 0]
    /\ UNCHANGED <<cancelled, wire, told, tmuxSide, outside>>

PingFails ==
    /\ pc.keep = "ping"
    /\ Broken \/ clock.ping = PongTimeout
    /\ Ends("keep")
    /\ UNCHANGED <<wire, told, tmuxSide, clock, outside>>

---------------------------------------------------------------------------
(* pumpOutput.                                                             *)

\* What the terminal prints, whenever it likes; an idle one never does.
Output ==
    /\ pc.output = "read"
    /\ pty = "open" /\ child = "running"
    /\ Goto("output", "write")
    /\ UNCHANGED <<cancelled, wire, told, tmuxSide, clock, outside>>

\* The frames for a silent client fill the buffers at first.
Sent ==
    /\ pc.output = "write"
    /\ wire = "open" /\ peer # "closed"
    /\ Goto("output", "read")
    /\ clock' = [clock EXCEPT !.write = 0]
    /\ UNCHANGED <<cancelled, wire, told, tmuxSide, outside>>

SendFails ==
    /\ pc.output = "write"
    /\ Broken \/ clock.write = WriteTimeout
    /\ Ends("output")
    /\ wire' = IF wire = "closing" THEN wire ELSE "closed"
    /\ UNCHANGED <<told, tmuxSide, clock, outside>>

\* The PTY has been closed, or the tmux client behind it is gone.  Only io.EOF is
\* followed by a Close; the master side of a PTY has EIO for it on Linux.
PtyEnds ==
    /\ pc.output = "read"
    /\ ~(pty = "open" /\ child = "running")
    /\ \/ Ends("output") /\ UNCHANGED <<wire, told>>
       \/ pty = "open" /\ BeginClose("output", 1000) /\ UNCHANGED cancelled
    /\ UNCHANGED <<tmuxSide, clock, outside>>

---------------------------------------------------------------------------
(* The handler: it waits for the context and runs its deferred calls.      *)

\* Faulty variant, for Finishes: it waits for pumpOutput, as it once did.
WakeAfterOutput ==
    /\ pc.handler = "wait"
    /\ pc.output = "done"
    /\ Goto("handler", "closePty")
    /\ UNCHANGED <<cancelled, wire, told, tmuxSide, clock, outside>>

Wake ==
    /\ pc.handler = "wait"
    /\ cancelled
    /\ Goto("handler", "closePty")
    /\ UNCHANGED <<cancelled, wire, told, tmuxSide, clock, outside>>

ClosePty ==
    /\ pc.handler = "closePty"
    /\ pty' = "closed"
    /\ Goto("handler", "kill")
    /\ UNCHANGED <<cancelled, wire, told, child, clock, outside>>

\* Process.Kill, and the view with it (module Views has what that does to others).
Kill ==
    /\ pc.handler = "kill"
    /\ child' = "exited"
    /\ Goto("handler", "reap")
    /\ UNCHANGED <<cancelled, wire, told, pty, clock, outside>>

Reap ==
    /\ pc.handler = "reap"
    /\ child = "exited"
    /\ child' = "reaped"
    /\ Goto("handler", "closeNow")
    /\ UNCHANGED <<cancelled, wire, told, pty, clock, outside>>

\* CloseNow leaves a Close that is under way to its end, and waits for it.
CloseNow ==
    /\ pc.handler = "closeNow"
    /\ wire # "closing"
    /\ wire' = "closed"
    /\ Goto("handler", "done")
    /\ UNCHANGED <<cancelled, told, tmuxSide, clock, outside>>

---------------------------------------------------------------------------
(* The surroundings, as long as there is an attach.                        *)

Disappears ==
    /\ pc.handler # "done" /\ peer = "here"
    /\ peer' = "silent"
    /\ causes' = causes \cup {"away"}
    /\ UNCHANGED <<pc, cancelled, wire, told, tmuxSide, right, clock, quiet>>

Reappears ==
    /\ pc.handler # "done" /\ peer = "silent"
    /\ peer' = "here"
    /\ clock' = [clock EXCEPT !.lost = 0]
    /\ UNCHANGED <<pc, cancelled, wire, told, tmuxSide, right, history>>

HangsUp ==
    /\ pc.handler # "done" /\ peer # "closed"
    /\ peer' = "closed"
    /\ causes' = causes \cup {"away"} /\ quiet' = Patience
    /\ UNCHANGED <<pc, cancelled, wire, told, tmuxSide, right, clock>>

\* The session is killed, the view is (Views), or its last window closes.
SessionEnds ==
    /\ pc.handler # "done" /\ child = "running"
    /\ child' = "exited"
    /\ causes' = causes \cup {"session"}
    /\ UNCHANGED <<pc, cancelled, wire, told, pty, peer, right, clock, quiet>>

\* The CLI takes the right from the device or gives it back; a device store that
\* cannot be read takes it too.
RightChanges ==
    /\ pc.handler # "done"
    /\ right' = ~right
    /\ causes' = IF right THEN causes \cup {"right"} ELSE causes
    /\ clock' = [clock EXCEPT !.exposed = 0]
    /\ UNCHANGED <<pc, cancelled, wire, told, tmuxSide, peer, quiet>>

---------------------------------------------------------------------------
(* Time.                                                                   *)

\* What some goroutine does, or some timer sets off, before time goes on.
Due ==
    \/ cancelled /\ \/ pc.handler \in {"wait", "closePty", "kill", "reap"}
                    \/ pc.input = "read" \/ pc.watch = "wait"
                    \/ pc.keep # "done" \/ pc.output = "write"
    \/ pc.handler = "closeNow" /\ wire # "closing"
    \/ pc.input = "write" \/ (pc.input = "read" /\ Broken)
    \/ pc.watch = "wait" /\ clock.watch = CheckInterval
    \/ pc.keep = "wait" /\ clock.keep = KeepaliveInterval
    \/ pc.keep = "ping" /\ \/ Broken \/ clock.ping = PongTimeout
                           \/ peer = "here" /\ wire = "open" /\ pc.input = "read"
    \/ pc.output = "write" /\ \/ Broken \/ clock.write = WriteTimeout
                              \/ peer = "here" /\ wire = "open"
    \/ pc.output = "read" /\ ~(pty = "open" /\ child = "running")
    \/ "close" \in {pc.watch, pc.output} /\ (wire = "closed" \/ clock.close = CloseGrace)

\* The clocks that run.
Running ==
    {c \in DOMAIN clock :
        \/ c = "watch" /\ pc.watch = "wait"
        \/ c = "keep" /\ pc.keep # "done"
        \/ c = "ping" /\ pc.keep = "ping"
        \/ c = "write" /\ pc.output = "write"
        \/ c = "close" /\ wire = "closing"
        \/ c = "lost" /\ peer # "here" /\ child # "reaped"
        \/ c = "exposed" /\ ~right /\ child # "reaped"}

Tick ==
    /\ ~Due
    /\ clock' = [c \in DOMAIN clock |-> IF c \in Running THEN clock[c] + 1 ELSE clock[c]]
    /\ quiet' = IF quiet = Patience THEN quiet ELSE IF peer = "here" THEN 0 ELSE quiet + 1
    /\ UNCHANGED <<pc, cancelled, wire, told, tmuxSide, peer, right, causes>>

---------------------------------------------------------------------------
Frame == {"binary", "resize", "malformed"}

InputStep == ReadFails \/ WriteInput
WatchStep == Check \/ Stops("watch") \/ EndClose("watch")
KeepStep == Ping \/ Pong \/ PingFails \/ Stops("keep")
OutputStep == Sent \/ SendFails \/ PtyEnds \/ EndClose("output")
HandlerStep == Wake \/ ClosePty \/ Kill \/ Reap \/ CloseNow

Next ==
    \/ InputStep \/ WatchStep \/ KeepStep \/ OutputStep \/ HandlerStep
    \/ Output \/ \E frame \in Frame : Receive(frame)
    \/ Disappears \/ Reappears \/ HangsUp \/ SessionEnds \/ RightChanges
    \/ Tick

\* The goroutines are scheduled and time goes on; nothing is assumed of the
\* client, of the terminal, or of the desktop.
Spec ==
    /\ Init /\ [][Next]_vars
    /\ WF_vars(InputStep) /\ WF_vars(WatchStep) /\ WF_vars(KeepStep)
    /\ WF_vars(OutputStep) /\ WF_vars(HandlerStep) /\ WF_vars(Tick)

---------------------------------------------------------------------------
\* Types and timers, and that no goroutine returns without having cancelled the
\* others.
TypeOK ==
    /\ pc \in [handler : {"wait", "closePty", "kill", "reap", "closeNow", "done"},
               input : {"read", "write", "done"}, watch : {"wait", "close", "done"},
               keep : {"wait", "ping", "done"}, output : {"read", "write", "close", "done"}]
    /\ cancelled \in BOOLEAN
    /\ wire \in {"open", "closing", "closed"} /\ told \in {0, 1000, 1008}
    /\ pty \in {"open", "closed"} /\ child \in {"running", "exited", "reaped"}
    /\ peer \in {"here", "silent", "closed"} /\ right \in BOOLEAN
    /\ clock \in [watch : 0 .. CheckInterval, keep : 0 .. KeepaliveInterval,
                  ping : 0 .. PongTimeout, write : 0 .. WriteTimeout,
                  close : 0 .. CloseGrace, lost : Nat, exposed : Nat]
    /\ causes \subseteq {"away", "session", "right"} /\ quiet \in 0 .. Patience
    /\ "done" \in {pc.input, pc.watch, pc.keep, pc.output} => cancelled

\* A client that "stops reading without closing anything" (keepalive) does not
\* keep its tmux client for minutes: one interval and one timeout bound how long,
\* whatever the other goroutines are busy with.  Nor does one that has lost the
\* right to it (watchCapability): a check interval and a closing handshake do.
DetachPrompt ==
    child # "reaped" => /\ clock.lost <= KeepaliveInterval + PongTimeout
                        /\ clock.exposed <= CheckInterval + CloseGrace

\* "It must never be possible to drop someone's terminal by sending one bad
\* message" (pumpInput), nor is a client given up that is slow, or out of range for a
\* moment now and again: an attach ends only if the session or the right has been lost,
\* or the client has hung up or has not been there for a whole timeout on end.
NoDropWithoutCause == cancelled => causes \ {"away"} # {} \/ quiet = Patience

AllDone ==
    /\ pc = [g \in DOMAIN pc |-> "done"]
    /\ wire = "closed" /\ pty = "closed" /\ child = "reaped"

\* A client that was there all along and lost its right is told so, with the code
\* on which it does not dial again (watchCapability), however the goroutines that
\* end at once get in each other's way.
CutOffIsTold == AllDone /\ causes = {"right"} => told = 1008

\* The attach as its permission sees it.  It is given up when the context is
\* cancelled.
TheLease ==
    INSTANCE Lease WITH
        held <- IF cancelled THEN "free" ELSE IF pc.watch = "wait" THEN "open" ELSE "closing",
        clock <- IF cancelled THEN 0 ELSE IF pc.watch = "wait" THEN clock.watch ELSE clock.close,
        exposed <- IF cancelled THEN 0 ELSE clock.exposed

\* The goroutines, the socket and the timers together keep the lease that Access
\* takes an attach for: no write, ping, pong or close under way puts a check off,
\* or the end after one that failed.  And that the context is cancelled is as good
\* as the end: no time passes before the tmux client is gone.
KeepsLease ==
    /\ TheLease!Init
    /\ [][TheLease!Next]_TheLease!vars
    /\ [][cancelled /\ Tick => child = "reaped"]_vars

\* "Whichever stops first tears down the other" (handleAttach): once the context
\* is cancelled or the client has closed, every goroutine ends, and the socket,
\* the PTY and the tmux client are gone, be the terminal idle or not.
Finishes == (cancelled \/ peer = "closed") ~> AllDone
=============================================================================
