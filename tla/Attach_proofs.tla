---------------------------- MODULE Attach_proofs ----------------------------
(***************************************************************************)
(* Proofs about one attach, for timers of any lengths that the assumption  *)
(* of Attach allows.                                                       *)
(***************************************************************************)
EXTENDS Attach, TLAPS

---------------------------------------------------------------------------
(* The inductive invariant.                                                *)

\* Whose turn it is at the tmux client and at the socket.
OrderInv ==
    /\ pc.handler # "wait" => cancelled
    /\ pc.handler \in {"kill", "reap", "closeNow", "done"} => pty = "closed"
    /\ child = "reaped" <=> pc.handler \in {"closeNow", "done"}
    /\ pc.handler = "reap" => child = "exited"
    /\ wire = "closing" => "close" \in {pc.watch, pc.output}

\* How long the client can have been lost, by what keepalive is doing.
LostInv ==
    /\ peer = "here" => clock.lost = 0
    /\ pc.keep = "wait" => clock.ping = 0
    /\ pc.keep = "ping" => clock.keep = clock.ping
    /\ child # "reaped" =>
          /\ pc.keep = "wait" => clock.lost <= clock.keep
          /\ pc.keep = "ping" => clock.lost <= KeepaliveInterval + clock.ping
          /\ pc.keep = "done" => clock.lost <= KeepaliveInterval + PongTimeout

\* How long it can have been without the right, by what watchCapability is doing.
ExposedInv ==
    /\ right => clock.exposed = 0
    /\ pc.watch = "close" => wire # "open"
    /\ child # "reaped" =>
          /\ pc.watch = "wait" => clock.exposed <= clock.watch
          /\ pc.watch = "close" => clock.exposed <= CheckInterval + clock.close
          /\ pc.watch = "done" => clock.exposed <= CheckInterval + CloseGrace

\* The attach has begun to end.
Ending ==
    \/ cancelled \/ wire # "open" \/ pty # "open" \/ child # "running"
    \/ "close" \in {pc.watch, pc.output}

CauseInv ==
    /\ peer # "here" \/ quiet # 0 => "away" \in causes
    /\ peer = "closed" => quiet = Patience
    /\ ~right => "right" \in causes
    /\ pty = "open" /\ child # "running" => "session" \in causes
    /\ Ending => /\ causes \ {"away"} # {} \/ quiet = Patience
                 /\ causes = {"right"} => told = 1008

\* Until then a ping or a write waits for as long as the client has not been there.
WaitInv ==
    /\ pc.output = "read" => clock.write = 0
    /\ ~Ending =>
          /\ clock.ping <= quiet \/ quiet = Patience
          /\ clock.write <= quiet \/ quiet = Patience

Inv == TypeOK /\ OrderInv /\ LostInv /\ ExposedInv /\ CauseInv /\ WaitInv

LEMMA PatienceType ==
    Patience \in Nat \ {0} /\ Patience <= PongTimeout /\ Patience <= WriteTimeout
BY TimeAssumption DEF Patience

LEMMA InitInv == Init => Inv
<1> SUFFICES ASSUME Init PROVE Inv
  OBVIOUS
<1> USE TimeAssumption DEF Init
<1>1. pc \in [handler : {"wait", "closePty", "kill", "reap", "closeNow", "done"},
              input : {"read", "write", "done"}, watch : {"wait", "close", "done"},
              keep : {"wait", "ping", "done"}, output : {"read", "write", "close", "done"}]
  OBVIOUS
<1>2. clock \in [watch : 0 .. CheckInterval, keep : 0 .. KeepaliveInterval,
                 ping : 0 .. PongTimeout, write : 0 .. WriteTimeout,
                 close : 0 .. CloseGrace, lost : Nat, exposed : Nat]
  OBVIOUS
<1>3. TypeOK
  <2>1. quiet \in 0 .. Patience
    BY PatienceType
  <2>2. "done" \notin {pc.input, pc.watch, pc.keep, pc.output}
    OBVIOUS
  <2>3. cancelled \in BOOLEAN /\ right \in BOOLEAN
    OBVIOUS
  <2>4. /\ wire \in {"open", "closing", "closed"} /\ told \in {0, 1000, 1008}
        /\ pty \in {"open", "closed"} /\ child \in {"running", "exited", "reaped"}
        /\ peer \in {"here", "silent", "closed"}
        /\ causes \subseteq {"away", "session", "right"}
    OBVIOUS
  <2> HIDE DEF Init
  <2> QED BY <1>1, <1>2, <2>1, <2>2, <2>3, <2>4, Zenon DEF TypeOK
<1>4. OrderInv
  BY DEF OrderInv
<1>5. LostInv
  BY DEF LostInv
<1>6. ExposedInv
  BY DEF ExposedInv
<1>7. CauseInv /\ WaitInv
  BY DEF CauseInv, WaitInv, Ending
<1> QED BY <1>3, <1>4, <1>5, <1>6, <1>7 DEF Inv

LEMMA NextInv == Inv /\ [Next]_vars => Inv'
<1> SUFFICES ASSUME Inv, [Next]_vars PROVE Inv'
  OBVIOUS
<1> USE TimeAssumption, PatienceType
<1> USE DEF Inv, TypeOK, OrderInv, LostInv, ExposedInv, CauseInv, WaitInv, Ending, outside, history, tmuxSide, Goto, Ends, Broken
<1>1. CASE ReadFails
  BY <1>1 DEF ReadFails
<1>2. CASE WriteInput
  <2>1. TypeOK'
    <3>1. CASE Goto("input", "read") /\ UNCHANGED cancelled
      BY <1>2, <3>1 DEF WriteInput
    <3>2. CASE Ends("input")
      BY <1>2, <3>2 DEF WriteInput
    <3> HIDE DEF TypeOK, Ends, Goto
    <3> QED BY <1>2, <3>1, <3>2 DEF WriteInput
  <2>2. OrderInv'
    BY <1>2 DEF WriteInput
  <2>3. LostInv'
    BY <1>2 DEF WriteInput
  <2>4. ExposedInv'
    BY <1>2 DEF WriteInput
  <2>5. CauseInv'
    BY <1>2 DEF WriteInput
  <2>6. WaitInv'
    BY <1>2 DEF WriteInput
  <2> QED BY <2>1, <2>2, <2>3, <2>4, <2>5, <2>6
<1>3. CASE Check
  BY <1>3 DEF Check, BeginClose
<1>4. ASSUME NEW g \in {"watch", "keep"}, Stops(g) PROVE Inv'
  BY <1>4 DEF Stops
<1>5. ASSUME NEW g \in {"watch", "output"}, EndClose(g) PROVE Inv'
  BY <1>5 DEF EndClose
<1>6. CASE Ping
  BY <1>6 DEF Ping
<1>7. CASE Pong
  BY <1>7 DEF Pong
<1>8. CASE PingFails
  BY <1>8 DEF PingFails
<1>9. CASE Sent
  BY <1>9 DEF Sent
<1>10. CASE SendFails
  BY <1>10 DEF SendFails
<1>11. CASE PtyEnds
  <2>1. TypeOK'
    <3>1. CASE Ends("output") /\ UNCHANGED <<wire, told>>
      BY <1>11, <3>1 DEF PtyEnds
    <3>2. CASE BeginClose("output", 1000) /\ UNCHANGED cancelled
      BY <1>11, <3>2 DEF PtyEnds, BeginClose
    <3> HIDE DEF TypeOK, Ends, Goto
    <3> QED BY <1>11, <3>1, <3>2 DEF PtyEnds
  <2>2. OrderInv'
    BY <1>11 DEF PtyEnds, BeginClose
  <2>3. LostInv'
    BY <1>11 DEF PtyEnds, BeginClose
  <2>4. ExposedInv'
    BY <1>11 DEF PtyEnds, BeginClose
  <2>5. CauseInv'
    BY <1>11 DEF PtyEnds, BeginClose
  <2>6. WaitInv'
    BY <1>11 DEF PtyEnds, BeginClose
  <2> QED BY <2>1, <2>2, <2>3, <2>4, <2>5, <2>6
<1>12. CASE Wake
  BY <1>12 DEF Wake
<1>13. CASE ClosePty
  BY <1>13 DEF ClosePty
<1>14. CASE Kill
  BY <1>14 DEF Kill
<1>15. CASE Reap
  BY <1>15 DEF Reap
<1>16. CASE CloseNow
  BY <1>16 DEF CloseNow
<1>17. CASE Output
  BY <1>17 DEF Output
<1>18. ASSUME NEW frame \in Frame, Receive(frame) PROVE Inv'
  BY <1>18 DEF Receive
<1>19. CASE Disappears
  BY <1>19 DEF Disappears
<1>20. CASE Reappears
  BY <1>20 DEF Reappears
<1>21. CASE HangsUp
  BY <1>21 DEF HangsUp
<1>22. CASE SessionEnds
  BY <1>22 DEF SessionEnds
<1>23. CASE RightChanges
  BY <1>23 DEF RightChanges
<1>24. CASE Tick
  <2>0. clock' = [watch |-> IF pc.watch = "wait" THEN clock.watch + 1 ELSE clock.watch,
                  keep |-> IF pc.keep # "done" THEN clock.keep + 1 ELSE clock.keep,
                  ping |-> IF pc.keep = "ping" THEN clock.ping + 1 ELSE clock.ping,
                  write |-> IF pc.output = "write" THEN clock.write + 1 ELSE clock.write,
                  close |-> IF wire = "closing" THEN clock.close + 1 ELSE clock.close,
                  lost |-> IF peer # "here" /\ child # "reaped" THEN clock.lost + 1
                           ELSE clock.lost,
                  exposed |-> IF ~right /\ child # "reaped" THEN clock.exposed + 1
                              ELSE clock.exposed]
    <3>1. DOMAIN clock = {"watch", "keep", "ping", "write", "close", "lost", "exposed"}
      OBVIOUS
    <3> QED BY <1>24, <3>1 DEF Tick, Running
  <2>1. TypeOK'
    <3>1. /\ clock'.watch \in 0 .. CheckInterval /\ clock'.keep \in 0 .. KeepaliveInterval
          /\ clock'.ping \in 0 .. PongTimeout /\ clock'.write \in 0 .. WriteTimeout
          /\ clock'.close \in 0 .. CloseGrace /\ clock'.lost \in Nat /\ clock'.exposed \in Nat
      BY <1>24, <2>0 DEF Tick, Due
    <3>2. clock' \in [watch : 0 .. CheckInterval, keep : 0 .. KeepaliveInterval,
                      ping : 0 .. PongTimeout, write : 0 .. WriteTimeout,
                      close : 0 .. CloseGrace, lost : Nat, exposed : Nat]
      BY <2>0, <3>1
    <3> QED BY <1>24, <3>2 DEF Tick
  <2>2. OrderInv'
    BY <1>24 DEF Tick
  <2>3. LostInv'
    BY <1>24, <2>0 DEF Tick, Due
  <2>4. ExposedInv'
    BY <1>24, <2>0 DEF Tick, Due
  <2>5. CauseInv'
    BY <1>24, <2>0 DEF Tick, Due
  <2>6. WaitInv'
    <3>1. pc.output = "read" => clock'.write = 0
      BY <2>0
    <3>2. ASSUME ~Ending, clock'.ping # 0 PROVE clock'.ping <= quiet' \/ quiet' = Patience
      <4>1. pc.keep = "ping" /\ peer # "here"
        BY <1>24, <2>0, <3>2 DEF Tick, Due
      <4> QED BY <1>24, <2>0, <3>2, <4>1 DEF Tick
    <3>3. ASSUME ~Ending, clock'.write # 0 PROVE clock'.write <= quiet' \/ quiet' = Patience
      <4>1. pc.output = "write" /\ peer # "here"
        BY <1>24, <2>0, <3>3 DEF Tick, Due
      <4> QED BY <1>24, <2>0, <3>3, <4>1 DEF Tick
    <3>4. UNCHANGED pc /\ (Ending' <=> Ending) /\ quiet' \in Nat
      BY <1>24 DEF Tick
    <3> HIDE DEF Inv, TypeOK, OrderInv, LostInv, ExposedInv, CauseInv, Ending
    <3> QED BY <3>1, <3>2, <3>3, <3>4 DEF WaitInv
  <2> QED BY <2>1, <2>2, <2>3, <2>4, <2>5, <2>6
<1>25. CASE UNCHANGED vars
  BY <1>25 DEF vars
<1> HIDE DEF Inv, TypeOK, OrderInv, LostInv, ExposedInv, CauseInv, WaitInv, Ending
<1> QED
  BY <1>1, <1>2, <1>3, <1>4, <1>5, <1>6, <1>7, <1>8, <1>9, <1>10, <1>11, <1>12, <1>13,
     <1>14, <1>15, <1>16, <1>17, <1>18, <1>19, <1>20, <1>21, <1>22, <1>23, <1>24, <1>25
  DEF Next, InputStep, WatchStep, KeepStep, OutputStep, HandlerStep

\* The invariant, on which the rest depends.
THEOREM Invariance == Spec => []Inv
BY InitInv, NextInv, PTL DEF Spec

\* No goroutine returns without having cancelled the others (the deferred cancel
\* of each), beside the types.
THEOREM NobodyLeavesAlone == Spec => []TypeOK
<1>1. Inv => TypeOK
  BY DEF Inv
<1> QED BY Invariance, <1>1, PTL

\* A silent client is detached within one keepalive interval and one pong timeout
\* (keepalive).
THEOREM SilenceIsBounded == Spec => []DetachPrompt
<1>1. Inv => DetachPrompt
  BY TimeAssumption DEF Inv, TypeOK, LostInv, ExposedInv, DetachPrompt
<1> QED BY Invariance, <1>1, PTL

\* An attach ends only if its session or its right was lost, or its client hung up or was
\* not there for a whole timeout on end (pumpInput, keepalive, watchCapability,
\* pumpOutput).
THEOREM DropsHaveCauses == Spec => []NoDropWithoutCause
<1>1. Inv => NoDropWithoutCause
  BY DEF Inv, CauseInv, Ending, NoDropWithoutCause
<1> QED BY Invariance, <1>1, PTL

\* A client that only lost its right is sent close code 1008 (watchCapability).
THEOREM WithdrawalIsTold == Spec => []CutOffIsTold
<1>1. Inv => CutOffIsTold
  BY DEF Inv, CauseInv, Ending, CutOffIsTold, AllDone
<1> QED BY Invariance, <1>1, PTL

---------------------------------------------------------------------------
(* The refinement of Lease.                                                *)

\* A step after which the context is cancelled gives the lease up, or finds it so.
LEMMA CancelGivesUp ==
    ASSUME Inv, cancelled', UNCHANGED right
    PROVE  [TheLease!Next]_TheLease!vars
BY DEF Inv, TypeOK, TheLease!Next, TheLease!vars, TheLease!GiveUp

\* A step that moves neither the context nor the watcher nor its clocks is none of
\* the lease's.
LEMMA OthersKeepLease ==
    ASSUME UNCHANGED <<cancelled, right, clock.watch, clock.close, clock.exposed>>,
           pc'.watch = pc.watch
    PROVE  [TheLease!Next]_TheLease!vars
BY DEF TheLease!vars

LEMMA StepKeepsLease == Inv /\ [Next]_vars => [TheLease!Next]_TheLease!vars
<1> SUFFICES ASSUME Inv, [Next]_vars PROVE [TheLease!Next]_TheLease!vars
  OBVIOUS
<1> USE TimeAssumption DEF Inv, TypeOK, outside, tmuxSide, Goto, Ends
<1>1. CASE ReadFails \/ PingFails \/ SendFails
  BY <1>1, CancelGivesUp DEF ReadFails, PingFails, SendFails
<1>2. ASSUME NEW g \in {"watch", "keep", "output"}, Stops(g) \/ EndClose(g)
      PROVE  [TheLease!Next]_TheLease!vars
  BY <1>2, CancelGivesUp DEF Stops, EndClose
<1>3. CASE WriteInput
  BY <1>3, CancelGivesUp, OthersKeepLease DEF WriteInput
<1>4. CASE PtyEnds
  BY <1>4, CancelGivesUp, OthersKeepLease DEF PtyEnds, BeginClose
<1>5. CASE Check
  <2>1. CASE cancelled
    BY <1>5, <2>1, CancelGivesUp DEF Check
  <2>2. CASE ~cancelled /\ right
    <3>1. TheLease!Check
      BY <1>5, <2>2 DEF Check, TheLease!Check
    <3> QED BY <3>1 DEF TheLease!Next
  <2>3. CASE ~cancelled /\ ~right
    <3>1. TheLease!Check
      BY <1>5, <2>3 DEF Check, BeginClose, TheLease!Check
    <3> QED BY <3>1 DEF TheLease!Next
  <2> QED BY <2>1, <2>2, <2>3
<1>6. CASE Ping \/ Pong \/ Sent \/ Output \/ \E frame \in Frame : Receive(frame)
  BY <1>6, OthersKeepLease DEF Ping, Pong, Sent, Output, Receive
<1>7. CASE HandlerStep
  BY <1>7, OthersKeepLease DEF HandlerStep, Wake, ClosePty, Kill, Reap, CloseNow
<1>8. CASE Disappears \/ Reappears \/ HangsUp \/ SessionEnds
  BY <1>8, OthersKeepLease DEF Disappears, Reappears, HangsUp, SessionEnds
<1>9. CASE RightChanges
  <2>1. /\ UNCHANGED <<pc, cancelled>> /\ clock' = [clock EXCEPT !.exposed = 0]
        /\ right' = ~right
    BY <1>9 DEF RightChanges
  <2>2. clock'.exposed = IF right' THEN 0 ELSE clock.exposed
    <3>1. clock'.exposed = 0
      BY <2>1
    <3>2. ~right' => clock.exposed = 0
      <4> HIDE DEF TypeOK, OrderInv, LostInv, CauseInv
      <4> QED BY <2>1 DEF ExposedInv
    <3> HIDE DEF Inv, TypeOK
    <3> QED BY <3>1, <3>2
  <2>3. UNCHANGED <<clock.watch, clock.close>>
    BY <2>1
  <2>4. TheLease!RightChanges
    <3> HIDE DEF Inv, TypeOK
    <3> QED BY <2>1, <2>2, <2>3 DEF TheLease!RightChanges
  <2> QED BY <2>4 DEF TheLease!Next
<1>10. CASE Tick
  <2>1. CASE cancelled
    BY <1>10, <2>1, CancelGivesUp DEF Tick
  <2>2. CASE ~cancelled
    <3>1. /\ clock'.watch = IF pc.watch = "wait" THEN clock.watch + 1 ELSE clock.watch
          /\ clock'.close = IF wire = "closing" THEN clock.close + 1 ELSE clock.close
          /\ clock'.exposed = IF ~right /\ child # "reaped" THEN clock.exposed + 1
                              ELSE clock.exposed
      <4>1. {"watch", "close", "exposed"} \subseteq DOMAIN clock
        OBVIOUS
      <4> QED BY <1>10, <4>1 DEF Tick, Running
    <3>2. child # "reaped" /\ pc.watch # "done"
      BY <2>2 DEF OrderInv
    <3>3. TheLease!Tick
      BY <1>10, <2>2, <3>1, <3>2 DEF Tick, Due, ExposedInv, TheLease!Tick
    <3> QED BY <3>3 DEF TheLease!Next
  <2> QED BY <2>1, <2>2
<1>11. CASE UNCHANGED vars
  BY <1>11, OthersKeepLease DEF vars
<1> QED
  BY <1>1, <1>2, <1>3, <1>4, <1>5, <1>6, <1>7, <1>8, <1>9, <1>10, <1>11
  DEF Next, InputStep, WatchStep, KeepStep, OutputStep

\* The attach keeps the lease that Access takes it for, and no time passes between
\* the end of its context and that of the tmux client (handleAttach,
\* watchCapability, Attach.Close).
THEOREM AttachIsALease == Spec => KeepsLease
<1>1. Init => TheLease!Init
  BY DEF Init, TheLease!Init
<1>2. Inv /\ [Next]_vars => [cancelled /\ Tick => child = "reaped"]_vars
  BY DEF Inv, TypeOK, OrderInv, Tick, Due
<1> QED BY <1>1, <1>2, StepKeepsLease, Invariance, PTL DEF Spec, KeepsLease
=============================================================================
