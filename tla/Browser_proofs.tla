--------------------------- MODULE Browser_proofs ---------------------------
(***************************************************************************)
(* Proofs about the browser: about Client, for any number of sessions, of  *)
(* sockets that are alive at a time and of timers, and then about Page,    *)
(* for any number of sessions and of loads under way.                      *)
(***************************************************************************)
EXTENDS Client, Page, TLAPS


---------------------------------------------------------------------------
(* Client: the inductive invariant.                                        *)

\* The type invariant in three parts.
CountOK == timers \in 0 .. MaxTimers /\ handle \in 0 .. 1 /\ handle <= timers

HeldOK ==
    /\ defined \in BOOLEAN /\ view \in {"list", "term"}
    /\ currentSession \in Session \cup {None} /\ remembered \in Session \cup {None}
    /\ ws \in Socket \cup {None}
    /\ state \in [Socket -> {"none", "connecting", "open", "closing"}]
    /\ target \in [Socket -> Session \cup {None}]
    /\ deliberateClose \in BOOLEAN /\ onLine \in BOOLEAN /\ cameOnline \in BOOLEAN
    /\ awaiting \subseteq {"start", "create", "kill"}
    /\ loop \in {"idle", "going", "ended", "refused"} /\ raced \in BOOLEAN /\ late \in BOOLEAN

ListInv ==
    /\ currentSession = None => handle = 0 /\ (defined => view = "list")
    /\ view = "list" => currentSession = None /\ ws = None

LEMMA TypeParts == TypeOK <=> CountOK /\ HeldOK /\ ListInv
BY DEF TypeOK, CountOK, HeldOK, ListInv

\* Without a race only the newest socket is connecting or open, and until the page
\* leaves, no other is alive, it is that of the session, and the loop goes on.
NewestInv ==
    ~raced =>
        /\ ~late
        /\ \A s \in Socket : state[s] \in {"connecting", "open"} =>
               s = ws /\ (target[s] = currentSession \/ (~defined /\ currentSession = None))
        /\ ~deliberateClose => \A s \in Alive : Own(s) /\ loop = "going"

\* What keeps a page on a session from being stranded is its newest socket, and
\* not one of before, which may close with any code.
DialInv ==
    /\ deliberateClose => currentSession = None
    /\ currentSession = None => loop = "idle" /\ (~deliberateClose => Alive = {})
    /\ currentSession # None /\ defined => loop # "idle"
    /\ currentSession # None /\ loop = "going" =>
          /\ ws \in Alive => target[ws] = currentSession
          /\ ws \in Alive \/ timers > 0 \/ ~onLine \/ cameOnline

Inv == CountOK /\ HeldOK /\ ListInv /\ OneChain /\ StopsTheLoop /\ NewestInv /\ DialInv

LEMMA InitInv == Init => Inv
<1> USE NoneAssumption, SocketAssumption, BoundAssumption, DefinedAssumption DEF Init
<1>1. Init => CountOK
  BY DEF CountOK
<1>2. Init => HeldOK
  BY DEF HeldOK
<1>3. Init => ListInv
  BY DEF ListInv
<1>4. Init => OneChain /\ StopsTheLoop /\ NewestInv /\ DialInv
  BY DEF OneChain, StopsTheLoop, Stopped, NewestInv, DialInv, Alive
<1> QED BY <1>1, <1>2, <1>3, <1>4 DEF Inv

\* What connect leaves, when it dials: one socket more, the newest.
LEMMA Connected ==
    ASSUME HeldOK, NEW name \in Session, NEW n, Connect(name, n)
    PROVE  /\ ws' \in Socket \ Alive
           /\ state' = [state EXCEPT ![ws'] = "connecting"]
           /\ target' = [target EXCEPT ![ws'] = name]
           /\ timers' = n /\ handle' = 0 /\ loop' = "going" /\ late' = (late /\ n > 0)
           /\ state' \in [Socket -> {"none", "connecting", "open", "closing"}]
           /\ target' \in [Socket -> Session \cup {None}]
BY DEF Connect, HeldOK

\* What clearTimeout leaves is a timer of a late drop.
LEMMA Cleared ==
    ASSUME CountOK, OneChain, ~(late /\ Uncleared > 0)
    PROVE  Uncleared = 0
<1>1. CASE late
  BY <1>1 DEF CountOK, Uncleared
<1>2. CASE ~late
  BY <1>2 DEF CountOK, OneChain, Uncleared
<1> QED BY <1>1, <1>2

\* attach and reconnectNow dial beside no socket, or it is a race.
LEMMA Dialled ==
    ASSUME Inv, NEW name \in Session, Connect(name, Uncleared), currentSession' = name,
           view' = "term", raced' = (raced \/ Alive # {}), deliberateClose' = FALSE
    PROVE  CountOK' /\ ListInv' /\ OneChain' /\ StopsTheLoop' /\ NewestInv' /\ DialInv'
<1> USE NoneAssumption, SocketAssumption
<1>1. /\ ws' \in Socket \ Alive
      /\ state' = [state EXCEPT ![ws'] = "connecting"]
      /\ target' = [target EXCEPT ![ws'] = name]
      /\ timers' = Uncleared /\ handle' = 0 /\ loop' = "going"
      /\ late' = (late /\ Uncleared > 0)
  BY Connected DEF Inv
<1>2. CountOK'
  <2>1. timers' = timers - handle /\ handle' = 0
    BY <1>1 DEF Uncleared
  <2>2. CountOK
    BY DEF Inv
  <2> QED BY <2>1, <2>2, BoundAssumption DEF CountOK
<1>3. ListInv'
  BY DEF ListInv
<1>4. ASSUME ~raced' PROVE ~late' /\ Alive = {}
  BY <1>1, <1>4 DEF Inv, NewestInv
<1>5. ASSUME ~late' PROVE timers' = 0
  <2>1. ~(late /\ Uncleared > 0)
    BY <1>1, <1>5
  <2> QED BY <1>1, <2>1, Cleared DEF Inv
<1>6. \A s \in Socket : state'[s] = IF s = ws' THEN "connecting" ELSE state[s]
  BY <1>1 DEF Inv, HeldOK
<1>7. target'[ws'] = currentSession'
  BY <1>1 DEF Inv, HeldOK
<1>8. OneChain'
  <2>1. ASSUME ~raced' PROVE timers' = 0 /\ \A s, t \in Alive' : s = t
    BY <1>1, <1>4, <1>5, <1>6, <2>1 DEF Alive
  <2>2. ~late' => timers' = 0
    BY <1>5
  <2> QED BY <2>1, <2>2 DEF OneChain
<1>9. NewestInv'
  <2> SUFFICES ASSUME ~raced'
               PROVE  ~late' /\ \A s \in Socket : state'[s] # "none" =>
                         s = ws' /\ target'[s] = currentSession' /\ loop' = "going"
    BY DEF NewestInv, Alive, Own
  <2> QED BY <1>1, <1>4, <1>6, <1>7 DEF Alive
<1>10. DialInv'
  <2>1. ws' \in Alive'
    BY <1>1, <1>6 DEF Alive
  <2> QED BY <1>1, <1>7, <2>1 DEF DialInv
<1>11. StopsTheLoop'
  BY <1>1 DEF StopsTheLoop, Stopped
<1> QED BY <1>2, <1>3, <1>8, <1>9, <1>10, <1>11

\* Where attach throws before it dials, the timer and the sockets of before stay.
LEMMA Undialled ==
    ASSUME Inv, NEW name \in Session, ~defined, loop' = "idle", UNCHANGED <<dialling, late, defined>>,
           currentSession' = name, view' = "term", raced' = (raced \/ Alive # {}),
           deliberateClose' = FALSE
    PROVE  CountOK' /\ ListInv' /\ OneChain' /\ StopsTheLoop' /\ NewestInv' /\ DialInv'
<1> USE NoneAssumption, SocketAssumption DEF dialling
<1>1. CountOK'
  BY DEF Inv, CountOK
<1>2. ListInv'
  BY DEF ListInv
<1>3. OneChain'
  BY DEF Inv, OneChain, Alive
<1>4. StopsTheLoop' /\ DialInv'
  BY DEF StopsTheLoop, Stopped, DialInv
<1>5. NewestInv'
  BY DEF Inv, NewestInv, Alive
<1> QED BY <1>1, <1>2, <1>3, <1>4, <1>5

LEMMA Attached ==
    ASSUME Inv, NEW name \in Session, Attach(name), UNCHANGED network,
           awaiting' \subseteq {"start", "create", "kill"}
    PROVE  Inv'
<1>1. HeldOK'
  <2>1. /\ state' \in [Socket -> {"none", "connecting", "open", "closing"}]
        /\ target' \in [Socket -> Session \cup {None}]
        /\ ws' \in Socket \cup {None} /\ loop' \in {"idle", "going", "ended", "refused"}
    BY Connected DEF Inv, HeldOK, Attach, Dial, dialling
  <2>2. raced' \in BOOLEAN /\ late' \in BOOLEAN
    BY Connected DEF Attach, Dial, Inv, HeldOK
  <2> QED BY <2>1, <2>2 DEF Inv, HeldOK, Attach, network
<1>2. CountOK' /\ ListInv' /\ OneChain' /\ StopsTheLoop' /\ NewestInv' /\ DialInv'
  <2>1. CASE defined
    BY <2>1, Dialled DEF Attach, Dial
  <2>2. CASE ~defined
    BY <2>2, Undialled DEF Attach, Dial, network
  <2> QED BY <2>1, <2>2
<1> QED BY <1>1, <1>2 DEF Inv

\* detach, in either case, leaves nothing that dials.
LEMMA Detached ==
    ASSUME Inv, Detach, UNCHANGED network, awaiting' \subseteq {"start", "create", "kill"}
    PROVE  Inv'
<1> USE NoneAssumption, SocketAssumption, BoundAssumption DEF Detach, Leave, Closing, network
<1>1. CountOK'
  BY DEF Inv, CountOK, Uncleared
<1>2. HeldOK'
  BY DEF Inv, HeldOK, Uncleared
<1>3. ListInv'
  BY DEF Inv, ListInv
<1>4. Alive' = Alive
  BY DEF Inv, HeldOK, Alive
<1>5. OneChain'
  <2>1. ~late' => timers' = 0
    <3>1. ASSUME ~late' PROVE ~(late /\ Uncleared > 0)
      BY <3>1
    <3> QED BY <3>1, Cleared DEF Inv
  <2>2. ASSUME ~raced' PROVE timers' = 0 /\ \A s, t \in Alive' : s = t
    <3>1. ~late /\ ~raced
      BY <2>2 DEF Inv, NewestInv
    <3>2. ~late'
      BY <3>1
    <3> QED BY <1>4, <2>1, <3>1, <3>2 DEF Inv, OneChain
  <2> QED BY <2>1, <2>2 DEF OneChain
<1>6. StopsTheLoop' /\ DialInv'
  BY DEF StopsTheLoop, Stopped, DialInv
<1>7. NewestInv'
  BY DEF Inv, NewestInv, HeldOK, Alive
<1> QED BY <1>1, <1>2, <1>3, <1>5, <1>6, <1>7 DEF Inv

LEMMA FlatDialling ==
    ASSUME UNCHANGED dialling, UNCHANGED chain
    PROVE  UNCHANGED <<ws, state, target, timers, handle, loop, raced, late>>
BY DEF dialling, chain

LEMMA FlatPage ==
    ASSUME UNCHANGED page
    PROVE  UNCHANGED <<view, currentSession, deliberateClose, remembered, awaiting>>
BY DEF page

LEMMA FlatNetwork ==
    ASSUME UNCHANGED network
    PROVE  UNCHANGED <<defined, onLine, cameOnline>>
BY DEF network

\* An action that leaves the sockets and the timers alone, and does not take away what
\* will yet make the page dial.
LEMMA Untouched ==
    ASSUME Inv, UNCHANGED <<view, currentSession, deliberateClose, defined>>,
           UNCHANGED <<ws, state, target, timers, handle, loop, raced, late>>,
           ~onLine \/ cameOnline => ~onLine' \/ cameOnline' \/ currentSession = None \/ ws \in Alive
    PROVE  CountOK' /\ ListInv' /\ OneChain' /\ StopsTheLoop' /\ NewestInv' /\ DialInv'
<1>1. CountOK' /\ ListInv'
  BY DEF Inv, CountOK, ListInv
<1>2. Alive' = Alive
  BY DEF Alive
<1>3. OneChain /\ StopsTheLoop /\ NewestInv /\ DialInv
  BY DEF Inv
<1>4. OneChain'
  BY <1>2, <1>3 DEF OneChain
<1>5. StopsTheLoop'
  BY <1>2, <1>3 DEF StopsTheLoop, Stopped
<1>6. NewestInv'
  BY <1>2, <1>3 DEF NewestInv, Own
<1>7. DialInv'
  BY <1>2, <1>3 DEF DialInv
<1> QED BY <1>1, <1>4, <1>5, <1>6, <1>7

\* So does one of what the page awaits, or of the network alone.
LEMMA Elsewhere ==
    ASSUME Inv, UNCHANGED <<view, currentSession, deliberateClose, remembered, defined>>,
           UNCHANGED dialling, UNCHANGED chain, awaiting' \subseteq {"start", "create", "kill"},
           onLine' \in BOOLEAN, cameOnline' \in BOOLEAN,
           ~onLine \/ cameOnline => ~onLine' \/ cameOnline'
    PROVE  Inv'
<1>1. UNCHANGED <<ws, state, target, timers, handle, loop, raced, late>>
  BY FlatDialling
<1>2. HeldOK'
  BY <1>1 DEF Inv, HeldOK
<1>3. CountOK' /\ ListInv' /\ OneChain' /\ StopsTheLoop' /\ NewestInv' /\ DialInv'
  BY <1>1, Untouched
<1> QED BY <1>2, <1>3 DEF Inv

\* An open socket closes, or one that was connecting is open: none begins and none ends.
LEMMA Moved ==
    ASSUME Inv, NEW s \in Socket, SocketOpens(s) \/ SocketCloses(s)
    PROVE  Inv'
<1>1. /\ UNCHANGED page /\ UNCHANGED network /\ UNCHANGED chain
      /\ UNCHANGED <<ws, target, timers, handle>>
      /\ state[s] \in {"connecting", "open"}
      /\ \E r \in {"open", "closing"} : state' = [state EXCEPT ![s] = r]
  BY DEF SocketOpens, SocketCloses
<1>2. UNCHANGED <<view, currentSession, deliberateClose, remembered, awaiting, defined, onLine,
                  cameOnline>>
  BY <1>1, FlatPage, FlatNetwork
<1>3. UNCHANGED <<ws, target, timers, handle, loop, raced, late>>
  BY <1>1 DEF chain
<1>4. CountOK' /\ ListInv'
  BY <1>2, <1>3 DEF Inv, CountOK, ListInv
<1>5. HeldOK'
  BY <1>1, <1>2, <1>3 DEF Inv, HeldOK
<1>6. /\ Alive' = Alive
      /\ \A t \in Socket : state'[t] \in {"connecting", "open"} => state[t] \in {"connecting", "open"}
  BY <1>1 DEF Inv, HeldOK, Alive
<1>7. OneChain /\ StopsTheLoop /\ NewestInv /\ DialInv
  BY DEF Inv
<1>8. OneChain'
  BY <1>3, <1>6, <1>7 DEF OneChain
<1>9. StopsTheLoop'
  BY <1>3, <1>6, <1>7 DEF StopsTheLoop, Stopped
<1>10. NewestInv'
  BY <1>2, <1>3, <1>6, <1>7 DEF NewestInv, Own
<1>11. DialInv'
  BY <1>2, <1>3, <1>6, <1>7 DEF DialInv
<1> QED BY <1>4, <1>5, <1>8, <1>9, <1>10, <1>11 DEF Inv

\* A socket is over; where it drops, one timer more, which onclose sets whichever socket
\* it was.
LEMMA Closed ==
    ASSUME Inv, NEW s \in Socket, NEW code \in {1000, 1008, 1006}, OnClose(s, code)
    PROVE  Inv'
<1> USE NoneAssumption, SocketAssumption
<1>1. /\ s \in Alive /\ Alive' = Alive \ {s}
      /\ \A t \in Socket : t # s => state'[t] = state[t] /\ target'[t] = target[t]
  BY DEF Inv, HeldOK, OnClose, Alive
<1>2. UNCHANGED <<view, currentSession, deliberateClose, ws, raced, defined, onLine, cameOnline>>
  BY DEF OnClose, network
<1>3. \/ timers' = timers /\ handle' = handle
      \/ /\ ~deliberateClose /\ code = 1006 /\ currentSession # None
         /\ timers < MaxTimers /\ timers' = timers + 1 /\ handle' = 1
  BY DEF OnClose, ScheduleReconnect
<1>4. \/ loop' = loop
      \/ ~deliberateClose /\ Own(s) /\ code # 1006 /\ loop' \in {"ended", "refused"}
  BY DEF OnClose, LoopAfter
<1>5. /\ timers' = timers => late' = late
      /\ Own(s) => late' = late
      /\ late => late'
      /\ ~Own(s) /\ timers' > timers => late'
  <2> DEFINE dropped == ~Own(s) /\ timers' > timers
  <2>1. late' = (late \/ dropped) /\ late \in BOOLEAN
    BY DEF OnClose, Inv, HeldOK
  <2>2. timers' = timers => ~(timers' > timers)
    BY DEF Inv, CountOK
  <2>3. (timers' = timers \/ Own(s) => ~dropped) /\ dropped \in BOOLEAN
    BY <2>2
  <2> HIDE DEF dropped
  <2>4. /\ ~dropped => late' = late
        /\ late \/ dropped => late'
    BY <2>1, <2>3
  <2> QED BY <2>3, <2>4 DEF dropped
<1>6. CountOK'
  <2>1. CountOK
    BY DEF Inv
  <2> QED BY <1>3, <2>1, BoundAssumption DEF CountOK
<1>7. HeldOK'
  BY <1>4 DEF Inv, HeldOK, OnClose, network
<1>8. ListInv'
  BY <1>2, <1>3 DEF Inv, ListInv
<1>9. timers \in Nat /\ timers' \in Nat
  BY <1>6, BoundAssumption DEF Inv, CountOK
<1>10. OneChain'
  <2> USE DEF OneChain
  <2>0. OneChain
    BY DEF Inv
  <2>1. CASE timers' = timers /\ handle' = handle
    <3>1. late' = late
      BY <1>5, <2>1
    <3> QED BY <1>1, <1>2, <2>0, <2>1, <3>1
  <2>2. CASE timers' = timers + 1 /\ handle' = 1
    <3>1. timers' > timers
      BY <1>9, <2>2
    <3>2. ~late' => Own(s) /\ ~late
      BY <1>5, <3>1
    <3>3. ~late' => timers = 0 /\ ws \notin Alive'
      BY <1>1, <1>9, <2>0, <3>2 DEF Own
    <3>4. ~late' => timers' <= 1 /\ (timers' = 1 => handle' = 1 /\ ws' \notin Alive')
      BY <1>2, <2>2, <3>3
    <3>5. ~raced' => Alive' = {}
      BY <1>1, <1>2, <2>0
    <3> QED BY <3>4, <3>5
  <2> QED BY <1>3, <2>1, <2>2
<1>11. StopsTheLoop'
  <2> SUFFICES ASSUME Stopped' PROVE ws' \notin Alive' /\ (late' \/ timers' = 0)
    BY DEF StopsTheLoop
  <2>1. CASE loop' = loop
    <3>1. ws \notin Alive /\ (late \/ timers = 0) /\ ~Own(s)
      BY <1>1, <2>1 DEF Inv, StopsTheLoop, Stopped, Own
    <3>2. timers' # timers => timers' > timers
      BY <1>3, <1>9
    <3> QED BY <1>1, <1>2, <1>5, <3>1, <3>2
  <2>2. CASE Own(s) /\ code # 1006
    <3>1. ws = s /\ timers' = timers
      BY <1>3, <2>2 DEF Own
    <3>2. late \/ timers = 0
      BY <1>1, <1>9, <3>1 DEF Inv, OneChain
    <3> QED BY <1>1, <1>2, <1>5, <3>1, <3>2
  <2> QED BY <1>4, <2>1, <2>2
<1>12. NewestInv'
  <2> SUFFICES ASSUME ~raced
               PROVE  /\ ~late'
                      /\ \A t \in Socket : state'[t] \in {"connecting", "open"} =>
                             t = ws /\ (target'[t] = currentSession \/ (~defined /\ currentSession = None))
                      /\ ~deliberateClose => Alive' = {}
    BY <1>2 DEF NewestInv
  <2>1. NewestInv
    BY DEF Inv
  <2>2. ~late'
    BY <1>1, <1>3, <1>5, <2>1 DEF NewestInv
  <2>3. \A t \in Socket : state'[t] \in {"connecting", "open"} => t # s
    BY <1>1 DEF Alive
  <2>4. ~deliberateClose => Alive' = {}
    BY <1>1, <2>1 DEF NewestInv, Own
  <2> QED BY <1>1, <2>1, <2>2, <2>3, <2>4 DEF NewestInv
<1>13. DialInv'
  <2>1. DialInv
    BY DEF Inv
  <2>2. currentSession = None => deliberateClose
    BY <1>1, <2>1 DEF DialInv
  <2>3. currentSession = None => loop' = loop
    BY <1>4, <2>2
  <2>4. ASSUME currentSession # None, loop' = "going"
        PROVE  /\ ws \in Alive' => target'[ws] = currentSession
               /\ ws \in Alive' \/ timers' > 0 \/ ~onLine \/ cameOnline
    <3>1. ~deliberateClose /\ loop = "going" /\ (Own(s) => code = 1006)
      BY <1>4, <2>1, <2>4 DEF DialInv, OnClose, LoopAfter
    <3>2. /\ ws \in Alive => target[ws] = currentSession
          /\ ws \in Alive \/ timers > 0 \/ ~onLine \/ cameOnline
      BY <2>1, <2>4, <3>1 DEF DialInv
    <3>3. CASE ws = s
      <4>1. code = 1006
        BY <1>1, <3>1, <3>2, <3>3 DEF Own
      <4>2. ~onLine \/ timers' = timers + 1
        BY <2>4, <3>1, <4>1 DEF OnClose, ScheduleReconnect
      <4> QED BY <1>1, <1>9, <3>3, <4>2
    <3>4. CASE ws # s
      <4>1. ws \in Alive' => ws \in Alive /\ ws \in Socket
        BY <1>1 DEF Alive
      <4>2. timers > 0 => timers' > 0
        BY <1>3, <1>9
      <4> QED BY <1>1, <3>2, <3>4, <4>1, <4>2
    <3> QED BY <3>3, <3>4
  <2>5. currentSession # None /\ defined => loop' # "idle"
    BY <1>4, <2>1 DEF DialInv
  <2> QED BY <1>1, <1>2, <2>1, <2>2, <2>3, <2>4, <2>5 DEF DialInv
<1> QED BY <1>6, <1>7, <1>8, <1>10, <1>11, <1>12, <1>13 DEF Inv

\* A timer fires on a session: it dials, and is gone.
LEMMA FiredOnSession ==
    ASSUME Inv, TimerFires, currentSession # None
    PROVE  Inv'
<1> USE NoneAssumption, SocketAssumption
<1>1. currentSession \in Session /\ CountOK /\ HeldOK
  BY DEF Inv, HeldOK
<1>2. PICK n : /\ Connect(currentSession, n)
               /\ \/ handle = 1 /\ n = timers - 1
                  \/ Uncleared > 0 /\ n = Uncleared - 1
               /\ timers > 0 /\ UNCHANGED <<page, network, raced>>
  BY DEF TimerFires
<1>3. n \in 0 .. (timers - 1) /\ n \in Nat
  BY <1>1, <1>2, BoundAssumption DEF CountOK, Uncleared
<1>4. /\ ws' \in Socket \ Alive
      /\ state' = [state EXCEPT ![ws'] = "connecting"]
      /\ target' = [target EXCEPT ![ws'] = currentSession]
      /\ timers' = n /\ handle' = 0 /\ loop' = "going" /\ late' = (late /\ n > 0)
      /\ state' \in [Socket -> {"none", "connecting", "open", "closing"}]
      /\ target' \in [Socket -> Session \cup {None}]
  BY <1>1, <1>2, Connected
<1>5. UNCHANGED <<view, currentSession, deliberateClose, remembered, awaiting, defined, onLine,
                  cameOnline, raced>>
  BY <1>2 DEF page, network
<1>6. CountOK'
  BY <1>1, <1>3, <1>4, BoundAssumption DEF CountOK
<1>7. HeldOK'
  <2>1. late' \in BOOLEAN
    BY <1>4
  <2> QED BY <1>1, <1>4, <1>5, <2>1 DEF HeldOK
<1>8. ListInv'
  BY <1>1, <1>5 DEF Inv, ListInv
<1>9. \A s \in Socket : state'[s] = IF s = ws' THEN "connecting" ELSE state[s]
  BY <1>1, <1>4 DEF HeldOK
<1>10. target'[ws'] = currentSession
  BY <1>1, <1>4 DEF HeldOK
<1>11. ~late => n = 0
  BY <1>2, <1>3 DEF Inv, OneChain, CountOK
<1>12. ~late' => timers' = 0
  <2>1. ~late' => ~late \/ ~(n > 0)
    BY <1>4
  <2>2. ~(n > 0) => n = 0
    BY <1>3
  <2> QED BY <1>4, <1>11, <2>1, <2>2
<1>13. ASSUME ~raced PROVE ~late' /\ Alive = {}
  <2>1. ~late
    BY <1>13 DEF Inv, NewestInv
  <2>2. timers = 1
    BY <1>2, <2>1 DEF Inv, OneChain, CountOK
  <2> QED BY <1>4, <1>13, <2>1, <2>2 DEF Inv, OneChain
<1>14. OneChain'
  <2>1. ~raced => timers' = 0 /\ \A s, t \in Alive' : s = t
    BY <1>4, <1>9, <1>12, <1>13 DEF Alive
  <2> QED BY <1>5, <1>12, <2>1 DEF OneChain
<1>15. NewestInv'
  <2> SUFFICES ASSUME ~raced
               PROVE  ~late' /\ \A s \in Socket : state'[s] # "none" =>
                         s = ws' /\ target'[s] = currentSession' /\ loop' = "going"
    BY <1>5 DEF NewestInv, Alive, Own
  <2> QED BY <1>4, <1>5, <1>9, <1>10, <1>13 DEF Alive
<1>16. DialInv'
  <2>1. ws' \in Alive'
    BY <1>4, <1>9 DEF Alive
  <2>2. ~deliberateClose
    BY DEF Inv, DialInv
  <2> QED BY <1>4, <1>5, <1>10, <2>1, <2>2 DEF DialInv
<1>17. StopsTheLoop'
  BY <1>4 DEF StopsTheLoop, Stopped
<1> QED BY <1>6, <1>7, <1>8, <1>14, <1>15, <1>16, <1>17 DEF Inv

\* A timer fires that nothing could clear, on the list: connect does nothing.
LEMMA FiredOnList ==
    ASSUME Inv, TimerFires, currentSession = None
    PROVE  Inv'
<1>1. CountOK /\ HeldOK /\ handle = 0 /\ loop = "idle"
  BY DEF Inv, ListInv, DialInv
<1>2. /\ timers > 0 /\ timers' = timers - 1 /\ late' = (late /\ timers' > 0)
      /\ UNCHANGED <<ws, state, target, handle, loop, page, network, raced>>
  BY <1>1 DEF TimerFires
<1>3. UNCHANGED <<view, currentSession, deliberateClose, remembered, awaiting, defined, onLine,
                  cameOnline>>
  BY <1>2 DEF page, network
<1>4. CountOK'
  BY <1>1, <1>2, BoundAssumption DEF CountOK
<1>5. HeldOK'
  <2>1. late' \in BOOLEAN
    BY <1>2
  <2> QED BY <1>1, <1>2, <1>3, <2>1 DEF HeldOK
<1>6. ListInv'
  BY <1>2, <1>3 DEF Inv, ListInv
<1>7. late /\ raced
  <2>1. late
    BY <1>1, <1>2 DEF Inv, OneChain, CountOK
  <2> QED BY <2>1 DEF Inv, NewestInv
<1>8. ~late' => timers' = 0
  <2>1. ~late' => ~(timers' > 0)
    BY <1>2, <1>7
  <2> QED BY <1>4, <2>1, BoundAssumption DEF CountOK
<1>9. OneChain' /\ NewestInv'
  BY <1>2, <1>7, <1>8 DEF OneChain, NewestInv
<1>10. StopsTheLoop'
  BY <1>1, <1>2 DEF StopsTheLoop, Stopped
<1>11. DialInv'
  <2>1. DialInv /\ Alive' = Alive
    BY <1>2 DEF Inv, Alive
  <2> QED BY <1>1, <1>2, <1>3, <2>1 DEF DialInv
<1> QED BY <1>4, <1>5, <1>6, <1>9, <1>10, <1>11 DEF Inv

\* reconnectNow, on "focus", "visibilitychange" or "online".
LEMMA Reconnected ==
    ASSUME Inv, ReconnectNow, UNCHANGED page, UNCHANGED <<defined, onLine>>, cameOnline' \in BOOLEAN
    PROVE  Inv'
<1> USE NoneAssumption, SocketAssumption
<1>1. UNCHANGED <<view, currentSession, deliberateClose, remembered, awaiting, defined, onLine>>
  BY FlatPage
<1>2. CASE currentSession # None /\ Connect(currentSession, Uncleared) /\ raced' = (raced \/ Alive # {})
  <2>1. currentSession \in Session /\ ~deliberateClose /\ HeldOK /\ view = "term"
    BY <1>2 DEF Inv, HeldOK, ListInv, DialInv
  <2>2. HeldOK'
    <3>1. late' = (late /\ Uncleared > 0) /\ ws' \in Socket /\ loop' = "going"
      BY <1>2 DEF Connect
    <3>2. late' \in BOOLEAN /\ raced' \in BOOLEAN
      BY <1>2, <3>1
    <3> QED BY <1>1, <1>2, <2>1, <3>1, <3>2, Connected DEF HeldOK
  <2>3. deliberateClose' = FALSE /\ currentSession' = currentSession /\ view' = "term"
    BY <1>1, <2>1 DEF HeldOK
  <2> QED BY <1>2, <2>1, <2>2, <2>3, Dialled DEF Inv
<1>3. CASE (currentSession = None \/ (ws # None /\ state[ws] = "open")) /\ UNCHANGED dialling /\ UNCHANGED chain
  <2>1. UNCHANGED <<ws, state, target, timers, handle, loop, raced, late>>
    BY <1>3, FlatDialling
  <2>2. currentSession = None \/ ws \in Alive
    BY <1>3 DEF Inv, HeldOK, Alive
  <2>3. CountOK' /\ ListInv' /\ OneChain' /\ StopsTheLoop' /\ NewestInv' /\ DialInv'
    BY <1>1, <2>1, <2>2, Untouched
  <2>4. HeldOK'
    BY <1>1, <2>1 DEF Inv, HeldOK
  <2> QED BY <2>3, <2>4 DEF Inv
<1>4. \/ currentSession # None /\ Connect(currentSession, Uncleared) /\ raced' = (raced \/ Alive # {})
      \/ (currentSession = None \/ (ws # None /\ state[ws] = "open")) /\ UNCHANGED dialling /\ UNCHANGED chain
  BY DEF ReconnectNow
<1> QED BY <1>2, <1>3, <1>4

LEMMA NextInv == Inv /\ [Next]_vars => Inv'
<1> SUFFICES ASSUME Inv, [Next]_vars PROVE Inv'
  OBVIOUS
<1>0. HeldOK
  BY DEF Inv
<1>1. ASSUME NEW name \in Session, UserAttaches(name) PROVE Inv'
  BY <1>0, <1>1, Attached DEF UserAttaches, HeldOK
<1>2. ASSUME NEW name \in Session, Created(name) PROVE Inv'
  BY <1>0, <1>2, Attached DEF Created, HeldOK
<1>3. ASSUME NEW what \in {"create", "kill"}, UserAsks(what) \/ Refused(what) PROVE Inv'
  <2>1. /\ UNCHANGED <<view, currentSession, deliberateClose, remembered>>
        /\ UNCHANGED network /\ UNCHANGED dialling /\ UNCHANGED chain
    BY <1>3 DEF UserAsks, Refused
  <2>2. awaiting' \subseteq {"start", "create", "kill"}
    BY <1>0, <1>3 DEF UserAsks, Refused, HeldOK
  <2> QED BY <1>0, <2>1, <2>2, Elsewhere, FlatNetwork DEF HeldOK
<1>4. CASE UserDetaches
  BY <1>0, <1>4, Detached DEF UserDetaches, HeldOK
<1>5. CASE Killed
  BY <1>0, <1>5, Detached DEF Killed, HeldOK
<1>6. CASE Started
  <2>1. awaiting' \subseteq {"start", "create", "kill"} /\ UNCHANGED network
    BY <1>0, <1>6 DEF HeldOK, Started
  <2>2. CASE remembered # None /\ Attach(remembered)
    <3>1. remembered \in Session
      BY <1>0, <2>2 DEF HeldOK
    <3> QED BY <2>1, <2>2, <3>1, Attached
  <2>3. CASE /\ UNCHANGED <<view, currentSession, deliberateClose, remembered>>
             /\ UNCHANGED dialling /\ UNCHANGED chain
    BY <1>0, <2>1, <2>3, Elsewhere, FlatNetwork DEF HeldOK
  <2> QED BY <1>6, <2>2, <2>3 DEF Started
<1>7. CASE Reload
  <2>1. /\ view' = "list" /\ currentSession' = None /\ ws' = None /\ timers' = 0 /\ handle' = 0
        /\ state' = [s \in Socket |-> "none"] /\ target' = [s \in Socket |-> None]
        /\ loop' = "idle" /\ raced' = FALSE /\ late' = FALSE /\ cameOnline' = FALSE
        /\ deliberateClose' = FALSE /\ awaiting' = {"start"} /\ UNCHANGED <<remembered, defined, onLine>>
    BY <1>7 DEF Reload
  <2>2. CountOK' /\ ListInv'
    BY <2>1, BoundAssumption DEF CountOK, ListInv
  <2>3. HeldOK'
    BY <1>0, <2>1 DEF HeldOK
  <2>4. Alive' = {}
    BY <2>1 DEF Alive
  <2>5. \A s \in Socket : state'[s] = "none"
    BY <2>1
  <2>6. OneChain' /\ StopsTheLoop'
    BY <2>1, <2>4 DEF OneChain, StopsTheLoop, Stopped
  <2>7. NewestInv' /\ DialInv'
    BY <2>1, <2>4, <2>5 DEF NewestInv, DialInv
  <2> QED BY <2>2, <2>3, <2>6, <2>7 DEF Inv
<1>8. ASSUME NEW s \in Socket, SocketOpens(s) \/ SocketCloses(s) PROVE Inv'
  BY <1>8, Moved
<1>9. ASSUME NEW s \in Socket, NEW code \in {1000, 1008, 1006}, OnClose(s, code) PROVE Inv'
  BY <1>9, Closed
<1>10. CASE TimerFires
  BY <1>10, FiredOnSession, FiredOnList
<1>11. CASE ComesBack
  <2>1. ReconnectNow /\ UNCHANGED page /\ UNCHANGED <<defined, onLine, cameOnline>>
    BY <1>11, FlatNetwork DEF ComesBack
  <2> QED BY <1>0, <2>1, Reconnected DEF HeldOK
<1>12. CASE OnlineEvent
  <2>1. ReconnectNow /\ UNCHANGED page /\ UNCHANGED <<defined, onLine>> /\ cameOnline' = FALSE
    BY <1>12 DEF OnlineEvent
  <2> QED BY <2>1, Reconnected
<1>13. CASE NetworkChanges
  <2>1. /\ UNCHANGED page /\ UNCHANGED defined /\ UNCHANGED dialling /\ UNCHANGED chain
        /\ onLine' = ~onLine /\ cameOnline' = (cameOnline \/ onLine')
    BY <1>13 DEF NetworkChanges
  <2>2. onLine' \in BOOLEAN /\ cameOnline' \in BOOLEAN /\ (~onLine' \/ cameOnline')
    BY <1>0, <2>1 DEF HeldOK
  <2> QED BY <1>0, <2>1, <2>2, Elsewhere, FlatPage DEF HeldOK
<1>14. CASE UNCHANGED vars
  <2>1. UNCHANGED page /\ UNCHANGED network /\ UNCHANGED dialling /\ UNCHANGED chain
    BY <1>14 DEF vars
  <2> QED BY <1>0, <2>1, Elsewhere, FlatPage, FlatNetwork DEF HeldOK
<1> QED
  BY <1>1, <1>2, <1>3, <1>4, <1>5, <1>6, <1>7, <1>8, <1>9, <1>10, <1>11, <1>12, <1>13, <1>14
  DEF Next

\* The invariant, on which the rest depends.
THEOREM Invariance == Spec => []Inv
BY InitInv, NextInv, PTL DEF Spec

\* A page that has left a session holds no timer, and on the list no socket (detach),
\* beside the types.
THEOREM ListHoldsNothing == Spec => []TypeOK
<1>1. Inv => TypeOK
  BY TypeParts DEF Inv
<1> QED BY Invariance, <1>1, PTL

\* There is at most one timer, and none beside the newest socket, until a socket of
\* before drops; and one socket or one timer, unless attach or reconnectNow dialled
\* beside a socket that was alive (connect, scheduleReconnect).
THEOREM ChainIsSingle == Spec => []OneChain
<1>1. Inv => OneChain
  BY DEF Inv
<1> QED BY Invariance, <1>1, PTL

\* Without such a race the terminal is connected to the session on the screen
\* (attach, detach).
THEOREM ScreenIsCurrent == Spec => []OnlyCurrent
<1>1. Inv => OnlyCurrent
  BY DEF Inv, NewestInv, OnlyCurrent
<1> QED BY Invariance, <1>1, PTL

\* And after a 1000 or 1008 of the session's own socket nothing dials by itself, whatever
\* was dialled beside whatever, until a socket of before drops (onclose).
THEOREM LoopStops == Spec => []StopsTheLoop
<1>1. Inv => StopsTheLoop
  BY DEF Inv
<1> QED BY Invariance, <1>1, PTL

\* With or without a race, a page that has dialled for its session has something that
\* will dial, unless the daemon ended the loop (onclose, scheduleReconnect, the online
\* listener).
THEOREM NobodyIsStranded == Spec => []NeverStranded
<1>1. Inv => NeverStranded
  BY DEF Inv, HeldOK, DialInv, NeverStranded, Pending, Stopped
<1> QED BY Invariance, <1>1, PTL

\* What localStorage holds follows the screen: of all close events only the 1000 of the
\* session's own socket, and that of a socket of before, make the page forget its session
\* (rememberSession, forgetSession).
THEOREM MemoryFollows == Spec => Remembered
<1> USE NoneAssumption, SocketAssumption
<1>1. ASSUME Inv, [Next]_vars, remembered' # remembered
      PROVE  \/ remembered' = currentSession'
             \/ remembered' = None /\ loop # "ended" /\ loop' = "ended"
             \/ remembered' = None /\ LateClose
  <2>1. ASSUME NEW s \in Socket, NEW code \in {1000, 1008, 1006}, OnClose(s, code)
        PROVE  remembered' = None /\ ((loop # "ended" /\ loop' = "ended") \/ LateClose)
    <3>1. remembered' = None /\ ~deliberateClose /\ code = 1000
      BY <1>1, <2>1 DEF OnClose
    <3>2. s \in Alive /\ s \notin Alive'
      BY <1>1, <2>1 DEF OnClose, Alive, Inv, HeldOK
    <3>3. CASE Own(s)
      <4>1. loop' = "ended"
        BY <2>1, <3>1, <3>3 DEF OnClose, LoopAfter
      <4>2. loop # "ended"
        BY <1>1, <3>2, <3>3 DEF Inv, StopsTheLoop, Stopped, Own
      <4> QED BY <3>1, <4>1, <4>2
    <3>4. CASE ~Own(s)
      BY <3>1, <3>2, <3>4 DEF LateClose
    <3> QED BY <3>3, <3>4
  <2>2. CASE \E name \in Session : UserAttaches(name) \/ Created(name)
    BY <2>2 DEF UserAttaches, Created, Attach
  <2>3. CASE UserDetaches \/ Killed
    BY <2>3 DEF UserDetaches, Killed, Detach
  <2>4. CASE Started
    BY <1>1, <2>4 DEF Started, Attach
  <2>5. CASE \/ \E what \in {"create", "kill"} : UserAsks(what) \/ Refused(what)
             \/ Reload \/ \E s \in Socket : SocketOpens(s) \/ SocketCloses(s)
             \/ TimerFires \/ ComesBack \/ OnlineEvent \/ NetworkChanges
             \/ UNCHANGED vars
    BY <1>1, <2>5 DEF UserAsks, Refused, Reload, SocketOpens, SocketCloses, TimerFires, ComesBack,
                      OnlineEvent, NetworkChanges, page, vars
  <2> QED BY <1>1, <2>1, <2>2, <2>3, <2>4, <2>5 DEF Next
<1>2. Inv /\ [Next]_vars
        => [remembered' # remembered =>
              \/ remembered' = currentSession'
              \/ remembered' = None /\ loop # "ended" /\ loop' = "ended"
              \/ remembered' = None /\ LateClose]_vars
  BY <1>1
<1> QED BY Invariance, <1>2, PTL DEF Spec, Remembered

---------------------------------------------------------------------------
(* Page: the inductive invariant.                                          *)

LoadType ==
    [then : {"idle", "start", "nothing", "attach"}, name : Session \cup {None},
     reply : {"asked", "listed", "forbidden"}, names : SUBSET Session]

\* The type invariant in three parts.
FlagsOK ==
    /\ known \in BOOLEAN /\ url \in BOOLEAN /\ defined \in BOOLEAN /\ unpaired \in BOOLEAN
    /\ cut \in BOOLEAN /\ paired \in BOOLEAN /\ overlapped \in BOOLEAN

HeldOnPage ==
    /\ exists \subseteq Session /\ remembered \in Session \cup {None}
    /\ view \in {"list", "term"}
    /\ status \in {"", "pairing failed", "loading", "unpaired", "unreachable", "no sessions"}
    /\ rows \in [Session -> Nat] /\ knownSessions \subseteq Session
    /\ pairing \in {"idle", "asked", "ok", "refused"}
    /\ asking \in {"idle", "asked", "forbidden", "known"}
    /\ creating \in Session \cup {None}
    /\ loads \in [Load -> LoadType]
    /\ posts \in Nat

StartWaits ==
    /\ start \in {"redeem", "me", "list", "threw", "over"}
    /\ start = "redeem" <=> pairing # "idle"
    /\ start = "me" <=> asking # "idle"
    /\ start = "list" <=> \E l \in Load : loads[l].then = "start"

\* start waits for one load only.
OneStart == \A l, m \in Load : loads[l].then = "start" /\ loads[m].then = "start" => l = m

\* A load that nothing overlaps is the only one, and the list it will find is empty.
LoadsAlone ==
    ~overlapped => (\A l, m \in UnderWay : l = m) /\ (UnderWay # {} => rows = NoRows)

\* The part of ListAgrees that is not about types.
OneAnswer ==
    ~overlapped =>
        /\ \A s \in Session : rows[s] = 0 \/ (rows[s] = 1 /\ s \in knownSessions)
        /\ status = "" => \A s \in knownSessions : rows[s] = 1
        /\ status \notin {"", "pairing failed"} => rows = NoRows
        /\ start = "over" /\ rows = NoRows => status # ""

\* The address has lost its code before anything is awaited.
CodeGone == url = FALSE /\ posts \in {0, 1}

\* A page that has paired is known to the daemon, which has not said otherwise.
PairedHolds == paired => known /\ asking # "forbidden"

PageInv ==
    /\ FlagsOK /\ HeldOnPage /\ StartWaits /\ OneStart
    /\ LoadsAlone /\ OneAnswer /\ CodeGone /\ PairedHolds

LEMMA PageTypeParts == PageTypeOK <=> FlagsOK /\ HeldOnPage /\ StartWaits
BY DEF PageTypeOK, FlagsOK, HeldOnPage, StartWaits, LoadType

LEMMA PageInitInv == PageInit => PageInv
<1> SUFFICES ASSUME PageInit PROVE PageInv
  OBVIOUS
<1> USE NoneAssumption, DefinedAssumption DEF PageInit
<1>1. /\ NoRows \in [Session -> Nat] /\ \A s \in Session : NoRows[s] = 0
      /\ Idle \in LoadType /\ Idle.then = "idle"
  BY DEF NoRows, Idle, LoadType
<1>2. /\ loads \in [Load -> LoadType] /\ UnderWay = {}
      /\ \A l \in Load : loads[l].then = "idle"
  BY <1>1 DEF UnderWay
<1>3. FlagsOK /\ HeldOnPage
  BY <1>1, <1>2 DEF FlagsOK, HeldOnPage
<1>4. StartWaits /\ OneStart /\ LoadsAlone
  BY <1>2 DEF StartWaits, OneStart, LoadsAlone
<1>5. OneAnswer
  BY <1>1 DEF OneAnswer
<1>6. CodeGone /\ PairedHolds
  BY DEF CodeGone, PairedHolds
<1> QED BY <1>3, <1>4, <1>5, <1>6 DEF PageInv

\* What loadSessions up to its await does to the list and to the loads under way.
LEMMA BeginLoadFacts ==
    ASSUME PageInv, NEW then \in {"start", "nothing", "attach"}, NEW name \in Session \cup {None},
           BeginLoad(then, name), then = "start" => start # "list"
    PROVE  /\ loads' \in [Load -> LoadType]
           /\ rows' = NoRows /\ status' = "loading" /\ knownSessions' = knownSessions
           /\ overlapped' \in BOOLEAN
           /\ (\E l \in Load : loads'[l].then = "start")
                 <=> then = "start" \/ \E l \in Load : loads[l].then = "start"
           /\ OneStart' /\ LoadsAlone' /\ OneAnswer'
<1> DEFINE entry == [then |-> then, name |-> name, reply |-> "asked", names |-> {}]
<1>1. PICK l \in Load \ UnderWay :
          /\ status' = "loading" /\ rows' = NoRows
          /\ loads' = [loads EXCEPT ![l] = entry]
          /\ overlapped' = (UnderWay # {})
          /\ UNCHANGED knownSessions
  BY DEF BeginLoad
<1>2. /\ loads \in [Load -> LoadType] /\ StartWaits /\ OneStart /\ LoadsAlone
      /\ loads[l].then = "idle"
  BY <1>1 DEF PageInv, HeldOnPage, UnderWay
<1>3. entry \in LoadType /\ entry.then = then
  BY DEF LoadType
<1>4. /\ loads' \in [Load -> LoadType] /\ loads'[l].then = then
      /\ \A m \in Load : m # l => loads'[m] = loads[m]
  BY <1>1, <1>2, <1>3
<1>5. UnderWay' = UnderWay \cup {l}
  BY <1>4 DEF UnderWay
<1>6. (\E m \in Load : loads'[m].then = "start")
         <=> then = "start" \/ \E m \in Load : loads[m].then = "start"
  BY <1>2, <1>4
<1>7. OneStart'
  BY <1>2, <1>4 DEF OneStart, StartWaits
<1>8. LoadsAlone'
  BY <1>1, <1>5 DEF LoadsAlone
<1>9. OneAnswer'
  BY <1>1 DEF OneAnswer, NoRows
<1> QED BY <1>1, <1>4, <1>6, <1>7, <1>8, <1>9

\* An action that leaves the loads and the list alone.
LEMMA ListUntouched ==
    ASSUME PageInv, UNCHANGED <<list, loads, overlapped>>, start' = "over" => start = "over"
    PROVE  OneStart' /\ LoadsAlone' /\ OneAnswer'
BY DEF PageInv, list, OneStart, LoadsAlone, OneAnswer, UnderWay

LEMMA PageOpened ==
    ASSUME PageInv, NEW code \in BOOLEAN, Opened(code), posts' \in {0, 1}
    PROVE  PageInv'
<1>0. posts' \in Nat
  OBVIOUS
<1> USE DEF Opened, Strip, Begin
<1>1. /\ NoRows \in [Session -> Nat] /\ \A s \in Session : NoRows[s] = 0
      /\ Idle \in LoadType /\ Idle.then = "idle"
  BY NoneAssumption DEF NoRows, Idle, LoadType
<1>2. /\ loads' \in [Load -> LoadType] /\ UnderWay' = {}
      /\ \A l \in Load : loads'[l].then = "idle"
  BY <1>1 DEF UnderWay
<1>3. FlagsOK' /\ HeldOnPage'
  <2>1. FlagsOK /\ HeldOnPage
    BY DEF PageInv
  <2>2. UNCHANGED <<known, exists, remembered, defined>>
    BY DEF desktop
  <2>3. FlagsOK'
    BY <2>1, <2>2 DEF FlagsOK
  <2>4. pairing' \in {"idle", "asked"} /\ asking' \in {"idle", "asked"}
    OBVIOUS
  <2>5. HeldOnPage'
    BY <1>0, <1>1, <1>2, <2>1, <2>2, <2>4 DEF HeldOnPage
  <2> QED BY <2>3, <2>5
<1>4. StartWaits' /\ OneStart' /\ LoadsAlone'
  BY <1>2 DEF StartWaits, OneStart, LoadsAlone
<1>5. OneAnswer'
  BY <1>1 DEF OneAnswer
<1>6. CodeGone' /\ PairedHolds'
  BY DEF CodeGone, PairedHolds
<1> QED BY <1>3, <1>4, <1>5, <1>6 DEF PageInv

\* An answer about the list, landing.
LEMMA LoadLandsFacts ==
    ASSUME PageInv, NEW l \in Load, LoadLands(l)
    PROVE  /\ loads' \in [Load -> LoadType]
           /\ StartWaits' /\ OneStart' /\ LoadsAlone'
           /\ start \in {"redeem", "me"} => start' = start
<1>1. /\ loads \in [Load -> LoadType] /\ StartWaits /\ OneStart /\ LoadsAlone
      /\ loads' = [loads EXCEPT ![l] = Idle] /\ UNCHANGED <<pairing, asking, overlapped>>
      /\ GoOn(loads[l].then, loads[l].name) /\ l \in UnderWay
  BY DEF PageInv, HeldOnPage, LoadLands
<1>2. Idle \in LoadType /\ Idle.then = "idle"
  BY DEF Idle, LoadType
<1>3. /\ loads' \in [Load -> LoadType] /\ loads'[l].then = "idle"
      /\ \A m \in Load : m # l => loads'[m] = loads[m]
  BY <1>1, <1>2
<1>4. UnderWay' = UnderWay \ {l}
  BY <1>1, <1>3 DEF UnderWay
<1>5. /\ loads[l].then = "start" => start' = "over"
      /\ loads[l].then # "start" => start' = start
  BY <1>1 DEF GoOn
<1>6. StartWaits'
  <2>1. CASE loads[l].then = "start"
    <3>1. start = "list" /\ pairing = "idle" /\ asking = "idle"
      BY <1>1, <2>1 DEF StartWaits
    <3>2. \A m \in Load : loads'[m].then # "start"
      BY <1>1, <1>3, <2>1 DEF OneStart
    <3> QED BY <1>1, <1>5, <2>1, <3>1, <3>2 DEF StartWaits
  <2>2. CASE loads[l].then # "start"
    <3>1. (\E m \in Load : loads'[m].then = "start") <=> (\E m \in Load : loads[m].then = "start")
      BY <1>3, <2>2
    <3> QED BY <1>1, <1>5, <2>2, <3>1 DEF StartWaits
  <2> QED BY <2>1, <2>2
<1>7. OneStart'
  BY <1>1, <1>3 DEF OneStart
<1>8. LoadsAlone'
  BY <1>1, <1>4 DEF LoadsAlone
<1>9. start \in {"redeem", "me"} => start' = start
  BY <1>1, <1>5 DEF StartWaits
<1> QED BY <1>3, <1>6, <1>7, <1>8, <1>9

LEMMA PageNextInv == PageInv /\ [PageNext]_pageVars => PageInv'
<1> SUFFICES ASSUME PageInv, [PageNext]_pageVars PROVE PageInv'
  OBVIOUS
<1>0. /\ FlagsOK /\ HeldOnPage /\ StartWaits /\ OneStart /\ LoadsAlone /\ OneAnswer /\ CodeGone
      /\ PairedHolds
  BY DEF PageInv
<1>1. CASE Scan
  BY <1>1, PageOpened DEF Scan
<1>2. CASE PageReload
  <2>1. url = FALSE /\ posts' \in {0, 1}
    BY <1>0, <1>2 DEF PageReload, CodeGone
  <2> QED BY <1>2, <2>1, PageOpened DEF PageReload
<1>3. CASE PairAnswered
  <2> USE <1>3 DEF PairAnswered
  <2>1. FlagsOK' /\ HeldOnPage'
    <3>1. FlagsOK'
      BY <1>0 DEF FlagsOK, screen
    <3>2. HeldOnPage'
      BY <1>0 DEF HeldOnPage, screen, list
    <3> QED BY <3>1, <3>2
  <2>2. StartWaits'
    BY <1>0 DEF StartWaits
  <2>3. OneStart' /\ LoadsAlone' /\ OneAnswer'
    BY ListUntouched
  <2>4. CodeGone'
    BY <1>0 DEF CodeGone
  <2>5. PairedHolds'
    BY <1>0 DEF HeldOnPage, StartWaits, PairedHolds
  <2> QED BY <2>1, <2>2, <2>3, <2>4, <2>5 DEF PageInv
<1>4. CASE PairLands
  <2> USE <1>4 DEF PairLands
  <2>1. FlagsOK' /\ HeldOnPage'
    <3>1. FlagsOK'
      BY <1>0 DEF FlagsOK, desktop, screen, history
    <3>2. HeldOnPage'
      BY <1>0 DEF HeldOnPage, desktop, screen, history
    <3> QED BY <3>1, <3>2
  <2>2. StartWaits'
    BY <1>0 DEF StartWaits
  <2>3. OneStart' /\ LoadsAlone'
    BY <1>0 DEF OneStart, LoadsAlone, UnderWay
  <2>4. OneAnswer'
    BY <1>0 DEF OneAnswer
  <2>5. CodeGone' /\ PairedHolds'
    BY <1>0 DEF CodeGone, PairedHolds, history, desktop
  <2> QED BY <2>1, <2>2, <2>3, <2>4, <2>5 DEF PageInv
<1>5. CASE MeAnswered
  <2> USE <1>5 DEF MeAnswered
  <2>1. FlagsOK' /\ HeldOnPage'
    <3>1. FlagsOK'
      BY <1>0 DEF FlagsOK, desktop, screen, history
    <3>2. HeldOnPage'
      BY <1>0 DEF HeldOnPage, desktop, screen, list, history
    <3> QED BY <3>1, <3>2
  <2>2. StartWaits'
    BY <1>0 DEF StartWaits
  <2>3. OneStart' /\ LoadsAlone' /\ OneAnswer'
    BY ListUntouched
  <2>4. CodeGone' /\ PairedHolds'
    BY <1>0 DEF CodeGone, PairedHolds, history, desktop
  <2> QED BY <2>1, <2>2, <2>3, <2>4 DEF PageInv
<1>6. CASE MeLands
  <2>1. /\ asking # "idle" /\ asking' = "idle" /\ paired' = FALSE
        /\ UNCHANGED <<known, exists, url, remembered, defined, view, pairing, cut, creating, posts>>
        /\ \E u \in BOOLEAN : KnowAndList(u)
    BY <1>0, <1>6 DEF MeLands, FlagsOK, desktop, screen
  <2>2. start = "me" /\ pairing = "idle" /\ \A l \in Load : loads[l].then # "start"
    BY <1>0, <2>1 DEF StartWaits
  <2>3. CodeGone' /\ PairedHolds'
    BY <1>0, <2>1 DEF CodeGone, PairedHolds
  <2>4. CASE KnowAndList(TRUE)
    <3>1. /\ unpaired' = TRUE /\ start' = "threw"
          /\ UNCHANGED <<list, loads, overlapped>>
      BY <2>4 DEF KnowAndList
    <3>2. FlagsOK' /\ HeldOnPage'
      <4>1. FlagsOK'
        BY <1>0, <2>1, <3>1 DEF FlagsOK
      <4>2. HeldOnPage'
        BY <1>0, <2>1, <3>1 DEF HeldOnPage, list
      <4> QED BY <4>1, <4>2
    <3>3. StartWaits'
      BY <2>1, <2>2, <3>1 DEF StartWaits
    <3>4. OneStart' /\ LoadsAlone' /\ OneAnswer'
      BY <3>1, ListUntouched
    <3> QED BY <2>3, <3>2, <3>3, <3>4 DEF PageInv
  <2>5. CASE KnowAndList(FALSE)
    <3>1. unpaired' = FALSE /\ start' = "list" /\ BeginLoad("start", None)
      BY <2>5 DEF KnowAndList
    <3>2. /\ loads' \in [Load -> LoadType]
          /\ rows' = NoRows /\ status' = "loading" /\ knownSessions' = knownSessions
          /\ overlapped' \in BOOLEAN
          /\ \E l \in Load : loads'[l].then = "start"
          /\ OneStart' /\ LoadsAlone' /\ OneAnswer'
      BY <2>2, <3>1, BeginLoadFacts
    <3>3. FlagsOK' /\ HeldOnPage'
      <4>1. FlagsOK'
        BY <1>0, <2>1, <3>1, <3>2 DEF FlagsOK
      <4>2. HeldOnPage'
        BY <1>0, <2>1, <3>1, <3>2 DEF HeldOnPage, NoRows
      <4> QED BY <4>1, <4>2
    <3>4. StartWaits'
      BY <2>1, <2>2, <3>1, <3>2 DEF StartWaits
    <3> QED BY <2>3, <3>2, <3>3, <3>4 DEF PageInv
  <2> QED BY <2>1, <2>4, <2>5
<1>7. ASSUME NEW l \in Load, LoadAnswered(l)
      PROVE  PageInv'
  <2>1. /\ loads' \in [Load -> LoadType] /\ \A m \in Load : loads'[m].then = loads[m].then
        /\ UNCHANGED <<desktop, url, remembered, screen, start, list, unpaired, pairing, asking, cut,
                       creating, history, overlapped>>
    <3>1. loads[l] \in LoadType /\ exists \subseteq Session /\ loads \in [Load -> LoadType]
      BY <1>0 DEF HeldOnPage
    <3>2. loads' = [loads EXCEPT ![l] = [loads[l] EXCEPT !.reply = "listed", !.names = exists]]
             \/ loads' = [loads EXCEPT ![l] = [loads[l] EXCEPT !.reply = "forbidden"]]
      BY <1>7 DEF LoadAnswered
    <3> QED BY <1>7, <3>1, <3>2 DEF LoadAnswered, LoadType
  <2>2. FlagsOK' /\ HeldOnPage'
    <3>1. FlagsOK'
      BY <1>0, <2>1 DEF FlagsOK, desktop, screen, history
    <3>2. HeldOnPage'
      BY <1>0, <2>1 DEF HeldOnPage, desktop, screen, list, history
    <3> QED BY <3>1, <3>2
  <2>3. StartWaits' /\ OneStart'
    BY <1>0, <2>1 DEF StartWaits, OneStart
  <2>4. UnderWay' = UnderWay
    BY <2>1 DEF UnderWay
  <2>5. LoadsAlone' /\ OneAnswer'
    BY <1>0, <2>1, <2>4 DEF LoadsAlone, OneAnswer, list
  <2>6. CodeGone' /\ PairedHolds'
    BY <1>0, <2>1 DEF CodeGone, PairedHolds, history, desktop
  <2> QED BY <2>2, <2>3, <2>5, <2>6 DEF PageInv
<1>8. ASSUME NEW l \in Load, LoadLands(l)
      PROVE  PageInv'
  <2>1. /\ loads' \in [Load -> LoadType] /\ StartWaits' /\ OneStart' /\ LoadsAlone'
    BY <1>8, LoadLandsFacts
  <2>2. /\ l \in UnderWay /\ loads[l] \in LoadType
        /\ GoOn(loads[l].then, loads[l].name)
        /\ UNCHANGED <<known, exists, url, defined, unpaired, pairing, asking, cut, creating, posts,
                       paired, overlapped>>
    BY <1>0, <1>8 DEF LoadLands, HeldOnPage, desktop, history
  <2>3. /\ \A s \in Session : NoRows[s] = 0
        /\ rows \in [Session -> Nat] /\ NoRows \in [Session -> Nat]
    BY <1>0 DEF NoRows, HeldOnPage
  <2>4. \/ loads[l].names \subseteq Session /\ ShowSessions(loads[l].names)
        \/ ShowUnpaired
        \/ LoadFails
    BY <1>8, <2>2 DEF LoadLands, LoadType
  <2>5. FlagsOK' /\ HeldOnPage'
    <3>1. view' \in {"list", "term"} /\ remembered' \in Session \cup {None}
      BY <1>0, <2>2 DEF GoOn, PageAttach, HeldOnPage, LoadType
    <3>2. /\ rows' \in [Session -> Nat] /\ knownSessions' \subseteq Session
          /\ status' \in {"", "unpaired", "unreachable", "no sessions"}
      <4>1. CASE loads[l].names \subseteq Session /\ ShowSessions(loads[l].names)
        <5>1. /\ rows' = [s \in Session |-> IF s \in loads[l].names THEN rows[s] + 1 ELSE rows[s]]
              /\ knownSessions' = loads[l].names
          BY <4>1 DEF ShowSessions
        <5>2. rows' \in [Session -> Nat]
          BY <2>3, <5>1
        <5>3. status' \in {"", "no sessions"}
          BY <4>1 DEF ShowSessions
        <5> QED BY <4>1, <5>1, <5>2, <5>3
      <4>2. CASE ShowUnpaired
        BY <2>3, <4>2 DEF ShowUnpaired
      <4>3. CASE LoadFails
        BY <1>0, <4>3 DEF LoadFails, HeldOnPage
      <4> QED BY <2>4, <4>1, <4>2, <4>3
    <3>3. FlagsOK'
      BY <1>0, <2>2 DEF FlagsOK
    <3>4. HeldOnPage'
      BY <1>0, <2>1, <2>2, <3>1, <3>2 DEF HeldOnPage
    <3> QED BY <3>3, <3>4
  <2>6. OneAnswer'
    <3> SUFFICES ASSUME ~overlapped PROVE OneAnswer'
      BY <2>2 DEF OneAnswer
    <3>1. rows = NoRows
      BY <1>0, <2>2 DEF LoadsAlone
    <3>2. CASE loads[l].names \subseteq Session /\ ShowSessions(loads[l].names)
      <4>0. rows' = [s \in Session |-> IF s \in loads[l].names THEN rows[s] + 1 ELSE rows[s]]
        BY <3>2 DEF ShowSessions
      <4>1. \A s \in Session : rows'[s] = IF s \in loads[l].names THEN 1 ELSE 0
        BY <2>3, <3>1, <4>0
      <4>2. /\ knownSessions' = loads[l].names
            /\ loads[l].names = {} => status' = "no sessions"
            /\ loads[l].names # {} => status' = ""
        BY <3>2 DEF ShowSessions
      <4>3. CASE loads[l].names = {}
        <5>1. rows' = NoRows
          BY <3>1, <4>0, <4>3 DEF NoRows
        <5> QED BY <2>3, <4>2, <4>3, <5>1 DEF OneAnswer
      <4>4. CASE loads[l].names # {}
        <5>1. rows' # NoRows
          BY <2>3, <3>2, <4>1, <4>4
        <5> QED BY <3>2, <4>1, <4>2, <4>4, <5>1 DEF OneAnswer
      <4> QED BY <4>3, <4>4
    <3>3. CASE ShowUnpaired
      BY <2>3, <3>3 DEF ShowUnpaired, OneAnswer
    <3>4. CASE LoadFails
      BY <2>3, <3>1, <3>4 DEF LoadFails, OneAnswer
    <3> QED BY <2>4, <3>2, <3>3, <3>4
  <2>7. CodeGone' /\ PairedHolds'
    BY <1>0, <2>2 DEF CodeGone, PairedHolds
  <2> QED BY <2>1, <2>5, <2>6, <2>7 DEF PageInv
<1>9. CASE Refresh
  <2>1. /\ BeginLoad("nothing", None)
        /\ UNCHANGED <<known, exists, url, remembered, defined, view, start, unpaired, pairing, asking,
                       cut, creating, posts, paired>>
    BY <1>9 DEF Refresh, desktop, screen, history
  <2>2. /\ loads' \in [Load -> LoadType]
        /\ rows' = NoRows /\ status' = "loading" /\ knownSessions' = knownSessions
        /\ overlapped' \in BOOLEAN
        /\ (\E l \in Load : loads'[l].then = "start") <=> (\E l \in Load : loads[l].then = "start")
        /\ OneStart' /\ LoadsAlone' /\ OneAnswer'
    BY <2>1, BeginLoadFacts
  <2>3. FlagsOK' /\ HeldOnPage'
    <3>1. FlagsOK'
      BY <1>0, <2>1, <2>2 DEF FlagsOK
    <3>2. HeldOnPage'
      BY <1>0, <2>1, <2>2 DEF HeldOnPage, NoRows
    <3> QED BY <3>1, <3>2
  <2>4. StartWaits' /\ CodeGone' /\ PairedHolds'
    BY <1>0, <2>1, <2>2 DEF StartWaits, CodeGone, PairedHolds
  <2> QED BY <2>2, <2>3, <2>4 DEF PageInv
<1>10. CASE PageDetach
  <2>1. /\ remembered' = None
        /\ UNCHANGED <<known, exists, url, defined, start, unpaired, pairing, asking, cut, creating,
                       posts, paired>>
    BY <1>10 DEF PageDetach, desktop, history
  <2>2. CodeGone' /\ PairedHolds'
    BY <1>0, <2>1 DEF CodeGone, PairedHolds
  <2>3. CASE defined
    <3>1. view' = "list" /\ BeginLoad("nothing", None)
      BY <1>10, <2>3 DEF PageDetach
    <3>2. /\ loads' \in [Load -> LoadType]
          /\ rows' = NoRows /\ status' = "loading" /\ knownSessions' = knownSessions
          /\ overlapped' \in BOOLEAN
          /\ (\E l \in Load : loads'[l].then = "start") <=> (\E l \in Load : loads[l].then = "start")
          /\ OneStart' /\ LoadsAlone' /\ OneAnswer'
      BY <3>1, BeginLoadFacts
    <3>3. FlagsOK' /\ HeldOnPage'
      <4>1. FlagsOK'
        BY <1>0, <2>1, <3>1, <3>2 DEF FlagsOK
      <4>2. HeldOnPage'
        BY <1>0, <2>1, <3>1, <3>2 DEF HeldOnPage, NoRows
      <4> QED BY <4>1, <4>2
    <3>4. StartWaits'
      BY <1>0, <2>1, <3>2 DEF StartWaits
    <3> QED BY <2>2, <3>2, <3>3, <3>4 DEF PageInv
  <2>4. CASE ~defined
    <3>1. UNCHANGED <<view, list, loads, overlapped>>
      BY <1>10, <2>4 DEF PageDetach
    <3>2. FlagsOK' /\ HeldOnPage' /\ StartWaits'
      <4>1. FlagsOK'
        BY <1>0, <2>1, <3>1 DEF FlagsOK
      <4>2. HeldOnPage'
        BY <1>0, <2>1, <3>1 DEF HeldOnPage, list
      <4>3. StartWaits'
        BY <1>0, <2>1, <3>1 DEF StartWaits
      <4> QED BY <4>1, <4>2, <4>3
    <3>3. OneStart' /\ LoadsAlone' /\ OneAnswer'
      BY <2>1, <3>1, ListUntouched
    <3> QED BY <2>2, <3>2, <3>3 DEF PageInv
  <2> QED BY <2>3, <2>4
<1>11. CASE CutOff \/ CutLands
  <2>1. /\ cut' \in BOOLEAN /\ unpaired' \in BOOLEAN
        /\ UNCHANGED <<desktop, url, remembered, screen, start, list, pairing, asking, creating, loads,
                       history, overlapped>>
    BY <1>0, <1>11 DEF CutOff, CutLands, FlagsOK
  <2>2. FlagsOK' /\ HeldOnPage' /\ StartWaits'
    <3>1. FlagsOK'
      BY <1>0, <2>1 DEF FlagsOK, desktop, screen, history
    <3>2. HeldOnPage'
      BY <1>0, <2>1 DEF HeldOnPage, desktop, screen, list, history
    <3>3. StartWaits'
      BY <1>0, <2>1 DEF StartWaits
    <3> QED BY <3>1, <3>2, <3>3
  <2>3. OneStart' /\ LoadsAlone' /\ OneAnswer'
    BY <2>1, ListUntouched
  <2>4. CodeGone' /\ PairedHolds'
    BY <1>0, <2>1 DEF CodeGone, PairedHolds, history, desktop
  <2> QED BY <2>2, <2>3, <2>4 DEF PageInv
<1>12. CASE PageCreated
  <2>1. /\ creating \in Session /\ creating' = None /\ exists' \subseteq Session
        /\ UNCHANGED <<known, url, remembered, defined, view, start, unpaired, pairing, asking, cut,
                       posts, paired>>
        /\ BeginLoad("attach", creating) \/ UNCHANGED <<list, loads, overlapped>>
    BY <1>0, <1>12 DEF PageCreated, HeldOnPage, screen, history
  <2>2. CodeGone' /\ PairedHolds'
    BY <1>0, <2>1 DEF CodeGone, PairedHolds
  <2>3. CASE BeginLoad("attach", creating)
    <3>1. /\ loads' \in [Load -> LoadType]
          /\ rows' = NoRows /\ status' = "loading" /\ knownSessions' = knownSessions
          /\ overlapped' \in BOOLEAN
          /\ (\E l \in Load : loads'[l].then = "start") <=> (\E l \in Load : loads[l].then = "start")
          /\ OneStart' /\ LoadsAlone' /\ OneAnswer'
      BY <2>1, <2>3, BeginLoadFacts
    <3>2. FlagsOK' /\ HeldOnPage'
      <4>1. FlagsOK'
        BY <1>0, <2>1, <3>1 DEF FlagsOK
      <4>2. HeldOnPage'
        BY <1>0, <2>1, <3>1 DEF HeldOnPage, NoRows
      <4> QED BY <4>1, <4>2
    <3>3. StartWaits'
      BY <1>0, <2>1, <3>1 DEF StartWaits
    <3> QED BY <2>2, <3>1, <3>2, <3>3 DEF PageInv
  <2>4. CASE UNCHANGED <<list, loads, overlapped>>
    <3>1. FlagsOK' /\ HeldOnPage' /\ StartWaits'
      <4>1. FlagsOK'
        BY <1>0, <2>1, <2>4 DEF FlagsOK
      <4>2. HeldOnPage'
        BY <1>0, <2>1, <2>4 DEF HeldOnPage, list
      <4>3. StartWaits'
        BY <1>0, <2>1, <2>4 DEF StartWaits
      <4> QED BY <4>1, <4>2, <4>3
    <3>2. OneStart' /\ LoadsAlone' /\ OneAnswer'
      BY <2>1, <2>4, ListUntouched
    <3> QED BY <2>2, <3>1, <3>2 DEF PageInv
  <2> QED BY <2>1, <2>3, <2>4
<1>13. ASSUME NEW name \in Session, Tap(name) \/ Submit(name)
       PROVE  PageInv'
  <2>1. /\ view' \in {"list", "term"} /\ remembered' \in Session \cup {None}
        /\ creating' \in Session \cup {None}
        /\ UNCHANGED <<desktop, url, defined, start, list, unpaired, pairing, asking, cut, loads,
                       history, overlapped>>
    BY <1>0, <1>13 DEF Tap, Submit, PageAttach, HeldOnPage, screen
  <2>2. FlagsOK' /\ HeldOnPage' /\ StartWaits'
    <3>1. FlagsOK'
      BY <1>0, <2>1 DEF FlagsOK, desktop, history
    <3>2. HeldOnPage'
      BY <1>0, <2>1 DEF HeldOnPage, desktop, list, history
    <3>3. StartWaits'
      BY <1>0, <2>1 DEF StartWaits
    <3> QED BY <3>1, <3>2, <3>3
  <2>3. OneStart' /\ LoadsAlone' /\ OneAnswer'
    BY <2>1, ListUntouched
  <2>4. CodeGone' /\ PairedHolds'
    BY <1>0, <2>1 DEF CodeGone, PairedHolds, history, desktop
  <2> QED BY <2>2, <2>3, <2>4 DEF PageInv
<1>14. CASE DesktopActs
  <2> USE <1>14 DEF DesktopActs
  <2>1. exists' \subseteq Session /\ known' \in BOOLEAN /\ paired' \in BOOLEAN
    BY <1>0 DEF FlagsOK, HeldOnPage
  <2>2. FlagsOK' /\ HeldOnPage' /\ StartWaits'
    <3>1. FlagsOK'
      BY <1>0, <2>1 DEF FlagsOK, screen
    <3>2. HeldOnPage'
      BY <1>0, <2>1 DEF HeldOnPage, screen, list
    <3>3. StartWaits'
      BY <1>0, <2>1 DEF StartWaits
    <3> QED BY <3>1, <3>2, <3>3
  <2>3. OneStart' /\ LoadsAlone' /\ OneAnswer'
    BY ListUntouched
  <2>4. CodeGone'
    BY <1>0 DEF CodeGone
  <2>5. PairedHolds'
    BY <1>0 DEF PairedHolds
  <2> QED BY <2>2, <2>3, <2>4, <2>5 DEF PageInv
<1>15. CASE UNCHANGED pageVars
  <2>1. UNCHANGED <<desktop, url, remembered, screen, start, list, unpaired, pairing, asking, cut,
                    creating, loads, history, overlapped>>
    BY <1>15 DEF pageVars
  <2>2. FlagsOK' /\ HeldOnPage' /\ StartWaits'
    <3>1. FlagsOK'
      BY <1>0, <2>1 DEF FlagsOK, desktop, screen, history
    <3>2. HeldOnPage'
      BY <1>0, <2>1 DEF HeldOnPage, desktop, screen, list, history
    <3>3. StartWaits'
      BY <1>0, <2>1 DEF StartWaits
    <3> QED BY <3>1, <3>2, <3>3
  <2>3. OneStart' /\ LoadsAlone' /\ OneAnswer'
    BY <2>1, ListUntouched
  <2>4. CodeGone' /\ PairedHolds'
    BY <1>0, <2>1 DEF CodeGone, PairedHolds, history, desktop
  <2> QED BY <2>2, <2>3, <2>4 DEF PageInv
<1> QED
  BY <1>1, <1>2, <1>3, <1>4, <1>5, <1>6, <1>7, <1>8, <1>9, <1>10, <1>11, <1>12, <1>13, <1>14, <1>15
  DEF PageNext

\* The invariant of every page.
THEOREM PageInvariance == PageSpec => []PageInv
BY PageInitInv, PageNextInv, PTL DEF PageSpec

\* One answer on the screen, for any number of sessions and of loads (loadSessions).
THEOREM ListShowsOneAnswer == PageSpec => []ListAgrees
<1>1. PageInv => ListAgrees
  BY PageTypeParts DEF PageInv, OneAnswer, ListAgrees
<1> QED BY <1>1, PageInvariance, PTL

\* A code is posted once (redeemPairingCode).
THEOREM CodeIsPostedOnce == PageSpec => []CodePostedOnce
<1>1. PageInv => CodePostedOnce
  BY DEF PageInv, CodeGone, CodePostedOnce
<1> QED BY <1>1, PageInvariance, PTL

\* Only MeLands takes start on from asking who this device is to the list or to its end.
LEMMA LeavesMe ==
    ASSUME PageInv, [PageNext]_pageVars, start = "me", start' \in {"list", "threw"}
    PROVE  MeLands
<1>1. CASE Scan \/ PageReload
  BY <1>1 DEF Scan, PageReload, Opened, Begin
<1>2. CASE PairAnswered \/ MeAnswered \/ Refresh \/ PageDetach \/ CutOff \/ CutLands \/ PageCreated
           \/ DesktopActs
  BY <1>2 DEF PairAnswered, MeAnswered, Refresh, PageDetach, CutOff, CutLands, PageCreated, DesktopActs
<1>3. CASE PairLands
  BY <1>3 DEF PairLands
<1>4. CASE \E l \in Load : LoadAnswered(l) \/ LoadLands(l)
  BY <1>4, LoadLandsFacts DEF LoadAnswered
<1>5. CASE \E name \in Session : Tap(name) \/ Submit(name)
  BY <1>5 DEF Tap, Submit
<1>6. CASE UNCHANGED pageVars
  BY <1>6 DEF pageVars
<1> QED BY <1>1, <1>2, <1>3, <1>4, <1>5, <1>6 DEF PageNext

\* A page that has paired is not told that it is not (start).
THEOREM PairingIsKnown == PageSpec => PairedIsKnown
<1>1. ASSUME PageInv, [PageNext]_pageVars, start = "me", start' \in {"list", "threw"}, paired, ~unpaired
      PROVE  ~unpaired'
  <2>1. MeLands
    BY <1>1, LeavesMe
  <2>2. unpaired = FALSE /\ asking # "forbidden"
    BY <1>1 DEF PageInv, FlagsOK, PairedHolds
  <2>3. KnowAndList(FALSE)
    BY <1>1, <2>1, <2>2 DEF MeLands
  <2> QED BY <2>3 DEF KnowAndList
<1>2. PageInv /\ [PageNext]_pageVars
         => [start = "me" /\ start' \in {"list", "threw"} /\ paired /\ ~unpaired => ~unpaired']_pageVars
  BY <1>1
<1> QED BY <1>2, PageInvariance, PTL DEF PageSpec, PairedIsKnown

\* What start resumes is of its own list (start).
THEOREM StartResumesListed == PageSpec => ResumesListed
<1> DEFINE Resumed(l) ==
      start = "list" /\ start' = "over" /\ view' # view /\ loads[l].then = "start" /\ status' # "unreachable"
        => loads[l].reply = "listed" /\ remembered \in loads[l].names
<1>1. ASSUME PageInv, [PageNext]_pageVars, NEW l \in Load,
             start = "list", start' = "over", view' # view, loads[l].then = "start",
             status' # "unreachable"
      PROVE  loads[l].reply = "listed" /\ remembered \in loads[l].names
  <2>1. PICK m \in Load : LoadLands(m)
    <3>1. CASE Scan \/ PageReload
      BY <1>1, <3>1 DEF Scan, PageReload, Opened, Begin
    <3>2. CASE PairAnswered \/ MeAnswered \/ Refresh \/ PageDetach \/ CutOff \/ CutLands \/ PageCreated
               \/ DesktopActs
      BY <1>1, <3>2
      DEF PairAnswered, MeAnswered, Refresh, PageDetach, CutOff, CutLands, PageCreated, DesktopActs
    <3>3. CASE PairLands
      BY <1>1, <3>3 DEF PairLands
    <3>4. CASE MeLands
      BY <1>1, <3>4 DEF MeLands, screen
    <3>5. CASE \E m \in Load : LoadAnswered(m)
      BY <1>1, <3>5 DEF LoadAnswered
    <3>6. CASE \E name \in Session : Tap(name) \/ Submit(name)
      BY <1>1, <3>6 DEF Tap, Submit
    <3>7. CASE UNCHANGED pageVars
      BY <1>1, <3>7 DEF pageVars
    <3> QED BY <1>1, <3>1, <3>2, <3>3, <3>4, <3>5, <3>6, <3>7 DEF PageNext
  <2>2. GoOn(loads[m].then, loads[m].name)
    BY <2>1 DEF LoadLands
  <2>3. loads[m].then = "start"
    BY <1>1, <2>2 DEF GoOn
  <2>4. m = l
    BY <1>1, <2>3 DEF PageInv, OneStart
  <2>5. remembered \in knownSessions'
    BY <1>1, <2>2, <2>3 DEF GoOn
  <2>6. loads[m].reply = "listed" /\ ShowSessions(loads[m].names)
    BY <1>1, <2>1, <2>5 DEF LoadLands, ShowUnpaired, LoadFails
  <2>7. knownSessions' = loads[m].names
    BY <2>6 DEF ShowSessions
  <2> QED BY <2>4, <2>5, <2>6, <2>7
<1>2. PageInv /\ [PageNext]_pageVars => [\A l \in Load : Resumed(l)]_pageVars
  BY <1>1
<1> QED BY <1>2, PageInvariance, PTL DEF PageSpec, ResumesListed
=============================================================================
