------------------------------- MODULE Client -------------------------------
(***************************************************************************)
(* The browser's side of an attach (webui/assets/app.js): which socket and *)
(* which timer the page holds, and what it does when one closes, when the  *)
(* network or the page comes back, and when the user goes from session to  *)
(* session.  Each action is one task of the browser's event loop, with the *)
(* calls it makes; the close event of a socket comes when it likes, after  *)
(* the variables it reads may have been set for another one.               *)
(*                                                                         *)
(* How long a backoff is does not matter: reconnectAttempt is left out.    *)
(*                                                                         *)
(* attach and detach name a function onResize that none of the page's      *)
(* scripts defines, and throw there: attach before it dials, detach before *)
(* it closes and goes back to the list.  Defined = {FALSE} is that page;   *)
(* TRUE is the one in which it is defined, and does nothing to this state. *)
(***************************************************************************)
EXTENDS Browser, Naturals

CONSTANTS Socket,     \* bound: sockets that can be alive at a time
          MaxTimers   \* bound: reconnect timers that can be pending at a time

ASSUME SocketAssumption == None \notin Socket
ASSUME BoundAssumption == MaxTimers \in Nat

VARIABLES
    currentSession,   \* the session attach was last called for, or None
    ws,               \* the newest socket, or None
    state,            \* of each socket: its readyState, "none" where it is over
    target,           \* of each socket: the session it is for
    timers,           \* how many reconnect timers are pending
    handle,           \* how many of them reconnectTimer knows: one at most
    deliberateClose,
    onLine,           \* navigator.onLine
    cameOnline,       \* an "online" event is queued
    awaiting,         \* async functions that will go on: start, create, kill
    \* History, for the properties:
    loop,             \* the page has not dialled for the session yet ("idle"), goes on
                      \* dialling ("going"), or its own socket closed with 1000 ("ended")
                      \* or 1008 ("refused")
    raced,            \* attach or reconnectNow came while a socket was alive
    late              \* a timer is pending, and a socket of before has set one with its drop

page == <<view, currentSession, deliberateClose, remembered, awaiting>>
network == <<defined, onLine, cameOnline>>
dialling == <<ws, state, target, timers, handle>>
chain == <<loop, raced, late>>
vars == <<page, network, dialling, chain>>

Init ==
    /\ defined \in Defined
    /\ view = "list" /\ currentSession = None /\ ws = None
    /\ state = [s \in Socket |-> "none"] /\ target = [s \in Socket |-> None]
    /\ timers = 0 /\ handle = 0
    /\ deliberateClose = FALSE /\ remembered = None
    /\ onLine = TRUE /\ cameOnline = FALSE
    /\ awaiting = {"start"}
    /\ loop = "idle" /\ raced = FALSE /\ late = FALSE

---------------------------------------------------------------------------
Alive == {s \in Socket : state[s] # "none"}

\* What clearTimeout(reconnectTimer) leaves; a timer whose handle was overwritten
\* cannot be cleared.
Uncleared == timers - handle

\* The socket of the session on the screen, as far as the page knows.
Own(s) == s = ws /\ target[s] = currentSession

\* connect, for a session, while n timers are pending besides reconnectTimer.
Connect(name, n) ==
    \E s \in Socket \ Alive :
        /\ ws' = s
        /\ state' = [state EXCEPT ![s] = "connecting"]
        /\ target' = [target EXCEPT ![s] = name]
        /\ timers' = n /\ handle' = 0
        /\ loop' = "going" /\ late' = (late /\ n > 0)

\* connect as attach calls it, if it gets there.
Dial(name) ==
    IF defined THEN Connect(name, Uncleared) ELSE loop' = "idle" /\ UNCHANGED <<dialling, late>>

\* Faulty variant, for NeverStranded: the page takes the next drop for its own.
AttachStillDeliberate(name) ==
    /\ view' = "term" /\ currentSession' = name
    /\ UNCHANGED deliberateClose
    /\ remembered' = name
    /\ Dial(name)
    /\ raced' = (raced \/ Alive # {})

\* attach, from the list or after an await.
Attach(name) ==
    /\ view' = "term" /\ currentSession' = name
    /\ deliberateClose' = FALSE
    /\ remembered' = name
    /\ Dial(name)
    /\ raced' = (raced \/ Alive # {})

\* Where detach goes back to the list, if it gets there.
Leave == IF defined THEN view' = "list" /\ ws' = None ELSE UNCHANGED <<view, ws>>

\* The newest socket begins to close, if it is not over.
Closing == [s \in Socket |-> IF defined /\ s = ws /\ s \in Alive THEN "closing" ELSE state[s]]

\* Faulty variant, for TypeOK: the timer goes on.
DetachUncleared ==
    /\ deliberateClose' = TRUE /\ currentSession' = None /\ remembered' = None
    /\ Leave /\ state' = Closing /\ loop' = "idle"
    /\ UNCHANGED <<target, timers, handle, raced, late>>

\* Faulty variant, for OnlyCurrent: the socket stays open.
DetachOpen ==
    /\ deliberateClose' = TRUE /\ currentSession' = None /\ remembered' = None
    /\ timers' = Uncleared /\ handle' = 0 /\ late' = (late /\ Uncleared > 0)
    /\ Leave /\ loop' = "idle"
    /\ UNCHANGED <<state, target, raced>>

\* detach.
Detach ==
    /\ deliberateClose' = TRUE /\ currentSession' = None /\ remembered' = None
    /\ timers' = Uncleared /\ handle' = 0 /\ late' = (late /\ Uncleared > 0)
    /\ Leave /\ state' = Closing /\ loop' = "idle"
    /\ UNCHANGED <<target, raced>>

\* scheduleReconnect, for a page that is on a session.
ScheduleReconnect ==
    IF currentSession = None \/ ~onLine THEN UNCHANGED <<timers, handle>>
    ELSE timers < MaxTimers /\ timers' = timers + 1 /\ handle' = 1

---------------------------------------------------------------------------
(* The user.                                                               *)

\* A row of the list.
UserAttaches(name) ==
    /\ view = "list"
    /\ Attach(name)
    /\ UNCHANGED <<awaiting, network>>

UserDetaches ==
    /\ view = "term"
    /\ Detach
    /\ UNCHANGED <<awaiting, network>>

\* The form is in the list, the menu with "kill" on the terminal.  Of each, one
\* request at a time.
UserAsks(what) ==
    /\ what = (IF view = "list" THEN "create" ELSE "kill")
    /\ awaiting' = awaiting \cup {what}
    /\ UNCHANGED <<view, currentSession, deliberateClose, remembered, network, dialling, chain>>

\* What they asked for has been answered; the page may be elsewhere by now.
Created(name) ==
    /\ "create" \in awaiting
    /\ awaiting' = awaiting \ {"create"}
    /\ Attach(name)
    /\ UNCHANGED network

Killed ==
    /\ "kill" \in awaiting
    /\ awaiting' = awaiting \ {"kill"}
    /\ Detach
    /\ UNCHANGED network

\* The daemon refused.
Refused(what) ==
    /\ what \in awaiting
    /\ awaiting' = awaiting \ {what}
    /\ UNCHANGED <<view, currentSession, deliberateClose, remembered, network, dialling, chain>>

\* start has loaded the list: the last session is resumed if it is there, or not.
Started ==
    /\ "start" \in awaiting
    /\ awaiting' = awaiting \ {"start"}
    /\ \/ remembered # None /\ Attach(remembered)
       \/ UNCHANGED <<view, currentSession, deliberateClose, remembered, dialling, chain>>
    /\ UNCHANGED network

\* The page is discarded and loaded again; only localStorage is left.
Reload ==
    /\ view' = "list" /\ currentSession' = None /\ ws' = None
    /\ state' = [s \in Socket |-> "none"] /\ target' = [s \in Socket |-> None]
    /\ timers' = 0 /\ handle' = 0
    /\ deliberateClose' = FALSE /\ cameOnline' = FALSE
    /\ awaiting' = {"start"}
    /\ loop' = "idle" /\ raced' = FALSE /\ late' = FALSE
    /\ UNCHANGED <<remembered, defined, onLine>>

---------------------------------------------------------------------------
(* Sockets and timers.                                                     *)

SocketOpens(s) ==
    /\ state[s] = "connecting"
    /\ state' = [state EXCEPT ![s] = "open"]
    /\ UNCHANGED <<page, network, ws, target, timers, handle, chain>>

\* The daemon's close frame is there, the end of the connection and the close event are
\* to come: readyState is CLOSING.
SocketCloses(s) ==
    /\ state[s] = "open"
    /\ state' = [state EXCEPT ![s] = "closing"]
    /\ UNCHANGED <<page, network, ws, target, timers, handle, chain>>

\* Close codes: the session ended, the daemon cut the device off, or any other,
\* which stands for a drop.  A socket that never opened has only the last.
Codes(s) == IF state[s] = "connecting" THEN {1006} ELSE {1000, 1008, 1006}

LoopAfter(s, code) ==
    IF deliberateClose \/ ~Own(s) \/ code = 1006 THEN loop
    ELSE IF code = 1000 THEN "ended" ELSE "refused"

\* Faulty variant, for OneChain: onerror, which comes first, schedules as well.
OnCloseAndError(s, code) ==
    /\ state[s] # "none" /\ code \in Codes(s)
    /\ state' = [state EXCEPT ![s] = "none"] /\ target' = [target EXCEPT ![s] = None]
    /\ IF ~deliberateClose /\ code = 1006
       THEN IF currentSession = None \/ ~onLine THEN UNCHANGED <<timers, handle>>
            ELSE timers + 2 <= MaxTimers /\ timers' = timers + 2 /\ handle' = 1
       ELSE UNCHANGED <<timers, handle>>
    /\ remembered' = IF ~deliberateClose /\ code = 1000 THEN None ELSE remembered
    /\ loop' = LoopAfter(s, code)
    /\ late' = (late \/ (~Own(s) /\ timers' > timers))
    /\ UNCHANGED <<view, currentSession, deliberateClose, awaiting, network, ws, raced>>

\* Faulty variant, for Remembered: whatever closed it, the session is forgotten.
OnCloseForgets(s, code) ==
    /\ state[s] # "none" /\ code \in Codes(s)
    /\ state' = [state EXCEPT ![s] = "none"] /\ target' = [target EXCEPT ![s] = None]
    /\ IF ~deliberateClose /\ code = 1006 THEN ScheduleReconnect ELSE UNCHANGED <<timers, handle>>
    /\ remembered' = IF ~deliberateClose THEN None ELSE remembered
    /\ loop' = LoopAfter(s, code)
    /\ late' = (late \/ (~Own(s) /\ timers' > timers))
    /\ UNCHANGED <<view, currentSession, deliberateClose, awaiting, network, ws, raced>>

\* Faulty variant, for StopsTheLoop: a device that was cut off goes on dialling.
OnCloseRetries(s, code) ==
    /\ state[s] # "none" /\ code \in Codes(s)
    /\ state' = [state EXCEPT ![s] = "none"] /\ target' = [target EXCEPT ![s] = None]
    /\ IF ~deliberateClose /\ code # 1000 THEN ScheduleReconnect ELSE UNCHANGED <<timers, handle>>
    /\ remembered' = IF ~deliberateClose /\ code = 1000 THEN None ELSE remembered
    /\ loop' = LoopAfter(s, code)
    /\ late' = (late \/ (~Own(s) /\ timers' > timers))
    /\ UNCHANGED <<view, currentSession, deliberateClose, awaiting, network, ws, raced>>

\* onclose, of whichever socket.
OnClose(s, code) ==
    /\ state[s] # "none" /\ code \in Codes(s)
    /\ state' = [state EXCEPT ![s] = "none"] /\ target' = [target EXCEPT ![s] = None]
    /\ IF ~deliberateClose /\ code = 1006 THEN ScheduleReconnect ELSE UNCHANGED <<timers, handle>>
    /\ remembered' = IF ~deliberateClose /\ code = 1000 THEN None ELSE remembered
    /\ loop' = LoopAfter(s, code)
    /\ late' = (late \/ (~Own(s) /\ timers' > timers))
    /\ UNCHANGED <<view, currentSession, deliberateClose, awaiting, network, ws, raced>>

\* A timer fires: the one that is known, which there is on a session only, or one
\* that is not.  connect does nothing on the list, and clears reconnectTimer
\* otherwise.
TimerFires ==
    /\ timers > 0
    /\ \/ /\ handle = 1
          /\ Connect(currentSession, timers - 1)
       \/ /\ Uncleared > 0
          /\ IF currentSession # None THEN Connect(currentSession, Uncleared - 1)
             ELSE /\ timers' = timers - 1 /\ late' = (late /\ timers' > 0)
                  /\ UNCHANGED <<ws, state, target, handle, loop>>
    /\ UNCHANGED <<page, network, raced>>

\* Faulty variant, for Redials: it leaves a socket that was there to onclose.
ReconnectUnlessDialled ==
    IF currentSession = None \/ ws # None THEN UNCHANGED <<dialling, chain>>
    ELSE Connect(currentSession, Uncleared) /\ raced' = (raced \/ Alive # {})

ReconnectNow ==
    IF currentSession = None \/ (ws # None /\ state[ws] = "open") THEN UNCHANGED <<dialling, chain>>
    ELSE Connect(currentSession, Uncleared) /\ raced' = (raced \/ Alive # {})

\* "focus" and "visibilitychange".
ComesBack ==
    /\ ReconnectNow
    /\ UNCHANGED <<page, network>>

OnlineEvent ==
    /\ cameOnline
    /\ cameOnline' = FALSE
    /\ ReconnectNow
    /\ UNCHANGED <<page, defined, onLine>>

NetworkChanges ==
    /\ onLine' = ~onLine
    /\ cameOnline' = (cameOnline \/ onLine')
    /\ UNCHANGED <<page, defined, dialling, chain>>

---------------------------------------------------------------------------
Next ==
    \/ \E name \in Session : UserAttaches(name) \/ Created(name)
    \/ \E what \in {"create", "kill"} : UserAsks(what) \/ Refused(what)
    \/ UserDetaches \/ Killed \/ Started \/ Reload
    \/ \E s \in Socket : SocketOpens(s) \/ SocketCloses(s) \/ \E code \in {1000, 1008, 1006} : OnClose(s, code)
    \/ TimerFires \/ ComesBack \/ OnlineEvent \/ NetworkChanges

\* The browser fires its timers and delivers its events.
Spec == Init /\ [][Next]_vars /\ WF_vars(TimerFires) /\ WF_vars(OnlineEvent)

---------------------------------------------------------------------------
Stopped == loop \in {"ended", "refused"}

\* Types, and that a page that has left a session holds no timer for it, and once it
\* is on the list no socket (detach).
TypeOK ==
    /\ defined \in BOOLEAN /\ view \in {"list", "term"}
    /\ currentSession \in Session \cup {None} /\ remembered \in Session \cup {None}
    /\ ws \in Socket \cup {None}
    /\ state \in [Socket -> {"none", "connecting", "open", "closing"}]
    /\ target \in [Socket -> Session \cup {None}]
    /\ timers \in 0 .. MaxTimers /\ handle \in 0 .. 1 /\ handle <= timers
    /\ deliberateClose \in BOOLEAN /\ onLine \in BOOLEAN /\ cameOnline \in BOOLEAN
    /\ awaiting \subseteq {"start", "create", "kill"}
    /\ loop \in {"idle", "going", "ended", "refused"} /\ raced \in BOOLEAN /\ late \in BOOLEAN
    /\ currentSession = None => handle = 0 /\ (defined => view = "list")
    /\ view = "list" => currentSession = None /\ ws = None

\* "Reconnection is driven from onclose alone.  Scheduling from both would double
\* every backoff" (connect): drops, timers and network changes never make a second
\* chain of a socket or a timer.  A second socket comes only from attach and
\* reconnectNow, which dial beside one that is alive.  That makes no second timer, nor
\* one beside the newest socket, until the older socket drops.
OneChain ==
    /\ ~late => timers <= 1 /\ (timers = 1 => handle = 1 /\ ws \notin Alive)
    /\ ~raced => (timers = 1 => Alive = {}) /\ \A s, t \in Alive : s = t

\* What a terminal shows and sends comes from and goes to the session on the
\* screen (onmessage uses whichever terminal there is).  A page that cannot leave
\* its terminal view goes on showing what it left.
OnlyCurrent ==
    ~raced /\ (defined \/ currentSession # None) =>
        \A s \in Socket : state[s] \in {"connecting", "open"} => target[s] = currentSession

\* A socket of before closes, after the page has dialled anew.
LateClose == ~deliberateClose /\ \E s \in Alive \ Alive' : ~Own(s)

\* "The last attached session is remembered" (README): what is remembered is the
\* session the page goes to, until the page leaves it or its own socket says that it
\* has ended; no drop of it, no 1008 and no timer makes the page forget.  The last case
\* is what the code does beside that: onclose does not look at which socket closed, and
\* one of before that closes with 1000 late makes the page forget where it has gone.
Remembered ==
    [][remembered' # remembered =>
         \/ remembered' = currentSession'
         \/ remembered' = None /\ loop # "ended" /\ loop' = "ended"
         \/ remembered' = None /\ LateClose]_vars

\* "A session code of 1000 [...] or 1008 [...] stops the loop" (README): once the
\* socket of the session has closed with one, the page has no newer socket and no timer
\* is pending, whatever was dialled beside whatever.  The exception is what the code
\* does: onclose does not look at which socket closed, so one of before that drops late
\* sets a timer, and the page dials on.
StopsTheLoop == Stopped => ws \notin Alive /\ (late \/ timers = 0)

\* What will yet make the page dial.
Pending == Alive # {} \/ timers > 0 \/ ~onLine \/ cameOnline

\* "The client just has to be willing to dial again" (README): a page on a session
\* that has dialled for it once is never left with nothing that will dial, unless the
\* daemon ended the loop, whatever sockets of before were doing.  Where attach runs
\* to its end, that is every page on a session.
NeverStranded ==
    currentSession # None /\ (loop = "going" \/ (defined /\ ~Stopped)) => Pending

\* And it does dial: a page that lost its socket has one again, leaves the
\* session, is told to stop, or is off line.
Redials ==
    (currentSession # None /\ Alive = {} /\ (defined \/ loop = "going"))
        ~> (Alive # {} \/ currentSession = None \/ loop # "going" \/ ~onLine)

\* The same of every page on a session, one that has just been told to attach included:
\* "the client just has to be willing to dial again" (README).
Dials == currentSession # None /\ ~Stopped => Pending
=============================================================================
