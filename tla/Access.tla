------------------------------- MODULE Access -------------------------------
(***************************************************************************)
(* Who reaches a terminal, for how long: identification on the tailnet and *)
(* the LAN listener (server/identity.go, lan.go, auth/admission.go),       *)
(* pairing (pair.go) and the life of an attach as far as permission goes   *)
(* (handleAttach and watchCapability in sessions.go), while the desktop    *)
(* promotes, revokes and unblocks devices with the CLI.                    *)
(*                                                                         *)
(* The device list is the atomic one of DeviceStore, which DeviceFile      *)
(* implements; a request takes several steps and acts on the row it was    *)
(* identified by, which the CLI may have changed since.  Time passes in    *)
(* ticks, and a deadline that is due is met before time goes on.           *)
(***************************************************************************)
EXTENDS Devices, Naturals

CONSTANTS Browser,        \* clients: each makes one request or attach at a time
          NodeOf,         \* of each browser: its node, were it on the tailnet
          Tagged,         \* the nodes that carry an ACL tag
          Owner,          \* of each untagged node: its tailnet user, or NoUser
          NoUser,         \* user id 0: a profile, or the daemon's own status, not read
          Self,           \* the user the daemon runs as, or NoUser
          CheckInterval,  \* capabilityCheckInterval, in ticks
          CloseGrace      \* the longest a closing handshake takes, in ticks

ASSUME BrowserAssumption == NodeOf \in [Browser -> Node] /\ Tagged \subseteq Node
ASSUME TimeAssumption == CheckInterval \in Nat \ {0} /\ CloseGrace \in Nat

VARIABLES
    devices,  \* the device list
    used,     \* every id that has ever been in it
    cookie,   \* of each browser: the token it holds, or None
    at,       \* of each browser: where its request is
    who,      \* of each browser: {the row its request was identified by}, or {}
    clock,    \* of each browser: ticks since its attach opened, was last
              \*   checked or began to close
    exposed   \* history, of each browser: for how many ticks in a row it has
              \*   held a terminal its device may no longer hold

vars == <<devices, used, cookie, at, who, clock, exposed>>

Init ==
    /\ devices = {}
    /\ used = {}
    /\ cookie = [b \in Browser |-> None]
    /\ at = [b \in Browser |-> "idle"]
    /\ who = [b \in Browser |-> {}]
    /\ clock = [b \in Browser |-> 0]
    /\ exposed = [b \in Browser |-> 0]

\* Faulty variant, for AdmittedOnly: tags are not looked at.
AdmitAnyTag(n) == Self # NoUser /\ Owner[n] = Self

\* AdmitTailnet: same user, untagged, and not because neither user is known.
AdmitTailnet(n) == n \notin Tagged /\ Self # NoUser /\ Owner[n] = Self

\* An operation on the list, of which the request uses the effect e.
Store(e) ==
    /\ devices' = e.rows
    /\ used' = used \cup Ids(e.rows)

Enter(b, state, rows) ==
    /\ at' = [at EXCEPT ![b] = state]
    /\ who' = [who EXCEPT ![b] = rows]

Leave(b) ==
    /\ Enter(b, "idle", {})
    /\ clock' = [clock EXCEPT ![b] = 0]
    /\ exposed' = [exposed EXCEPT ![b] = 0]

\* resolve, when WhoIs knows the caller: what it says is final.  (Here as below,
\* a store that fails refuses the request and changes nothing: a stutter.)
ByTailnet(b, route) ==
    /\ at[b] = "idle"
    /\ IF AdmitTailnet(NodeOf[b])
       THEN \E e \in UNION {RegisterTailnet(devices, used, NodeOf[b], m) : m \in Name} :
               /\ Store(e)
               /\ \E d \in e.reply.found :
                     IF d.blocked THEN Enter(b, "refused", {}) ELSE Enter(b, route, {d})
       ELSE Enter(b, "refused", {}) /\ UNCHANGED <<devices, used>>
    /\ UNCHANGED <<cookie, clock, exposed>>

\* resolve, when WhoIs does not answer, and identifyLAN, which does not ask it.
ByBearerToken(b, route) ==
    /\ at[b] = "idle"
    /\ LET found == {d \in ByToken(devices, cookie[b]) : ~d.blocked}
       IN IF found = {}
          THEN Enter(b, "refused", {})
          ELSE \E d \in found : Enter(b, route, {d})
    /\ UNCHANGED <<devices, used, cookie, clock, exposed>>

\* identifyLAN lets POST /api/pair through with no device, token or not.
PairingRoute(b) ==
    /\ at[b] = "idle"
    /\ Enter(b, "pair", {})
    /\ UNCHANGED <<devices, used, cookie, clock, exposed>>

TurnedAway(b) ==
    /\ at[b] = "refused"
    /\ Leave(b)
    /\ UNCHANGED <<devices, used, cookie>>

\* Faulty variant, for PairingOnlyNames: the row in hand is written back, renamed.
PairStale(b) ==
    /\ at[b] = "pair"
    /\ IF \E d \in who[b] : d.kind = "tailnet"
       THEN \E d \in who[b], m \in Name :
               /\ Store(Saved((devices \ ById(devices, d.id)) \cup {[d EXCEPT !.name = m]}, Done))
               /\ UNCHANGED cookie
       ELSE \E m \in Name : \E e \in CreatePaired(devices, used, m) :
               /\ Store(e)
               /\ \/ UNCHANGED cookie
                  \/ \E d \in e.reply.found : cookie' = [cookie EXCEPT ![b] = d.id]
    /\ Leave(b)

\* handlePair once Redeem has accepted the code: a tailnet device is renamed,
\* anyone else is given a row and a token, which may be lost on its way.  An
\* error of the store, like a code that is refused, is a Drop.
Pair(b) ==
    /\ at[b] = "pair"
    /\ IF \E d \in who[b] : d.kind = "tailnet"
       THEN \E d \in who[b], m \in Name : \E e \in Rename(devices, d.id, m) :
               Store(e) /\ UNCHANGED cookie
       ELSE \E m \in Name : \E e \in CreatePaired(devices, used, m) :
               /\ Store(e)
               /\ \/ UNCHANGED cookie
                  \/ \E d \in e.reply.found : cookie' = [cookie EXCEPT ![b] = d.id]
    /\ Leave(b)

\* handleAttach opens the terminal with the capability of the row it holds.
Open(b) ==
    /\ at[b] = "attach"
    /\ at' = [at EXCEPT ![b] = "open"]
    /\ clock' = [clock EXCEPT ![b] = 0]
    /\ UNCHANGED <<devices, used, cookie, who, exposed>>

\* The client goes, or the request or the attach fails.
Drop(b) ==
    /\ at[b] \in {"pair", "attach", "open", "closing"}
    /\ Leave(b)
    /\ UNCHANGED <<devices, used, cookie>>

\* capabilityOf: what a device may do by list D; one that is blocked or not
\* there may do nothing.
CapabilityOf(D, id) == {EffectiveCapability(d) : d \in {e \in ById(D, id) : ~e.blocked}}

\* An attach opened for d may go on.
Entitled(d) ==
    /\ CapabilityOf(devices, d.id) # {}
    /\ CanWrite(d) => "write" \in CapabilityOf(devices, d.id)

\* Faulty variant, for ExposureBounded: a demotion is not looked for.
CheckRevoked(b) ==
    /\ at[b] = "open"
    /\ clock[b] = CheckInterval
    /\ \/ /\ \A d \in who[b] : CapabilityOf(devices, d.id) # {}
          /\ UNCHANGED at
       \/ at' = [at EXCEPT ![b] = "closing"]
    /\ clock' = [clock EXCEPT ![b] = 0]
    /\ UNCHANGED <<devices, used, cookie, who, exposed>>

\* The tick of watchCapability.  A Get that fails counts as a revocation.
Check(b) ==
    /\ at[b] = "open"
    /\ clock[b] = CheckInterval
    /\ \/ /\ \A d \in who[b] : Entitled(d)
          /\ UNCHANGED at
       \/ at' = [at EXCEPT ![b] = "closing"]
    /\ clock' = [clock EXCEPT ![b] = 0]
    /\ UNCHANGED <<devices, used, cookie, who, exposed>>

\* Faulty variant, for CutOff: the goroutine returns when the client answers, and waits
\* for one that is silent.
ClosedByClient(b) ==
    /\ at[b] = "closing"
    /\ clock[b] < CloseGrace
    /\ Leave(b)
    /\ UNCHANGED <<devices, used, cookie>>

\* conn.Close returns, and watchCapability's deferred cancel ends the attach.
\* Until then pumpInput still hands what the client types to the terminal.
Closed(b) ==
    /\ at[b] = "closing"
    /\ Leave(b)
    /\ UNCHANGED <<devices, used, cookie>>

\* Time passes, unless a check or the end of a handshake is due.
Tick ==
    /\ \A b \in Browser :
        /\ at[b] = "open" => clock[b] < CheckInterval
        /\ at[b] = "closing" => clock[b] < CloseGrace
    /\ \E b \in Browser : at[b] \in {"open", "closing"}
    /\ clock' = [b \in Browser |->
                   IF at[b] \in {"open", "closing"} THEN clock[b] + 1 ELSE clock[b]]
    /\ exposed' = [b \in Browser |->
                     IF at[b] \in {"open", "closing"} /\ \E d \in who[b] : ~Entitled(d)
                     THEN exposed[b] + 1 ELSE 0]
    /\ UNCHANGED <<devices, used, cookie, at, who>>

\* devices allow, readonly, rename, revoke and unblock, on an id the panel has
\* shown.
CLI(id) ==
    /\ \E e \in (UNION {SetCapability(devices, id, c) : c \in Capability})
                \cup (UNION {Rename(devices, id, m) : m \in Name})
                \cup Revoke(devices, id) \cup Unblock(devices, id) : Store(e)
    /\ exposed' = [b \in Browser |->
                     IF \E d \in who[b] : ~Entitled(d)' THEN exposed[b] ELSE 0]
    /\ UNCHANGED <<cookie, at, who, clock>>

Serve(b) == TurnedAway(b) \/ Pair(b) \/ Open(b) \/ Drop(b) \/ Check(b) \/ Closed(b)

Next ==
    \/ \E b \in Browser :
        \/ \E route \in {"attach", "pair"} : ByTailnet(b, route) \/ ByBearerToken(b, route)
        \/ PairingRoute(b)
        \/ Serve(b)
    \/ Tick
    \/ \E id \in used : CLI(id)

\* Time does not stop, and what is due is done: timers fire and handshakes end.
Spec ==
    /\ Init /\ [][Next]_vars
    /\ WF_vars(Tick)
    /\ \A b \in Browser : WF_vars(Check(b)) /\ WF_vars(Closed(b))

---------------------------------------------------------------------------
TypeOK ==
    /\ devices \in SUBSET Device
    /\ used \in SUBSET DeviceId
    /\ cookie \in [Browser -> DeviceId \cup {None}]
    /\ at \in [Browser -> {"idle", "refused", "pair", "attach", "open", "closing"}]
    /\ who \in [Browser -> SUBSET Device]
    /\ clock \in [Browser -> 0 .. CheckInterval + CloseGrace]
    /\ exposed \in [Browser -> Nat]

\* "Demoting or revoking a device closes the session it is currently holding,
\* within seconds" (README): one check interval and one closing handshake bound
\* for how long anything a device has lost can still be used, even by an attach
\* identified before the device lost it.
ExposureBounded == \A b \in Browser : exposed[b] <= CheckInterval + CloseGrace

\* A client whose device is revoked or demoted does not go on typing: its attach is
\* over in the end, its closing handshake included and be the client silent, unless
\* the device is given back what it lost (watchCapability).
CutOff ==
    \A b \in Browser :
        (at[b] \in {"open", "closing"} /\ \E d \in who[b] : ~Entitled(d))
            ~> (at[b] \notin {"open", "closing"} \/ \A d \in who[b] : Entitled(d))

\* A request that was identified by the tailnet pairs, and the list changes.
PairsAgain(b) ==
    /\ at[b] = "pair" /\ at'[b] = "idle" /\ devices' # devices
    /\ \E r \in who[b] : r.kind = "tailnet"

\* The row with the id of the one in hand has another name, and nothing else changes.
NamesItsRow(b) ==
    \E r \in who[b], d \in devices, m \in Name :
        d.id = r.id /\ devices' = (devices \ {d}) \cup {[d EXCEPT !.name = m]}

\* A device that pairs while the tailnet vouches for it keeps its one row, its
\* kind and its rights, as they are by then and not as they were when it was
\* identified: pairing names that row (handlePair), and where it has been revoked
\* or demoted meanwhile it is not let back in.
PairingOnlyNames == [][\A b \in Browser : PairsAgain(b) => NamesItsRow(b)]_vars

\* The attach of one browser, by what it was opened for and what the list says now.
LeaseOf(b) ==
    INSTANCE Lease WITH
        held <- IF at[b] \in {"open", "closing"} THEN at[b] ELSE "free",
        right <- \A d \in who[b] : Entitled(d),
        clock <- clock[b],
        exposed <- exposed[b]

\* Every attach is the lease that the goroutines of one keep (handleAttach,
\* watchCapability): whatever other requests and the CLI do to the list, nobody
\* stays past a check that finds the right gone, and nothing but a check, the
\* client or a failure ends it.
KeepsLeases ==
    /\ \A b \in Browser : LeaseOf(b)!Init
    /\ [][\A b \in Browser : [LeaseOf(b)!Next]_(LeaseOf(b)!vars)]_vars

\* A terminal opens only for a caller that the policy knows: a node of the same
\* user without a tag, or a token that was issued, never the hash of one (TypeOK).
AdmittedOnly ==
    /\ TypeOK
    /\ \A b \in Browser : at[b] = "open" =>
          \E d \in who[b] :
              \/ d.kind = "tailnet" /\ d.node = NodeOf[b]
                 /\ NodeOf[b] \notin Tagged /\ Owner[NodeOf[b]] = Self /\ Self # NoUser
              \/ d.kind = "paired" /\ d.id = cookie[b]
=============================================================================
