------------------------------ MODULE Devices ------------------------------
(***************************************************************************)
(* The device list of package device and what each operation of Store does *)
(* to it, as pure operators: src/internal/device/device.go without the     *)
(* file, the lock and the clock.  The list is the set of its rows; its     *)
(* order only matters to the panel.  Created and LastSeen are left out:    *)
(* nothing but the throttle of Touch reads them, and Touch is therefore    *)
(* free to write or not to write.                                          *)
(***************************************************************************)
CONSTANTS DeviceId,  \* ids newID draws; a draw is always fresh
          Node,      \* Tailscale stable node ids
          Name,      \* display names
          None       \* an omitted field

Capability == {"read", "write"}

\* What a hand-edited file may hold besides.
StoredCapability == Capability \cup {"unrecognised"}

\* A token is named by the id of the device it was minted for.
HashToken(token) == <<"sha256", token>>

Device ==
    [id : DeviceId,
     kind : {"tailnet", "paired"},
     name : Name,
     capability : StoredCapability,
     node : Node \cup {None},
     tokenHash : {HashToken(t) : t \in DeviceId} \cup {None},
     blocked : BOOLEAN]

EffectiveCapability(d) ==
    IF ~d.blocked /\ d.capability \in Capability THEN d.capability ELSE "read"

CanWrite(d) == EffectiveCapability(d) = "write"

---------------------------------------------------------------------------
(* Lookups: List followed by a search. *)

Ids(D) == {d.id : d \in D}

ById(D, id) == {d \in D : d.id = id}

ByNode(D, n) == {d \in D : d.kind = "tailnet" /\ d.node = n}

ByToken(D, t) == {d \in D : d.kind = "paired" /\ d.tokenHash = HashToken(t)}

---------------------------------------------------------------------------
(* Operations.  An operation run against the list D may have several       *)
(* effects (a fresh id, the throttle); an effect is the list it leaves,    *)
(* whether it is worth writing (errReadOnly is not), and the answer.       *)

Op ==
    [op : {"register"}, node : Node, name : Name]
    \cup [op : {"createPaired"}, name : Name]
    \cup [op : {"setCapability"}, id : DeviceId, capability : Capability]
    \cup [op : {"rename"}, id : DeviceId, name : Name]
    \cup [op : {"touch", "revoke", "unblock", "get"}, id : DeviceId]
    \cup [op : {"byNode"}, node : Node]
    \cup [op : {"byToken"}, token : DeviceId]

\* The operations that pass write = false to withLock.
ReadOnly(o) == o.op \in {"get", "byNode", "byToken"}

\* An answer: what became of the call, and the rows it returns (copies, as of
\* the moment the operation happened).
Answer ==
    [code : {"ok", "notFound", "readOnly", "failed", "none"}, found : SUBSET Device]

Reply(code, found) == [code |-> code, found |-> found]
NoAnswer == Reply("none", {})
Done == Reply("ok", {})
NotFound == Reply("notFound", {})
NothingToWrite == Reply("readOnly", {})
Failed == Reply("failed", {})

Effect == [rows : SUBSET Device, saved : BOOLEAN, reply : Answer]

Saved(D, reply) == [rows |-> D, saved |-> TRUE, reply |-> reply]
Unsaved(D, reply) == [rows |-> D, saved |-> FALSE, reply |-> reply]

TailnetRow(id, n, name) ==
    [id |-> id, kind |-> "tailnet", name |-> name, capability |-> "read",
     node |-> n, tokenHash |-> None, blocked |-> FALSE]

PairedRow(id, name) ==
    [id |-> id, kind |-> "paired", name |-> name, capability |-> "read",
     node |-> None, tokenHash |-> HashToken(id), blocked |-> FALSE]

Added(D, rows) == {Saved(D \cup {d}, Reply("ok", {d})) : d \in rows}

\* Faulty variant, for OneRow: a blocked row is passed over, not found.
RegisterTailnetPastBlocked(D, used, n, name) ==
    LET known == {d \in ByNode(D, n) : ~d.blocked}
    IN IF known # {}
       THEN {Saved(D, Reply("ok", {d})) : d \in known}
       ELSE Added(D, {TailnetRow(id, n, name) : id \in DeviceId \ used})

\* A known node is answered with its row, and only one that is not blocked
\* has its LastSeen written.
RegisterTailnet(D, used, n, name) ==
    IF ByNode(D, n) # {}
    THEN {[rows |-> D, saved |-> ~d.blocked, reply |-> Reply("ok", {d})] :
              d \in ByNode(D, n)}
    ELSE Added(D, {TailnetRow(id, n, name) : id \in DeviceId \ used})

CreatePaired(D, used, name) ==
    Added(D, {PairedRow(id, name) : id \in DeviceId \ used})

\* mutate: the row with this id becomes new[row], or nothing is written.
Mutate(D, id, new) ==
    IF ById(D, id) = {}
    THEN {Unsaved(D, NotFound)}
    ELSE {Saved((D \ {d}) \cup {new[d]}, Done) : d \in ById(D, id)}

SetCapability(D, id, c) ==
    Mutate(D, id, [d \in D |-> [d EXCEPT !.capability = c]])

Rename(D, id, name) == Mutate(D, id, [d \in D |-> [d EXCEPT !.name = name]])

\* Faulty variant, for OnlyAsOrdered: what was granted to the blocked row counts.
UnblockAsStored(D, id) == Mutate(D, id, [d \in D |-> [d EXCEPT !.blocked = FALSE]])

Unblock(D, id) ==
    Mutate(D, id, [d \in D |-> [d EXCEPT !.blocked = FALSE, !.capability = "read"]])

\* At most once a minute; otherwise, and for an id that is gone, errReadOnly
\* reaches the caller, who only logs it.
Touch(D, id) ==
    {Unsaved(D, NothingToWrite)}
    \cup {Saved(D, Done) : d \in ById(D, id)}

\* A paired row is deleted, a tailnet row is blocked and demoted.  The list is
\* written back even when the id is unknown.
Revoke(D, id) ==
    LET blocked == {[d EXCEPT !.blocked = TRUE, !.capability = "read"] :
                        d \in {e \in ById(D, id) : e.kind = "tailnet"}}
    IN {Saved((D \ ById(D, id)) \cup blocked,
              IF ById(D, id) = {} THEN NotFound ELSE Done)}

Lookup(D, found) ==
    IF found = {} THEN {Unsaved(D, NotFound)} ELSE {Unsaved(D, Reply("ok", {d})) : d \in found}

Effects(o, D, used) ==
    CASE o.op = "register"      -> RegisterTailnet(D, used, o.node, o.name)
      [] o.op = "createPaired"  -> CreatePaired(D, used, o.name)
      [] o.op = "setCapability" -> SetCapability(D, o.id, o.capability)
      [] o.op = "rename"        -> Rename(D, o.id, o.name)
      [] o.op = "touch"         -> Touch(D, o.id)
      [] o.op = "revoke"        -> Revoke(D, o.id)
      [] o.op = "unblock"       -> Unblock(D, o.id)
      [] o.op = "get"           -> Lookup(D, ById(D, o.id))
      [] o.op = "byNode"        -> Lookup(D, ByNode(D, o.node))
      [] o.op = "byToken"       -> Lookup(D, ByToken(D, o.token))

---------------------------------------------------------------------------
(* What a step from list D to list E, taken for operation o, may not do.   *)

UniqueIds(D) == \A d, e \in D : d.id = e.id => d = e

OneRowPerNode(D) ==
    \A d, e \in D :
        d.kind = "tailnet" /\ e.kind = "tailnet" /\ d.node = e.node => d = e

\* The right to type appears only by a SetCapability of that device.
GrantedBy(o, D, E) ==
    \A e \in E : CanWrite(e) =>
        \/ \E d \in D : d.id = e.id /\ CanWrite(d)
        \/ o.op = "setCapability" /\ o.id = e.id /\ o.capability = "write"

\* A blocked row goes, or stops being blocked, only by an Unblock of it.
BlockedUnless(o, D, E) ==
    \A d \in D : d.blocked =>
        \/ \E e \in E : e.id = d.id /\ e.blocked
        \/ o.op = "unblock" /\ o.id = d.id

\* Rows appear only under fresh ids: a deleted row stays deleted.
NoneRevived(used, D, E) == Ids(E) \cap used \subseteq Ids(D)
=============================================================================
