---------------------------- MODULE Server_proofs ----------------------------
(***************************************************************************)
(* Proofs about the server: about Access, for any number of devices,       *)
(* browsers and nodes, and then about the life of the daemon, for any      *)
(* number of tailnet addresses and of lan commands at once.                *)
(***************************************************************************)
EXTENDS Access, Daemon, Devices_proofs, FiniteSetTheorems

Attached == {"open", "closing"}

\* Where a browser is, the row it got there by, and for how long that row can
\* have been out of date.
BrowserInv(b) ==
    /\ \A d \in who[b] : d.id \in used
    /\ at[b] = "attach" => who[b] # {}
    /\ at[b] = "open" => who[b] # {} /\ clock[b] <= CheckInterval
                         /\ exposed[b] <= clock[b]
    /\ at[b] = "closing" => clock[b] <= CloseGrace
                            /\ exposed[b] <= CheckInterval + clock[b]
    /\ at[b] \notin Attached => clock[b] = 0 /\ exposed[b] = 0
    /\ (\A d \in who[b] : Entitled(d)) => exposed[b] = 0
    /\ \A d \in who[b] :
          \/ d.kind = "tailnet" /\ d.node = NodeOf[b] /\ AdmitTailnet(NodeOf[b])
          \/ d.kind = "paired" /\ d.id = cookie[b]

\* The token of a paired row is the one minted with its id.
RowsTokens(D) == \A d \in D : d.kind = "paired" => d.tokenHash = HashToken(d.id)

Inv ==
    /\ TypeOK
    /\ Sound(devices, used)
    /\ RowsTokens(devices)
    /\ \A b \in Browser : BrowserInv(b)

\* Naming and adding devices changes nobody's rights, and no operation changes
\* the token of a row.
LEMMA RegisterRows ==
    ASSUME NEW D, NEW ids, NEW n \in Node, NEW m \in Name,
           NEW e \in RegisterTailnet(D, ids, n, m)
    PROVE  \/ e.rows = D
           \/ \E d : /\ e.rows = D \cup {d} /\ d.id \notin ids /\ d.kind = "tailnet"
<1>1. CASE ByNode(D, n) # {}
  <2>1. PICK d \in ByNode(D, n) :
          e = [rows |-> D, saved |-> ~d.blocked, reply |-> Reply("ok", {d})]
    BY <1>1 DEF RegisterTailnet
  <2> QED BY <2>1
<1>2. CASE ByNode(D, n) = {}
  <2>1. PICK id \in DeviceId \ ids :
          e = Saved(D \cup {TailnetRow(id, n, m)}, Reply("ok", {TailnetRow(id, n, m)}))
    BY <1>2 DEF RegisterTailnet, Added
  <2> DEFINE d == TailnetRow(id, n, m)
  <2>2. d.id = id /\ d.kind = "tailnet"
    BY DEF TailnetRow
  <2>3. e.rows = D \cup {d}
    BY <2>1 DEF Saved
  <2> HIDE DEF d
  <2> QED BY <2>1, <2>2, <2>3
<1> QED BY <1>1, <1>2

LEMMA RegisterRights ==
    ASSUME NEW D, NEW ids, NEW n \in Node, NEW m \in Name,
           NEW e \in RegisterTailnet(D, ids, n, m), NEW id \in ids
    PROVE  CapabilityOf(e.rows, id) = CapabilityOf(D, id)
<1>1. \/ e.rows = D
      \/ \E d : /\ e.rows = D \cup {d} /\ d.id \notin ids /\ d.kind = "tailnet"
  BY RegisterRows
<1>2. ById(e.rows, id) = ById(D, id)
  <2>1. CASE e.rows = D
    BY <2>1
  <2>2. ASSUME NEW d, e.rows = D \cup {d}, d.id \notin ids
        PROVE  ById(e.rows, id) = ById(D, id)
    BY <2>2 DEF ById
  <2> QED BY <1>1, <2>1, <2>2
<1> QED BY <1>2 DEF CapabilityOf

LEMMA RegisterKeeps ==
    ASSUME NEW D, NEW ids, Sound(D, ids), RowsTokens(D),
           NEW n \in Node, NEW m \in Name, NEW e \in RegisterTailnet(D, ids, n, m)
    PROVE  e \in Effect /\ Sound(e.rows, ids \cup Ids(e.rows)) /\ RowsTokens(e.rows)
<1> DEFINE o == [op |-> "register", node |-> n, name |-> m]
<1>1. o \in Op /\ e \in Effects(o, D, ids)
  BY DEF Op, Effects
<1>2. e \in Effect /\ Shape(o, D, ids, e.rows)
  BY <1>1, EffectsShape
<1>3. Sound(e.rows, ids \cup Ids(e.rows))
  BY <1>2, ShapeSound DEF Effect
<1>4. RowsTokens(e.rows)
  BY RegisterRows DEF RowsTokens
<1> QED BY <1>2, <1>3, <1>4

LEMMA RegisterAnswers ==
    ASSUME NEW D, NEW ids, NEW n \in Node, NEW m \in Name,
           NEW e \in RegisterTailnet(D, ids, n, m)
    PROVE  \E d \in e.rows : e.reply.found = {d} /\ d.kind = "tailnet" /\ d.node = n
<1>1. CASE ByNode(D, n) # {}
  <2>1. PICK d \in ByNode(D, n) :
          e = [rows |-> D, saved |-> ~d.blocked, reply |-> Reply("ok", {d})]
    BY <1>1 DEF RegisterTailnet
  <2> QED BY <2>1 DEF ByNode, Reply
<1>2. CASE ByNode(D, n) = {}
  <2>1. PICK id \in DeviceId \ ids :
          e = Saved(D \cup {TailnetRow(id, n, m)}, Reply("ok", {TailnetRow(id, n, m)}))
    BY <1>2 DEF RegisterTailnet, Added
  <2> DEFINE d == TailnetRow(id, n, m)
  <2>2. d.kind = "tailnet" /\ d.node = n
    BY DEF TailnetRow
  <2>3. e.rows = D \cup {d} /\ e.reply.found = {d}
    BY <2>1 DEF Saved, Reply
  <2> HIDE DEF d
  <2> QED BY <2>2, <2>3
<1> QED BY <1>1, <1>2

LEMMA CreateKeeps ==
    ASSUME NEW D, NEW ids, Sound(D, ids), RowsTokens(D),
           NEW m \in Name, NEW e \in CreatePaired(D, ids, m)
    PROVE  /\ e \in Effect /\ Sound(e.rows, ids \cup Ids(e.rows)) /\ RowsTokens(e.rows)
           /\ \A id \in ids : CapabilityOf(e.rows, id) = CapabilityOf(D, id)
           /\ \A d \in e.reply.found : d.id \in DeviceId
<1> DEFINE o == [op |-> "createPaired", name |-> m]
<1>1. o \in Op /\ e \in Effects(o, D, ids)
  BY DEF Op, Effects
<1>2. e \in Effect /\ Shape(o, D, ids, e.rows)
  BY <1>1, EffectsShape
<1>3. Sound(e.rows, ids \cup Ids(e.rows))
  BY <1>2, ShapeSound DEF Effect
<1>4. PICK id \in DeviceId \ ids :
        e = Saved(D \cup {PairedRow(id, m)}, Reply("ok", {PairedRow(id, m)}))
  BY DEF CreatePaired, Added
<1> DEFINE d == PairedRow(id, m)
<1>5. d.id = id /\ d.tokenHash = HashToken(d.id)
  BY DEF PairedRow
<1>6. e.rows = D \cup {d} /\ e.reply.found = {d}
  BY <1>4 DEF Saved, Reply
<1> HIDE DEF d
<1>7. \A i \in ids : ById(e.rows, i) = ById(D, i)
  BY <1>4, <1>5, <1>6 DEF ById
<1> QED BY <1>2, <1>3, <1>4, <1>5, <1>6, <1>7 DEF RowsTokens, CapabilityOf

LEMMA RenameKeeps ==
    ASSUME NEW D, NEW ids, Sound(D, ids), RowsTokens(D),
           NEW i \in DeviceId, NEW m \in Name, NEW e \in Rename(D, i, m)
    PROVE  /\ e \in Effect /\ Sound(e.rows, ids \cup Ids(e.rows)) /\ RowsTokens(e.rows)
           /\ \A id \in ids : CapabilityOf(e.rows, id) = CapabilityOf(D, id)
<1> DEFINE o == [op |-> "rename", id |-> i, name |-> m]
<1>1. o \in Op /\ e \in Effects(o, D, ids)
  BY DEF Op, Effects
<1>2. e \in Effect /\ Shape(o, D, ids, e.rows)
  BY <1>1, EffectsShape
<1>3. Sound(e.rows, ids \cup Ids(e.rows))
  BY <1>2, ShapeSound DEF Effect
<1>4. CASE ById(D, i) = {}
  <2>1. e.rows = D
    BY <1>4 DEF Rename, Mutate, Unsaved
  <2> QED BY <1>2, <1>3, <2>1
<1>5. CASE ById(D, i) # {}
  <2>1. PICK d \in ById(D, i) : e = Saved((D \ {d}) \cup {[d EXCEPT !.name = m]}, Done)
    BY <1>5 DEF Rename, Mutate, ById
  <2> DEFINE f == [d EXCEPT !.name = m]
  <2>2. d \in D /\ d.id = i /\ d \in Device
    BY <2>1 DEF ById, Sound
  <2>3. e.rows = (D \ {d}) \cup {f}
    BY <2>1 DEF Saved
  <2>4. /\ f.id = d.id /\ f.kind = d.kind /\ f.tokenHash = d.tokenHash
        /\ f.blocked = d.blocked /\ f.capability = d.capability
    BY <2>2 DEF Device
  <2> HIDE DEF f
  <2>6. EffectiveCapability(f) = EffectiveCapability(d)
    BY <2>4 DEF EffectiveCapability
  <2>7. ASSUME NEW id \in ids PROVE CapabilityOf(e.rows, id) = CapabilityOf(D, id)
    <3>1. ASSUME NEW c PROVE c \in CapabilityOf(e.rows, id) <=> c \in CapabilityOf(D, id)
      BY <2>2, <2>3, <2>4, <2>6 DEF CapabilityOf, ById
    <3> QED BY <3>1 DEF CapabilityOf
  <2>8. RowsTokens(e.rows)
    BY <2>2, <2>3, <2>4 DEF RowsTokens
  <2> QED BY <1>2, <1>3, <2>7, <2>8
<1> QED BY <1>4, <1>5

LEMMA CLIKeeps ==
    ASSUME NEW D, NEW ids, Sound(D, ids), RowsTokens(D), NEW i \in DeviceId,
           NEW e \in (UNION {SetCapability(D, i, c) : c \in Capability})
                     \cup (UNION {Rename(D, i, m) : m \in Name})
                     \cup Revoke(D, i) \cup Unblock(D, i)
    PROVE  e \in Effect /\ Sound(e.rows, ids \cup Ids(e.rows)) /\ RowsTokens(e.rows)
<1>r. ASSUME NEW m \in Name, e \in Rename(D, i, m)
      PROVE  e \in Effect /\ Sound(e.rows, ids \cup Ids(e.rows)) /\ RowsTokens(e.rows)
  BY <1>r, RenameKeeps
<1> SUFFICES ASSUME e \in (UNION {SetCapability(D, i, c) : c \in Capability})
                           \cup Revoke(D, i) \cup Unblock(D, i)
             PROVE  e \in Effect /\ Sound(e.rows, ids \cup Ids(e.rows)) /\ RowsTokens(e.rows)
  BY <1>r
<1>1. PICK o \in Op : e \in Effects(o, D, ids)
  <2>1. ASSUME NEW c \in Capability, e \in SetCapability(D, i, c)
        PROVE  \E o \in Op : e \in Effects(o, D, ids)
    <3>1. [op |-> "setCapability", id |-> i, capability |-> c] \in Op
      BY DEF Op
    <3> QED BY <2>1, <3>1 DEF Effects
  <2>2. CASE e \in Revoke(D, i)
    <3>1. [op |-> "revoke", id |-> i] \in Op
      BY DEF Op
    <3> QED BY <2>2, <3>1 DEF Effects
  <2>3. CASE e \in Unblock(D, i)
    <3>1. [op |-> "unblock", id |-> i] \in Op
      BY DEF Op
    <3> QED BY <2>3, <3>1 DEF Effects
  <2> QED BY <2>1, <2>2, <2>3
<1>2. e \in Effect /\ Shape(o, D, ids, e.rows)
  BY <1>1, EffectsShape
<1>3. Sound(e.rows, ids \cup Ids(e.rows))
  BY <1>2, ShapeSound DEF Effect
<1>4. ASSUME NEW f \in e.rows, f.kind = "paired" PROVE f.tokenHash = HashToken(f.id)
  <2>1. ASSUME NEW c \in Capability, e \in SetCapability(D, i, c)
        PROVE  f.tokenHash = HashToken(f.id)
    BY <1>4, <2>1 DEF SetCapability, Mutate, Saved, Unsaved, RowsTokens, ById, Sound, Device
  <2>2. CASE e \in Revoke(D, i)
    <3> DEFINE Kept == {[d EXCEPT !.blocked = TRUE, !.capability = "read"] :
                          d \in {x \in ById(D, i) : x.kind = "tailnet"}}
    <3>0. e = Saved((D \ ById(D, i)) \cup Kept,
                    IF ById(D, i) = {} THEN NotFound ELSE Done)
      BY <2>2 DEF Revoke
    <3> HIDE DEF Kept
    <3>1. e.rows = (D \ ById(D, i)) \cup Kept
      BY <3>0 DEF Saved
    <3> USE DEF Kept
    <3>2. f \in D \/ f.kind = "tailnet"
      BY <3>1 DEF ById, Sound, Device
    <3> QED BY <1>4, <3>2 DEF RowsTokens
  <2>3. CASE e \in Unblock(D, i)
    <3>1. CASE e = Unsaved(D, NotFound)
      BY <1>4, <3>1 DEF Unsaved, RowsTokens
    <3>2. ASSUME NEW d \in ById(D, i),
                 e = Saved((D \ {d}) \cup
                             {[d EXCEPT !.blocked = FALSE, !.capability = "read"]}, Done)
          PROVE  f.tokenHash = HashToken(f.id)
      <4>1. f \in D \/ f = [d EXCEPT !.blocked = FALSE, !.capability = "read"]
        BY <3>2 DEF Saved
      <4>2. d \in Device /\ d \in D
        BY DEF ById, Sound
      <4> QED BY <1>4, <4>1, <4>2 DEF RowsTokens, Device
    <3> QED BY <2>3, <3>1, <3>2 DEF Unblock, Mutate, ById
  <2> QED BY <2>1, <2>2, <2>3
<1> QED BY <1>2, <1>3, <1>4 DEF RowsTokens

\* The same of the list as it is, for the requests that register and rename.
LEMMA RequestsKeep ==
    ASSUME Sound(devices, used), RowsTokens(devices), NEW m \in Name,
           NEW e, \/ \E n \in Node : e \in RegisterTailnet(devices, used, n, m)
                  \/ \E i \in DeviceId : e \in Rename(devices, i, m)
    PROVE  /\ e \in Effect /\ Sound(e.rows, used \cup Ids(e.rows)) /\ RowsTokens(e.rows)
           /\ \A id \in used : CapabilityOf(e.rows, id) = CapabilityOf(devices, id)
<1>1. ASSUME NEW n \in Node, e \in RegisterTailnet(devices, used, n, m)
      PROVE  /\ e \in Effect /\ Sound(e.rows, used \cup Ids(e.rows)) /\ RowsTokens(e.rows)
             /\ \A id \in used : CapabilityOf(e.rows, id) = CapabilityOf(devices, id)
  <2>1. e \in Effect
    BY <1>1, RegisterKeeps
  <2>2. Sound(e.rows, used \cup Ids(e.rows))
    BY <1>1, RegisterKeeps
  <2>3. RowsTokens(e.rows)
    BY <1>1, RegisterKeeps
  <2>4. ASSUME NEW id \in used PROVE CapabilityOf(e.rows, id) = CapabilityOf(devices, id)
    BY <1>1, RegisterRights
  <2> QED BY <2>1, <2>2, <2>3, <2>4
<1>2. ASSUME NEW i \in DeviceId, e \in Rename(devices, i, m)
      PROVE  /\ e \in Effect /\ Sound(e.rows, used \cup Ids(e.rows)) /\ RowsTokens(e.rows)
             /\ \A id \in used : CapabilityOf(e.rows, id) = CapabilityOf(devices, id)
  BY <1>2, RenameKeeps
<1> QED BY <1>1, <1>2

---------------------------------------------------------------------------
\* What a step of one browser leaves to the others.
LEMMA OthersKeep ==
    ASSUME Inv, NEW b \in Browser, devices' \in SUBSET Device, used \subseteq used',
           UNCHANGED cookie \/ \E x : cookie' = [cookie EXCEPT ![b] = x],
           \A c \in Browser \ {b} : /\ at'[c] = at[c] /\ who'[c] = who[c]
                                   /\ clock'[c] = clock[c] /\ exposed'[c] = exposed[c],
           \A id \in used : CapabilityOf(devices', id) = CapabilityOf(devices, id)
    PROVE  \A c \in Browser \ {b} : BrowserInv(c)'
<1> SUFFICES ASSUME NEW c \in Browser, c # b PROVE BrowserInv(c)'
  OBVIOUS
<1>1. cookie'[c] = cookie[c]
  BY DEF Inv, TypeOK
<1>2. BrowserInv(c)
  BY DEF Inv
<1>3. \A d \in who[c] : Entitled(d)' <=> Entitled(d)
  BY <1>2 DEF BrowserInv, Entitled
<1> QED BY <1>1, <1>2, <1>3 DEF BrowserInv, AdmitTailnet

LEMMA InitInv == Init => Inv
<1> USE TimeAssumption
<1> SUFFICES ASSUME Init PROVE Inv
  OBVIOUS
<1>1. TypeOK
  BY DEF Init, TypeOK
<1>2. Sound(devices, used) /\ RowsTokens(devices)
  BY DEF Init, Sound, Ids, UniqueIds, OneRowPerNode, OnlyTailnetBlocked, RowsTokens
<1>3. \A b \in Browser : BrowserInv(b)
  BY DEF Init, BrowserInv, Attached
<1> QED BY <1>1, <1>2, <1>3 DEF Inv

\* The device list and what it promises, in any step.
ListInv == Sound(devices, used) /\ RowsTokens(devices)

LEMMA SameList ==
    ASSUME Inv, UNCHANGED <<devices, used>>
    PROVE  ListInv' /\ devices' \in SUBSET Device /\ used' \in SUBSET DeviceId
           /\ used \subseteq used'
           /\ \A id \in used : CapabilityOf(devices', id) = CapabilityOf(devices, id)
BY DEF Inv, ListInv, TypeOK

LEMMA NewList ==
    ASSUME Inv, NEW e, Store(e), e \in Effect, Sound(e.rows, used \cup Ids(e.rows)),
           RowsTokens(e.rows)
    PROVE  ListInv' /\ devices' \in SUBSET Device /\ used' \in SUBSET DeviceId
           /\ used \subseteq used'
BY DEF Inv, ListInv, Store, Effect, Sound, Ids, UniqueIds, OneRowPerNode,
       OnlyTailnetBlocked, RowsTokens

\* A browser that leaves is out of reach of every clause of BrowserInv.
LEMMA LeaveInv ==
    ASSUME Inv, NEW b \in Browser, Leave(b), ListInv', devices' \in SUBSET Device,
           used' \in SUBSET DeviceId, used \subseteq used',
           cookie' \in [Browser -> DeviceId \cup {None}],
           UNCHANGED cookie \/ \E x : cookie' = [cookie EXCEPT ![b] = x],
           \A id \in used : CapabilityOf(devices', id) = CapabilityOf(devices, id)
    PROVE  Inv'
<1> USE TimeAssumption
<1>0. 0 \in 0 .. CheckInterval + CloseGrace
  OBVIOUS
<1>1. TypeOK'
  BY <1>0 DEF Leave, Enter, Inv, TypeOK
<1>2. BrowserInv(b)'
  BY DEF Leave, Enter, Inv, TypeOK, BrowserInv, Attached
<1>3. \A c \in Browser \ {b} : BrowserInv(c)'
  <2>1. \A c \in Browser \ {b} : /\ at'[c] = at[c] /\ who'[c] = who[c]
                                 /\ clock'[c] = clock[c] /\ exposed'[c] = exposed[c]
    BY DEF Leave, Enter, Inv, TypeOK
  <2> QED BY <2>1, OthersKeep
<1> QED BY <1>1, <1>2, <1>3 DEF Inv, ListInv

\* So is one that enters with the row it has just been identified by.
LEMMA EnterInv ==
    ASSUME Inv, NEW b \in Browser, at[b] = "idle",
           NEW state \in {"refused", "pair", "attach"}, NEW rows \in SUBSET Device,
           Enter(b, state, rows), state = "attach" => rows # {},
           UNCHANGED <<cookie, clock, exposed>>,
           ListInv', devices' \in SUBSET Device, used' \in SUBSET DeviceId,
           used \subseteq used', Ids(rows) \subseteq used',
           \A id \in used : CapabilityOf(devices', id) = CapabilityOf(devices, id),
           \A d \in rows :
              \/ d.kind = "tailnet" /\ d.node = NodeOf[b] /\ AdmitTailnet(NodeOf[b])
              \/ d.kind = "paired" /\ d.id = cookie[b]
    PROVE  Inv'
<1>1. TypeOK'
  BY DEF Enter, Inv, TypeOK
<1>2. at'[b] = state /\ who'[b] = rows
  BY DEF Enter, Inv, TypeOK
<1>3. clock[b] = 0 /\ exposed[b] = 0
  BY DEF Inv, BrowserInv, Attached
<1>4. BrowserInv(b)'
  BY <1>2, <1>3 DEF BrowserInv, Attached, AdmitTailnet, Ids
<1>5. \A c \in Browser \ {b} : BrowserInv(c)'
  <2>1. \A c \in Browser \ {b} : /\ at'[c] = at[c] /\ who'[c] = who[c]
                                 /\ clock'[c] = clock[c] /\ exposed'[c] = exposed[c]
    BY DEF Enter, Inv, TypeOK
  <2> QED BY <2>1, OthersKeep
<1> QED BY <1>1, <1>4, <1>5 DEF Inv, ListInv

LEMMA NextInv == Inv /\ [Next]_vars => Inv'
<1> USE TimeAssumption
<1> SUFFICES ASSUME Inv, [Next]_vars PROVE Inv'
  OBVIOUS
<1>t. TypeOK /\ Sound(devices, used) /\ RowsTokens(devices)
  BY DEF Inv
<1>1. ASSUME NEW b \in Browser, NEW route \in {"attach", "pair"}, ByTailnet(b, route)
      PROVE  Inv'
  <2>1. CASE AdmitTailnet(NodeOf[b])
    <3>0. PICK m \in Name : \E e \in RegisterTailnet(devices, used, NodeOf[b], m) :
            /\ Store(e)
            /\ \E d \in e.reply.found :
                  IF d.blocked THEN Enter(b, "refused", {}) ELSE Enter(b, route, {d})
      BY <1>1, <2>1 DEF ByTailnet
    <3>1. PICK e \in RegisterTailnet(devices, used, NodeOf[b], m) :
            /\ Store(e)
            /\ \E d \in e.reply.found :
                  IF d.blocked THEN Enter(b, "refused", {}) ELSE Enter(b, route, {d})
      BY <3>0
    <3>2. PICK n \in Node : n = NodeOf[b]
      BY BrowserAssumption
    <3>a. e \in RegisterTailnet(devices, used, n, m)
      BY <3>2
    <3>3. /\ e \in Effect /\ Sound(e.rows, used \cup Ids(e.rows)) /\ RowsTokens(e.rows)
          /\ \A id \in used : CapabilityOf(e.rows, id) = CapabilityOf(devices, id)
      BY <1>t, <3>a, RequestsKeep
    <3>4. PICK d \in e.rows :
            e.reply.found = {d} /\ d.kind = "tailnet" /\ d.node = NodeOf[b]
      <4>1. \E d \in e.rows : e.reply.found = {d} /\ d.kind = "tailnet" /\ d.node = n
        BY <3>a, RegisterAnswers
      <4> QED BY <3>2, <4>1
    <3>5. ListInv' /\ devices' \in SUBSET Device /\ used' \in SUBSET DeviceId
          /\ used \subseteq used'
      BY <3>1, <3>3, NewList
    <3>6. /\ \A id \in used : CapabilityOf(devices', id) = CapabilityOf(devices, id)
          /\ d \in Device /\ d.id \in used'
      BY <3>1, <3>3, <3>4 DEF Store, Effect, Ids
    <3>7. Enter(b, "refused", {}) \/ Enter(b, route, {d})
      BY <3>1, <3>4
    <3>8. at[b] = "idle" /\ UNCHANGED <<cookie, clock, exposed>>
      BY <1>1 DEF ByTailnet
    <3>9. CASE Enter(b, "refused", {})
      BY <3>5, <3>6, <3>8, <3>9, EnterInv DEF Ids
    <3>10. CASE Enter(b, route, {d})
      <4>1. {d} \in SUBSET Device /\ Ids({d}) \subseteq used' /\ {d} # {}
        BY <3>6 DEF Ids
      <4>2. \A x \in {d} : x.kind = "tailnet" /\ x.node = NodeOf[b]
        BY <3>4
      <4> QED BY <2>1, <3>5, <3>6, <3>8, <3>10, <4>1, <4>2, EnterInv
    <3> QED BY <3>7, <3>9, <3>10
  <2>2. CASE ~AdmitTailnet(NodeOf[b])
    <3>1. /\ at[b] = "idle" /\ Enter(b, "refused", {})
          /\ UNCHANGED <<devices, used, cookie, clock, exposed>>
      BY <1>1, <2>2 DEF ByTailnet
    <3> QED BY <3>1, SameList, EnterInv DEF Ids
  <2> QED BY <2>1, <2>2
<1>2. ASSUME NEW b \in Browser, NEW route \in {"attach", "pair"}, ByBearerToken(b, route)
      PROVE  Inv'
  <2> DEFINE found == {d \in ByToken(devices, cookie[b]) : ~d.blocked}
  <2>1. at[b] = "idle" /\ UNCHANGED <<devices, used, cookie, clock, exposed>>
    BY <1>2 DEF ByBearerToken
  <2>2. CASE Enter(b, "refused", {})
    BY <2>1, <2>2, SameList, EnterInv DEF Ids
  <2>3. ASSUME NEW d \in found, Enter(b, route, {d}) PROVE Inv'
    <3>1. d \in devices /\ d.kind = "paired" /\ d.tokenHash = HashToken(cookie[b])
      BY DEF ByToken
    <3>2. d \in Device /\ d.id \in used
      BY <1>t, <3>1 DEF Sound, Ids
    <3>3. d.id = cookie[b]
      BY <1>t, <3>1 DEF RowsTokens, HashToken
    <3>4. {d} \in SUBSET Device /\ Ids({d}) \subseteq used' /\ {d} # {}
      BY <2>1, <3>2 DEF Ids
    <3>5. \A x \in {d} : x.kind = "paired" /\ x.id = cookie[b]
      BY <3>1, <3>3
    <3> QED BY <2>1, <2>3, <3>4, <3>5, SameList, EnterInv
  <2> QED BY <1>2, <2>2, <2>3 DEF ByBearerToken
<1>3. ASSUME NEW b \in Browser, PairingRoute(b) PROVE Inv'
  <2>1. /\ at[b] = "idle" /\ Enter(b, "pair", {})
        /\ UNCHANGED <<devices, used, cookie, clock, exposed>>
    BY <1>3 DEF PairingRoute
  <2> QED BY <2>1, SameList, EnterInv DEF Ids
<1>4. ASSUME NEW b \in Browser, TurnedAway(b) \/ Drop(b) \/ Closed(b) PROVE Inv'
  <2>1. Leave(b) /\ UNCHANGED <<devices, used, cookie>>
    BY <1>4 DEF TurnedAway, Drop, Closed
  <2>2. cookie' \in [Browser -> DeviceId \cup {None}]
    BY <1>t, <2>1 DEF TypeOK
  <2> QED BY <2>1, <2>2, SameList, LeaveInv
<1>5. ASSUME NEW b \in Browser, Pair(b) PROVE Inv'
  <2>0. Leave(b)
    BY <1>5 DEF Pair
  <2>1. CASE \E d \in who[b] : d.kind = "tailnet"
    <3>1. PICK d \in who[b], m \in Name : \E e \in Rename(devices, d.id, m) :
            Store(e) /\ UNCHANGED cookie
      BY <1>5, <2>1 DEF Pair
    <3>2. PICK e \in Rename(devices, d.id, m) : Store(e) /\ UNCHANGED cookie
      BY <3>1
    <3>3. PICK i \in DeviceId : i = d.id
      BY <1>t DEF TypeOK, Device
    <3>b. e \in Rename(devices, i, m)
      BY <3>3
    <3>4. /\ e \in Effect /\ Sound(e.rows, used \cup Ids(e.rows)) /\ RowsTokens(e.rows)
          /\ \A id \in used : CapabilityOf(e.rows, id) = CapabilityOf(devices, id)
      BY <1>t, <3>b, RequestsKeep
    <3>5. ListInv' /\ devices' \in SUBSET Device /\ used' \in SUBSET DeviceId
          /\ used \subseteq used'
      BY <3>2, <3>4, NewList
    <3>6. /\ \A id \in used : CapabilityOf(devices', id) = CapabilityOf(devices, id)
          /\ cookie' \in [Browser -> DeviceId \cup {None}]
      BY <1>t, <3>2, <3>4 DEF Store, TypeOK
    <3> QED BY <2>0, <3>2, <3>5, <3>6, LeaveInv
  <2>2. CASE ~\E d \in who[b] : d.kind = "tailnet"
    <3>0. PICK m \in Name : \E e \in CreatePaired(devices, used, m) :
            /\ Store(e)
            /\ \/ UNCHANGED cookie
               \/ \E d \in e.reply.found : cookie' = [cookie EXCEPT ![b] = d.id]
      BY <1>5, <2>2 DEF Pair
    <3>1. PICK e \in CreatePaired(devices, used, m) :
            /\ Store(e)
            /\ \/ UNCHANGED cookie
               \/ \E d \in e.reply.found : cookie' = [cookie EXCEPT ![b] = d.id]
      BY <3>0
    <3>4. /\ e \in Effect /\ Sound(e.rows, used \cup Ids(e.rows)) /\ RowsTokens(e.rows)
          /\ \A id \in used : CapabilityOf(e.rows, id) = CapabilityOf(devices, id)
          /\ \A d \in e.reply.found : d.id \in DeviceId
      BY <1>t, CreateKeeps
    <3>5. ListInv' /\ devices' \in SUBSET Device /\ used' \in SUBSET DeviceId
          /\ used \subseteq used'
      BY <3>1, <3>4, NewList
    <3>6. /\ \A id \in used : CapabilityOf(devices', id) = CapabilityOf(devices, id)
          /\ cookie' \in [Browser -> DeviceId \cup {None}]
      BY <1>t, <3>1, <3>4 DEF Store, TypeOK
    <3>7. UNCHANGED cookie \/ \E x : cookie' = [cookie EXCEPT ![b] = x]
      BY <3>1
    <3> QED BY <2>0, <3>5, <3>6, <3>7, LeaveInv
  <2> QED BY <2>1, <2>2
<1>6. ASSUME NEW b \in Browser, Open(b) \/ Check(b) PROVE Inv'
  <2>0. /\ UNCHANGED <<devices, used, cookie, who, exposed>>
        /\ clock' = [clock EXCEPT ![b] = 0]
        /\ \A c \in Browser \ {b} : at'[c] = at[c]
        /\ at'[b] \in {"open", "closing"}
        /\ at' \in [Browser -> {"idle", "refused", "pair", "attach", "open", "closing"}]
    BY <1>t, <1>6 DEF Open, Check, TypeOK
  <2>1. TypeOK'
    BY <1>t, <2>0 DEF TypeOK
  <2>2. BrowserInv(b)'
    <3>1. BrowserInv(b) /\ clock'[b] = 0
      BY <1>t, <2>0 DEF Inv, TypeOK
    <3>2. \A d \in who[b] : Entitled(d)' <=> Entitled(d)
      BY <2>0 DEF Entitled
    <3>3. CASE Open(b)
      <4>1. exposed[b] = 0 /\ who[b] # {} /\ at'[b] = "open"
        BY <1>t, <3>1, <3>3 DEF Open, BrowserInv, Attached, TypeOK
      <4> QED BY <2>0, <3>1, <3>2, <4>1 DEF BrowserInv, Attached, AdmitTailnet
    <3>4. CASE Check(b)
      <4>1. who[b] # {} /\ exposed[b] <= CheckInterval /\ exposed[b] \in Nat
        BY <1>t, <3>1, <3>4 DEF Check, BrowserInv, TypeOK
      <4>2. at'[b] = "closing" \/ (at'[b] = "open" /\ exposed[b] = 0)
        BY <1>t, <3>1, <3>4 DEF Check, BrowserInv, TypeOK
      <4> QED BY <2>0, <3>1, <3>2, <4>1, <4>2 DEF BrowserInv, Attached, AdmitTailnet
    <3> QED BY <1>6, <3>3, <3>4
  <2>3. \A c \in Browser \ {b} : BrowserInv(c)'
    <3>1. \A c \in Browser \ {b} : /\ at'[c] = at[c] /\ who'[c] = who[c]
                                   /\ clock'[c] = clock[c] /\ exposed'[c] = exposed[c]
      BY <1>t, <2>0 DEF TypeOK
    <3> QED BY <2>0, <3>1, SameList, OthersKeep
  <2> QED BY <2>0, <2>1, <2>2, <2>3, SameList DEF Inv, ListInv
<1>7. CASE Tick
  <2>0. UNCHANGED <<devices, used, cookie, at, who>>
    BY <1>7 DEF Tick
  <2>1. ASSUME NEW b \in Browser
        PROVE  BrowserInv(b)' /\ clock'[b] \in 0 .. CheckInterval + CloseGrace
               /\ exposed'[b] \in Nat
    <3>1. BrowserInv(b) /\ clock[b] \in Nat /\ exposed[b] \in Nat
      BY <1>t DEF Inv, TypeOK
    <3>2. \A d \in who[b] : Entitled(d)' <=> Entitled(d)
      BY <2>0 DEF Entitled
    <3>3. CASE at[b] \in Attached
      <4>1. /\ clock'[b] = clock[b] + 1
            /\ exposed'[b] = IF \E d \in who[b] : ~Entitled(d) THEN exposed[b] + 1 ELSE 0
            /\ at[b] = "open" => clock[b] < CheckInterval
            /\ at[b] = "closing" => clock[b] < CloseGrace
        BY <1>7, <3>3 DEF Tick, Attached
      <4>2. exposed'[b] <= exposed[b] + 1 /\ exposed'[b] \in Nat
            /\ ((\A d \in who[b] : Entitled(d)) => exposed'[b] = 0)
        BY <3>1, <4>1
      <4>3. clock'[b] \in 0 .. CheckInterval + CloseGrace
        BY <3>1, <3>3, <4>1 DEF Attached
      <4>4. at[b] = "open" => clock'[b] <= CheckInterval /\ exposed'[b] <= clock'[b]
        BY <3>1, <4>1, <4>2 DEF BrowserInv
      <4>5. at[b] = "closing" => clock'[b] <= CloseGrace
                                 /\ exposed'[b] <= CheckInterval + clock'[b]
        BY <3>1, <4>1, <4>2 DEF BrowserInv
      <4> QED BY <2>0, <3>1, <3>2, <3>3, <4>2, <4>3, <4>4, <4>5
              DEF BrowserInv, AdmitTailnet, Attached
    <3>4. CASE at[b] \notin Attached
      <4>1. clock'[b] = clock[b] /\ exposed'[b] = 0
        BY <1>7, <3>4 DEF Tick, Attached
      <4>2. clock[b] \in 0 .. CheckInterval + CloseGrace
        BY <1>t DEF TypeOK
      <4> QED BY <2>0, <3>1, <3>2, <3>4, <4>1, <4>2 DEF BrowserInv, AdmitTailnet, Attached
    <3> QED BY <3>3, <3>4
  <2>2. TypeOK'
    <3>1. clock' \in [Browser -> 0 .. CheckInterval + CloseGrace]
      BY <1>7, <2>1 DEF Tick
    <3>2. exposed' \in [Browser -> Nat]
      BY <1>7, <2>1 DEF Tick
    <3> QED BY <1>t, <2>0, <3>1, <3>2 DEF TypeOK
  <2> QED BY <2>0, <2>1, <2>2, SameList DEF Inv, ListInv
<1>8. ASSUME NEW i \in used, CLI(i) PROVE Inv'
  <2>1. PICK e \in (UNION {SetCapability(devices, i, c) : c \in Capability})
                  \cup (UNION {Rename(devices, i, m) : m \in Name})
                  \cup Revoke(devices, i) \cup Unblock(devices, i) : Store(e)
    BY <1>8 DEF CLI
  <2>2. i \in DeviceId
    BY <1>t DEF TypeOK
  <2>3. e \in Effect /\ Sound(e.rows, used \cup Ids(e.rows)) /\ RowsTokens(e.rows)
    BY <1>t, <2>2, CLIKeeps
  <2>4. ListInv' /\ devices' \in SUBSET Device /\ used' \in SUBSET DeviceId
        /\ used \subseteq used'
    BY <2>1, <2>3, NewList
  <2>5. UNCHANGED <<cookie, at, who, clock>>
    BY <1>8 DEF CLI
  <2>6. ASSUME NEW b \in Browser PROVE BrowserInv(b)' /\ exposed'[b] \in Nat
    <3>1. BrowserInv(b) /\ exposed[b] \in Nat /\ clock[b] \in Nat
      BY <1>t DEF Inv, TypeOK
    <3>2. exposed'[b] = IF \E d \in who[b] : ~Entitled(d)' THEN exposed[b] ELSE 0
      BY <1>8 DEF CLI
    <3>3. /\ exposed'[b] \in Nat /\ exposed'[b] <= exposed[b]
          /\ (\A d \in who[b] : Entitled(d)') => exposed'[b] = 0
      BY <3>1, <3>2
    <3> QED BY <2>4, <2>5, <3>1, <3>3 DEF BrowserInv, AdmitTailnet
  <2>7. TypeOK'
    <3>1. exposed' \in [Browser -> Nat]
      BY <1>8, <2>6 DEF CLI
    <3> QED BY <1>t, <2>4, <2>5, <3>1 DEF TypeOK
  <2> QED BY <2>4, <2>6, <2>7 DEF Inv, ListInv
<1>9. CASE UNCHANGED vars
  <2>1. UNCHANGED <<devices, used, cookie, at, who, clock, exposed>>
    BY <1>9 DEF vars
  <2>2. \A b \in Browser : BrowserInv(b)'
    BY <2>1 DEF Inv, BrowserInv, Entitled, AdmitTailnet
  <2> QED BY <2>1, <2>2, SameList DEF Inv, ListInv, TypeOK
<1> QED
  BY <1>1, <1>2, <1>3, <1>4, <1>5, <1>6, <1>7, <1>8, <1>9 DEF Next, Serve

THEOREM Invariance == Spec => []Inv
BY InitInv, NextInv, PTL DEF Spec

---------------------------------------------------------------------------
\* A device keeps what it has lost for no longer than one check interval and one
\* closing handshake, however long those are (watchCapability).
THEOREM ExposureIsBounded == Spec => []ExposureBounded
<1>1. Inv => ExposureBounded
  <2> SUFFICES ASSUME Inv, NEW b \in Browser
               PROVE  exposed[b] <= CheckInterval + CloseGrace
    BY DEF ExposureBounded
  <2>1. clock[b] \in Nat /\ exposed[b] \in Nat /\ BrowserInv(b)
    BY TimeAssumption DEF Inv, TypeOK
  <2> QED BY <2>1, TimeAssumption DEF BrowserInv, Attached
<1> QED BY <1>1, Invariance, PTL

\* A terminal is open only for a node of the same user without a tag, or for the
\* holder of a token, never of its hash (resolve, identifyLAN).
THEOREM OnlyAdmitted == Spec => []AdmittedOnly
<1>1. Inv => AdmittedOnly
  BY DEF Inv, BrowserInv, AdmittedOnly, AdmitTailnet
<1> QED BY <1>1, Invariance, PTL

LEMMA RenameRows ==
    ASSUME NEW D, NEW i, NEW m, NEW e \in Rename(D, i, m)
    PROVE  e.rows = D \/ \E d \in D : d.id = i /\ e.rows = (D \ {d}) \cup {[d EXCEPT !.name = m]}
<1>1. CASE ById(D, i) = {}
  BY <1>1 DEF Rename, Mutate, Unsaved
<1>2. CASE ById(D, i) # {}
  <2>1. PICK d \in ById(D, i) : e = Saved((D \ {d}) \cup {[d EXCEPT !.name = m]}, Done)
    BY <1>2 DEF Rename, Mutate, ById
  <2>2. d \in D /\ d.id = i
    BY DEF ById
  <2> QED BY <2>1, <2>2 DEF Saved
<1> QED BY <1>1, <1>2

\* Pairing a device the tailnet vouches for changes the name of its row, as that is by
\* then, and nothing else, whatever the CLI did since it was identified (handlePair).
THEOREM PairingNames == Spec => PairingOnlyNames
<1>1. ASSUME Inv, [Next]_vars, NEW b \in Browser, PairsAgain(b)
      PROVE  NamesItsRow(b)
  <2> USE DEF PairsAgain
  <2>t. TypeOK
    BY <1>1 DEF Inv
  <2>1. Pair(b)
    <3>1. ~UNCHANGED vars /\ ~Tick /\ \A i \in used : ~CLI(i)
      BY <1>1 DEF vars, Tick, CLI
    <3>2. ASSUME NEW c \in Browser, NEW route \in {"attach", "pair"},
                 ByTailnet(c, route) \/ ByBearerToken(c, route) \/ PairingRoute(c)
          PROVE  FALSE
      BY <1>1, <2>t, <3>2 DEF ByTailnet, ByBearerToken, PairingRoute, Enter, TypeOK
    <3>3. ASSUME NEW c \in Browser, Serve(c), ~Pair(b) PROVE FALSE
      <4>1. CASE c = b
        BY <1>1, <2>t, <3>3, <4>1
           DEF Serve, TurnedAway, Open, Drop, Check, Closed, TypeOK
      <4>2. CASE c # b
        <5>1. at'[b] = at[b]
          BY <1>1, <2>t, <3>3, <4>2
             DEF Serve, TurnedAway, Pair, Open, Drop, Check, Closed, Leave, Enter, TypeOK
        <5> QED BY <1>1, <5>1
      <4> QED BY <4>1, <4>2
    <3> QED BY <1>1, <3>1, <3>2, <3>3 DEF Next
  <2>2. PICK d \in who[b], m \in Name : \E e \in Rename(devices, d.id, m) :
          Store(e) /\ UNCHANGED cookie
    BY <1>1, <2>1 DEF Pair
  <2>3. PICK e \in Rename(devices, d.id, m) : devices' = e.rows
    BY <2>2 DEF Store
  <2>4. PICK f \in devices : f.id = d.id /\ devices' = (devices \ {f}) \cup {[f EXCEPT !.name = m]}
    BY <1>1, <2>3, RenameRows
  <2> QED BY <2>4 DEF NamesItsRow
<1>2. Inv /\ [Next]_vars => [\A b \in Browser : PairsAgain(b) => NamesItsRow(b)]_vars
  BY <1>1
<1> QED BY <1>2, Invariance, PTL DEF Spec, PairingOnlyNames

---------------------------------------------------------------------------
(* The refinement of Lease.                                                *)

Holds(b) == IF at[b] \in Attached THEN at[b] ELSE "free"

MayHold(b) == \A d \in who[b] : Entitled(d)

\* A step that does not move the terminal of a browser does at most something to
\* its right.
LEMMA SameHold ==
    ASSUME Inv, Inv', NEW b \in Browser, Holds(b)' = Holds(b), clock'[b] = clock[b],
           exposed'[b] = exposed[b] \/ MayHold(b)'
    PROVE  [LeaseOf(b)!Next]_(LeaseOf(b)!vars)
<1>1. MayHold(b) \in BOOLEAN /\ MayHold(b)' \in BOOLEAN
  BY DEF MayHold
<1>2. (MayHold(b) => exposed[b] = 0) /\ (MayHold(b)' => exposed'[b] = 0)
  BY DEF Inv, BrowserInv, MayHold
<1>3. CASE MayHold(b)' = MayHold(b)
  <2>1. exposed'[b] = exposed[b]
    BY <1>2, <1>3
  <2> QED BY <1>3, <2>1 DEF LeaseOf!vars, Holds, MayHold, Attached
<1>4. CASE MayHold(b)' # MayHold(b)
  <2>1. MayHold(b)' = ~MayHold(b)
    BY <1>1, <1>4
  <2>2. exposed'[b] = IF MayHold(b)' THEN 0 ELSE exposed[b]
    BY <1>2
  <2>3. LeaseOf(b)!RightChanges
    BY <2>1, <2>2 DEF LeaseOf!RightChanges, Holds, MayHold, Attached
  <2> QED BY <2>3 DEF LeaseOf!Next
<1> QED BY <1>3, <1>4

\* A browser that leaves gives up what it may have held.
LEMMA LeavesLease ==
    ASSUME Inv, Inv', NEW b \in Browser, Leave(b)
    PROVE  [LeaseOf(b)!Next]_(LeaseOf(b)!vars)
<1>1. at'[b] = "idle" /\ clock'[b] = 0 /\ exposed'[b] = 0
  BY DEF Leave, Enter, Inv, TypeOK
<1>2. CASE at[b] \in Attached
  <2>1. MayHold(b)' \in BOOLEAN
    BY DEF MayHold
  <2>2. LeaseOf(b)!GiveUp
    BY <1>1, <1>2, <2>1 DEF LeaseOf!GiveUp, MayHold, Attached
  <2> QED BY <2>2 DEF LeaseOf!Next
<1>3. CASE at[b] \notin Attached
  <2>1. clock[b] = 0 /\ exposed[b] = 0
    BY <1>3 DEF Inv, BrowserInv
  <2> QED BY <1>1, <1>3, <2>1, SameHold DEF Holds, Attached
<1> QED BY <1>2, <1>3

\* A step of one browser moves no other's terminal.
LEMMA OthersHold ==
    ASSUME Inv, Inv', NEW b \in Browser, NEW c \in Browser, c # b, at'[c] = at[c],
           clock'[c] = clock[c], exposed'[c] = exposed[c]
    PROVE  [LeaseOf(c)!Next]_(LeaseOf(c)!vars)
BY SameHold DEF Holds

LEMMA StepKeepsLeases ==
    Inv /\ Inv' /\ [Next]_vars => \A b \in Browser : [LeaseOf(b)!Next]_(LeaseOf(b)!vars)
<1> SUFFICES ASSUME Inv, Inv', [Next]_vars, NEW c \in Browser
             PROVE  [LeaseOf(c)!Next]_(LeaseOf(c)!vars)
  OBVIOUS
<1>0. TypeOK
  BY DEF Inv
<1>1. ASSUME NEW b \in Browser, NEW route \in {"attach", "pair"},
             ByTailnet(b, route) \/ ByBearerToken(b, route) \/ PairingRoute(b)
      PROVE  [LeaseOf(c)!Next]_(LeaseOf(c)!vars)
  <2>1. at[b] = "idle" /\ UNCHANGED <<clock, exposed>>
    BY <1>1 DEF ByTailnet, ByBearerToken, PairingRoute
  <2>2. \E state \in {"refused", "attach", "pair"} : at' = [at EXCEPT ![b] = state]
    BY <1>1 DEF ByTailnet, ByBearerToken, PairingRoute, Enter
  <2>3. Holds(c)' = Holds(c)
    BY <1>0, <2>1, <2>2 DEF Holds, Attached, TypeOK
  <2> QED BY <2>1, <2>3, SameHold
<1>2. ASSUME NEW b \in Browser, TurnedAway(b) \/ Pair(b) \/ Drop(b) \/ Closed(b)
      PROVE  [LeaseOf(c)!Next]_(LeaseOf(c)!vars)
  <2>1. Leave(b)
    BY <1>2 DEF TurnedAway, Pair, Drop, Closed
  <2>2. CASE c # b
    BY <1>0, <2>1, <2>2, OthersHold DEF Leave, Enter, TypeOK
  <2> QED BY <2>1, <2>2, LeavesLease
<1>3. ASSUME NEW b \in Browser, Open(b)
      PROVE  [LeaseOf(c)!Next]_(LeaseOf(c)!vars)
  <2>1. CASE c # b
    BY <1>0, <1>3, <2>1, OthersHold DEF Open, TypeOK
  <2>2. CASE c = b
    <3>1. MayHold(b)' = MayHold(b)
      BY <1>3 DEF Open, MayHold, Entitled
    <3>2. LeaseOf(b)!Open
      BY <1>0, <1>3, <3>1 DEF Open, LeaseOf!Open, MayHold, TypeOK
    <3> QED BY <2>2, <3>2 DEF LeaseOf!Next
  <2> QED BY <2>1, <2>2
<1>4. ASSUME NEW b \in Browser, Check(b)
      PROVE  [LeaseOf(c)!Next]_(LeaseOf(c)!vars)
  <2>1. CASE c # b
    BY <1>0, <1>4, <2>1, OthersHold DEF Check, TypeOK
  <2>2. CASE c = b
    <3>1. MayHold(b)' = MayHold(b)
      BY <1>4 DEF Check, MayHold, Entitled
    <3>2. /\ at[b] = "open" /\ clock[b] = CheckInterval /\ clock'[b] = 0
          /\ (MayHold(b) /\ at'[b] = "open") \/ at'[b] = "closing"
          /\ exposed'[b] = exposed[b]
      BY <1>0, <1>4 DEF Check, MayHold, TypeOK
    <3>3. LeaseOf(b)!Check
      BY <3>1, <3>2, TimeAssumption DEF LeaseOf!Check, MayHold
    <3> QED BY <2>2, <3>3 DEF LeaseOf!Next
  <2> QED BY <2>1, <2>2
<1>5. CASE Tick
  <2>1. MayHold(c)' = MayHold(c) /\ at' = at
    BY <1>5 DEF Tick, MayHold, Entitled
  <2>2. CASE at[c] \in Attached
    <3>1. /\ clock'[c] = clock[c] + 1
          /\ exposed'[c] = IF MayHold(c) THEN 0 ELSE exposed[c] + 1
          /\ at[c] = "open" => clock[c] < CheckInterval
          /\ at[c] = "closing" => clock[c] < CloseGrace
      BY <1>5, <2>2 DEF Tick, MayHold, Attached
    <3>2. LeaseOf(c)!Tick
      BY <2>1, <2>2, <3>1 DEF LeaseOf!Tick, MayHold, Attached
    <3> QED BY <3>2 DEF LeaseOf!Next
  <2>3. CASE at[c] \notin Attached
    <3>1. clock'[c] = clock[c] /\ exposed'[c] = 0 /\ exposed[c] = 0
      BY <1>5, <2>3 DEF Tick, Attached, Inv, BrowserInv
    <3> QED BY <2>1, <3>1, SameHold DEF Holds
  <2> QED BY <2>2, <2>3
<1>6. ASSUME NEW id \in used, CLI(id)
      PROVE  [LeaseOf(c)!Next]_(LeaseOf(c)!vars)
  <2>1. /\ UNCHANGED <<at, clock>>
        /\ exposed'[c] = IF \E d \in who[c] : ~Entitled(d)' THEN exposed[c] ELSE 0
        /\ who' = who
    BY <1>6 DEF CLI
  <2>2. exposed'[c] = exposed[c] \/ MayHold(c)'
    BY <2>1 DEF MayHold
  <2> QED BY <2>1, <2>2, SameHold DEF Holds
<1>7. CASE UNCHANGED vars
  BY <1>7, SameHold DEF vars, Holds
<1> QED BY <1>1, <1>2, <1>3, <1>4, <1>5, <1>6, <1>7 DEF Next, Serve

\* Every attach of every browser is a lease, of which Attach is the implementation
\* (watchCapability): the list may be changed by anybody at any time.
THEOREM AttachesAreLeases == Spec => KeepsLeases
<1>1. Init => \A b \in Browser : LeaseOf(b)!Init
  BY DEF Init, LeaseOf!Init
<1> QED BY <1>1, StepKeepsLeases, Invariance, PTL DEF Spec, KeepsLeases

---------------------------------------------------------------------------
(* Daemon: the inductive invariant.                                        *)

Reported == {l \in Tail : ln[l] = "reported"}

\* Before the listeners are bound there is nothing to report.
NothingBound == pc \in {"down", "starting", "probing"} => ln = NoListener /\ errs = 0

\* The LAN's goroutine reports nothing.
LanIsQuiet == ln[Lan] \notin {"failed", "reported"}

\* What is in the channel was put there by listeners of the tailnet, once each.
OneErrorEach == errs <= Cardinality(Reported)

\* Servers are shut down in order, the LAN's if there is one.
ShutInOrder ==
    /\ pc \in {"down", "starting", "probing", "bound", "serving"} => shut = {}
    /\ pc = "closing" => shut = {} \/ (shut = Tail /\ ln[Lan] # "none")
    /\ pc = "waiting" => shut = Listener \/ (shut = Tail /\ ln[Lan] = "none")


\* The type invariant in parts.
DaemonFlags == file \in BOOLEAN /\ wanted \in BOOLEAN /\ told \in BOOLEAN /\ orphan \in BOOLEAN

DaemonPlaces ==
    /\ unit \in {"inactive", "active", "stopping", "restarting", "backoff"}
    /\ pc \in {"down", "starting", "probing", "bound", "serving", "closing", "waiting"}
    /\ unit \in {"active", "stopping"} => pc # "down"
    /\ unit \in {"inactive", "backoff"} => pc = "down"
    /\ ln \in [Listener -> {"none", "serving", "failed", "reported", "done"}]
    /\ cause \in {Unset, "told", "error"}
    /\ shut \in {{}, Tail, Listener}
    /\ cli \in [Cli -> {"idle", "saved", "restart"}]

ConfigLoaded == cfg \in BOOLEAN \cup {Unset} /\ (cfg = Unset <=> pc \in {"down", "starting"})

DaemonInv ==
    /\ DaemonFlags /\ DaemonPlaces /\ ConfigLoaded /\ errs \in Nat
    /\ ConfigInForce /\ StopsForCause /\ NothingBound /\ LanIsQuiet /\ OneErrorEach

LEMMA ReportedFinite ==
    /\ IsFiniteSet(Tail) /\ Cardinality(Tail) \in Nat
    /\ IsFiniteSet(Reported) /\ Cardinality(Reported) \in Nat
    /\ Cardinality(Reported) <= Cardinality(Tail)
<1>1. IsFiniteSet(Tail)
  BY ListenerAssumption
<1>2. Reported \in SUBSET Tail
  BY DEF Reported
<1>3. IsFiniteSet(Reported) /\ Cardinality(Reported) <= Cardinality(Tail)
  BY <1>1, <1>2, FS_Subset
<1> QED BY <1>1, <1>3, FS_CardinalityType

LEMMA DaemonTypes == DaemonInv => DaemonTypeOK
<1> SUFFICES ASSUME DaemonInv PROVE DaemonTypeOK
  OBVIOUS
<1>1. errs \in 0 .. Cardinality(Tail)
  BY ReportedFinite DEF DaemonInv, OneErrorEach
<1> QED BY <1>1 DEF DaemonInv, DaemonTypeOK, DaemonFlags, DaemonPlaces, ConfigLoaded

LEMMA NoListenerFacts ==
    /\ NoListener \in [Listener -> {"none", "serving", "failed", "reported", "done"}]
    /\ \A l \in Listener : NoListener[l] = "none"
    /\ Lan \in Listener
BY DEF NoListener, Listener

LEMMA DaemonInitInv == DaemonInit => DaemonInv
<1> SUFFICES ASSUME DaemonInit PROVE DaemonInv
  OBVIOUS
<1> USE NoListenerFacts, ReportedFinite DEF DaemonInit
<1>1. DaemonFlags /\ DaemonPlaces /\ ConfigLoaded
  BY DEF DaemonFlags, DaemonPlaces, ConfigLoaded
<1>2. ConfigInForce /\ StopsForCause
  BY DEF ConfigInForce, StopsForCause
<1>3. errs \in Nat /\ NothingBound /\ LanIsQuiet /\ OneErrorEach
  BY DEF NothingBound, LanIsQuiet, OneErrorEach
<1> QED BY <1>1, <1>2, <1>3 DEF DaemonInv

\* The process exits, of itself or not.
LEMMA ExitsHolds ==
    ASSUME DaemonInv, NEW failed \in BOOLEAN, Exits(failed), UNCHANGED <<file, wanted, cli, orphan>>
    PROVE  DaemonInv'
<1> USE DEF Exits
<1>1. DaemonFlags'
  BY DEF DaemonInv, DaemonFlags
<1>2. DaemonPlaces'
  <2>1. unit' \in {"inactive", "restarting", "backoff"}
    BY DEF DaemonInv, DaemonPlaces
  <2> QED BY <2>1, NoListenerFacts DEF DaemonInv, DaemonPlaces
<1>3. ConfigLoaded' /\ ConfigInForce' /\ StopsForCause'
  BY DEF ConfigLoaded, ConfigInForce, StopsForCause
<1>4. NothingBound' /\ LanIsQuiet'
  BY NoListenerFacts DEF NothingBound, LanIsQuiet, NoListener, Listener
<1>5. errs' \in Nat /\ OneErrorEach'
  <2>1. Reported' = {}
    BY NoListenerFacts DEF Reported, Listener
  <2> QED BY <2>1, FS_EmptySet DEF OneErrorEach
<1> QED BY <1>1, <1>2, <1>3, <1>4, <1>5 DEF DaemonInv

\* An action that leaves the listeners alone, and does not go back before they are bound.
LEMMA ListenersUntouched ==
    ASSUME DaemonInv, UNCHANGED <<ln, errs>>,
           pc' \in {"down", "starting", "probing"} => pc \in {"down", "starting", "probing"}
    PROVE  errs' \in Nat /\ NothingBound' /\ LanIsQuiet' /\ OneErrorEach'
BY DEF DaemonInv, NothingBound, LanIsQuiet, OneErrorEach, Reported

\* systemctl, which sends SIGTERM to the process there is.
LEMMA SystemctlHolds ==
    ASSUME DaemonInv, UNCHANGED <<file, pc, cfg, ln, errs, cause, shut>>,
           \/ SystemctlStart
           \/ SystemctlStop
           \/ SystemctlRestart /\ cli' \in [Cli -> {"idle", "saved", "restart"}] /\ UNCHANGED orphan
    PROVE  DaemonInv'
<1>1. /\ DaemonFlags /\ DaemonPlaces /\ ConfigLoaded /\ ConfigInForce /\ StopsForCause
  BY DEF DaemonInv
<1>2. /\ unit' # "active" \/ (unit = "active" /\ cli' = cli)
      /\ told' = told \/ told' = (pc # "down")
      /\ cli' \in [Cli -> {"idle", "saved", "restart"}] /\ orphan' = orphan
  <2>1. CASE SystemctlStart
    BY <1>1, <2>1 DEF SystemctlStart, process, DaemonPlaces
  <2>2. CASE SystemctlStop
    BY <1>1, <2>2 DEF SystemctlStop, DaemonPlaces
  <2>3. CASE SystemctlRestart /\ cli' \in [Cli -> {"idle", "saved", "restart"}] /\ UNCHANGED orphan
    BY <2>3 DEF SystemctlRestart
  <2> QED BY <2>1, <2>2, <2>3
<1>3. DaemonFlags'
  BY <1>1, <1>2 DEF DaemonFlags, SystemctlStart, SystemctlStop, SystemctlRestart
<1>4. /\ unit' \in {"inactive", "active", "stopping", "restarting", "backoff"}
      /\ unit' \in {"active", "stopping"} => pc # "down"
      /\ unit' \in {"inactive", "backoff"} => pc = "down"
  <2>1. CASE SystemctlStart
    BY <1>1, <2>1 DEF SystemctlStart, DaemonPlaces
  <2>2. CASE SystemctlStop
    BY <2>2 DEF SystemctlStop
  <2>3. CASE SystemctlRestart
    BY <2>3 DEF SystemctlRestart
  <2> QED BY <2>1, <2>2, <2>3
<1>5. DaemonPlaces'
  BY <1>1, <1>2, <1>4 DEF DaemonPlaces
<1>6. ConfigLoaded' /\ ConfigInForce' /\ StopsForCause'
  <2>1. ConfigLoaded' /\ ConfigInForce'
    BY <1>1, <1>2 DEF ConfigLoaded, ConfigInForce
  <2>2. StopsForCause'
    <3>1. CASE told' = told
      BY <1>1, <3>1 DEF StopsForCause
    <3>2. CASE told' = (pc # "down")
      BY <3>2 DEF StopsForCause
    <3> QED BY <1>2, <3>1, <3>2
  <2> QED BY <2>1, <2>2
<1>7. errs' \in Nat /\ NothingBound' /\ LanIsQuiet' /\ OneErrorEach'
  BY ListenersUntouched
<1> QED BY <1>3, <1>5, <1>6, <1>7 DEF DaemonInv

LEMMA DaemonNextInv == DaemonInv /\ [DaemonNext]_daemonVars => DaemonInv'
<1> SUFFICES ASSUME DaemonInv, [DaemonNext]_daemonVars PROVE DaemonInv'
  OBVIOUS
<1>0. /\ DaemonFlags /\ DaemonPlaces /\ ConfigLoaded /\ errs \in Nat
      /\ ConfigInForce /\ StopsForCause /\ NothingBound /\ LanIsQuiet /\ OneErrorEach
  BY DEF DaemonInv
<1>1. CASE Start
  <2> USE <1>1 DEF Start
  <2>1. DaemonFlags' /\ DaemonPlaces' /\ ConfigLoaded'
    BY <1>0 DEF DaemonFlags, DaemonPlaces, ConfigLoaded
  <2>2. ConfigInForce' /\ StopsForCause'
    BY <1>0 DEF ConfigInForce, StopsForCause, ConfigLoaded
  <2>3. errs' \in Nat /\ NothingBound' /\ LanIsQuiet' /\ OneErrorEach'
    BY ListenersUntouched
  <2> QED BY <2>1, <2>2, <2>3 DEF DaemonInv
<1>2. CASE User
  <2>1. CASE SystemctlStart
    BY <2>1, SystemctlHolds DEF SystemctlStart, process
  <2>2. CASE SystemctlStop
    BY <2>2, SystemctlHolds DEF SystemctlStop
  <2>3. CASE SystemctlRestart /\ UNCHANGED <<cli, orphan>>
    BY <1>0, <2>3, SystemctlHolds DEF SystemctlRestart, DaemonPlaces
  <2> QED BY <1>2, <2>1, <2>2, <2>3 DEF User
<1>3. CASE Terminated
  <2> USE <1>3 DEF Terminated
  <2>1. DaemonFlags' /\ DaemonPlaces' /\ ConfigLoaded'
    BY <1>0 DEF DaemonFlags, DaemonPlaces, ConfigLoaded
  <2>2. ConfigInForce' /\ StopsForCause'
    BY <1>0 DEF ConfigInForce, StopsForCause
  <2>3. errs' \in Nat /\ NothingBound' /\ LanIsQuiet' /\ OneErrorEach'
    BY ListenersUntouched
  <2> QED BY <2>1, <2>2, <2>3 DEF DaemonInv
<1>4. CASE Dies \/ StartFails \/ Unhooked \/ Wait
  <2>1. PICK failed \in BOOLEAN : Exits(failed) /\ UNCHANGED <<file, wanted, cli, orphan>>
    BY <1>4 DEF Dies, StartFails, Unhooked, Wait
  <2> QED BY <2>1, ExitsHolds
<1>5. CASE Load
  <2> USE <1>5 DEF Load
  <2>1. DaemonFlags' /\ DaemonPlaces'
    BY <1>0 DEF DaemonFlags, DaemonPlaces
  <2>2. ConfigLoaded' /\ ConfigInForce' /\ StopsForCause'
    BY <1>0, ListenerAssumption DEF DaemonFlags, ConfigLoaded, ConfigInForce, StopsForCause
  <2>3. errs' \in Nat /\ NothingBound' /\ LanIsQuiet' /\ OneErrorEach'
    BY ListenersUntouched
  <2> QED BY <2>1, <2>2, <2>3 DEF DaemonInv
<1>6. CASE Bind
  <2> USE <1>6 DEF Bind
  <2>1. /\ ln' \in [Listener -> {"none", "serving", "failed", "reported", "done"}]
        /\ \A l \in Listener : ln'[l] \in {"none", "serving"}
    OBVIOUS
  <2>2. DaemonFlags' /\ DaemonPlaces' /\ ConfigLoaded'
    BY <1>0, <2>1 DEF DaemonFlags, DaemonPlaces, ConfigLoaded
  <2>3. ConfigInForce' /\ StopsForCause'
    BY <1>0 DEF ConfigInForce, StopsForCause
  <2>4. NothingBound' /\ LanIsQuiet'
    BY <2>1 DEF NothingBound, LanIsQuiet, Listener
  <2>5. errs' \in Nat /\ OneErrorEach'
    <3>1. errs = 0 /\ Reported = {} /\ Reported' = {}
      BY <1>0, <2>1, NoListenerFacts DEF NothingBound, Reported, Listener
    <3> QED BY <1>0, <3>1 DEF OneErrorEach
  <2> QED BY <2>2, <2>3, <2>4, <2>5 DEF DaemonInv
<1>7. CASE BindLan
  <2>1. /\ pc = "bound" /\ pc' = "serving"
        /\ ln' \in [Listener -> {"none", "serving", "failed", "reported", "done"}]
        /\ \A l \in Tail : ln'[l] = ln[l]
        /\ ln'[Lan] \notin {"failed", "reported"}
        /\ UNCHANGED <<file, wanted, unit, cfg, told, errs, cause, shut, cli, orphan>>
    BY <1>0, <1>7, ListenerAssumption DEF BindLan, DaemonPlaces, LanIsQuiet, Listener
  <2>2. DaemonFlags' /\ DaemonPlaces' /\ ConfigLoaded'
    BY <1>0, <2>1 DEF DaemonFlags, DaemonPlaces, ConfigLoaded
  <2>3. ConfigInForce' /\ StopsForCause'
    BY <1>0, <2>1 DEF ConfigInForce, StopsForCause
  <2>4. Reported' = Reported
    BY <2>1 DEF Reported
  <2>5. errs' \in Nat /\ NothingBound' /\ LanIsQuiet' /\ OneErrorEach'
    BY <1>0, <2>1, <2>4 DEF NothingBound, LanIsQuiet, OneErrorEach
  <2> QED BY <2>2, <2>3, <2>5 DEF DaemonInv
<1>8. CASE Select
  <2> USE <1>8 DEF Select
  <2>1. DaemonFlags' /\ ConfigLoaded' /\ ConfigInForce'
    BY <1>0 DEF DaemonFlags, ConfigLoaded, ConfigInForce
  <2>2. DaemonPlaces'
    BY <1>0 DEF DaemonPlaces
  <2>3. NothingBound' /\ LanIsQuiet'
    BY <1>0 DEF NothingBound, LanIsQuiet
  <2>4. CASE told /\ UNCHANGED errs
    <3>1. StopsForCause'
      BY <1>0, <2>4 DEF StopsForCause
    <3>2. errs' \in Nat /\ OneErrorEach'
      BY <1>0, <2>4 DEF OneErrorEach, Reported
    <3> QED BY <2>1, <2>2, <2>3, <3>1, <3>2 DEF DaemonInv
  <2>5. CASE errs > 0 /\ cause' = "error" /\ errs' = errs - 1
    <3>1. errs' \in Nat /\ Reported' = Reported
      BY <1>0, <2>5 DEF Reported
    <3>2. OneErrorEach' /\ Cardinality(Reported) # 0
      BY <1>0, <2>5, <3>1, ReportedFinite DEF OneErrorEach
    <3>3. PICK l \in Tail : ln[l] = "reported"
      BY <3>2, FS_EmptySet DEF Reported
    <3>4. StopsForCause'
      BY <2>5, <3>3 DEF StopsForCause
    <3> QED BY <2>1, <2>2, <2>3, <3>1, <3>2, <3>4 DEF DaemonInv
  <2> QED BY <2>4, <2>5
<1>9. CASE Shutdown
  <2>1. /\ pc = "closing" /\ pc' \in {"closing", "waiting"} /\ shut' \in {Tail, Listener}
        /\ UNCHANGED <<file, wanted, unit, cfg, told, ln, errs, cause, cli, orphan>>
    BY <1>9 DEF Shutdown
  <2>2. DaemonFlags' /\ DaemonPlaces' /\ ConfigLoaded'
    BY <1>0, <2>1 DEF DaemonFlags, DaemonPlaces, ConfigLoaded
  <2>3. ConfigInForce' /\ StopsForCause'
    BY <1>0, <2>1 DEF ConfigInForce, StopsForCause
  <2>4. errs' \in Nat /\ NothingBound' /\ LanIsQuiet' /\ OneErrorEach'
    BY <2>1, ListenersUntouched
  <2> QED BY <2>2, <2>3, <2>4 DEF DaemonInv
<1>10. ASSUME NEW l \in Listener, ListenerFails(l) \/ ServeReturns(l)
       PROVE  DaemonInv'
  <2>1. /\ ln[l] = "serving"
        /\ ln' = [ln EXCEPT ![l] = "done"] \/ (l # Lan /\ ln' = [ln EXCEPT ![l] = "failed"])
        /\ UNCHANGED <<file, wanted, unit, pc, cfg, told, errs, cause, shut, cli, orphan>>
    BY <1>10 DEF ListenerFails, ServeReturns
  <2>2. /\ ln' \in [Listener -> {"none", "serving", "failed", "reported", "done"}]
        /\ \A m \in Listener : ln'[m] = "reported" <=> ln[m] = "reported"
        /\ ln'[Lan] = ln[Lan] \/ ln'[Lan] = "done"
    BY <1>0, <2>1 DEF DaemonPlaces, Listener
  <2>3. DaemonFlags' /\ DaemonPlaces' /\ ConfigLoaded'
    BY <1>0, <2>1, <2>2 DEF DaemonFlags, DaemonPlaces, ConfigLoaded
  <2>4. ConfigInForce' /\ StopsForCause'
    BY <1>0, <2>1, <2>2 DEF ConfigInForce, StopsForCause, Listener
  <2>5. Reported' = Reported
    BY <2>2 DEF Reported, Listener
  <2>6. NothingBound' /\ LanIsQuiet'
    BY <1>0, <2>1, <2>2, NoListenerFacts DEF NothingBound, LanIsQuiet
  <2>7. errs' \in Nat /\ OneErrorEach'
    BY <1>0, <2>1, <2>5 DEF OneErrorEach
  <2> QED BY <2>3, <2>4, <2>6, <2>7 DEF DaemonInv
<1>11. ASSUME NEW l \in Listener, Report(l)
       PROVE  DaemonInv'
  <2>1. /\ ln[l] = "failed" /\ ln' = [ln EXCEPT ![l] = "reported"] /\ errs' = errs + 1
        /\ UNCHANGED <<file, wanted, unit, pc, cfg, told, cause, shut, cli, orphan>>
    BY <1>11 DEF Report
  <2>2. l \in Tail /\ l # Lan
    BY <1>0, <2>1, ListenerAssumption DEF LanIsQuiet, Listener
  <2>3. /\ ln' \in [Listener -> {"none", "serving", "failed", "reported", "done"}]
        /\ ln'[l] = "reported" /\ \A m \in Listener : m # l => ln'[m] = ln[m]
    BY <1>0, <2>1 DEF DaemonPlaces
  <2>4. DaemonFlags' /\ DaemonPlaces' /\ ConfigLoaded'
    BY <1>0, <2>1, <2>3 DEF DaemonFlags, DaemonPlaces, ConfigLoaded
  <2>5. ConfigInForce' /\ StopsForCause'
    BY <1>0, <2>1, <2>2, <2>3 DEF ConfigInForce, StopsForCause, Listener
  <2>6. Reported' = Reported \cup {l} /\ l \notin Reported
    BY <2>1, <2>2, <2>3 DEF Reported, Listener
  <2>7. errs' \in Nat /\ OneErrorEach'
    <3>1. Cardinality(Reported') = Cardinality(Reported) + 1
      BY <2>6, ReportedFinite, FS_AddElement
    <3> QED BY <1>0, <2>1, <3>1, ReportedFinite DEF OneErrorEach
  <2>8. NothingBound' /\ LanIsQuiet'
    BY <1>0, <2>1, <2>2, <2>3, NoListenerFacts DEF NothingBound, LanIsQuiet, Listener
  <2> QED BY <2>4, <2>5, <2>7, <2>8 DEF DaemonInv
<1>12. ASSUME NEW x \in Cli, Save(x) \/ IsActive(x) \/ CliDies(x)
       PROVE  DaemonInv'
  <2>1. /\ cli' \in [Cli -> {"idle", "saved", "restart"}] /\ file' \in BOOLEAN /\ orphan' \in BOOLEAN
        /\ UNCHANGED <<wanted, unit, pc, cfg, told, ln, errs, cause, shut>>
        /\ orphan' \/ (file' = file /\ orphan' = orphan) \/ cli'[x] = "saved"
    BY <1>0, <1>12 DEF Save, IsActive, CliDies, At, process, DaemonFlags, DaemonPlaces
  <2>2. DaemonFlags' /\ DaemonPlaces' /\ ConfigLoaded'
    BY <1>0, <2>1 DEF DaemonFlags, DaemonPlaces, ConfigLoaded
  <2>3. StopsForCause'
    BY <1>0, <2>1 DEF StopsForCause
  <2>4. ConfigInForce'
    <3>1. CASE Save(x)
      BY <1>0, <3>1 DEF Save, At, ConfigInForce, DaemonPlaces
    <3>2. CASE IsActive(x)
      BY <1>0, <3>2 DEF IsActive, At, process, ConfigInForce, DaemonPlaces
    <3>3. CASE CliDies(x)
      BY <3>3 DEF CliDies, ConfigInForce
    <3> QED BY <1>12, <3>1, <3>2, <3>3
  <2>5. errs' \in Nat /\ NothingBound' /\ LanIsQuiet' /\ OneErrorEach'
    BY <2>1, ListenersUntouched
  <2> QED BY <2>2, <2>3, <2>4, <2>5 DEF DaemonInv
<1>13. ASSUME NEW x \in Cli, Restart(x)
       PROVE  DaemonInv'
  <2>1. cli' \in [Cli -> {"idle", "saved", "restart"}]
    BY <1>0, <1>13 DEF Restart, At, DaemonPlaces
  <2> QED BY <1>13, <2>1, SystemctlHolds DEF Restart, SystemctlRestart
<1>14. CASE UNCHANGED daemonVars
  <2>1. UNCHANGED <<file, wanted, unit, pc, cfg, told, ln, errs, cause, shut, cli, orphan>>
    BY <1>14 DEF daemonVars
  <2>2. DaemonFlags' /\ DaemonPlaces' /\ ConfigLoaded'
    BY <1>0, <2>1 DEF DaemonFlags, DaemonPlaces, ConfigLoaded
  <2>3. ConfigInForce' /\ StopsForCause'
    BY <1>0, <2>1 DEF ConfigInForce, StopsForCause
  <2>4. errs' \in Nat /\ NothingBound' /\ LanIsQuiet' /\ OneErrorEach'
    BY <2>1, ListenersUntouched
  <2> QED BY <2>2, <2>3, <2>4 DEF DaemonInv
<1> QED
  BY <1>1, <1>2, <1>3, <1>4, <1>5, <1>6, <1>7, <1>8, <1>9, <1>10, <1>11, <1>12, <1>13, <1>14
  DEF DaemonNext, Serving

\* The invariant of the daemon's life.
THEOREM DaemonInvariance == DaemonSpec => []DaemonInv
BY DaemonInitInv, DaemonNextInv, PTL DEF DaemonSpec

\* Every server is shut down, the tailnet's first, before wg.Wait waits.  That needs of
\* DaemonInv which states the goroutines can be in.
LEMMA ShutInOrderNext == DaemonInv /\ ShutInOrder /\ [DaemonNext]_daemonVars => ShutInOrder'
<1> SUFFICES ASSUME DaemonInv, ShutInOrder, [DaemonNext]_daemonVars PROVE ShutInOrder'
  OBVIOUS
<1>0. DaemonPlaces /\ Lan \in Listener
  BY NoListenerFacts DEF DaemonInv
<1>1. ASSUME pc' = pc, UNCHANGED shut, ln'[Lan] = "none" <=> ln[Lan] = "none"
      PROVE  ShutInOrder'
  BY <1>1 DEF ShutInOrder
<1>2. CASE Start
  BY <1>2 DEF Start, ShutInOrder
<1>3. CASE User
  BY <1>3, <1>1 DEF User, SystemctlStart, SystemctlStop, SystemctlRestart, process
<1>4. CASE Terminated
  BY <1>4, <1>1 DEF Terminated
<1>5. CASE Dies \/ StartFails \/ Unhooked \/ Wait
  BY <1>5 DEF Dies, StartFails, Unhooked, Wait, Exits, ShutInOrder
<1>6. CASE Load \/ Bind \/ BindLan \/ Select
  BY <1>6 DEF Load, Bind, BindLan, Select, ShutInOrder
<1>7. CASE Shutdown
  <2>1. CASE shut = {} /\ shut' = Tail /\ pc' = (IF ln[Lan] = "none" THEN "waiting" ELSE pc)
    BY <1>7, <2>1 DEF Shutdown, ShutInOrder
  <2>2. CASE shut # {} /\ shut' = Listener /\ pc' = "waiting"
    BY <1>7, <2>2 DEF Shutdown, ShutInOrder
  <2> QED BY <1>7, <2>1, <2>2 DEF Shutdown
<1>8. ASSUME NEW l \in Listener, ListenerFails(l) \/ Report(l) \/ ServeReturns(l)
      PROVE  ShutInOrder'
  <2>1. /\ ln[l] # "none" /\ \E to \in {"failed", "reported", "done"} : ln' = [ln EXCEPT ![l] = to]
        /\ pc' = pc /\ UNCHANGED shut
    BY <1>8 DEF ListenerFails, Report, ServeReturns
  <2>2. ln'[Lan] = "none" <=> ln[Lan] = "none"
    BY <1>0, <2>1 DEF DaemonPlaces
  <2> QED BY <2>1, <2>2, <1>1
<1>9. ASSUME NEW x \in Cli, Save(x) \/ IsActive(x) \/ Restart(x) \/ CliDies(x)
      PROVE  ShutInOrder'
  BY <1>9, <1>1 DEF Save, IsActive, Restart, CliDies, SystemctlRestart, process
<1>10. CASE UNCHANGED daemonVars
  BY <1>10, <1>1 DEF daemonVars
<1> QED
  BY <1>2, <1>3, <1>4, <1>5, <1>6, <1>7, <1>8, <1>9, <1>10 DEF DaemonNext, Serving

\* shutdownAll calls the shutdown of every server that serves (Run): wg.Wait waits for
\* no other.
THEOREM ServersAreShut == DaemonSpec => []ShutInOrder
<1>1. DaemonInit => ShutInOrder
  BY DEF DaemonInit, ShutInOrder
<1> QED BY <1>1, ShutInOrderNext, DaemonInvariance, PTL DEF DaemonSpec

LEMMA ShutIfWaiting == DaemonInv /\ ShutInOrder => NobodyServesOn
<1> SUFFICES ASSUME DaemonInv, ShutInOrder, pc = "waiting", NEW l \in Listener, ln[l] = "serving"
             PROVE  ServerOf(l) \subseteq shut
  BY DEF NobodyServesOn
<1>1. ServerOf(l) \subseteq Listener /\ (l # Lan => ServerOf(l) = Tail)
  BY DEF ServerOf, Listener
<1> QED BY <1>1 DEF ShutInOrder

\* The channel is never full when a goroutine has something for it (Run).
LEMMA RoomForAll == DaemonInv => NobodyBlocks
<1> SUFFICES ASSUME DaemonInv, NEW l \in Listener, ln[l] = "failed" PROVE Room
  BY DEF NobodyBlocks
<1>1. l \in Tail /\ l \notin Reported
  BY DEF DaemonInv, LanIsQuiet, Listener, Reported
<1>2. Reported # Tail /\ Reported \in SUBSET Tail
  BY <1>1 DEF Reported
<1>3. Cardinality(Reported) # Cardinality(Tail)
  BY <1>2, ReportedFinite, FS_Subset
<1> QED BY <1>3, ReportedFinite DEF DaemonInv, OneErrorEach, Room

\* The daemon serves what is in the file, stops for a cause, and waits neither
\* for a goroutine that has no room for its error nor for a server nobody shut down
\* (serve, Run, restartDaemon).
THEOREM DaemonIsSteady == DaemonSpec => []Steady
<1>1. DaemonInv /\ ShutInOrder => Steady
  BY DaemonTypes, RoomForAll, ShutIfWaiting DEF DaemonInv, Steady
<1> QED BY <1>1, DaemonInvariance, ServersAreShut, PTL
==============================================================================
