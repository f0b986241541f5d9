--------------------------- MODULE Devices_proofs ---------------------------
(***************************************************************************)
(* What the operations on the device list do to it, for any list.          *)
(***************************************************************************)
EXTENDS Devices, TLAPS

\* Only a tailnet row is ever blocked: Revoke deletes a paired one.
OnlyTailnetBlocked(D) == \A d \in D : d.blocked => d.kind = "tailnet"

Sound(D, ids) ==
    /\ D \in SUBSET Device
    /\ ids \in SUBSET DeviceId
    /\ Ids(D) \subseteq ids
    /\ UniqueIds(D) /\ OneRowPerNode(D) /\ OnlyTailnetBlocked(D)

\* The three ways a list changes.
AddedRow(D, ids, E, f) ==
    /\ f.id \notin ids
    /\ f.capability = "read" /\ ~f.blocked
    /\ f.kind = "tailnet" => ByNode(D, f.node) = {}
    /\ E = D \cup {f}

ChangedRow(o, D, E, d, f) ==
    /\ f.id = d.id /\ f.kind = d.kind /\ f.node = d.node
    /\ CanWrite(f) => \/ CanWrite(d)
                      \/ o.op = "setCapability" /\ o.id = d.id /\ o.capability = "write"
    /\ d.blocked => f.blocked \/ (o.op = "unblock" /\ o.id = d.id)
    /\ f.blocked => f.kind = "tailnet"
    /\ E = (D \ {d}) \cup {f}

DeletedRow(D, E, d) == ~d.blocked /\ E = D \ {d}

Shape(o, D, ids, E) ==
    \/ E = D
    \/ \E f \in Device : AddedRow(D, ids, E, f)
    \/ \E d \in D, f \in Device : ChangedRow(o, D, E, d, f)
    \/ \E d \in D : DeletedRow(D, E, d)

LEMMA AnswerType ==
    /\ NotFound \in Answer /\ Done \in Answer /\ NothingToWrite \in Answer
    /\ Failed \in Answer /\ NoAnswer \in Answer
    /\ \A D \in SUBSET Device : Reply("ok", D) \in Answer
BY DEF NotFound, Done, NothingToWrite, Failed, NoAnswer, Answer, Reply

\* An effect that leaves the list as it is.
LEMMA SameRows ==
    ASSUME NEW D \in SUBSET Device, NEW ids, NEW o, NEW e, NEW b \in BOOLEAN,
           NEW a \in Answer, e = [rows |-> D, saved |-> b, reply |-> a],
           ReadOnly(o) => ~b
    PROVE  Shape(o, D, ids, e.rows) /\ e \in Effect
           /\ (~e.saved => e.rows = D) /\ (ReadOnly(o) => ~e.saved)
BY DEF Shape, Effect

\* Every operation leaves the list alone, adds a fresh read-only row, changes
\* one row within its rights, or deletes one row that is not blocked.
LEMMA EffectsShape ==
    ASSUME NEW D, NEW ids, Sound(D, ids), NEW o \in Op, NEW e \in Effects(o, D, ids)
    PROVE  Shape(o, D, ids, e.rows) /\ e \in Effect
           /\ (~e.saved => e.rows = D) /\ (ReadOnly(o) => ~e.saved)
<1> DEFINE Goal == Shape(o, D, ids, e.rows) /\ e \in Effect
                   /\ (~e.saved => e.rows = D) /\ (ReadOnly(o) => ~e.saved)
<1> USE DEF Sound, Ids
<1>1. CASE o.op = "register"
  <2>1. o.node \in Node /\ o.name \in Name
    BY <1>1 DEF Op
  <2>2. e \in RegisterTailnet(D, ids, o.node, o.name)
    BY <1>1 DEF Effects
  <2>3. CASE ByNode(D, o.node) # {}
    <3>1. PICK d \in ByNode(D, o.node) :
            e = [rows |-> D, saved |-> ~d.blocked, reply |-> Reply("ok", {d})]
      BY <2>2, <2>3 DEF RegisterTailnet
    <3>2. d \in Device /\ {d} \in SUBSET Device
      BY DEF ByNode
    <3>3. PICK b \in BOOLEAN : b = ~d.blocked
      OBVIOUS
    <3>4. e = [rows |-> D, saved |-> b, reply |-> Reply("ok", {d})]
      BY <3>1, <3>3
    <3>5. Reply("ok", {d}) \in Answer
      BY <3>2, AnswerType
    <3>6. ~ReadOnly(o)
      BY <1>1 DEF ReadOnly
    <3> QED BY <3>4, <3>5, <3>6, SameRows
  <2>4. CASE ByNode(D, o.node) = {}
    <3>1. PICK id \in DeviceId \ ids :
            e = Saved(D \cup {TailnetRow(id, o.node, o.name)},
                      Reply("ok", {TailnetRow(id, o.node, o.name)}))
      BY <2>2, <2>4 DEF RegisterTailnet, Added
    <3>2. TailnetRow(id, o.node, o.name) \in Device
      BY <2>1 DEF TailnetRow, Device, StoredCapability, Capability
    <3>3. AddedRow(D, ids, e.rows, TailnetRow(id, o.node, o.name))
      BY <2>4, <3>1 DEF AddedRow, TailnetRow, Saved
    <3> QED
      BY <1>1, <3>1, <3>2, <3>3 DEF Shape, Saved, Effect, Answer, Reply, ReadOnly
  <2> QED BY <2>3, <2>4
<1>2. CASE o.op = "createPaired"
  <2>1. o.name \in Name
    BY <1>2 DEF Op
  <2>2. PICK id \in DeviceId \ ids :
          e = Saved(D \cup {PairedRow(id, o.name)}, Reply("ok", {PairedRow(id, o.name)}))
    BY <1>2 DEF Effects, CreatePaired, Added
  <2>3. PairedRow(id, o.name) \in Device
    BY <2>1 DEF PairedRow, Device, StoredCapability, Capability
  <2>4. AddedRow(D, ids, e.rows, PairedRow(id, o.name))
    BY <2>2 DEF AddedRow, PairedRow, Saved
  <2> QED
    BY <1>2, <2>2, <2>3, <2>4 DEF Shape, Saved, Effect, Answer, Reply, ReadOnly
<1>3. CASE o.op = "setCapability"
  <2>1. o.id \in DeviceId /\ o.capability \in Capability
    BY <1>3 DEF Op
  <2>2. e \in SetCapability(D, o.id, o.capability)
    BY <1>3 DEF Effects
  <2>3. CASE ById(D, o.id) = {}
    <3>1. e = [rows |-> D, saved |-> FALSE, reply |-> NotFound]
      BY <2>2, <2>3 DEF SetCapability, Mutate, Unsaved
    <3> QED BY <3>1, SameRows, AnswerType
  <2>4. CASE ById(D, o.id) # {}
    <3>1. PICK d \in ById(D, o.id) :
            e = Saved((D \ {d}) \cup {[d EXCEPT !.capability = o.capability]}, Done)
      BY <2>2, <2>4 DEF SetCapability, Mutate, ById
    <3> DEFINE f == [d EXCEPT !.capability = o.capability]
    <3>2. d \in D /\ d.id = o.id /\ d \in Device
      BY <3>1 DEF ById
    <3>3. f \in Device /\ f.id = d.id /\ f.kind = d.kind /\ f.node = d.node
          /\ f.capability = o.capability /\ f.blocked = d.blocked
      BY <2>1, <3>2 DEF Device, StoredCapability
    <3>4. ChangedRow(o, D, e.rows, d, f)
      <4>1. CanWrite(f) => o.capability = "write"
        BY <2>1, <3>3 DEF CanWrite, EffectiveCapability, Capability
      <4> HIDE DEF f
      <4>2. e.rows = (D \ {d}) \cup {f}
        BY <3>1 DEF Saved, f
      <4> QED BY <1>3, <4>1, <4>2, <3>2, <3>3 DEF ChangedRow, OnlyTailnetBlocked
    <3> QED
      BY <1>3, <3>1, <3>2, <3>3, <3>4 DEF Shape, Saved, Done, Effect, Answer, Reply, ReadOnly
  <2> QED BY <2>3, <2>4
<1>4. CASE o.op = "rename"
  <2>1. o.id \in DeviceId /\ o.name \in Name
    BY <1>4 DEF Op
  <2>2. e \in Rename(D, o.id, o.name)
    BY <1>4 DEF Effects
  <2>3. CASE ById(D, o.id) = {}
    <3>1. e = [rows |-> D, saved |-> FALSE, reply |-> NotFound]
      BY <2>2, <2>3 DEF Rename, Mutate, Unsaved
    <3> QED BY <3>1, SameRows, AnswerType
  <2>4. CASE ById(D, o.id) # {}
    <3>1. PICK d \in ById(D, o.id) :
            e = Saved((D \ {d}) \cup {[d EXCEPT !.name = o.name]}, Done)
      BY <2>2, <2>4 DEF Rename, Mutate, ById
    <3> DEFINE f == [d EXCEPT !.name = o.name]
    <3>2. d \in D /\ d.id = o.id /\ d \in Device
      BY <3>1 DEF ById
    <3>3. f \in Device /\ f.id = d.id /\ f.kind = d.kind /\ f.node = d.node
          /\ f.capability = d.capability /\ f.blocked = d.blocked
      BY <2>1, <3>2 DEF Device
    <3>4. ChangedRow(o, D, e.rows, d, f)
      <4>1. CanWrite(f) => CanWrite(d)
        BY <3>3 DEF CanWrite, EffectiveCapability
      <4> HIDE DEF f
      <4>2. e.rows = (D \ {d}) \cup {f}
        BY <3>1 DEF Saved, f
      <4> QED BY <4>1, <4>2, <3>2, <3>3 DEF ChangedRow, OnlyTailnetBlocked
    <3> QED
      BY <1>4, <3>1, <3>2, <3>3, <3>4 DEF Shape, Saved, Done, Effect, Answer, Reply, ReadOnly
  <2> QED BY <2>3, <2>4
<1>5. CASE o.op = "touch"
  <2>1. PICK b \in BOOLEAN, a \in {Done, NothingToWrite} :
          e = [rows |-> D, saved |-> b, reply |-> a]
    BY <1>5 DEF Effects, Touch, Saved, Unsaved
  <2> QED BY <1>5, <2>1, SameRows, AnswerType DEF ReadOnly
<1>6. CASE o.op = "revoke"
  <2>1. o.id \in DeviceId
    BY <1>6 DEF Op
  <2> DEFINE Row == ById(D, o.id)
             Kept == {[d EXCEPT !.blocked = TRUE, !.capability = "read"] :
                        d \in {x \in Row : x.kind = "tailnet"}}
  <2>0. e = Saved((D \ Row) \cup Kept, IF Row = {} THEN NotFound ELSE Done)
    BY <1>6 DEF Effects, Revoke
  <2> HIDE DEF Row, Kept
  <2>2. /\ e.rows = (D \ Row) \cup Kept
        /\ e.saved
        /\ e.reply \in {NotFound, Done}
        /\ e = [rows |-> e.rows, saved |-> e.saved, reply |-> e.reply]
    BY <2>0 DEF Saved
  <2> USE DEF Row, Kept
  <2>3. {NotFound, Done} \subseteq Answer
    BY DEF NotFound, Done, Answer, Reply
  <2>4. CASE Row = {}
    <3>1. e.rows = D
      BY <2>2, <2>4
    <3> QED BY <1>6, <2>2, <2>3, <3>1 DEF Shape, Effect, ReadOnly
  <2>5. CASE Row # {}
    <3>1. PICK d \in D : d.id = o.id
      BY <2>5 DEF ById
    <3>2. Row = {d}
      BY <3>1 DEF ById, UniqueIds
    <3> DEFINE f == [d EXCEPT !.blocked = TRUE, !.capability = "read"]
    <3>3. f \in Device /\ f.id = d.id /\ f.kind = d.kind /\ f.node = d.node
          /\ f.capability = "read" /\ f.blocked
      BY <3>1 DEF Device, StoredCapability, Capability
    <3>4. CASE d.kind = "tailnet"
      <4>1. e.rows = (D \ {d}) \cup {f}
        BY <2>2, <3>2, <3>4
      <4> HIDE DEF f
      <4>2. ~CanWrite(f)
        BY <3>3 DEF CanWrite, EffectiveCapability
      <4>3. ChangedRow(o, D, e.rows, d, f)
        BY <3>3, <3>4, <4>1, <4>2 DEF ChangedRow
      <4> QED BY <1>6, <2>2, <2>3, <3>1, <3>3, <4>1, <4>3 DEF Shape, Effect, ReadOnly
    <3>5. CASE d.kind # "tailnet"
      <4>1. e.rows = D \ {d}
        BY <2>2, <3>2, <3>5
      <4>2. DeletedRow(D, e.rows, d)
        BY <3>1, <3>5, <4>1 DEF DeletedRow, OnlyTailnetBlocked, Device
      <4> QED BY <1>6, <2>2, <2>3, <3>1, <4>1, <4>2 DEF Shape, Effect, ReadOnly
    <3> QED BY <3>4, <3>5
  <2> QED BY <2>4, <2>5
<1>7. CASE o.op = "unblock"
  <2>1. o.id \in DeviceId
    BY <1>7 DEF Op
  <2>2. e \in Unblock(D, o.id)
    BY <1>7 DEF Effects
  <2>3. CASE ById(D, o.id) = {}
    <3>1. e = [rows |-> D, saved |-> FALSE, reply |-> NotFound]
      BY <2>2, <2>3 DEF Unblock, Mutate, Unsaved
    <3> QED BY <3>1, SameRows, AnswerType
  <2>4. CASE ById(D, o.id) # {}
    <3>1. PICK d \in ById(D, o.id) :
            e = Saved((D \ {d}) \cup
                        {[d EXCEPT !.blocked = FALSE, !.capability = "read"]}, Done)
      BY <2>2, <2>4 DEF Unblock, Mutate, ById
    <3> DEFINE f == [d EXCEPT !.blocked = FALSE, !.capability = "read"]
    <3>2. d \in D /\ d.id = o.id /\ d \in Device
      BY <3>1 DEF ById
    <3>3. f \in Device /\ f.id = d.id /\ f.kind = d.kind /\ f.node = d.node
          /\ f.capability = "read" /\ ~f.blocked
      BY <3>2 DEF Device, StoredCapability, Capability
    <3>4. ChangedRow(o, D, e.rows, d, f)
      <4>1. ~CanWrite(f)
        BY <3>3 DEF CanWrite, EffectiveCapability
      <4> HIDE DEF f
      <4>2. e.rows = (D \ {d}) \cup {f}
        BY <3>1 DEF Saved, f
      <4> QED BY <1>7, <4>1, <4>2, <3>2, <3>3 DEF ChangedRow
    <3> QED
      BY <1>7, <3>1, <3>2, <3>3, <3>4 DEF Shape, Saved, Done, Effect, Answer, Reply, ReadOnly
  <2> QED BY <2>3, <2>4
<1>8. CASE o.op \in {"get", "byNode", "byToken"}
  <2>1. PICK found \in SUBSET D : e \in Lookup(D, found)
    <3>1. CASE o.op = "get"
      BY <3>1 DEF Effects, ById
    <3>2. CASE o.op = "byNode"
      BY <3>2 DEF Effects, ByNode
    <3>3. CASE o.op = "byToken"
      BY <3>3 DEF Effects, ByToken
    <3> QED BY <1>8, <3>1, <3>2, <3>3
  <2>2. PICK a \in Answer : e = [rows |-> D, saved |-> FALSE, reply |-> a]
    <3>1. CASE found = {}
      BY <2>1, <3>1, AnswerType DEF Lookup, Unsaved
    <3>2. CASE found # {}
      <4>1. PICK d \in found : e = [rows |-> D, saved |-> FALSE, reply |-> Reply("ok", {d})]
        BY <2>1, <3>2 DEF Lookup, Unsaved
      <4>2. {d} \in SUBSET Device
        OBVIOUS
      <4> QED BY <4>1, <4>2, AnswerType
    <3> QED BY <3>1, <3>2
  <2> QED BY <2>2, SameRows
<1> QED
  BY <1>1, <1>2, <1>3, <1>4, <1>5, <1>6, <1>7, <1>8 DEF Op

\* A list that is sound stays sound, and its rows change as ordered.
LEMMA ShapeSound ==
    ASSUME NEW D, NEW ids, Sound(D, ids), NEW o, NEW E, E \in SUBSET Device,
           Shape(o, D, ids, E)
    PROVE  /\ Sound(E, ids \cup Ids(E))
           /\ GrantedBy(o, D, E) /\ BlockedUnless(o, D, E) /\ NoneRevived(ids, D, E)
<1> USE DEF Sound, Ids, UniqueIds, OneRowPerNode, OnlyTailnetBlocked,
            GrantedBy, BlockedUnless, NoneRevived
<1>0. Ids(E) \in SUBSET DeviceId
  BY DEF Device
<1>1. CASE E = D
  BY <1>0, <1>1
<1>2. ASSUME NEW f \in Device, AddedRow(D, ids, E, f)
      PROVE  /\ Sound(E, ids \cup Ids(E))
             /\ GrantedBy(o, D, E) /\ BlockedUnless(o, D, E) /\ NoneRevived(ids, D, E)
  <2>1. ~CanWrite(f)
    BY <1>2 DEF AddedRow, CanWrite, EffectiveCapability
  <2> QED BY <1>0, <1>2, <2>1 DEF AddedRow, ByNode
<1>3. ASSUME NEW d \in D, NEW f \in Device, ChangedRow(o, D, E, d, f)
      PROVE  /\ Sound(E, ids \cup Ids(E))
             /\ GrantedBy(o, D, E) /\ BlockedUnless(o, D, E) /\ NoneRevived(ids, D, E)
  BY <1>0, <1>3 DEF ChangedRow
<1>4. ASSUME NEW d \in D, DeletedRow(D, E, d)
      PROVE  /\ Sound(E, ids \cup Ids(E))
             /\ GrantedBy(o, D, E) /\ BlockedUnless(o, D, E) /\ NoneRevived(ids, D, E)
  BY <1>0, <1>4 DEF DeletedRow
<1> QED BY <1>1, <1>2, <1>3, <1>4 DEF Shape
=============================================================================
