---------------------------- MODULE Panel_proofs ----------------------------
(***************************************************************************)
(* What the panel shows and says, for any number of devices and codes, any *)
(* payloads and any operations run elsewhere.                              *)
(***************************************************************************)
EXTENDS Panel, Devices_proofs

\* A device with this id, if there is one, is of this kind.
OfKind(D, i, k) == \A d \in D : d.id = i => d.kind = k

\* Whoever holds a row of the list, however old, knows the kind of its device.
ListInv ==
    /\ Sound(rows, used)
    /\ checked \in {"no", "asking", "yes", "missing"}
    /\ poll.pc \in {"idle", "started", "read"}
    /\ poll.pc # "idle" => checked = "yes"
    /\ shown # {} => checked = "yes"
    /\ poll.read \in SUBSET Device
    /\ Ids(poll.read) \subseteq used
    /\ \A d \in poll.read : OfKind(rows, d.id, d.kind)
    /\ \A r \in shown :
          /\ r.id \in used
          /\ OfKind(rows, r.id, IF r.revokeVerb = "Block" THEN "tailnet" ELSE "paired")

\* The message of the command that runs is that of the operation it is.
Fits(a) ==
    \/ /\ a.ran.op = "setCapability" /\ a.ran.capability = "write"
       /\ a.says = "can type"
    \/ /\ a.ran.op = "setCapability" /\ a.ran.capability = "read"
       /\ a.says = "read-only"
    \/ a.ran.op = "revoke" /\ a.says = "blocked" /\ OfKind(rows, a.ran.id, "tailnet")
    \/ a.ran.op = "revoke" /\ a.says = "revoked" /\ OfKind(rows, a.ran.id, "paired")
    \/ a.ran.op = "unblock" /\ a.says = "unblocked, read-only"
    \/ a.ran.op = "rename" /\ a.says = "renamed"

ActionInv == action # None => action.ran \in Op /\ action.ran.id \in used /\ Fits(action)

\* While a code is asked for nothing is on the screen, and the code that is on
\* its way, or there, is the newest one.
CodeInv ==
    /\ pending \in Code \cup {None}
    /\ pairing \in [pc : {"idle", "started", "created"}, code : Code \cup {None}]
    /\ pairing.code # None <=> pairing.pc = "created"
    /\ pairing.pc # "idle" => qr = NoQr /\ lanQr = NoQr
    /\ pairing.pc = "created" /\ ~meddled => pairing.code = pending
    /\ qr # NoQr => qr.drawn # << >> /\ Square(qr.drawn)
    /\ lanQr # NoQr => lanQr.drawn # << >> /\ Square(lanQr.drawn)
    /\ lanQr # NoQr => qr # NoQr /\ lanQr.code = qr.code
    /\ qr # NoQr /\ ~meddled => qr.code = pending

Inv == ListInv /\ ActionInv /\ FlashHonest /\ CodeInv

---------------------------------------------------------------------------
(* Operators.                                                              *)

\* What parseQrMatrix lets through is a square of modules.
LEMMA ParsedIsSquare ==
    ASSUME NEW m \in Matrix, ParseQrMatrix(m) # << >>
    PROVE  Square(ParseQrMatrix(m))
<1>1. m \in Seq(Seq(Nat)) /\ ParseQrMatrix(m) = m
  BY MatrixAssumption DEF ParseQrMatrix
<1>2. \A i \in DOMAIN m : Len(m[i]) = Len(m) /\ \A j \in DOMAIN m[i] : m[i][j] \in {0, 1}
  BY DEF ParseQrMatrix
<1>3. DOMAIN m = 1 .. Len(m) /\ \A i \in DOMAIN m : DOMAIN m[i] = 1 .. Len(m[i])
  BY <1>1
<1> QED BY <1>1, <1>2, <1>3 DEF Square

\* Ids are not given to another device, so a kind that was known stays known.
LEMMA KindsStay ==
    ASSUME NEW D, NEW ids, Sound(D, ids), NEW o \in Op, NEW e \in Effects(o, D, ids)
    PROVE  /\ Sound(e.rows, ids \cup Ids(e.rows))
           /\ \A i \in ids, k \in {"tailnet", "paired"} : OfKind(D, i, k) => OfKind(e.rows, i, k)
<1>1. Shape(o, D, ids, e.rows) /\ e \in Effect
  BY EffectsShape
<1>2. Sound(e.rows, ids \cup Ids(e.rows))
  BY <1>1, ShapeSound DEF Effect
<1>3. ASSUME NEW i \in ids, NEW k, OfKind(D, i, k)
      PROVE  OfKind(e.rows, i, k)
  <2>1. ASSUME NEW f \in Device, AddedRow(D, ids, e.rows, f) PROVE OfKind(e.rows, i, k)
    BY <1>3, <2>1 DEF AddedRow, OfKind
  <2>2. ASSUME NEW d \in D, NEW f \in Device, ChangedRow(o, D, e.rows, d, f)
        PROVE  OfKind(e.rows, i, k)
    BY <1>3, <2>2 DEF ChangedRow, OfKind
  <2>3. ASSUME NEW d \in D, DeletedRow(D, e.rows, d) PROVE OfKind(e.rows, i, k)
    BY <1>3, <2>3 DEF DeletedRow, OfKind
  <2> QED BY <1>1, <1>3, <2>1, <2>2, <2>3 DEF Shape
<1> QED BY <1>2, <1>3

\* What a command that answers ok leaves of its row.
LEMMA CommandLeaves ==
    ASSUME NEW a, Fits(a), a.ran \in Op, Sound(rows, used),
           NEW e \in Effects(a.ran, rows, used), e.reply = Done
    PROVE  Holds(a.says, ById(e.rows, a.ran.id))
<1> DEFINE i == a.ran.id
<1> USE DEF Holds
<1>0. Done # NotFound
  BY DEF Done, NotFound, Reply
<1>m. ASSUME NEW new, e \in Mutate(rows, i, new)
      PROVE  \E d \in ById(rows, i) : e.rows = (rows \ {d}) \cup {new[d]}
  <2>1. ById(rows, i) # {}
    BY <1>0, <1>m DEF Mutate, Unsaved
  <2>2. e \in {Saved((rows \ {d}) \cup {new[d]}, Done) : d \in ById(rows, i)}
    BY <1>m, <2>1 DEF Mutate
  <2> QED BY <2>2 DEF Saved
<1>1. CASE a.ran.op = "setCapability"
  <2> DEFINE c == a.ran.capability
  <2>0. c \in {"read", "write"} /\ i \in DeviceId
    BY <1>1 DEF Op, Capability
  <2>1. e \in Mutate(rows, i, [d \in rows |-> [d EXCEPT !.capability = c]])
    BY <1>1 DEF Effects, SetCapability
  <2>2. PICK d \in ById(rows, i) : e.rows = (rows \ {d}) \cup {[d EXCEPT !.capability = c]}
    BY <2>1, <1>m DEF ById
  <2> DEFINE f == [d EXCEPT !.capability = c]
  <2>3. d \in Device /\ d.id = i
    BY <2>2 DEF ById, Sound
  <2>4. f.id = i /\ f.capability = c
    BY <2>3 DEF Device
  <2> HIDE DEF f
  <2>5. f \in ById(e.rows, i)
    BY <2>2, <2>4 DEF ById, f
  <2>6. CASE c = "write"
    <3>1. a.says = "can type"
      BY <1>1, <2>6 DEF Fits
    <3>2. CanWrite(f) \/ f.blocked
      BY <2>4, <2>6 DEF CanWrite, EffectiveCapability, Capability
    <3> QED BY <2>5, <3>1, <3>2
  <2>7. CASE c = "read"
    <3>1. a.says = "read-only"
      BY <1>1, <2>7 DEF Fits
    <3>2. ~CanWrite(f)
      BY <2>4, <2>7 DEF CanWrite, EffectiveCapability
    <3> QED BY <2>5, <3>1, <3>2
  <2> QED BY <2>0, <2>6, <2>7
<1>2. CASE a.ran.op = "revoke"
  <2> DEFINE tails == {d \in ById(rows, i) : d.kind = "tailnet"}
             blocked == {[d EXCEPT !.blocked = TRUE, !.capability = "read"] : d \in tails}
  <2>1. e = Saved((rows \ ById(rows, i)) \cup blocked,
                  IF ById(rows, i) = {} THEN NotFound ELSE Done)
    BY <1>2 DEF Effects, Revoke
  <2> HIDE DEF blocked
  <2>2. e.rows = (rows \ ById(rows, i)) \cup blocked
    BY <2>1 DEF Saved
  <2>3. ById(rows, i) # {}
    BY <1>0, <2>1 DEF Saved
  <2>4. CASE a.says = "blocked"
    <3>1. OfKind(rows, i, "tailnet")
      BY <1>2, <2>4 DEF Fits
    <3>2. PICK d \in ById(rows, i) : TRUE
      BY <2>3
    <3>3. d \in tails /\ d \in Device /\ d.id = i
      BY <3>1, <3>2 DEF OfKind, ById, Sound
    <3> DEFINE f == [d EXCEPT !.blocked = TRUE, !.capability = "read"]
    <3>4. f \in blocked
      BY <3>3 DEF blocked
    <3>5. f.id = i /\ f.blocked
      BY <3>3 DEF Device
    <3> QED BY <2>2, <2>4, <3>4, <3>5 DEF ById
  <2>5. CASE a.says = "revoked"
    <3>1. OfKind(rows, i, "paired")
      BY <1>2, <2>5 DEF Fits
    <3>2. blocked = {}
      BY <3>1 DEF OfKind, ById, blocked
    <3>3. ById(e.rows, i) = {}
      BY <2>2, <3>2 DEF ById
    <3> QED BY <2>5, <3>3
  <2> QED BY <1>2, <2>4, <2>5 DEF Fits
<1>3. CASE a.ran.op = "unblock"
  <2> DEFINE new == [d \in rows |-> [d EXCEPT !.blocked = FALSE, !.capability = "read"]]
  <2>0. e \in Mutate(rows, i, new)
    BY <1>3 DEF Effects, Unblock
  <2>a. \A d \in rows : new[d] = [d EXCEPT !.blocked = FALSE, !.capability = "read"]
    OBVIOUS
  <2> HIDE DEF new
  <2>1. PICK d \in ById(rows, i) : e.rows = (rows \ {d}) \cup {new[d]}
    BY <2>0, <1>m
  <2>2. /\ d \in ById(rows, i)
        /\ e.rows = (rows \ {d}) \cup {[d EXCEPT !.blocked = FALSE, !.capability = "read"]}
    BY <2>1, <2>a DEF ById
  <2> DEFINE f == [d EXCEPT !.blocked = FALSE, !.capability = "read"]
  <2>3. d \in Device /\ d.id = i
    BY <2>2 DEF ById, Sound
  <2>4. f.id = i /\ ~f.blocked /\ f.capability = "read"
    BY <2>3 DEF Device
  <2> HIDE DEF f
  <2>5. f \in ById(e.rows, i)
    BY <2>2, <2>4 DEF ById, f
  <2>6. ~CanWrite(f)
    BY <2>4 DEF CanWrite, EffectiveCapability
  <2>7. a.says = "unblocked, read-only"
    BY <1>3 DEF Fits
  <2> QED BY <2>4, <2>5, <2>6, <2>7
<1>4. CASE a.ran.op = "rename"
  <2>1. e \in Mutate(rows, i, [d \in rows |-> [d EXCEPT !.name = a.ran.name]])
    BY <1>4 DEF Effects, Rename
  <2>2. PICK d \in ById(rows, i) : e.rows = (rows \ {d}) \cup {[d EXCEPT !.name = a.ran.name]}
    BY <2>1, <1>m DEF ById
  <2> DEFINE f == [d EXCEPT !.name = a.ran.name]
  <2>3. f.id = i
    BY <2>2 DEF ById, Sound, Device
  <2> HIDE DEF f
  <2>4. f \in ById(e.rows, i)
    BY <2>2, <2>3 DEF ById, f
  <2>5. a.says = "renamed"
    BY <1>4 DEF Fits
  <2> QED BY <2>4, <2>5
<1> QED BY <1>1, <1>2, <1>3, <1>4 DEF Fits

---------------------------------------------------------------------------
(* The invariant.                                                          *)

LEMMA InitInv == Init => Inv
<1> SUFFICES ASSUME Init PROVE Inv
  OBVIOUS
<1>1. ListInv
  BY DEF Init, ListInv, NotRunning, Sound, Ids, UniqueIds, OneRowPerNode, OnlyTailnetBlocked
<1>2. CodeInv
  BY DEF Init, CodeInv, NoPairing
<1> QED BY <1>1, <1>2 DEF Init, Inv, ActionInv, FlashHonest

\* refresh only starts what the panel knows how to start.
LEMMA RefreshKeeps ==
    ASSUME ListInv, Refresh, UNCHANGED shown
    PROVE  /\ checked' \in {"no", "asking", "yes", "missing"}
           /\ poll'.pc \in {"idle", "started", "read"}
           /\ poll'.pc # "idle" => checked' = "yes"
           /\ shown' # {} => checked' = "yes"
           /\ poll'.read \in SUBSET Device /\ Ids(poll'.read) \subseteq used
           /\ \A d \in poll'.read : OfKind(rows, d.id, d.kind)
BY DEF ListInv, Refresh, NotRunning, Ids

\* The list's part holds on after an operation, whoever ran it.
LEMMA StoreKeeps ==
    ASSUME ListInv, NEW o \in Op, NEW e \in Effects(o, rows, used),
           rows' = e.rows, used' = used \cup Ids(rows')
    PROVE  /\ Sound(rows', used')
           /\ used \subseteq used'
           /\ \A i \in used, k \in {"tailnet", "paired"} : OfKind(rows, i, k) => OfKind(rows', i, k)
<1>1. /\ Sound(e.rows, used \cup Ids(e.rows))
      /\ \A i \in used, k \in {"tailnet", "paired"} : OfKind(rows, i, k) => OfKind(e.rows, i, k)
  BY KindsStay DEF ListInv
<1> QED BY <1>1

\* Elsewhere, or by the panel's command, an operation was run; the panel's
\* own polls and rows stay.
LEMMA ListKeeps ==
    ASSUME ListInv, NEW o \in Op, NEW e \in Effects(o, rows, used),
           rows' = e.rows, used' = used \cup Ids(rows'),
           Refresh \/ UNCHANGED <<checked, poll>>, UNCHANGED shown
    PROVE  ListInv'
<1>1. /\ Sound(rows', used') /\ used \subseteq used'
      /\ \A i \in used, k \in {"tailnet", "paired"} : OfKind(rows, i, k) => OfKind(rows', i, k)
  BY StoreKeeps
<1>2. /\ checked' \in {"no", "asking", "yes", "missing"}
      /\ poll'.pc \in {"idle", "started", "read"}
      /\ poll'.pc # "idle" => checked' = "yes"
      /\ shown' # {} => checked' = "yes"
      /\ poll'.read \in SUBSET Device /\ Ids(poll'.read) \subseteq used
      /\ \A d \in poll'.read : OfKind(rows, d.id, d.kind)
  <2>1. CASE Refresh
    BY <2>1, RefreshKeeps
  <2>2. CASE UNCHANGED <<checked, poll>>
    BY <2>2 DEF ListInv
  <2> QED BY <2>1, <2>2
<1>3. \A d \in poll'.read : OfKind(rows', d.id, d.kind)
  BY <1>1, <1>2 DEF Ids, Device
<1>4. \A r \in shown' :
          /\ r.id \in used'
          /\ OfKind(rows', r.id, IF r.revokeVerb = "Block" THEN "tailnet" ELSE "paired")
  BY <1>1 DEF ListInv
<1> QED BY <1>1, <1>2, <1>3, <1>4 DEF ListInv

\* A command is asked for on a row that is shown.
LEMMA AskedFits ==
    ASSUME ListInv, NEW r \in shown,
           \/ Toggle(r) \/ RevokeRow(r) \/ UnblockRow(r)
           \/ \E name \in Name : RenameRow(r, name)
    PROVE  /\ action'.ran \in Op /\ action'.ran.id \in used /\ Fits(action')
           /\ UNCHANGED <<store, checked, poll, shown, flash, codes>>
<1>1. r.id \in used /\ r.id \in DeviceId
  BY DEF ListInv, Sound
<1>2. CASE Toggle(r)
  <2>1. CASE r.canWrite
    BY <1>1, <1>2, <2>1 DEF Toggle, RunAction, Op, Capability, Fits
  <2>2. CASE ~r.canWrite
    BY <1>1, <1>2, <2>2 DEF Toggle, RunAction, Op, Capability, Fits
  <2> QED BY <2>1, <2>2
<1>3. CASE RevokeRow(r)
  BY <1>1, <1>3 DEF RevokeRow, RunAction, Op, Fits, ListInv
<1>4. CASE UnblockRow(r)
  BY <1>1, <1>4 DEF UnblockRow, RunAction, Op, Fits
<1>5. ASSUME NEW name \in Name, RenameRow(r, name)
      PROVE  /\ action'.ran \in Op /\ action'.ran.id \in used /\ Fits(action')
             /\ UNCHANGED <<store, checked, poll, shown, flash, codes>>
  BY <1>1, <1>5 DEF RenameRow, RunAction, Op, Fits
<1> QED BY <1>2, <1>3, <1>4, <1>5

LEMMA NextInv == Inv /\ [Next]_vars => Inv'
<1> SUFFICES ASSUME Inv, [Next]_vars PROVE Inv'
  OBVIOUS
<1>0. ListInv /\ ActionInv /\ FlashHonest /\ CodeInv
  BY DEF Inv
\* Steps that leave the list's or the pairing's variables alone.
<1>a. ASSUME UNCHANGED <<store, list>> PROVE ListInv' /\ ActionInv' /\ FlashHonest'
  BY <1>0, <1>a DEF store, list, ListInv, ActionInv, FlashHonest, Fits
<1>b. ASSUME UNCHANGED codes PROVE CodeInv'
  BY <1>0, <1>b DEF codes, CodeInv
<1>c. ASSUME UNCHANGED <<store, action>> PROVE ActionInv'
  BY <1>0, <1>c DEF store, ActionInv, Fits
<1>d. ASSUME UNCHANGED flash PROVE FlashHonest'
  BY <1>0, <1>d DEF FlashHonest
<1>1. CASE Tick
  <2>1. ListInv'
    BY <1>0, <1>1, RefreshKeeps DEF Tick, store, ListInv
  <2> QED BY <1>1, <1>b, <1>c, <1>d, <2>1 DEF Tick, Inv
<1>2. CASE WhichExits
  <2>1. ListInv'
    BY <1>0, <1>2 DEF WhichExits, store, ListInv, NotRunning, Ids
  <2> QED BY <1>2, <1>b, <1>c, <1>d, <2>1 DEF WhichExits, Inv
<1>3. CASE ListRead
  <2>1. /\ rows \in SUBSET Device /\ Ids(rows) \subseteq used
        /\ \A d \in rows : OfKind(rows, d.id, d.kind)
    BY <1>0 DEF ListInv, Sound, OfKind, UniqueIds
  <2>2. ListInv'
    BY <1>0, <1>3, <2>1 DEF ListRead, store, ListInv
  <2> QED BY <1>3, <1>b, <1>c, <1>d, <2>2 DEF ListRead, Inv
<1>4. CASE ListLands
  <2>1. ASSUME NEW d \in poll.read
        PROVE  /\ Row(d).id \in used
               /\ OfKind(rows, Row(d).id, IF Row(d).revokeVerb = "Block" THEN "tailnet" ELSE "paired")
    <3>1. d \in Device /\ d.id \in used /\ OfKind(rows, d.id, d.kind)
      BY <1>0, <2>1 DEF ListInv, Ids
    <3>2. d.kind = "tailnet" \/ d.kind = "paired"
      BY <3>1 DEF Device
    <3> QED BY <3>1, <3>2 DEF Row
  <2>2. \A r \in shown' :
            /\ r.id \in used
            /\ OfKind(rows, r.id, IF r.revokeVerb = "Block" THEN "tailnet" ELSE "paired")
    BY <1>4, <2>1 DEF ListLands, BuildDevices
  <2>3. ListInv'
    BY <1>0, <1>4, <2>2 DEF ListLands, store, ListInv, NotRunning, Ids
  <2> QED BY <1>4, <1>b, <1>c, <1>d, <2>3 DEF ListLands, Inv
<1>5. CASE ListFails
  <2>1. ListInv'
    BY <1>0, <1>5 DEF ListFails, store, ListInv, NotRunning, Ids
  <2> QED BY <1>5, <1>b, <1>c, <1>d, <2>1 DEF ListFails, Inv
<1>6. CASE ActionExits
  <2>1. /\ action # None /\ action' = None /\ Refresh /\ UNCHANGED shown /\ UNCHANGED codes
        /\ used' = used \cup Ids(rows')
    BY <1>6 DEF ActionExits
  <2>2. PICK e \in Effects(action.ran, rows, used) :
            /\ rows' = e.rows
            /\ flash' = (IF e.reply = Done
                         THEN [says |-> action.says, left |-> ById(e.rows, action.ran.id)]
                         ELSE flash)
    BY <1>6 DEF ActionExits
  <2>3. action.ran \in Op /\ Fits(action)
    BY <1>0, <2>1 DEF ActionInv
  <2>4. ListInv'
    BY <1>0, <2>1, <2>2, <2>3, ListKeeps
  <2>5. FlashHonest'
    <3>1. CASE e.reply = Done
      <4>1. flash' = [says |-> action.says, left |-> ById(e.rows, action.ran.id)]
        BY <2>2, <3>1
      <4>2. Holds(action.says, ById(e.rows, action.ran.id))
        BY <1>0, <2>2, <2>3, <3>1, CommandLeaves DEF ListInv
      <4> QED BY <4>1, <4>2 DEF FlashHonest
    <3>2. CASE e.reply # Done
      BY <1>0, <1>d, <2>2, <3>2
    <3> QED BY <3>1, <3>2
  <2>6. ActionInv'
    BY <2>1 DEF ActionInv
  <2> QED BY <1>b, <2>1, <2>4, <2>5, <2>6 DEF Inv
<1>7. CASE ActionFails
  <2>1. ListInv'
    BY <1>0, <1>7, RefreshKeeps DEF ActionFails, store, ListInv
  <2>2. ActionInv'
    BY <1>7 DEF ActionFails, ActionInv
  <2> QED BY <1>7, <1>b, <1>d, <2>1, <2>2 DEF ActionFails, Inv
<1>8. CASE FlashGoes
  <2>1. ListInv'
    BY <1>0, <1>8 DEF FlashGoes, store, ListInv
  <2>2. FlashHonest'
    BY <1>8 DEF FlashGoes, FlashHonest
  <2> QED BY <1>8, <1>b, <1>c, <2>1, <2>2 DEF FlashGoes, Inv
<1>9. CASE PairCreates
  <2>1. PICK c \in Fresh : pending' = c /\ pairing' = [pc |-> "created", code |-> c]
    BY <1>9 DEF PairCreates
  <2>2. c \in Code /\ c # None
    BY CodeAssumption DEF Fresh
  <2>3. CodeInv'
    BY <1>0, <1>9, <2>1, <2>2 DEF PairCreates, CodeInv
  <2> QED BY <1>9, <1>a, <2>3 DEF PairCreates, Inv
<1>10. CASE PairFails
  <2>1. CodeInv'
    BY <1>0, <1>10 DEF PairFails, CodeInv, NoPairing
  <2> QED BY <1>10, <1>a, <2>1 DEF PairFails, Inv
<1>11. CASE PairLands
  <2>1. PICK m \in Matrix, lm \in Matrix :
            /\ qr' = (IF ParseQrMatrix(m) # << >>
                      THEN [code |-> pairing.code, drawn |-> ParseQrMatrix(m)] ELSE qr)
            /\ lanQr' = (IF ParseQrMatrix(m) # << >> /\ ParseQrMatrix(lm) # << >>
                         THEN [code |-> pairing.code, drawn |-> ParseQrMatrix(lm)] ELSE lanQr)
    BY <1>11 DEF PairLands
  <2>2. /\ pairing.pc = "created" /\ qr = NoQr /\ lanQr = NoQr
        /\ pairing' = NoPairing /\ UNCHANGED <<pending, meddled, lapsed>>
        /\ pairing.code # None
        /\ ~meddled => pairing.code = pending
    BY <1>0, <1>11 DEF PairLands, CodeInv
  <2>3. /\ ParseQrMatrix(m) # << >> => Square(ParseQrMatrix(m))
        /\ ParseQrMatrix(lm) # << >> => Square(ParseQrMatrix(lm))
    BY ParsedIsSquare
  <2>4. /\ qr' # NoQr => qr'.drawn # << >> /\ Square(qr'.drawn) /\ qr'.code = pairing.code
        /\ lanQr' # NoQr => /\ lanQr'.drawn # << >> /\ Square(lanQr'.drawn)
                           /\ lanQr'.code = pairing.code
                           /\ qr' = [code |-> pairing.code, drawn |-> ParseQrMatrix(m)]
                           /\ ParseQrMatrix(m) # << >>
    BY <2>1, <2>2, <2>3
  <2>5. lanQr' # NoQr => qr' # NoQr
    BY <2>4 DEF NoQr
  <2>6. CodeInv'
    BY <1>0, <2>2, <2>4, <2>5 DEF CodeInv, NoPairing
  <2> QED BY <1>11, <1>a, <2>6 DEF PairLands, Inv
<1>12. CASE Countdown \/ Cancel
  <2>1. CodeInv'
    BY <1>0, <1>12 DEF Countdown, Cancel, ClearPairing, CodeInv
  <2> QED BY <1>12, <1>a, <2>1 DEF Countdown, Cancel, Inv
<1>13. CASE StartPairing
  <2>1. CodeInv'
    BY <1>0, <1>13 DEF StartPairing, ClearPairing, CodeInv, NoPairing
  <2> QED BY <1>13, <1>a, <2>1 DEF StartPairing, Inv
<1>14. ASSUME NEW r \in shown,
              \/ Toggle(r) \/ RevokeRow(r) \/ UnblockRow(r)
              \/ \E name \in Name : RenameRow(r, name)
       PROVE  Inv'
  <2>1. /\ action'.ran \in Op /\ action'.ran.id \in used /\ Fits(action')
        /\ UNCHANGED <<store, checked, poll, shown, flash, codes>>
    BY <1>0, <1>14, AskedFits
  <2>2. ListInv'
    BY <1>0, <2>1 DEF store, ListInv
  <2>3. ActionInv'
    BY <2>1 DEF store, ActionInv, Fits
  <2> QED BY <1>b, <1>d, <2>1, <2>2, <2>3 DEF Inv
<1>15. CASE Lapse
  <2>1. CodeInv'
    BY <1>0, <1>15 DEF Lapse, CodeInv
  <2> QED BY <1>15, <1>a, <2>1 DEF Lapse, Inv
<1>16. CASE PairedElsewhere
  <2>1. CodeInv'
    BY <1>0, <1>16 DEF PairedElsewhere, CodeInv, Fresh
  <2> QED BY <1>16, <1>a, <2>1 DEF PairedElsewhere, Inv
<1>17. CASE ChangedElsewhere
  <2>0. PICK o \in Outside : \E e \in Effects(o, rows, used) : rows' = e.rows
    BY <1>17 DEF ChangedElsewhere
  <2>1. PICK e \in Effects(o, rows, used) : rows' = e.rows
    BY <2>0
  <2>2. o \in Op
    BY OutsideAssumption
  <2>3. UNCHANGED <<list, codes>> /\ used' = used \cup Ids(rows')
    BY <1>17 DEF ChangedElsewhere
  <2>4. ListInv'
    BY <1>0, <2>1, <2>2, <2>3, ListKeeps DEF list
  <2>5. ActionInv'
    <3>1. /\ used \subseteq used'
          /\ \A i \in used, k \in {"tailnet", "paired"} : OfKind(rows, i, k) => OfKind(rows', i, k)
      BY <1>0, <2>1, <2>2, <2>3, StoreKeeps
    <3> QED BY <1>0, <2>3, <3>1 DEF list, ActionInv, Fits
  <2> QED BY <1>b, <1>d, <2>3, <2>4, <2>5 DEF list, Inv
<1>18. CASE UNCHANGED vars
  BY <1>18, <1>a, <1>b DEF vars, Inv
<1> QED
  BY <1>1, <1>2, <1>3, <1>4, <1>5, <1>6, <1>7, <1>8, <1>9, <1>10, <1>11, <1>12, <1>13, <1>14,
     <1>15, <1>16, <1>17, <1>18 DEF Next, Own, User

THEOREM Invariance == Spec => []Inv
BY InitInv, NextInv, PTL DEF Spec

\* The codes on the screen can be scanned, are of one pairing, and are what
\* the daemon waits for unless somebody else saw to it.
THEOREM CodesScan == Spec => []QrScans
<1>1. Inv => QrScans
  <2> SUFFICES ASSUME Inv PROVE QrScans
    OBVIOUS
  <2>1. ListInv /\ ActionInv /\ CodeInv
    BY DEF Inv
  <2>2. action # None => action.ran \in Op /\ action.says \in Message
    BY <2>1 DEF ActionInv, Fits, Message
  <2>3. rows \subseteq Device /\ UniqueIds(rows) /\ Ids(rows) \subseteq used /\ used \subseteq DeviceId
    BY <2>1 DEF ListInv, Sound
  <2>4. /\ checked \in {"no", "asking", "yes", "missing"}
        /\ poll.pc \in {"idle", "started", "read"} /\ poll.read \subseteq Device
        /\ poll.pc # "idle" => checked = "yes"
        /\ shown # {} => checked = "yes"
        /\ \A r \in shown : r.id \in used
    BY <2>1 DEF ListInv
  <2>5. /\ pending \in Code \cup {None}
        /\ pairing.pc \in {"idle", "started", "created"}
        /\ pairing.code # None <=> pairing.pc = "created"
    BY <2>1 DEF CodeInv
  <2>6. TypeOK
    BY <2>2, <2>3, <2>4, <2>5, Zenon DEF TypeOK
  <2>7. /\ qr # NoQr => qr.drawn # << >> /\ Square(qr.drawn)
        /\ lanQr # NoQr => lanQr.drawn # << >> /\ Square(lanQr.drawn)
        /\ lanQr # NoQr => lanQr.code = qr.code
        /\ qr # NoQr /\ ~meddled => qr.code = pending
    BY <2>1, Zenon DEF CodeInv
  <2> QED BY <2>6, <2>7, Zenon DEF QrScans
<1> QED BY <1>1, Invariance, PTL

\* What the panel says it did was done, of any device, however stale its row.
THEOREM MessagesAreTrue == Spec => []FlashHonest
<1>1. Inv => FlashHonest
  BY DEF Inv
<1> QED BY <1>1, Invariance, PTL
=============================================================================
