------------------------------- MODULE Panel -------------------------------
(***************************************************************************)
(* The panel of the desktop: src/plugin/Service.qml, Model.js and the      *)
(* handlers of Panel.qml.  It knows only what the processes it starts told *)
(* it: it polls the device list, runs one command at a time on the rows it *)
(* shows, and asks for pairing codes, while the daemon, phones and other   *)
(* terminals change the same stores.                                       *)
(*                                                                         *)
(* A process is asked for in one step, does its work in another and is     *)
(* heard of in a third, so that what the panel shows may be stale; only a  *)
(* device command works and exits at once, since nothing the panel does    *)
(* tells its work from its exit.  Left out: the polls of the status and of *)
(* the unit, which have the shape of the list's poll and are only shown,   *)
(* with the buttons that act on them; lastError; the cursor; and whether   *)
(* the panel is open, since opening it only refreshes and closing it only  *)
(* cancels.                                                                *)
(***************************************************************************)
EXTENDS Devices, Sequences, Naturals

CONSTANTS Code,     \* pairing codes; one that is nowhere any more may be drawn again
          Matrix,   \* what a pairing may print as a QR: sequences of rows of modules
          Outside   \* the operations that the daemon and other terminals run

ASSUME OutsideAssumption == Outside \subseteq Op
ASSUME MatrixAssumption == Matrix \subseteq Seq(Seq(Nat))
ASSUME CodeAssumption == None \notin Code

VARIABLES
    rows,     \* devices.json
    used,     \* the ids that were ever drawn
    checked,  \* checkedInstall and installed: "no", "asking", "yes" or "missing"
    poll,     \* devicesProcess, with the list it has read
    shown,    \* devices: the rows on the screen
    action,   \* actionProcess: the operation it runs and its successMessage
    flash,    \* actionStatus, with the row its command left (a history)
    pending,  \* the code in pairing.json
    meddled,  \* history: that file was touched since the panel's own newest code
    pairing,  \* pairProcess, with the code it has created
    qr,       \* qrRows, qrSize and pairUrl: the code on the screen and how it is drawn
    lanQr,    \* the same of lanQrRows, lanQrSize and lanPairUrl
    lapsed    \* the panel's newest code has run out by its clock

store == <<rows, used>>
list == <<checked, poll, shown, action, flash>>
codes == <<pending, meddled, pairing, qr, lanQr, lapsed>>
vars == <<store, list, codes>>

---------------------------------------------------------------------------
(* Model.js *)

\* A row of the panel.
Row(d) ==
    [id |-> d.id, name |-> d.name, blocked |-> d.blocked,
     canWrite |-> ~d.blocked /\ d.capability = "write",
     revokeVerb |-> IF d.kind = "tailnet" THEN "Block" ELSE "Revoke"]

BuildDevices(D) == {Row(d) : d \in D}

\* The matrix if it is square and has only modules, else nothing.
ParseQrMatrix(m) ==
    IF m # << >> /\ \A i \in DOMAIN m : Len(m[i]) = Len(m) /\ \A j \in DOMAIN m[i] : m[i][j] \in {0, 1}
    THEN m
    ELSE << >>

---------------------------------------------------------------------------
(* Service.qml: the device list *)

NotRunning == [pc |-> "idle", read |-> {}]
NoQr == [code |-> None, drawn |-> << >>]
NoPairing == [pc |-> "idle", code |-> None]

Init ==
    /\ rows = {} /\ used = {}
    /\ checked = "no" /\ poll = NotRunning /\ shown = {}
    /\ action = None /\ flash = None
    /\ pending = None /\ meddled = FALSE
    /\ pairing = NoPairing /\ qr = NoQr /\ lanQr = NoQr /\ lapsed = FALSE

\* refresh: find the binary once; then start what is not running.
Refresh ==
    /\ checked' = (IF checked = "no" THEN "asking" ELSE checked)
    /\ poll' = (IF checked = "yes" /\ poll.pc = "idle"
                THEN [NotRunning EXCEPT !.pc = "started"] ELSE poll)

\* Faulty variant, for CatchesUp: the timer does not repeat.
TickOnce ==
    /\ checked = "no"
    /\ Refresh
    /\ UNCHANGED <<store, shown, action, flash, codes>>

\* refreshTimer, the key r, the middle button, opening the panel.
Tick ==
    /\ Refresh
    /\ UNCHANGED <<store, shown, action, flash, codes>>

\* whichProcess exits.  A binary that is not found is not looked for again.
WhichExits ==
    /\ checked = "asking"
    /\ \/ checked' = "yes" /\ poll' = [NotRunning EXCEPT !.pc = "started"]
       \/ checked' = "missing" /\ UNCHANGED poll
    /\ UNCHANGED <<store, shown, action, flash, codes>>

\* devices --json lists the store.
ListRead ==
    /\ poll.pc = "started"
    /\ poll' = [pc |-> "read", read |-> rows]
    /\ UNCHANGED <<store, checked, shown, action, flash, codes>>

ListLands ==
    /\ poll.pc = "read"
    /\ shown' = BuildDevices(poll.read)
    /\ poll' = NotRunning
    /\ UNCHANGED <<store, checked, action, flash, codes>>

\* It exits non-zero, or prints what does not parse: the rows stay.
ListFails ==
    /\ poll.pc = "started"
    /\ poll' = NotRunning
    /\ UNCHANGED <<store, checked, shown, action, flash, codes>>

---------------------------------------------------------------------------
(* Service.qml: commands on a row.  A second one is dropped while one runs. *)

\* Faulty variant, for FlashHonest: the message is set although the process
\* keeps running its first command.
RunActionAlways(o, says) ==
    /\ action' = (IF action = None THEN [ran |-> o, says |-> says]
                  ELSE [action EXCEPT !.says = says])
    /\ UNCHANGED <<store, checked, poll, shown, flash, codes>>

RunAction(o, says) ==
    /\ action = None
    /\ action' = [ran |-> o, says |-> says]
    /\ UNCHANGED <<store, checked, poll, shown, flash, codes>>

\* setWritable, which the panel calls for a row that is not blocked.
Toggle(r) ==
    /\ ~r.blocked
    /\ RunAction([op |-> "setCapability", id |-> r.id,
                  capability |-> IF r.canWrite THEN "read" ELSE "write"],
                 IF r.canWrite THEN "read-only" ELSE "can type")

RevokeRow(r) ==
    RunAction([op |-> "revoke", id |-> r.id],
              IF r.revokeVerb = "Block" THEN "blocked" ELSE "revoked")

UnblockRow(r) ==
    /\ r.blocked
    /\ RunAction([op |-> "unblock", id |-> r.id], "unblocked, read-only")

\* rename, from the field in the row.
RenameRow(r, name) ==
    RunAction([op |-> "rename", id |-> r.id, name |-> name], "renamed")

\* The command does what its operation does to the store, and exits 0 if that
\* answered ok; then the message, and a refresh either way.
ActionExits ==
    /\ action # None
    /\ \E e \in Effects(action.ran, rows, used) :
          /\ rows' = e.rows
          /\ flash' = (IF e.reply = Done
                       THEN [says |-> action.says, left |-> ById(e.rows, action.ran.id)]
                       ELSE flash)
    /\ used' = used \cup Ids(rows')
    /\ action' = None
    /\ Refresh
    /\ UNCHANGED <<shown, codes>>

\* It could not open or write the store.
ActionFails ==
    /\ action # None
    /\ action' = None
    /\ Refresh
    /\ UNCHANGED <<store, shown, flash, codes>>

\* statusTimer.
FlashGoes ==
    /\ flash # None
    /\ flash' = None
    /\ UNCHANGED <<store, checked, poll, shown, action, codes>>

---------------------------------------------------------------------------
(* Service.qml: pairing *)

\* Faulty variant, for QrScans: the LAN code stays.
ClearOne == qr' = NoQr /\ UNCHANGED lanQr

ClearPairing == qr' = NoQr /\ lanQr' = NoQr

StartPairing ==
    /\ pairing.pc = "idle"
    /\ ClearPairing
    /\ pairing' = [NoPairing EXCEPT !.pc = "started"]
    /\ UNCHANGED <<store, list, pending, meddled, lapsed>>

Fresh == Code \ {pending, pairing.code, qr.code, lanQr.code}

\* pair --json replaces the pending code.
PairCreates ==
    /\ pairing.pc = "started"
    /\ \E c \in Fresh :
          /\ pending' = c
          /\ pairing' = [pc |-> "created", code |-> c]
    /\ meddled' = FALSE
    /\ lapsed' = FALSE
    /\ UNCHANGED <<store, list, qr, lanQr>>

\* It exits non-zero, before or after the code is created.
PairFails ==
    /\ pairing.pc # "idle"
    /\ pairing' = NoPairing
    /\ UNCHANGED <<store, list, pending, meddled, qr, lanQr, lapsed>>

\* Its output is there: the QR of the tailnet, and that of the LAN if the tier
\* is on and has an address.  A malformed one is not drawn.
PairLands ==
    /\ pairing.pc = "created"
    /\ \E m \in Matrix, lm \in Matrix :
          LET drawn == ParseQrMatrix(m)
              lanDrawn == ParseQrMatrix(lm)
          IN /\ qr' = (IF drawn # << >> THEN [code |-> pairing.code, drawn |-> drawn] ELSE qr)
             /\ lanQr' = (IF drawn # << >> /\ lanDrawn # << >>
                          THEN [code |-> pairing.code, drawn |-> lanDrawn] ELSE lanQr)
    /\ pairing' = NoPairing
    /\ UNCHANGED <<store, list, pending, meddled, lapsed>>

\* Cancel, Escape, or the panel is closed.
Cancel ==
    /\ ClearPairing
    /\ UNCHANGED <<store, list, pending, meddled, pairing, lapsed>>

\* The timer that counts down while there is a QR.
Countdown ==
    /\ qr # NoQr /\ lapsed
    /\ ClearPairing
    /\ UNCHANGED <<store, list, pending, meddled, pairing, lapsed>>

---------------------------------------------------------------------------
(* What the panel does not do *)

\* pairExpires is reached.
Lapse ==
    /\ pairing.code # None \/ qr # NoQr
    /\ ~lapsed
    /\ lapsed' = TRUE
    /\ UNCHANGED <<store, list, pending, meddled, pairing, qr, lanQr>>

\* Another terminal pairs, or the code is redeemed, guessed at too often, or
\* tried after its time.
PairedElsewhere ==
    /\ \/ pending' \in Fresh
       \/ pending # None /\ pending' = None
    /\ meddled' = TRUE
    /\ UNCHANGED <<store, list, pairing, qr, lanQr, lapsed>>

\* The daemon or another terminal changes the device list.
ChangedElsewhere ==
    /\ \E o \in Outside : \E e \in Effects(o, rows, used) :
          rows' = e.rows
    /\ used' = used \cup Ids(rows')
    /\ UNCHANGED <<list, codes>>

\* What processes and timers do by themselves.
Own == \/ Tick \/ WhichExits \/ ListRead \/ ListLands \/ ListFails
       \/ ActionExits \/ ActionFails \/ FlashGoes
       \/ PairCreates \/ PairFails \/ PairLands \/ Countdown

\* What its user does.
User == \/ StartPairing \/ Cancel
        \/ \E r \in shown : Toggle(r) \/ RevokeRow(r) \/ UnblockRow(r)
                             \/ \E name \in Name : RenameRow(r, name)

Next == Own \/ User \/ Lapse \/ PairedElsewhere \/ ChangedElsewhere

\* The timer keeps firing and processes exit; listing the devices may fail, but
\* not for ever.  Nothing is assumed of the user, the phones and other terminals.
Fairness ==
    /\ WF_vars(Tick)
    /\ WF_vars(WhichExits)
    /\ SF_vars(ListRead)
    /\ WF_vars(ListLands)

Spec == Init /\ [][Next]_vars /\ Fairness

---------------------------------------------------------------------------
Message == {"can type", "read-only", "blocked", "revoked", "unblocked, read-only", "renamed"}

Square(m) == \A i \in DOMAIN m : DOMAIN m[i] = DOMAIN m /\ \A j \in DOMAIN m : m[i][j] \in {0, 1}

TypeOK ==
    /\ rows \subseteq Device /\ UniqueIds(rows) /\ Ids(rows) \subseteq used
    /\ used \subseteq DeviceId
    /\ checked \in {"no", "asking", "yes", "missing"}
    /\ poll.pc \in {"idle", "started", "read"} /\ poll.read \subseteq Device
    /\ poll.pc # "idle" => checked = "yes"
    /\ shown # {} => checked = "yes"
    /\ \A r \in shown : r.id \in used
    /\ action # None => action.ran \in Op /\ action.says \in Message
    /\ pending \in Code \cup {None}
    /\ pairing.pc \in {"idle", "started", "created"}
    /\ pairing.code # None <=> pairing.pc = "created"

\* A QR on the screen is one a camera can read, both are of one pairing, and
\* unless somebody else paired or redeemed meanwhile it is the code that the
\* daemon waits for: startPairing and clearPairing take both down before the
\* code they show is replaced, and nothing is drawn in part.
QrScans ==
    /\ TypeOK
    /\ qr # NoQr => qr.drawn # << >> /\ Square(qr.drawn)
    /\ lanQr # NoQr => lanQr.drawn # << >> /\ Square(lanQr.drawn)
    /\ lanQr # NoQr => lanQr.code = qr.code
    /\ qr # NoQr /\ ~meddled => qr.code = pending

\* What a message says of its device, given the row that is left of it.
Holds(says, left) ==
    /\ says = "can type"  => \E d \in left : CanWrite(d) \/ d.blocked
    /\ says = "read-only" => \E d \in left : ~CanWrite(d)
    /\ says = "blocked"   => \E d \in left : d.blocked
    /\ says = "revoked"   => left = {}
    /\ says = "renamed"   => left # {}
    /\ says = "unblocked, read-only" => \E d \in left : ~d.blocked /\ ~CanWrite(d)

\* What the panel says it did is what its command left in the store, although
\* the row it was asked on was stale and other clicks came meanwhile: dropping
\* a click while a command runs keeps message and command together, and
\* revokeVerb says what Revoke does to that kind of device.  Only "can type"
\* may be false, of a device that was blocked since the list was read:
\* SetCapability accepts it.
FlashHonest == flash # None => Holds(flash.says, flash.left)

\* The panel and the daemon agree: the same devices, and the same rights as
\* EffectiveCapability gives them.
Agrees ==
    /\ {r.id : r \in shown} = Ids(rows)
    /\ \A r \in shown : \A d \in ById(rows, r.id) :
          r.name = d.name /\ r.blocked = d.blocked /\ r.canWrite = CanWrite(d)

\* Once the devices stay as they are the panel comes to agree with the daemon
\* for good, whatever polls were under way, skipped or failing when they last
\* changed; unless the binary was missing when the panel first looked.
CatchesUp == <>[][FALSE]_rows => <>[](Agrees \/ checked = "missing")
=============================================================================
