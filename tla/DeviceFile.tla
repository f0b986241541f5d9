----------------------------- MODULE DeviceFile -----------------------------
(***************************************************************************)
(* device.Store as written: a read-modify-write of devices.json under a    *)
(* flock on devices.json.lock, by goroutines of the daemon and by runs of  *)
(* the CLI, any of which may die or meet an I/O error at any step.         *)
(*                                                                         *)
(* A call goes through                                                     *)
(*   idle -> lock -> read -> (create -> write -> rename) -> unlock -> idle *)
(* and every caller opens the lock file itself, so that the lock also      *)
(* excludes goroutines of one process from each other.                     *)
(***************************************************************************)
EXTENDS Devices

CONSTANTS Proc,     \* goroutines of the daemon and runs of the CLI
          Junk      \* what is in a file that is not all written: no row

ASSUME JunkAssumption == Junk \notin Device

Partial == {Junk}
Absent == {}

VARIABLES
    file,    \* devices.json: a set of rows, or Partial
    used,    \* history: every id that has ever been in the file
    tmp,     \* of each caller: its temp file: a set of rows, Partial or Absent
    flock,   \* the callers that hold the lock
    pc,      \* of each caller: the next step of withLock
    call,    \* of each caller: the operation, or NoCall
    next,    \* of each caller: the effect fn computed, while it is being written
    reply    \* of each caller: the answer, once it is decided

vars == <<file, used, tmp, flock, pc, call, next, reply>>

NoCall == [op |-> "none"]
NoEffect == [rows |-> {}, saved |-> FALSE, reply |-> NoAnswer]

Init ==
    /\ file = {}
    /\ used = {}
    /\ tmp = [p \in Proc |-> Absent]
    /\ flock = {}
    /\ pc = [p \in Proc |-> "idle"]
    /\ call = [p \in Proc |-> NoCall]
    /\ next = [p \in Proc |-> NoEffect]
    /\ reply = [p \in Proc |-> NoAnswer]

Goto(p, l) == pc' = [pc EXCEPT ![p] = l]

Answered(p, a) == reply' = [reply EXCEPT ![p] = a]

\* Faulty variant, for AtomicStore: every operation asks for LOCK_SH.
LockFreeShared(p) == TRUE

\* LOCK_EX for an operation that may write, LOCK_SH for one that cannot.
LockFree(p) ==
    \A q \in flock : ReadOnly(call[p]) /\ ReadOnly(call[q])

Call(p, o) ==
    /\ pc[p] = "idle"
    /\ Goto(p, "lock")
    /\ call' = [call EXCEPT ![p] = o]
    /\ UNCHANGED <<file, used, tmp, flock, next, reply>>

Lock(p) ==
    /\ pc[p] = "lock"
    /\ LockFree(p)
    /\ flock' = flock \cup {p}
    /\ Goto(p, "read")
    /\ UNCHANGED <<file, used, tmp, call, next, reply>>

\* read, which fails on a file that is not JSON, and fn.  What fn found not
\* worth writing is answered at once.
Read(p) ==
    /\ pc[p] = "read"
    /\ file # Partial
    /\ \E e \in Effects(call[p], file, used) :
        IF e.saved
        THEN /\ Goto(p, "create")
             /\ next' = [next EXCEPT ![p] = e]
             /\ UNCHANGED reply
        ELSE /\ Goto(p, "unlock")
             /\ Answered(p, e.reply)
             /\ UNCHANGED next
    /\ UNCHANGED <<file, used, tmp, flock, call>>

\* Faulty variant, for TypeOK: devices.json itself is opened and truncated.
CreateInPlace(p) ==
    /\ pc[p] = "create"
    /\ file' = Partial
    /\ Goto(p, "write")
    /\ UNCHANGED <<used, tmp, flock, call, next, reply>>

\* write: a temp file beside the real one, ...
CreateTemp(p) ==
    /\ pc[p] = "create"
    /\ tmp' = [tmp EXCEPT ![p] = Partial]
    /\ Goto(p, "write")
    /\ UNCHANGED <<file, used, flock, call, next, reply>>

\* ... all of it written, made private and closed, ...
WriteTemp(p) ==
    /\ pc[p] = "write"
    /\ tmp' = [tmp EXCEPT ![p] = next[p].rows]
    /\ Goto(p, "rename")
    /\ UNCHANGED <<file, used, flock, call, next, reply>>

\* ... and renamed over it: the instant at which the operation happens.
RenameTemp(p) ==
    /\ pc[p] = "rename"
    /\ file' = tmp[p]
    /\ used' = used \cup Ids(next[p].rows)
    /\ tmp' = [tmp EXCEPT ![p] = Absent]
    /\ Answered(p, next[p].reply)
    /\ next' = [next EXCEPT ![p] = NoEffect]
    /\ Goto(p, "unlock")
    /\ UNCHANGED <<flock, call>>

\* Faulty variant, for LockReleased: an early return that unlocks nothing.
FailLocked(p) ==
    /\ pc[p] \in {"lock", "read", "create", "write", "rename"}
    /\ tmp' = [tmp EXCEPT ![p] = Absent]
    /\ next' = [next EXCEPT ![p] = NoEffect]
    /\ call' = [call EXCEPT ![p] = NoCall]
    /\ Goto(p, "idle")
    /\ UNCHANGED <<file, used, flock, reply>>

\* Any error before that instant: the deferred os.Remove and LOCK_UN run.
Fail(p) ==
    /\ pc[p] \in {"lock", "read", "create", "write", "rename"}
    /\ tmp' = [tmp EXCEPT ![p] = Absent]
    /\ next' = [next EXCEPT ![p] = NoEffect]
    /\ Answered(p, Failed)
    /\ Goto(p, "unlock")
    /\ UNCHANGED <<file, used, flock, call>>

Unlock(p) ==
    /\ pc[p] = "unlock"
    /\ flock' = flock \ {p}
    /\ Goto(p, "idle")
    /\ call' = [call EXCEPT ![p] = NoCall]
    /\ reply' = [reply EXCEPT ![p] = NoAnswer]
    /\ UNCHANGED <<file, used, tmp, next>>

\* The process is killed: the kernel drops its lock and nobody removes its temp
\* file, which no one reads again.
Die(p) ==
    /\ pc[p] # "idle"
    /\ flock' = flock \ {p}
    /\ tmp' = [tmp EXCEPT ![p] = Absent]
    /\ next' = [next EXCEPT ![p] = NoEffect]
    /\ Goto(p, "idle")
    /\ call' = [call EXCEPT ![p] = NoCall]
    /\ reply' = [reply EXCEPT ![p] = NoAnswer]
    /\ UNCHANGED <<file, used>>

Proceed(p) ==
    \/ Read(p) \/ CreateTemp(p) \/ WriteTemp(p) \/ RenameTemp(p)
    \/ Fail(p) \/ Unlock(p)

Next ==
    \E p \in Proc :
        \/ \E o \in Op : Call(p, o)
        \/ Lock(p) \/ Proceed(p) \/ Die(p)

\* Between taking the lock and releasing it a caller waits for nobody: it
\* keeps running.  Nothing is assumed of when a lock is granted.
Spec == Init /\ [][Next]_vars /\ \A p \in Proc : WF_vars(Proceed(p))

---------------------------------------------------------------------------
Label == {"idle", "lock", "read", "create", "write", "rename", "unlock"}

\* The file is whole at every instant, whatever crashes (write's temp file and
\* rename), so that no caller ever fails to parse it.
TypeOK ==
    /\ file \in SUBSET Device
    /\ used \in SUBSET DeviceId
    /\ tmp \in [Proc -> SUBSET (Device \cup {Junk})]
    /\ flock \in SUBSET Proc
    /\ pc \in [Proc -> Label]
    /\ call \in [Proc -> Op \cup {NoCall}]
    /\ next \in [Proc -> Effect]
    /\ reply \in [Proc -> Answer]

\* A tailnet node has one row however many requests register it at once:
\* FindByNode, Revoke and SetCapability all mean the same row.
OneRow == UniqueIds(file) /\ OneRowPerNode(file)

\* No rewrite of the file, however stale the list it was computed from could
\* be, grants a right, lifts a block or brings back a deleted device, other
\* than the one operation that is meant to, on the device it names.
OnlyAsOrdered ==
    [][\E p \in Proc :
          /\ GrantedBy(call[p], file, file')
          /\ BlockedUnless(call[p], file, file')
          /\ NoneRevived(used, file, file')]_file

\* The whole of it: the lock and the rename make every operation happen at one
\* instant or not at all (the comment on Store).
Store ==
    INSTANCE DeviceStore WITH
        devices <- file,
        status <- [p \in Proc |->
                     IF pc[p] = "idle" THEN "idle"
                     ELSE IF pc[p] = "unlock" THEN "answered" ELSE "called"]

AtomicStore == Store!Spec

\* Nobody keeps the lock: whatever fails, it is released.
LockReleased == \A p \in Proc : p \in flock ~> p \notin flock
=============================================================================
