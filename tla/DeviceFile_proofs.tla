-------------------------- MODULE DeviceFile_proofs --------------------------
(***************************************************************************)
(* Proofs about device.Store, for any number of callers, ids and nodes.    *)
(***************************************************************************)
EXTENDS DeviceFile, Devices_proofs

---------------------------------------------------------------------------
(* The inductive invariant.                                                *)

Holding == {"read", "create", "write", "rename"}
Writing == {"create", "write", "rename"}

\* Two holders of the lock are both readers.
Exclusive == \A p, q \in flock : p # q => ReadOnly(call[p]) /\ ReadOnly(call[q])

\* What a caller is at, and what it holds there.  The last line is the point:
\* an effect waiting to be written is still an effect on the list in the file.
CallInv(p) ==
    /\ pc[p] \in Holding \cup {"lock"} => call[p] \in Op
    /\ pc[p] \in Holding => p \in flock
    /\ p \in flock => pc[p] \notin {"idle", "lock"}
    /\ pc[p] = "idle" => reply[p] = NoAnswer
    /\ pc[p] \in Writing => next[p].saved
    /\ pc[p] = "rename" => tmp[p] = next[p].rows
    /\ pc[p] \in Writing => next[p] \in Effects(call[p], file, used)

Inv ==
    /\ TypeOK
    /\ Sound(file, used)
    /\ Exclusive
    /\ \A p \in Proc : CallInv(p)

LEMMA InitInv == Init => Inv
<1> SUFFICES ASSUME Init PROVE Inv
  OBVIOUS
<1>1. TypeOK
  BY AnswerType DEF Init, TypeOK, Absent, Label, NoEffect, Effect
<1>2. Sound(file, used)
  BY DEF Init, Sound, Ids, UniqueIds, OneRowPerNode, OnlyTailnetBlocked
<1>3. Exclusive /\ \A p \in Proc : CallInv(p)
  BY DEF Init, Exclusive, CallInv, Holding, Writing
<1> QED BY <1>1, <1>2, <1>3 DEF Inv

\* A caller about to write holds the lock alone: whoever else waits to write
\* would have to share it.
LEMMA WriterAlone ==
    ASSUME Inv, NEW p \in Proc, pc[p] \in Writing, NEW q \in Proc, q # p
    PROVE  pc[q] \notin Writing /\ q \notin flock
<1>1. p \in flock /\ call[p] \in Op /\ next[p].saved
      /\ next[p] \in Effects(call[p], file, used)
  BY DEF Inv, CallInv, Holding, Writing
<1>2. ~ReadOnly(call[p])
  BY <1>1, EffectsShape DEF Inv
<1>3. q \notin flock
  BY <1>1, <1>2 DEF Inv, Exclusive
<1>4. pc[q] \notin Writing
  BY <1>3 DEF Inv, CallInv, Holding, Writing
<1> QED BY <1>3, <1>4

LEMMA NextInv == Inv /\ [Next]_vars => Inv'
<1> SUFFICES ASSUME Inv, [Next]_vars PROVE Inv'
  OBVIOUS
<1> USE DEF Goto, Answered
<1>0. CASE UNCHANGED vars
  BY <1>0 DEF vars, Inv, TypeOK, Sound, Ids, UniqueIds, OneRowPerNode,
              OnlyTailnetBlocked, Exclusive, CallInv
<1> SUFFICES ASSUME NEW p \in Proc,
                    \/ \E o \in Op : Call(p, o)
                    \/ Lock(p) \/ Proceed(p) \/ Die(p)
             PROVE  Inv'
  BY <1>0 DEF Next
<1>1. ASSUME NEW o \in Op, Call(p, o) PROVE Inv'
  <2>1. TypeOK'
    BY <1>1 DEF Call, Inv, TypeOK, Label
  <2>2. Exclusive'
    BY <1>1 DEF Call, Inv, TypeOK, Exclusive, CallInv
  <2>3. \A q \in Proc : CallInv(q)'
    BY <1>1 DEF Call, Inv, TypeOK, CallInv, Holding, Writing
  <2> QED BY <1>1, <2>1, <2>2, <2>3 DEF Call, Inv, Sound
<1>2. CASE Lock(p)
  <2>1. TypeOK'
    BY <1>2 DEF Lock, Inv, TypeOK, Label
  <2>2. Exclusive'
    BY <1>2 DEF Lock, LockFree, Inv, TypeOK, Exclusive
  <2>3. \A q \in Proc : CallInv(q)'
    BY <1>2 DEF Lock, Inv, TypeOK, CallInv, Holding, Writing
  <2> QED BY <1>2, <2>1, <2>2, <2>3 DEF Lock, Inv, Sound
<1>3. CASE Read(p)
  <2>1. PICK e \in Effects(call[p], file, used) :
          IF e.saved
          THEN /\ Goto(p, "create")
               /\ next' = [next EXCEPT ![p] = e]
               /\ UNCHANGED reply
          ELSE /\ Goto(p, "unlock")
               /\ Answered(p, e.reply)
               /\ UNCHANGED next
    BY <1>3 DEF Read
  <2>2. pc[p] = "read" /\ UNCHANGED <<file, used, tmp, flock, call>>
    BY <1>3 DEF Read
  <2>3. call[p] \in Op
    BY <2>2 DEF Inv, CallInv, Holding
  <2>4. e \in Effect
    BY <2>3, EffectsShape DEF Inv
  <2>5. TypeOK'
    BY <2>1, <2>2, <2>4 DEF Inv, TypeOK, Label, Effect
  <2>6. Exclusive'
    BY <2>2 DEF Inv, Exclusive
  <2>7. ASSUME NEW q \in Proc PROVE CallInv(q)'
    <3>1. CASE q = p
      BY <2>1, <2>2, <3>1 DEF Inv, TypeOK, CallInv, Holding, Writing
    <3>2. CASE q # p
      BY <2>1, <2>2, <3>2 DEF Inv, TypeOK, CallInv, Holding, Writing
    <3> QED BY <3>1, <3>2
  <2> QED BY <2>2, <2>5, <2>6, <2>7 DEF Inv, Sound
<1>4. CASE CreateTemp(p)
  <2>1. TypeOK'
    BY <1>4 DEF CreateTemp, Inv, TypeOK, Label, Partial
  <2>2. Exclusive'
    BY <1>4 DEF CreateTemp, Inv, Exclusive
  <2>3. \A q \in Proc : CallInv(q)'
    BY <1>4 DEF CreateTemp, Inv, TypeOK, CallInv, Holding, Writing
  <2> QED BY <1>4, <2>1, <2>2, <2>3 DEF CreateTemp, Inv, Sound
<1>5. CASE WriteTemp(p)
  <2>1. TypeOK'
    BY <1>5 DEF WriteTemp, Inv, TypeOK, Label, Effect
  <2>2. Exclusive'
    BY <1>5 DEF WriteTemp, Inv, Exclusive
  <2>3. \A q \in Proc : CallInv(q)'
    BY <1>5 DEF WriteTemp, Inv, TypeOK, CallInv, Holding, Writing
  <2> QED BY <1>5, <2>1, <2>2, <2>3 DEF WriteTemp, Inv, Sound
<1>6. CASE RenameTemp(p)
  <2>1. /\ pc[p] = "rename" /\ call[p] \in Op
        /\ next[p] \in Effects(call[p], file, used)
        /\ file' = next[p].rows /\ used' = used \cup Ids(next[p].rows)
    BY <1>6 DEF RenameTemp, Inv, CallInv, Holding, Writing
  <2>2. next[p] \in Effect /\ Shape(call[p], file, used, file')
    BY <2>1, EffectsShape DEF Inv
  <2>3. file' \in SUBSET Device
    BY <2>1, <2>2 DEF Effect
  <2>4. Sound(file', used')
    BY <2>1, <2>2, <2>3, ShapeSound DEF Inv
  <2>5. TypeOK'
    BY <1>6, <2>2, <2>3, <2>4, AnswerType
       DEF RenameTemp, Inv, TypeOK, Label, Effect, Sound, Absent, NoEffect
  <2>6. Exclusive'
    BY <1>6 DEF RenameTemp, Inv, Exclusive
  <2>7. ASSUME NEW q \in Proc PROVE CallInv(q)'
    <3>1. CASE q = p
      BY <1>6, <3>1 DEF RenameTemp, Inv, TypeOK, CallInv, Holding, Writing
    <3>2. CASE q # p
      <4>1. pc[q] \notin Writing
        BY <2>1, <3>2, WriterAlone DEF Writing
      <4> QED BY <1>6, <3>2, <4>1 DEF RenameTemp, Inv, TypeOK, CallInv, Holding, Writing
    <3> QED BY <3>1, <3>2
  <2> QED BY <2>4, <2>5, <2>6, <2>7 DEF Inv, Sound
<1>7. CASE Fail(p)
  <2>1. TypeOK'
    BY <1>7, AnswerType DEF Fail, Inv, TypeOK, Label, Absent, NoEffect, Effect
  <2>2. Exclusive'
    BY <1>7 DEF Fail, Inv, Exclusive
  <2>3. \A q \in Proc : CallInv(q)'
    BY <1>7 DEF Fail, Inv, TypeOK, CallInv, Holding, Writing
  <2> QED BY <1>7, <2>1, <2>2, <2>3 DEF Fail, Inv, Sound
<1>8. CASE Unlock(p) \/ Die(p)
  <2>0. /\ flock' = flock \ {p}
        /\ pc' = [pc EXCEPT ![p] = "idle"]
        /\ call' = [call EXCEPT ![p] = NoCall]
        /\ reply' = [reply EXCEPT ![p] = NoAnswer]
        /\ UNCHANGED <<file, used>>
        /\ \/ UNCHANGED <<tmp, next>>
           \/ /\ tmp' = [tmp EXCEPT ![p] = Absent]
              /\ next' = [next EXCEPT ![p] = NoEffect]
    BY <1>8 DEF Unlock, Die
  <2>1. TypeOK'
    <3>1. call' \in [Proc -> Op \cup {NoCall}] /\ reply' \in [Proc -> Answer]
      BY <2>0, AnswerType DEF Inv, TypeOK
    <3>2. Absent \in SUBSET (Device \cup {Junk}) /\ NoEffect \in Effect
      BY AnswerType DEF Absent, NoEffect, Effect
    <3>3. tmp' \in [Proc -> SUBSET (Device \cup {Junk})]
      BY <2>0, <3>2 DEF Inv, TypeOK
    <3>4. next' \in [Proc -> Effect]
      BY <2>0, <3>2 DEF Inv, TypeOK
    <3> QED BY <2>0, <3>1, <3>3, <3>4 DEF Inv, TypeOK, Label
  <2>2. Exclusive'
    BY <2>0 DEF Inv, TypeOK, Exclusive
  <2>3. \A q \in Proc : CallInv(q)'
    BY <2>0 DEF Inv, TypeOK, CallInv, Holding, Writing
  <2> QED BY <2>0, <2>1, <2>2, <2>3 DEF Inv, Sound
<1> QED
  BY <1>1, <1>2, <1>3, <1>4, <1>5, <1>6, <1>7, <1>8 DEF Proceed

THEOREM Invariance == Spec => []Inv
BY InitInv, NextInv, PTL DEF Spec

---------------------------------------------------------------------------
\* devices.json is whole at every instant, whatever crashes or fails (write).
THEOREM FileIsWhole == Spec => []TypeOK
<1>1. Inv => TypeOK
  BY DEF Inv
<1> QED BY <1>1, Invariance, PTL

\* However many requests register a node at once, it has one row, and no two
\* rows share an id (RegisterTailnet under withLock).
THEOREM NodeHasOneRow == Spec => []OneRow
<1>1. Inv => OneRow
  BY DEF Inv, Sound, OneRow
<1> QED BY <1>1, Invariance, PTL

\* No rewrite of the file grants, unblocks or revives anything but as the one
\* operation it is for says (withLock around every mutation).
THEOREM ChangesAsOrdered == Spec => OnlyAsOrdered
<1> DEFINE Ordered == \E p \in Proc :
                        /\ GrantedBy(call[p], file, file')
                        /\ BlockedUnless(call[p], file, file')
                        /\ NoneRevived(used, file, file')
<1>1. Inv /\ [Next]_vars => [Ordered]_file
  <2> SUFFICES ASSUME Inv, Next, file' # file PROVE Ordered
    BY DEF vars
  <2>1. PICK p \in Proc : RenameTemp(p)
    BY DEF Next, Proceed, Call, Lock, Read, CreateTemp, WriteTemp, Fail, Unlock, Die
  <2>2. /\ call[p] \in Op /\ next[p] \in Effects(call[p], file, used)
        /\ file' = next[p].rows
    BY <2>1 DEF RenameTemp, Inv, CallInv, Holding, Writing
  <2>3. next[p] \in Effect /\ Shape(call[p], file, used, file')
    BY <2>2, EffectsShape DEF Inv
  <2>4. file' \in SUBSET Device
    BY <2>2, <2>3 DEF Effect
  <2> QED BY <2>3, <2>4, ShapeSound DEF Inv
<1> QED BY <1>1, Invariance, PTL DEF Spec, OnlyAsOrdered

---------------------------------------------------------------------------
(* The refinement.                                                         *)

\* The instance has its own copy of Devices: the same one.
LEMMA SameEffects ==
    ASSUME NEW o, NEW D, NEW ids
    PROVE  Store!Effects(o, D, ids) = Effects(o, D, ids)
BY DEF Store!Effects, Store!RegisterTailnet, Store!CreatePaired, Store!Added,
       Store!SetCapability, Store!Rename, Store!Unblock, Store!Mutate,
       Store!Touch, Store!Revoke, Store!Lookup, Store!Saved, Store!Unsaved,
       Store!Reply, Store!Done, Store!NotFound, Store!TailnetRow,
       Store!PairedRow, Store!HashToken, Store!ById, Store!ByNode,
       Store!ByToken,       Effects, RegisterTailnet, CreatePaired, Added,
       SetCapability, Rename, Unblock, Mutate, Touch, Revoke, Lookup, Saved,
       Unsaved, Reply, Done, NotFound, TailnetRow, PairedRow, HashToken,
       ById, ByNode, ByToken

LEMMA SameOp == Store!Op = Op
BY DEF Store!Op, Op, Store!Capability, Capability

LEMMA InitRefines == Init => Store!Init
BY DEF Init, Store!Init, Store!NoCall, NoCall, Store!NoAnswer, NoAnswer,
       Store!Reply, Reply

\* The lock, the temp file and a death are invisible; the rename, or reading
\* what needs no writing, is the instant the operation happens.
LEMMA NextRefines == Inv /\ [Next]_vars => [Store!Next]_Store!vars
<1> DEFINE status == [p \in Proc |->
                        IF pc[p] = "idle" THEN "idle"
                        ELSE IF pc[p] = "unlock" THEN "answered" ELSE "called"]
<1> SUFFICES ASSUME Inv, [Next]_vars PROVE [Store!Next]_Store!vars
  OBVIOUS
<1> USE DEF Goto, Answered
<1>0. CASE UNCHANGED vars
  BY <1>0 DEF vars, Store!vars
<1> SUFFICES ASSUME NEW p \in Proc,
                    \/ \E o \in Op : Call(p, o)
                    \/ Lock(p) \/ Proceed(p) \/ Die(p)
             PROVE  \/ \E o \in Op : Store!Invoke(p, o)
                    \/ Store!Perform(p) \/ Store!Fail(p) \/ Store!Leave(p)
                    \/ UNCHANGED Store!vars
  BY <1>0, SameOp DEF Next, Store!Next
<1>a. pc \in [Proc -> Label]
  BY DEF Inv, TypeOK
<1>b. ASSUME NEW l \in Label, pc' = [pc EXCEPT ![p] = l]
      PROVE  status' = [status EXCEPT ![p] =
                          IF l = "idle" THEN "idle"
                          ELSE IF l = "unlock" THEN "answered" ELSE "called"]
  BY <1>a, <1>b
<1>1. ASSUME NEW o \in Op, Call(p, o) PROVE Store!Invoke(p, o)
  <2>1. status[p] = "idle" /\ status' = [status EXCEPT ![p] = "called"]
    BY <1>1, <1>b DEF Call, Label
  <2> QED BY <1>1, <2>1 DEF Call, Store!Invoke
<1>2. CASE Lock(p) \/ CreateTemp(p) \/ WriteTemp(p)
  <2>1. status[p] = "called" /\ status' = [status EXCEPT ![p] = "called"]
    BY <1>2, <1>b DEF Lock, CreateTemp, WriteTemp, Label
  <2>2. status' = status
    BY <2>1
  <2> QED BY <1>2, <2>2 DEF Lock, CreateTemp, WriteTemp, Store!vars
<1>3. CASE Read(p)
  <2>1. PICK e \in Effects(call[p], file, used) :
          IF e.saved
          THEN /\ pc' = [pc EXCEPT ![p] = "create"]
               /\ UNCHANGED reply
          ELSE /\ pc' = [pc EXCEPT ![p] = "unlock"]
               /\ reply' = [reply EXCEPT ![p] = e.reply]
    BY <1>3 DEF Read
  <2>2. status[p] = "called" /\ UNCHANGED <<file, used, call>>
    BY <1>3 DEF Read
  <2>3. CASE e.saved
    <3>1. status' = [status EXCEPT ![p] = "called"]
      BY <2>1, <2>3, <1>b DEF Label
    <3>2. status' = status
      BY <2>2, <3>1
    <3> QED BY <2>1, <2>2, <2>3, <3>2 DEF Store!vars
  <2>4. CASE ~e.saved
    <3>1. status' = [status EXCEPT ![p] = "answered"]
      BY <2>1, <2>4, <1>b DEF Label
    <3>2. call[p] \in Op
      BY <1>3 DEF Read, Inv, CallInv, Holding
    <3>3. file' = e.rows /\ used' = used \cup Ids(e.rows)
      BY <2>2, <2>4, <3>2, EffectsShape DEF Inv, Sound
    <3> QED BY <2>1, <2>2, <2>4, <3>1, <3>3, SameEffects
            DEF Store!Perform, Store!Ids, Ids
  <2> QED BY <2>3, <2>4
<1>4. CASE RenameTemp(p)
  <2>1. status[p] = "called" /\ status' = [status EXCEPT ![p] = "answered"]
    BY <1>4, <1>b DEF RenameTemp, Label
  <2>2. /\ next[p] \in Effects(call[p], file, used)
        /\ file' = next[p].rows /\ used' = used \cup Ids(next[p].rows)
        /\ reply' = [reply EXCEPT ![p] = next[p].reply] /\ UNCHANGED call
    BY <1>4 DEF RenameTemp, Inv, CallInv, Writing
  <2> QED BY <2>1, <2>2, SameEffects DEF Store!Perform, Store!Ids, Ids
<1>5. CASE Fail(p)
  <2>1. status[p] = "called" /\ status' = [status EXCEPT ![p] = "answered"]
    BY <1>5, <1>b DEF Fail, Label
  <2> QED BY <1>5, <2>1 DEF Fail, Store!Fail, Store!Failed, Failed, Store!Reply, Reply
<1>6. CASE Unlock(p) \/ Die(p)
  <2>1. status[p] # "idle" /\ status' = [status EXCEPT ![p] = "idle"]
    BY <1>6, <1>b DEF Unlock, Die, Label
  <2> QED BY <1>6, <2>1
          DEF Unlock, Die, Store!Leave, Store!NoCall, NoCall, Store!NoAnswer, NoAnswer,
              Store!Reply, Reply
<1> QED
  BY <1>1, <1>2, <1>3, <1>4, <1>5, <1>6 DEF Proceed

\* The lock and the rename make every operation of the Store atomic (the
\* comment on Store and withLock), for any number of callers that die and fail.
THEOREM StoreIsAtomic == Spec => AtomicStore
BY InitRefines, NextRefines, Invariance, PTL DEF Spec, AtomicStore, Store!Spec
=============================================================================
