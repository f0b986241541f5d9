--------------------------- MODULE Pairing_proofs ---------------------------
(***************************************************************************)
(* Proofs about pairing.Store, for any number of handlers, codes, calls    *)
(* and allowed attempts.                                                   *)
(***************************************************************************)
EXTENDS Pairing, TLAPS

Pend(c) == file \in Pending /\ file.code = c

\* What a redeemer is at and what it has loaded.
StepInv(r) ==
    /\ pc[r] \in {"clear", "save"} => loaded[r] \in Pending
    /\ pc[r] = "save" =>
          verdict[r] = "refused" /\ loaded[r].attempts + 1 \in 0 .. MaxAttempts - 1
    /\ verdict[r] = "paired" => loaded[r] \in Pending
    /\ pc[r] = "idle" => verdict[r] = "none"

\* A code that has not been drawn is nowhere.
FreshInv(c) ==
    c \notin created =>
        /\ ~Pend(c) /\ wins[c] = 0 /\ guesses[c] = 0
        /\ \A r \in Redeemer : ~Holds(r, c)

\* Without a race, whatever is loaded or pending is the newest code.
NewestInv ==
    ~raced =>
        /\ file \in Pending => file.code = latest
        /\ \A r \in Redeemer :
              pc[r] # "idle" /\ loaded[r] \in Pending => loaded[r].code = latest

\* While one redemption at a time holds c, its refusals are all in the file, or
\* in the hands of the one that holds it, and a win takes c out of both.
LoneInv(c) ==
    Lone(c) =>
        /\ wins[c] <= 1 /\ guesses[c] <= MaxAttempts
        /\ \A q, r \in Redeemer : Holds(q, c) /\ Holds(r, c) => q = r
        /\ Pend(c) \/ (\E r \in Redeemer : Holds(r, c)) => wins[c] = 0
        /\ (\A r \in Redeemer : Holds(r, c) => pc[r] \in {"decide", "return"}) =>
              (Pend(c) => guesses[c] = file.attempts)
        /\ \A r \in Redeemer : Holds(r, c) =>
              /\ pc[r] = "decide" => guesses[c] = loaded[r].attempts
              /\ pc[r] = "save" => guesses[c] = loaded[r].attempts + 1
              /\ pc[r] = "return" /\ verdict[r] = "paired" => ~Pend(c)

Inv ==
    /\ TypeOK
    /\ \A r \in Redeemer : StepInv(r)
    /\ \A c \in Code : FreshInv(c)
    /\ NewestInv
    /\ \A c \in Code : LoneInv(c)

LEMMA InitInv == Init => Inv
<1> USE BoundAssumption, FileAssumption
<1> SUFFICES ASSUME Init PROVE Inv
  OBVIOUS
<1>1. TypeOK
  <2>1. raced \in BOOLEAN
    BY DEF Init
  <2>2. calls \in 0 .. Calls
    BY DEF Init
  <2> QED BY <2>1, <2>2 DEF Init, TypeOK
<1>2. \A r \in Redeemer : StepInv(r)
  BY DEF Init, StepInv
<1>3. \A c \in Code : FreshInv(c)
  BY DEF Init, FreshInv, Pend, Holds
<1>4. NewestInv
  BY DEF Init, NewestInv
<1>5. \A c \in Code : LoneInv(c)
  BY DEF Init, LoneInv, Pend, Holds
<1> QED BY <1>1, <1>2, <1>3, <1>4, <1>5 DEF Inv

LEMMA NextInv == Inv /\ [Next]_vars => Inv'
<1> USE BoundAssumption, FileAssumption
<1> SUFFICES ASSUME Inv, [Next]_vars PROVE Inv'
  OBVIOUS
<1>t. TypeOK /\ \A r \in Redeemer : StepInv(r)
  BY DEF Inv
<1>1. ASSUME NEW c \in Code, Create(c) PROVE Inv'
  <2>1. TypeOK'
    BY <1>t, <1>1 DEF Create, TypeOK, Pending, redeemers
  <2>2. (\A r \in Redeemer : StepInv(r))'
    BY <1>t, <1>1 DEF Create, StepInv, redeemers
  <2>3. ASSUME NEW d \in Code PROVE FreshInv(d)'
    BY <1>1, <2>3 DEF Create, Inv, FreshInv, Pend, Holds, redeemers
  <2>4. NewestInv'
    <3>1. ~raced' => \A r \in Redeemer : pc[r] = "idle"
      BY <1>1 DEF Create
    <3>2. ~raced' => \A r \in Redeemer : pc'[r] = "idle"
      BY <1>1, <3>1 DEF Create, redeemers
    <3>3. file' \in Pending => file'.code = latest'
      BY <1>1 DEF Create
    <3> QED BY <3>2, <3>3 DEF NewestInv
  <2>5. ASSUME NEW d \in Code PROVE LoneInv(d)'
    <3>1. CASE d = c
      <4>1. FreshInv(c)
        BY DEF Inv
      <4>2. /\ guesses'[c] = 0 /\ wins'[c] = 0
            /\ \A r \in Redeemer : ~Holds(r, c)'
            /\ file' \in Pending => file'.attempts = 0
        BY <1>1, <4>1 DEF Create, FreshInv, Holds, redeemers
      <4> QED BY <3>1, <4>2 DEF LoneInv, Pend, Holds
    <3>2. CASE d # c
      <4>1. LoneInv(d) /\ ~Pend(d)'
        BY <1>1, <3>2 DEF Inv, Create, Pend
      <4> QED BY <1>1, <4>1 DEF Create, LoneInv, Lone, Holds, redeemers
    <3> QED BY <3>1, <3>2
  <2> QED BY <2>1, <2>2, <2>3, <2>4, <2>5 DEF Inv
<1>2. ASSUME NEW c \in Code, Expire(c) PROVE Inv'
  BY <1>2 DEF Expire, Inv, TypeOK, StepInv, FreshInv, NewestInv, LoneInv, Lone, Pend, Holds,
              history, redeemers
<1>3. ASSUME NEW r \in Redeemer, NEW g \in Guess, Load(r, g) PROVE Inv'
  <2>1. TypeOK'
    BY <1>t, <1>3 DEF Load, TypeOK, Guess
  <2>2. (\A q \in Redeemer : StepInv(q))'
    BY <1>t, <1>3 DEF Load, StepInv, TypeOK
  <2>3. ASSUME NEW d \in Code PROVE FreshInv(d)'
    BY <1>t, <1>3 DEF Load, Inv, FreshInv, Pend, Holds, TypeOK
  <2>4. NewestInv'
    BY <1>t, <1>3 DEF Load, Inv, NewestInv, TypeOK
  <2>5. ASSUME NEW d \in Code, Lone(d)' PROVE LoneInv(d)'
    <3>1. LoneInv(d) /\ Lone(d)
      BY <1>3, <2>5 DEF Inv, Load, Lone
    <3>2. Pend(d)' = Pend(d) /\ UNCHANGED <<file, wins, guesses, verdict>>
      BY <1>3 DEF Load, Pend
    <3>3. Holds(r, d)' <=> Pend(d)
      BY <1>t, <1>3 DEF Load, Holds, Pend, TypeOK
    <3>4. ASSUME NEW q \in Redeemer, q # r
          PROVE  pc'[q] = pc[q] /\ loaded'[q] = loaded[q] /\ Holds(q, d)' = Holds(q, d)
      BY <1>t, <1>3, <3>4 DEF Load, Holds, TypeOK
    <3>5. Holds(r, d)' => \A q \in Redeemer : ~Holds(q, d)
      BY <1>3, <2>5, <3>3 DEF Load, Lone, Pend
    <3>6. pc'[r] = "decide" /\ loaded'[r] = file
      BY <1>t, <1>3 DEF Load, TypeOK
    <3>7. verdict[r] = "none" /\ ~Holds(r, d)
      BY <1>t, <1>3 DEF Load, StepInv, Holds
    <3>8. CASE Pend(d)
      <4>1. \A q \in Redeemer : Holds(q, d)' => q = r
        BY <3>3, <3>4, <3>5, <3>8
      <4>2. guesses[d] = file.attempts /\ wins[d] = 0
        BY <3>1, <3>3, <3>5, <3>8 DEF LoneInv
      <4> QED BY <3>1, <3>2, <3>6, <4>1, <4>2 DEF LoneInv
    <3>9. CASE ~Pend(d)
      <4>1. \A q \in Redeemer : Holds(q, d)' => q # r /\ Holds(q, d)
        BY <3>3, <3>4, <3>9
      <4> QED BY <3>1, <3>2, <3>4, <3>9, <4>1 DEF LoneInv
    <3> QED BY <3>8, <3>9
  <2> QED BY <2>1, <2>2, <2>3, <2>4, <2>5 DEF Inv, LoneInv
<1> USE DEF Decision
<1>4. ASSUME NEW r \in Redeemer, Decide(r) PROVE Inv'
  <2>0. /\ pc[r] = "decide"
        /\ pc' = [pc EXCEPT ![r] = Decision(loaded[r], guess[r]).step]
        /\ verdict' = [verdict EXCEPT ![r] = Decision(loaded[r], guess[r]).verdict]
        /\ UNCHANGED <<file, expired, loaded, guess, calls,
                       created, latest, wins, overlapped, faulted, raced>>
    BY <1>4 DEF Decide
  <2>1. TypeOK'
    <3>1. guesses' \in [Code -> Nat]
      BY <1>t, <1>4 DEF Decide, TypeOK
    <3> QED BY <1>t, <2>0, <3>1 DEF TypeOK
  <2>2. (\A q \in Redeemer : StepInv(q))'
    BY <1>t, <2>0 DEF StepInv, TypeOK, Pending
  <2>a. \A q \in Redeemer, c \in Code : Holds(q, c)' = Holds(q, c)
    BY <1>t, <2>0 DEF Holds, TypeOK
  <2>3. ASSUME NEW d \in Code PROVE FreshInv(d)'
    BY <1>4, <2>0, <2>a DEF Decide, Inv, FreshInv, Pend
  <2>4. NewestInv'
    BY <1>t, <2>0 DEF Inv, NewestInv, TypeOK
  <2>5. ASSUME NEW d \in Code, Lone(d)' PROVE LoneInv(d)'
    <3>1. LoneInv(d) /\ Lone(d) /\ Pend(d)' = Pend(d)
      BY <2>0, <2>5 DEF Inv, Lone, Pend
    <3>4. ASSUME NEW q \in Redeemer, q # r
          PROVE  pc'[q] = pc[q] /\ verdict'[q] = verdict[q]
      BY <1>t, <2>0, <3>4 DEF TypeOK
    <3>8. CASE Holds(r, d)
      <4>1. \A q \in Redeemer : Holds(q, d)' => q = r
        BY <2>a, <3>1, <3>8 DEF LoneInv
      <4>2. /\ guesses[d] = loaded[r].attempts /\ wins[d] = 0
            /\ loaded[r] \in Pending /\ loaded[r].code = d
            /\ loaded[r].attempts \in 0 .. MaxAttempts - 1
        BY <2>0, <3>1, <3>8 DEF LoneInv, Holds, Pending
      <4>3. guesses'[d] = IF d \notin expired /\ guess[r] # d
                          THEN guesses[d] + 1 ELSE guesses[d]
        BY <1>4, <3>8 DEF Decide
      <4>4. /\ pc'[r] \in {"clear", "save"}
            /\ guesses'[d] <= MaxAttempts
            /\ pc'[r] = "save" => guesses'[d] = loaded[r].attempts + 1
        BY <1>t, <2>0, <4>2, <4>3 DEF TypeOK
      <4> QED BY <2>0, <2>a, <3>1, <3>8, <4>1, <4>2, <4>4 DEF LoneInv
    <3>9. CASE ~Holds(r, d)
      <4>1. guesses'[d] = guesses[d]
        BY <1>4, <3>9 DEF Decide
      <4>2. \A q \in Redeemer : Holds(q, d) => q # r
        BY <3>9
      <4> QED BY <2>0, <2>a, <3>1, <3>4, <4>1, <4>2 DEF LoneInv
    <3> QED BY <3>8, <3>9
  <2> QED BY <2>1, <2>2, <2>3, <2>4, <2>5 DEF Inv, LoneInv
<1>5. ASSUME NEW r \in Redeemer, Clear(r) \/ Save(r) PROVE Inv'
  <2>0. /\ pc[r] \in {"clear", "save"}
        /\ pc' = [pc EXCEPT ![r] = "return"]
        /\ UNCHANGED <<expired, loaded, guess, verdict, calls,
                       created, latest, wins, guesses, overlapped, raced>>
        /\ loaded[r] \in Pending
    BY <1>t, <1>5 DEF Clear, Save, StepInv
  <2> DEFINE next == [loaded[r] EXCEPT !.attempts = @ + 1]
  <2>b. pc[r] = "save" => next \in Pending /\ next.code = loaded[r].code
                          /\ next.attempts = loaded[r].attempts + 1
    BY <1>t, <2>0 DEF StepInv, Pending
  <2>c. \/ file' \in {Absent, file} /\ pc[r] = "clear"
        \/ file' = next /\ pc[r] = "save"
        \/ file' \in {file, Torn} /\ pc[r] = "save"
    BY <1>5 DEF Clear, Save
  <2>d. /\ faulted' \in {faulted, faulted \cup {loaded[r].code}}
        /\ faulted' = faulted =>
              \/ pc[r] = "clear" /\ file' = Absent
              \/ pc[r] = "save" /\ file' = next
              \/ loaded[r].code \in faulted
    BY <1>5 DEF Clear, Save
  <2> HIDE DEF next
  <2>1. TypeOK'
    <3>1. loaded[r].code \in Code
      BY <2>0 DEF Pending
    <3>2. faulted' \in SUBSET Code
      BY <1>t, <2>d, <3>1 DEF TypeOK
    <3>3. file' \in Pending \cup {Absent, Torn}
      BY <1>t, <2>b, <2>c DEF TypeOK
    <3> QED BY <1>t, <2>0, <3>2, <3>3 DEF TypeOK
  <2>2. (\A q \in Redeemer : StepInv(q))'
    BY <1>t, <2>0 DEF StepInv, TypeOK
  <2>a. \A q \in Redeemer, c \in Code : Holds(q, c)' = Holds(q, c)
    BY <1>t, <2>0 DEF Holds, TypeOK
  <2>e. ASSUME NEW d \in Code, Pend(d)', ~Pend(d) PROVE Holds(r, d)
    BY <2>e, <2>0, <2>b, <2>c DEF Pend, Holds
  <2>3. ASSUME NEW d \in Code PROVE FreshInv(d)'
    <3>1. FreshInv(d)
      BY DEF Inv
    <3> QED BY <2>0, <2>a, <2>e, <3>1 DEF FreshInv
  <2>4. NewestInv'
    <3>1. NewestInv
      BY DEF Inv
    <3> QED BY <1>t, <2>0, <2>b, <2>c, <3>1 DEF NewestInv, TypeOK
  <2>5. ASSUME NEW d \in Code, Lone(d)' PROVE LoneInv(d)'
    <3>1. LoneInv(d) /\ Lone(d)
      BY <2>0, <2>d, <2>5 DEF Inv, Lone
    <3>4. ASSUME NEW q \in Redeemer, q # r PROVE pc'[q] = pc[q]
      BY <1>t, <2>0, <3>4 DEF TypeOK
    <3>5. pc'[r] = "return"
      BY <1>t, <2>0 DEF TypeOK
    <3>8. CASE Holds(r, d)
      <4>1. \A q \in Redeemer : Holds(q, d)' => q = r
        BY <2>a, <3>1, <3>8 DEF LoneInv
      <4>2. wins[d] = 0 /\ (pc[r] = "save" => guesses[d] = loaded[r].attempts + 1)
        BY <3>1, <3>8 DEF LoneInv
      <4>3. loaded[r].code = d /\ d \notin faulted /\ d \notin faulted'
        BY <2>5, <3>1, <3>8 DEF Holds, Lone
      <4>4. \/ pc[r] = "clear" /\ file' = Absent
            \/ pc[r] = "save" /\ file' = next
        BY <2>d, <4>3
      <4>5. Pend(d)' => pc[r] = "save" /\ file'.attempts = loaded[r].attempts + 1
        BY <2>b, <4>4 DEF Pend
      <4>6. Pend(d)' => guesses[d] = file'.attempts /\ verdict[r] = "refused"
        BY <1>t, <4>2, <4>5 DEF StepInv
      <4> QED BY <2>0, <2>a, <3>1, <3>5, <4>1, <4>2, <4>6 DEF LoneInv
    <3>9. CASE ~Holds(r, d)
      <4>1. Pend(d)' => Pend(d) /\ file' = file
        BY <2>0, <2>b, <2>c, <2>e, <3>9 DEF Pend, Holds
      <4>2. \A q \in Redeemer : Holds(q, d) => q # r
        BY <3>9
      <4> QED BY <2>0, <2>a, <3>1, <3>4, <4>1, <4>2 DEF LoneInv
    <3> QED BY <3>8, <3>9
  <2> QED BY <2>1, <2>2, <2>3, <2>4, <2>5 DEF Inv, LoneInv
<1>6. ASSUME NEW r \in Redeemer, Return(r) PROVE Inv'
  <2>1. TypeOK'
    <3>1. wins' \in [Code -> Nat]
      BY <1>t, <1>6 DEF Return, TypeOK
    <3> QED BY <1>t, <1>6, <3>1 DEF Return, TypeOK
  <2>2. (\A q \in Redeemer : StepInv(q))'
    BY <1>t, <1>6 DEF Return, StepInv, TypeOK
  <2>a. \A q \in Redeemer, c \in Code : Holds(q, c)' <=> Holds(q, c) /\ q # r
    BY <1>t, <1>6 DEF Return, Holds, TypeOK
  <2>3. ASSUME NEW d \in Code PROVE FreshInv(d)'
    BY <1>6, <2>a DEF Return, Inv, FreshInv, Pend
  <2>4. NewestInv'
    BY <1>t, <1>6 DEF Return, Inv, NewestInv, TypeOK
  <2>5. ASSUME NEW d \in Code, Lone(d)' PROVE LoneInv(d)'
    <3>1. LoneInv(d) /\ Lone(d) /\ Pend(d)' = Pend(d)
          /\ UNCHANGED <<file, guesses>>
      BY <1>6, <2>5 DEF Return, Inv, Lone, Pend
    <3>4. ASSUME NEW q \in Redeemer, q # r
          PROVE pc'[q] = pc[q] /\ loaded'[q] = loaded[q] /\ verdict'[q] = verdict[q]
      BY <1>t, <1>6, <3>4 DEF Return, TypeOK
    <3>8. CASE Holds(r, d)
      <4>1. \A q \in Redeemer : ~Holds(q, d)'
        BY <2>a, <3>1, <3>8 DEF LoneInv
      <4>2. pc[r] = "return" /\ wins[d] = 0 /\ (verdict[r] = "paired" => ~Pend(d))
        BY <1>6, <3>1, <3>8 DEF LoneInv, Return
      <4>3. wins'[d] = IF verdict[r] = "paired" THEN 1 ELSE 0
        BY <1>6, <3>8, <4>2 DEF Return
      <4>4. Pend(d) => guesses[d] = file.attempts
        BY <2>a, <3>1, <3>8, <4>2 DEF LoneInv
      <4> QED BY <3>1, <4>1, <4>2, <4>3, <4>4 DEF LoneInv
    <3>9. CASE ~Holds(r, d)
      <4>1. wins'[d] = wins[d]
        BY <1>6, <3>9 DEF Return
      <4>2. \A q \in Redeemer : Holds(q, d)' => q # r /\ Holds(q, d)
        BY <2>a
      <4>3. \A q \in Redeemer : Holds(q, d) => q # r /\ Holds(q, d)'
        BY <2>a, <3>9
      <4> QED BY <3>1, <3>4, <4>1, <4>2, <4>3 DEF LoneInv
    <3> QED BY <3>8, <3>9
  <2> QED BY <2>1, <2>2, <2>3, <2>4, <2>5 DEF Inv, LoneInv
<1>7. CASE Crash
  <2>1. TypeOK'
    BY <1>t, <1>7 DEF Crash, TypeOK
  <2>2. (\A q \in Redeemer : StepInv(q))'
    BY <1>7 DEF Crash, StepInv
  <2>a. \A q \in Redeemer, c \in Code : ~Holds(q, c)'
    BY <1>7 DEF Crash, Holds
  <2>3. ASSUME NEW d \in Code PROVE FreshInv(d)'
    BY <1>7, <2>a DEF Crash, Inv, FreshInv, Pend
  <2>4. NewestInv'
    BY <1>7 DEF Crash, Inv, NewestInv
  <2>5. ASSUME NEW d \in Code, Lone(d)' PROVE LoneInv(d)'
    <3>1. LoneInv(d) /\ Lone(d) /\ Pend(d)' = Pend(d)
          /\ UNCHANGED <<file, guesses, wins>>
      BY <1>7, <2>5 DEF Crash, Inv, Lone, Pend
    <3>2. \A q \in Redeemer : Holds(q, d) => pc[q] \in {"decide", "return"}
      BY <1>t, <1>7, <2>5 DEF Crash, Lone, Holds, TypeOK
    <3> QED BY <2>a, <3>1, <3>2 DEF LoneInv
  <2> QED BY <2>1, <2>2, <2>3, <2>4, <2>5 DEF Inv, LoneInv
<1>8. CASE UNCHANGED vars
  BY <1>8 DEF vars, Inv, TypeOK, StepInv, FreshInv, NewestInv, LoneInv, Lone, Pend, Holds,
              history, redeemers
<1> QED
  BY <1>1, <1>2, <1>3, <1>4, <1>5, <1>6, <1>7, <1>8 DEF Next

THEOREM Invariance == Spec => []Inv
BY InitInv, NextInv, PTL DEF Spec

\* A code is redeemed once at most, unless redemptions of it overlap or its file
\* cannot be cleared or saved (Redeem).
THEOREM SingleUseWhenAlone == Spec => []SingleUseAlone
<1>1. Inv => SingleUseAlone
  BY DEF Inv, LoneInv, SingleUseAlone
<1> QED BY <1>1, Invariance, PTL

\* Under the same condition no code outlives maxAttempts wrong guesses (Redeem); under
\* any, what is in the file has an attempt left, or is nothing, or does not parse (save).
THEOREM AttemptsBounded == Spec => []AttemptsCounted
<1>1. Inv => AttemptsCounted
  BY DEF Inv, LoneInv, AttemptsCounted
<1> QED BY <1>1, Invariance, PTL

\* Create takes the earlier codes out of use, unless it falls into a redemption.
THEOREM OnlyNewestWins == Spec => []NewestWins
<1>1. Inv => NewestWins
  BY DEF Inv, NewestInv, StepInv, NewestWins
<1> QED BY <1>1, Invariance, PTL
=============================================================================
