------------------------------- MODULE Pairing -------------------------------
(***************************************************************************)
(* pairing.Store: the one pending code in pairing.json, created by the CLI *)
(* and redeemed by request handlers of the daemon that run side by side    *)
(* (src/internal/pairing/pairing.go).  Each file access is under the lock, *)
(* but Redeem locks once to load the file and once more to clear or save   *)
(* it, and what happens in between is what this module is about.           *)
(***************************************************************************)
EXTENDS Naturals

CONSTANTS Code,         \* codes Create draws, each of them once
          Redeemer,     \* handlers that may be in Redeem at the same time
          MaxAttempts,  \* maxAttempts
          Calls,        \* bound: calls of Redeem in a behaviour
          Absent,       \* no pairing.json
          Torn          \* one that is cut short, which is no JSON

Pending == [code : Code, attempts : 0 .. MaxAttempts - 1]

ASSUME BoundAssumption == MaxAttempts \in Nat \ {0} /\ Calls \in Nat
ASSUME FileAssumption ==
    Absent \notin Pending /\ Torn \notin Pending /\ Absent \notin Code

VARIABLES
    file,     \* pairing.json
    expired,  \* the codes whose Expires has passed
    pc,       \* of each redeemer: the next step of Redeem
    loaded,   \* of each redeemer: what load returned
    guess,    \* of each redeemer: the code it was called with
    verdict,  \* of each redeemer: what Redeem will return
    calls,    \* calls of Redeem so far
    \* History, for the properties:
    created,     \* codes drawn so far
    latest,      \* the last of them
    wins,        \* of each code: redemptions that returned success
    guesses,     \* of each code: wrong codes refused while it was pending
    overlapped,  \* codes that two redemptions have held at once
    faulted,     \* codes whose clear or save once failed
    raced        \* a code has been created during a redemption

redeemers == <<pc, loaded, guess, verdict>>
history == <<created, latest, wins, guesses, overlapped, faulted, raced>>
vars == <<file, expired, redeemers, calls, history>>

\* The codes a wrong caller may present: an older one, or none there ever was.
Guess == created \cup {Absent}

\* A redemption of c is under way.
Holds(r, c) == pc[r] # "idle" /\ loaded[r] \in Pending /\ loaded[r].code = c

Init ==
    /\ file = Absent
    /\ expired = {}
    /\ pc = [r \in Redeemer |-> "idle"]
    /\ loaded = [r \in Redeemer |-> Absent]
    /\ guess = [r \in Redeemer |-> Absent]
    /\ verdict = [r \in Redeemer |-> "none"]
    /\ calls = 0
    /\ created = {}
    /\ latest = Absent
    /\ wins = [c \in Code |-> 0]
    /\ guesses = [c \in Code |-> 0]
    /\ overlapped = {}
    /\ faulted = {}
    /\ raced = FALSE

\* Faulty variant, for NewestWins: a code that is still pending is kept.
CreateIfNone(c) ==
    /\ c \notin created
    /\ file' \in IF file \in Pending THEN {file} ELSE {[code |-> c, attempts |-> 0], Torn}
    /\ created' = created \cup {c}
    /\ latest' = c
    /\ raced' = (raced \/ \E r \in Redeemer : pc[r] # "idle")
    /\ UNCHANGED <<expired, redeemers, calls, wins, guesses, overlapped, faulted>>

\* Create replaces whatever is pending.  os.WriteFile truncates first, so that a
\* death or an error on the way leaves the file cut short.
Create(c) ==
    /\ c \notin created
    /\ file' \in {[code |-> c, attempts |-> 0], Torn}
    /\ created' = created \cup {c}
    /\ latest' = c
    /\ raced' = (raced \/ \E r \in Redeemer : pc[r] # "idle")
    /\ UNCHANGED <<expired, redeemers, calls, wins, guesses, overlapped, faulted>>

Expire(c) ==
    /\ c \in created \ expired
    /\ expired' = expired \cup {c}
    /\ UNCHANGED <<file, redeemers, calls, history>>

\* Redeem begins with load, under the lock and alone there.  (A load that fails
\* is a refusal that changes nothing.)
Load(r, g) ==
    /\ pc[r] = "idle"
    /\ calls < Calls
    /\ calls' = calls + 1
    /\ pc' = [pc EXCEPT ![r] = "decide"]
    /\ loaded' = [loaded EXCEPT ![r] = file]
    /\ guess' = [guess EXCEPT ![r] = g]
    /\ overlapped' = overlapped \cup
          {c \in Code : file \in Pending /\ file.code = c /\ \E q \in Redeemer : Holds(q, c)}
    /\ UNCHANGED <<file, expired, verdict, created, latest, wins, guesses, faulted, raced>>

\* Faulty variant, for SingleUseAlone: the code survives a correct guess.
DecisionKeepsCode(p, g) ==
    IF p \notin Pending THEN [step |-> "return", verdict |-> "refused"]
    ELSE IF p.code \in expired THEN [step |-> "clear", verdict |-> "refused"]
    ELSE IF p.code = g THEN [step |-> "return", verdict |-> "paired"]
    ELSE IF p.attempts + 1 >= MaxAttempts THEN [step |-> "clear", verdict |-> "refused"]
    ELSE [step |-> "save", verdict |-> "refused"]

\* What Redeem does next and what it will return, decided without the lock.
Decision(p, g) ==
    IF p \notin Pending THEN [step |-> "return", verdict |-> "refused"]
    ELSE IF p.code \in expired THEN [step |-> "clear", verdict |-> "refused"]
    ELSE IF p.code = g THEN [step |-> "clear", verdict |-> "paired"]
    ELSE IF p.attempts + 1 >= MaxAttempts THEN [step |-> "clear", verdict |-> "refused"]
    ELSE [step |-> "save", verdict |-> "refused"]

Decide(r) ==
    /\ pc[r] = "decide"
    /\ pc' = [pc EXCEPT ![r] = Decision(loaded[r], guess[r]).step]
    /\ verdict' = [verdict EXCEPT ![r] = Decision(loaded[r], guess[r]).verdict]
    /\ guesses' =
          [c \in Code |-> IF Holds(r, c) /\ c \notin expired /\ guess[r] # c
                          THEN guesses[c] + 1 ELSE guesses[c]]
    /\ UNCHANGED <<file, expired, loaded, guess, calls,
                   created, latest, wins, overlapped, faulted, raced>>

\* clear and save take the lock again, and Redeem ignores what they return.
Clear(r) ==
    /\ pc[r] = "clear"
    /\ pc' = [pc EXCEPT ![r] = "return"]
    /\ \/ file' = Absent /\ UNCHANGED faulted
       \/ UNCHANGED file /\ faulted' = faulted \cup {loaded[r].code}
    /\ UNCHANGED <<expired, loaded, guess, verdict, calls,
                   created, latest, wins, guesses, overlapped, raced>>

\* Faulty variant, for AttemptsCounted: the attempt is counted on a copy.
SaveUncounted(r) ==
    /\ pc[r] = "save"
    /\ pc' = [pc EXCEPT ![r] = "return"]
    /\ \/ file' = loaded[r] /\ UNCHANGED faulted
       \/ file' \in {file, Torn} /\ faulted' = faulted \cup {loaded[r].code}
    /\ UNCHANGED <<expired, loaded, guess, verdict, calls,
                   created, latest, wins, guesses, overlapped, raced>>

Save(r) ==
    /\ pc[r] = "save"
    /\ pc' = [pc EXCEPT ![r] = "return"]
    /\ \/ file' = [loaded[r] EXCEPT !.attempts = @ + 1] /\ UNCHANGED faulted
       \/ file' \in {file, Torn} /\ faulted' = faulted \cup {loaded[r].code}
    /\ UNCHANGED <<expired, loaded, guess, verdict, calls,
                   created, latest, wins, guesses, overlapped, raced>>

Return(r) ==
    /\ pc[r] = "return"
    /\ pc' = [pc EXCEPT ![r] = "idle"]
    /\ wins' = [c \in Code |-> IF Holds(r, c) /\ verdict[r] = "paired"
                               THEN wins[c] + 1 ELSE wins[c]]
    /\ loaded' = [loaded EXCEPT ![r] = Absent]
    /\ guess' = [guess EXCEPT ![r] = Absent]
    /\ verdict' = [verdict EXCEPT ![r] = "none"]
    /\ UNCHANGED <<file, expired, calls, created, latest, guesses, overlapped, faulted, raced>>

\* The daemon dies with every redemption in it.  One that had decided has not
\* cleared or saved its code: for the file that is a fault like any other.
Crash ==
    /\ \E r \in Redeemer : pc[r] # "idle"
    /\ pc' = [r \in Redeemer |-> "idle"]
    /\ loaded' = [r \in Redeemer |-> Absent]
    /\ guess' = [r \in Redeemer |-> Absent]
    /\ verdict' = [r \in Redeemer |-> "none"]
    /\ faulted' = faulted \cup
          {c \in Code : \E r \in Redeemer : Holds(r, c) /\ pc[r] \in {"clear", "save"}}
    /\ UNCHANGED <<file, expired, calls,
                   created, latest, wins, guesses, overlapped, raced>>

Next ==
    \/ \E c \in Code : Create(c) \/ Expire(c)
    \/ \E r \in Redeemer :
        \/ \E g \in Guess : Load(r, g)
        \/ Decide(r) \/ Clear(r) \/ Save(r) \/ Return(r)
    \/ Crash

Spec == Init /\ [][Next]_vars

---------------------------------------------------------------------------
TypeOK ==
    /\ file \in Pending \cup {Absent, Torn}
    /\ expired \in SUBSET created
    /\ pc \in [Redeemer -> {"idle", "decide", "clear", "save", "return"}]
    /\ loaded \in [Redeemer -> Pending \cup {Absent, Torn}]
    /\ guess \in [Redeemer -> Code \cup {Absent}]
    /\ verdict \in [Redeemer -> {"none", "paired", "refused"}]
    /\ calls \in 0 .. Calls
    /\ created \in SUBSET Code
    /\ latest \in Code \cup {Absent}
    /\ wins \in [Code -> Nat]
    /\ guesses \in [Code -> Nat]
    /\ overlapped \in SUBSET Code
    /\ faulted \in SUBSET Code
    /\ raced \in BOOLEAN

\* The codes whose redemptions came one after the other and met no I/O error.
Lone(c) == c \notin overlapped \cup faulted

\* "A code that survived a correct guess would pair twice" (Redeem): it does
\* not, as long as redemptions of it do not overlap and its file can be written,
\* whatever the CLI does meanwhile.
SingleUseAlone == \A c \in Code : Lone(c) => wins[c] <= 1

\* As the comment on Redeem has it, with nothing said of overlaps.
SingleUse == \A c \in Code : faulted = {} => wins[c] <= 1

\* maxAttempts wrong codes are all a pending pairing is worth: not one refusal
\* goes uncounted, unless redemptions overlap or a save fails; and a code in the
\* file always has an attempt left (TypeOK).
AttemptsCounted ==
    TypeOK /\ \A c \in Code : Lone(c) => guesses[c] <= MaxAttempts

\* "One at a time": creating a code takes the earlier ones out of use, unless a
\* redemption is under way that may still put its own back.
NewestWins ==
    \A r \in Redeemer :
        verdict[r] = "paired" /\ pc[r] = "return" /\ ~raced => loaded[r].code = latest
==============================================================================
