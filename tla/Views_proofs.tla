---------------------------- MODULE Views_proofs ----------------------------
(***************************************************************************)
(* Proofs about one session and its phone view, for any number of requests *)
(* and of windows.                                                         *)
(***************************************************************************)
EXTENDS Views, TLAPS

---------------------------------------------------------------------------
(* The inductive invariant.                                                *)

Opening == {"killStale", "group", "attach", "live"}

\* The windows of an Open that is under way were seen, and are in no fresh set.
ListedInv(r) ==
    /\ listed[r] \in used \cup {None}
    /\ pc[r] \in Opening => listed[r] # None

\* Who owns a view, and what a client on it relies on.
OwnerInv(r) ==
    /\ owns[r] => pc[r] \in {"attach", "live", "endView"}
    /\ client[r] = "view" => owns[r]

\* The view an Open is about to attach to, if the session is still the one it
\* listed: whoever made that view made it from that session.
ShowsInv(r) ==
    pc[r] = "attach" /\ owns[r] /\ listed[r] = session /\ view # None => view = session

Inv ==
    /\ TypeOK
    /\ session \in used \cup {None}
    /\ \A r \in Request : ListedInv(r) /\ OwnerInv(r) /\ ShowsInv(r)
    /\ view # None /\ ~faulted => \E r \in Request : owns[r]
    /\ outlived => view # None /\ \A r \in Request : ~owns[r]

LEMMA InitInv == Init => Inv
BY DEF Init, Inv, TypeOK, Label, ListedInv, OwnerInv, ShowsInv, Opening

LEMMA NextInv == Inv /\ [Next]_vars => Inv'
<1> SUFFICES ASSUME Inv, [Next]_vars PROVE Inv'
  OBVIOUS
<1> USE WindowsAssumption
<1> USE DEF Inv, TypeOK, Label, ListedInv, OwnerInv, ShowsInv, Opening,
            tmux, history, EndView, Exit, Opened, Goto, Finish
<1>1. ASSUME NEW r \in Request, NEW o \in {"list", "open", "create", "kill"}, Begin(r, o)
      PROVE  Inv'
  BY <1>1 DEF Begin
<1>2. ASSUME NEW r \in Request, ListSessions(r) PROVE Inv'
  BY <1>2 DEF ListSessions
<1>3. ASSUME NEW r \in Request, Sweep(r) PROVE Inv'
  <2>1. TypeOK'
    <3>1. (client \in [Request -> {"none", "session", "view"}])'
      BY <1>3 DEF Sweep, AfterList
    <3>2. ASSUME NEW q \in Request PROVE (client[q] # "none" => pc[q] = "live")'
      BY <1>3 DEF Sweep, AfterList
    <3>3. (pc \in [Request -> Label] /\ listed \in [Request -> Windows \cup {None}])'
      BY <1>3 DEF Sweep, AfterList
    <3>4. (/\ op \in [Request -> {"none", "list", "open", "create", "verify", "kill"}]
           /\ owns \in [Request -> BOOLEAN])'
      BY <1>3 DEF Sweep, AfterList
    <3>6. (stray \in [Request -> BOOLEAN])'
      <4>1. stray' = stray \/ stray' = [stray EXCEPT ![r] = FALSE]
        BY <1>3 DEF Sweep, AfterList
      <4> QED BY <4>1
    <3>5. (/\ session \in Windows \cup {None} /\ view \in Windows \cup {None}
           /\ used \in SUBSET Windows /\ outlived \in BOOLEAN /\ faulted \in BOOLEAN)'
      BY <1>3 DEF Sweep, AfterList
    <3> QED BY <3>1, <3>2, <3>3, <3>4, <3>5, <3>6
  <2>2. ASSUME NEW q \in Request PROVE (ListedInv(q) /\ OwnerInv(q))'
    BY <1>3 DEF Sweep, AfterList
  <2>3. ASSUME NEW q \in Request PROVE ShowsInv(q)'
    BY <1>3 DEF Sweep, AfterList
  <2>4. (session \in used \cup {None})'
    BY <1>3 DEF Sweep, AfterList
  <2>5. (view # None /\ ~faulted => \E q \in Request : owns[q])'
    BY <1>3 DEF Sweep, AfterList
  <2>6. (outlived => view # None /\ \A q \in Request : ~owns[q])'
    BY <1>3 DEF Sweep, AfterList
  <2> QED BY <2>1, <2>2, <2>3, <2>4, <2>5, <2>6
<1>4. ASSUME NEW r \in Request, GiveUp(r) PROVE Inv'
  BY <1>4 DEF GiveUp
<1>5. ASSUME NEW r \in Request, KillStale(r) PROVE Inv'
  <2>1. TypeOK'
    <3>1. (client \in [Request -> {"none", "session", "view"}])'
      BY <1>5 DEF KillStale
    <3>2. ASSUME NEW q \in Request PROVE (client[q] # "none" => pc[q] = "live")'
      BY <1>5 DEF KillStale
    <3>3. (pc \in [Request -> Label] /\ listed \in [Request -> Windows \cup {None}])'
      BY <1>5 DEF KillStale
    <3>4. (/\ op \in [Request -> {"none", "list", "open", "create", "verify", "kill"}]
           /\ stray \in [Request -> BOOLEAN] /\ owns \in [Request -> BOOLEAN])'
      BY <1>5 DEF KillStale
    <3>5. (/\ session \in Windows \cup {None} /\ view \in Windows \cup {None}
           /\ used \in SUBSET Windows /\ outlived \in BOOLEAN /\ faulted \in BOOLEAN)'
      BY <1>5 DEF KillStale
    <3> QED BY <3>1, <3>2, <3>3, <3>4, <3>5
  <2>2. ASSUME NEW q \in Request PROVE (ListedInv(q) /\ OwnerInv(q))'
    BY <1>5 DEF KillStale
  <2>3. ASSUME NEW q \in Request PROVE ShowsInv(q)'
    BY <1>5 DEF KillStale
  <2>4. (session \in used \cup {None})'
    BY <1>5 DEF KillStale
  <2>5. (view # None /\ ~faulted => \E q \in Request : owns[q])'
    BY <1>5 DEF KillStale
  <2>6. (outlived => view # None /\ \A q \in Request : ~owns[q])'
    BY <1>5 DEF KillStale
  <2> QED BY <2>1, <2>2, <2>3, <2>4, <2>5, <2>6
<1>6. ASSUME NEW r \in Request, Group(r) PROVE Inv'
  <2>1. TypeOK'
    <3>1. (client \in [Request -> {"none", "session", "view"}])'
      BY <1>6 DEF Group
    <3>2. ASSUME NEW q \in Request PROVE (client[q] # "none" => pc[q] = "live")'
      BY <1>6 DEF Group
    <3>3. (pc \in [Request -> Label] /\ listed \in [Request -> Windows \cup {None}])'
      BY <1>6 DEF Group
    <3>4. (/\ op \in [Request -> {"none", "list", "open", "create", "verify", "kill"}]
           /\ stray \in [Request -> BOOLEAN] /\ owns \in [Request -> BOOLEAN])'
      BY <1>6 DEF Group
    <3>5. (/\ session \in Windows \cup {None} /\ view \in Windows \cup {None}
           /\ used \in SUBSET Windows /\ outlived \in BOOLEAN /\ faulted \in BOOLEAN)'
      BY <1>6 DEF Group
    <3> QED BY <3>1, <3>2, <3>3, <3>4, <3>5
  <2>2. ASSUME NEW q \in Request PROVE (ListedInv(q) /\ OwnerInv(q))'
    BY <1>6 DEF Group
  <2>3. ASSUME NEW q \in Request PROVE ShowsInv(q)'
    BY <1>6 DEF Group
  <2>4. (session \in used \cup {None})'
    BY <1>6 DEF Group
  <2>5. (view # None /\ ~faulted => \E q \in Request : owns[q])'
    BY <1>6 DEF Group
  <2>6. (outlived => view # None /\ \A q \in Request : ~owns[q])'
    BY <1>6 DEF Group
  <2> QED BY <2>1, <2>2, <2>3, <2>4, <2>5, <2>6
<1>7. ASSUME NEW r \in Request, AttachSession(r) PROVE Inv'
  BY <1>7 DEF AttachSession, Target
<1>8. ASSUME NEW r \in Request, StartFails(r) PROVE Inv'
  BY <1>8 DEF StartFails
<1>9. ASSUME NEW r \in Request, Detach(r) PROVE Inv'
  <2>1. TypeOK'
    <3>1. (client \in [Request -> {"none", "session", "view"}])'
      BY <1>9 DEF Detach
    <3>2. ASSUME NEW q \in Request PROVE (client[q] # "none" => pc[q] = "live")'
      BY <1>9 DEF Detach
    <3>3. (pc \in [Request -> Label] /\ listed \in [Request -> Windows \cup {None}])'
      BY <1>9 DEF Detach
    <3>4. (/\ op \in [Request -> {"none", "list", "open", "create", "verify", "kill"}]
           /\ owns \in [Request -> BOOLEAN])'
      BY <1>9 DEF Detach
    <3>6. (stray \in [Request -> BOOLEAN])'
      <4>1. stray' = stray \/ stray' = [stray EXCEPT ![r] = FALSE]
        BY <1>9 DEF Detach
      <4> QED BY <4>1
    <3>5. (/\ session \in Windows \cup {None} /\ view \in Windows \cup {None}
           /\ used \in SUBSET Windows /\ outlived \in BOOLEAN /\ faulted \in BOOLEAN)'
      BY <1>9 DEF Detach
    <3> QED BY <3>1, <3>2, <3>3, <3>4, <3>5, <3>6
  <2>2. ASSUME NEW q \in Request PROVE (ListedInv(q) /\ OwnerInv(q))'
    BY <1>9 DEF Detach
  <2>3. ASSUME NEW q \in Request PROVE ShowsInv(q)'
    BY <1>9 DEF Detach
  <2>4. (session \in used \cup {None})'
    BY <1>9 DEF Detach
  <2>5. (view # None /\ ~faulted => \E q \in Request : owns[q])'
    BY <1>9 DEF Detach
  <2>6. (outlived => view # None /\ \A q \in Request : ~owns[q])'
    BY <1>9 DEF Detach
  <2> QED BY <2>1, <2>2, <2>3, <2>4, <2>5, <2>6
<1>10. ASSUME NEW r \in Request, CloseView(r) PROVE Inv'
  BY <1>10 DEF CloseView
<1>11. ASSUME NEW r \in Request, NewSession(r) PROVE Inv'
  <2>1. TypeOK'
    BY <1>11 DEF NewSession
  <2>2. ASSUME NEW q \in Request PROVE (ListedInv(q) /\ OwnerInv(q))'
    BY <1>11 DEF NewSession
  <2>3. ASSUME NEW q \in Request PROVE ShowsInv(q)'
    BY <1>11 DEF NewSession
  <2>4. (session \in used \cup {None})'
    BY <1>11 DEF NewSession
  <2>5. (view # None /\ ~faulted => \E q \in Request : owns[q])'
    BY <1>11 DEF NewSession
  <2>6. (outlived => view # None /\ \A q \in Request : ~owns[q])'
    BY <1>11 DEF NewSession
  <2> QED BY <2>1, <2>2, <2>3, <2>4, <2>5, <2>6
<1>12. ASSUME NEW r \in Request, KillView(r) PROVE Inv'
  BY <1>12 DEF KillView
<1>13. ASSUME NEW r \in Request, KillSession(r) PROVE Inv'
  BY <1>13 DEF KillSession
<1>14. CASE DesktopOpens
  BY <1>14 DEF DesktopOpens
<1>15. CASE DesktopKills
  BY <1>15 DEF DesktopKills
<1>16. ASSUME NEW w \in Windows, WindowsClose(w) PROVE Inv'
  BY <1>16 DEF WindowsClose
<1>17. CASE DaemonDies
  BY <1>17 DEF DaemonDies
<1>18. CASE UNCHANGED vars
  BY <1>18 DEF vars
<1> QED
  BY <1>1, <1>2, <1>3, <1>4, <1>5, <1>6, <1>7, <1>8, <1>9, <1>10, <1>11, <1>12,
     <1>13, <1>14, <1>15, <1>16, <1>17, <1>18 DEF Next, Step

\* The invariant, on which the rest depends.
THEOREM Invariance == Spec => []Inv
BY InitInv, NextInv, PTL DEF Spec

\* Every tmux client belongs to an attach that will end it (Close), beside the
\* types.
THEOREM ClientsAreOwned == Spec => []TypeOK
<1>1. Inv => TypeOK
  BY DEF Inv
<1> QED BY Invariance, <1>1, PTL

\* No view is left behind by requests that ended without a fault (Close, Sweep).
THEOREM ViewsAreRemoved == Spec => []NoViewLeft
<1>1. Inv => NoViewLeft
  BY DEF Inv, OwnerInv, NoViewLeft
<1> QED BY Invariance, <1>1, PTL

\* No phone is shown the view of a daemon that is gone (createView).
THEOREM NoStaleView == Spec => []StaleNeverShown
<1>1. Inv => StaleNeverShown
  BY DEF Inv, OwnerInv, StaleNeverShown, Attached
<1> QED BY Invariance, <1>1, PTL

\* A view shows the windows of the session that Open was asked for (createView).
THEOREM ViewShowsSession == Spec => ShowsSession
<1> DEFINE Shown == \A r \in Request :
                       client[r] = "none" /\ client'[r] = "view" /\ listed[r] = session
                          => view = session
<1>1. Inv /\ [Next]_vars => [Shown]_vars
  <2> SUFFICES ASSUME Inv, Next,
                      NEW r \in Request, client[r] = "none", client'[r] = "view",
                      listed[r] = session
               PROVE  view = session
    OBVIOUS
  <2>1. AttachSession(r)
    <3>1. ASSUME NEW q \in Request, Step(q), ~AttachSession(q) PROVE FALSE
      BY <3>1 DEF Step, ListSessions, Sweep, GiveUp, KillStale, Group, StartFails, Detach,
                  CloseView, NewSession, KillView, KillSession, EndView, Exit, Inv, TypeOK
    <3>2. ASSUME NEW q \in Request, AttachSession(q) PROVE q = r
      BY <3>2 DEF AttachSession, Inv, TypeOK
    <3> QED
      BY <3>1, <3>2 DEF Next, Begin, DesktopOpens, DesktopKills, WindowsClose, DaemonDies,
                        Exit, Inv, TypeOK
  <2> QED BY <2>1 DEF AttachSession, Target, Inv, ShowsInv, TypeOK
<1> QED BY Invariance, <1>1, PTL DEF Spec, ShowsSession
=============================================================================
