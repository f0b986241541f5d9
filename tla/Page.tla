-------------------------------- MODULE Page --------------------------------
(***************************************************************************)
(* The browser's page beside its connection (webui/assets/app.js): the     *)
(* pairing code in the address, who this device is, the list of sessions,  *)
(* the form that makes one, and what start does when the page is loaded.   *)
(* What happens on the terminal is in Client; here it is one view.         *)
(*                                                                         *)
(* Every await is a place where other tasks run: a request is asked,       *)
(* answered by the daemon as things are then, and lands on the page later. *)
(* Landing and what the caller of the async function does next are one     *)
(* task.  Nothing in the code keeps two loads of the list apart.           *)
(*                                                                         *)
(* A name that Client has too begins with Page.                            *)
(***************************************************************************)
EXTENDS Browser, Naturals

CONSTANT Load  \* bound: loads of the list that can be under way at a time

VARIABLES
    \* The desktop:
    known,        \* the daemon knows this browser; otherwise it answers 403
    exists,       \* the sessions there are
    \* The browser, besides what Browser has of it:
    url,          \* the address carries the code that was scanned last
    \* The page:
    start,        \* where start is; it "threw" or is "over" in the end
    status,       \* what listStatus says, "" if nothing
    rows,         \* of each session: its rows in the list
    knownSessions,
    unpaired,
    \* Its requests: "idle", "asked", or an answer that has not landed yet.
    pairing,      \* POST /api/pair
    asking,       \* GET /api/me, by start
    cut,          \* GET /api/me, by the close of a socket, is under way
    creating,     \* the session POST /api/sessions is under way for, or None
    loads,        \* GET /api/sessions, of each load: what comes then, the answer
    \* History, for the properties:
    posts,        \* how often the code scanned last was posted
    paired,       \* start's code was accepted, the right not lost since, and start has
                  \* yet to learn who this device is
    overlapped    \* a load began while one was under way, and none alone since

desktop == <<known, exists>>
screen == <<defined, view>>
list == <<status, rows, knownSessions>>
history == <<posts, paired>>
pageVars ==
    <<desktop, url, remembered, screen, start, list, unpaired, pairing, asking, cut, creating, loads,
      history, overlapped>>

NoRows == [s \in Session |-> 0]
Idle == [then |-> "idle", name |-> None, reply |-> "asked", names |-> {}]
UnderWay == {l \in Load : loads[l].then # "idle"}

---------------------------------------------------------------------------
(* start and what it calls.                                                *)

\* Faulty variant, for CodePostedOnce: the code leaves the address with the answer.
StripLate(code) == url' = code

\* redeemPairingCode takes the code from the address before it posts it.
Strip(code) == url' = FALSE

\* Faulty variant, for PairedIsKnown: start does not await the pairing.
BeginAtOnce(code) ==
    /\ pairing' = (IF code THEN "asked" ELSE "idle")
    /\ start' = "me" /\ asking' = "asked"

\* start up to its first await.
Begin(code) ==
    /\ pairing' = (IF code THEN "asked" ELSE "idle")
    /\ start' = (IF code THEN "redeem" ELSE "me")
    /\ asking' = (IF code THEN "idle" ELSE "asked")

\* The script runs on a page with or without a code, and with what the browser remembers.
Opened(code) ==
    /\ view' = "list" /\ status' = "" /\ rows' = NoRows /\ knownSessions' = {}
    /\ unpaired' = FALSE
    /\ cut' = FALSE /\ creating' = None /\ loads' = [l \in Load |-> Idle]
    /\ Strip(code) /\ Begin(code)
    /\ paired' = FALSE /\ overlapped' = FALSE
    /\ UNCHANGED <<desktop, remembered, defined>>

PageInit ==
    /\ known \in BOOLEAN /\ exists \in SUBSET Session
    /\ url = FALSE /\ remembered \in Session \cup {None}
    /\ defined \in Defined /\ view = "list"
    /\ start = "me" /\ asking = "asked" /\ pairing = "idle"
    /\ status = "" /\ rows = NoRows /\ knownSessions = {}
    /\ unpaired = FALSE
    /\ cut = FALSE /\ creating = None /\ loads = [l \in Load |-> Idle]
    /\ posts = 0 /\ paired = FALSE /\ overlapped = FALSE

\* The QR of a new code is scanned.
Scan == Opened(TRUE) /\ posts' = 1

\* The page is loaded again from its address; a code there is posted again.
PageReload == Opened(url) /\ posts' = IF url THEN posts + 1 ELSE posts

\* loadSessions up to its await, for somebody who goes on afterwards.
BeginLoad(then, name) ==
    \E l \in Load \ UnderWay :
        /\ status' = "loading" /\ rows' = NoRows
        /\ loads' = [loads EXCEPT ![l] = [then |-> then, name |-> name, reply |-> "asked", names |-> {}]]
        /\ overlapped' = (UnderWay # {})
        /\ UNCHANGED knownSessions

PairLands ==
    /\ pairing \in {"ok", "refused"}
    /\ pairing' = "idle" /\ start' = "me" /\ asking' = "asked"
    /\ status' = IF pairing = "refused" THEN "pairing failed" ELSE status
    /\ UNCHANGED <<desktop, url, remembered, screen, rows, knownSessions, unpaired, cut, creating, loads,
                   history, overlapped>>

\* loadMe, of start, leaves u in unpaired.  renderCapability then reads the name of a device
\* there is none of: it throws, and so does start; otherwise start goes on to the list.
KnowAndList(u) ==
    /\ unpaired' = u
    /\ IF u THEN start' = "threw" /\ UNCHANGED <<list, loads, overlapped>>
       ELSE start' = "list" /\ BeginLoad("start", None)

\* An answer may still be lost, and leave things as they were, or be another error.
MeLands ==
    /\ \/ asking = "known" /\ KnowAndList(FALSE)
       \/ asking = "forbidden" /\ KnowAndList(TRUE)
       \/ asking # "idle" /\ \E u \in {unpaired, FALSE} : KnowAndList(u)
    /\ asking' = "idle" /\ paired' = FALSE
    /\ UNCHANGED <<desktop, url, remembered, screen, pairing, cut, creating, posts>>

---------------------------------------------------------------------------
(* The list.                                                               *)

PageAttach(name) == view' = "term" /\ remembered' = name

\* Faulty variant, for ListAgrees: no sessions is an answer like any other.
ShowSessionsEmpty(names) ==
    /\ status' = "" /\ knownSessions' = names
    /\ rows' = [s \in Session |-> IF s \in names THEN rows[s] + 1 ELSE rows[s]]

\* Faulty variant, for ResumesListed: what was known before stays known.
ShowSessionsKnown(names) ==
    /\ status' = (IF names = {} THEN "no sessions" ELSE "")
    /\ knownSessions' = knownSessions \cup names
    /\ rows' = [s \in Session |-> IF s \in names THEN rows[s] + 1 ELSE rows[s]]

\* The rows are added to those that are there.
ShowSessions(names) ==
    /\ status' = (IF names = {} THEN "no sessions" ELSE "")
    /\ knownSessions' = names
    /\ rows' = [s \in Session |-> IF s \in names THEN rows[s] + 1 ELSE rows[s]]

ShowUnpaired == knownSessions' = {} /\ rows' = NoRows /\ status' = "unpaired"

\* What follows the load: start resumes the session that was open, if it is known now,
\* and the form goes to the one it has made.
GoOn(then, name) ==
    \/ /\ then = "start" /\ start' = "over"
       /\ IF remembered \in knownSessions' THEN PageAttach(remembered) ELSE UNCHANGED <<view, remembered>>
    \/ then = "attach" /\ PageAttach(name) /\ UNCHANGED start
    \/ then = "nothing" /\ UNCHANGED <<start, view, remembered>>

LoadFails == status' = "unreachable" /\ UNCHANGED <<rows, knownSessions>>

\* The answer may still be lost.
LoadLands(l) ==
    /\ l \in UnderWay
    /\ \/ loads[l].reply = "listed" /\ ShowSessions(loads[l].names)
       \/ loads[l].reply = "forbidden" /\ ShowUnpaired
       \/ LoadFails
    /\ GoOn(loads[l].then, loads[l].name)
    /\ loads' = [loads EXCEPT ![l] = Idle]
    /\ UNCHANGED <<desktop, url, defined, unpaired, pairing, asking, cut, creating, history, overlapped>>

Refresh ==
    /\ view = "list"
    /\ BeginLoad("nothing", None)
    /\ UNCHANGED <<desktop, url, remembered, screen, start, unpaired, pairing, asking, cut, creating, history>>

\* A row is tapped.
Tap(name) ==
    /\ view = "list" /\ rows[name] > 0
    /\ PageAttach(name)
    /\ UNCHANGED <<desktop, url, defined, start, list, unpaired, pairing, asking, cut, creating, loads,
                   history, overlapped>>

\* detach, from the terminal: it gets back to the list only where onResize is defined.
PageDetach ==
    /\ view = "term"
    /\ remembered' = None
    /\ IF defined THEN view' = "list" /\ BeginLoad("nothing", None)
       ELSE UNCHANGED <<view, list, loads, overlapped>>
    /\ UNCHANGED <<desktop, url, defined, start, unpaired, pairing, asking, cut, creating, history>>

\* onclose of a socket that the daemon closed with 1008 asks again who this is.
CutOff ==
    /\ view = "term" /\ ~cut
    /\ cut' = TRUE
    /\ UNCHANGED <<desktop, url, remembered, screen, start, list, unpaired, pairing, asking, creating, loads,
                   history, overlapped>>

\* Its answer may be older than what the page knows by now.
CutLands ==
    /\ cut /\ cut' = FALSE
    /\ unpaired' \in BOOLEAN
    /\ UNCHANGED <<desktop, url, remembered, screen, start, list, pairing, asking, creating, loads,
                   history, overlapped>>

\* The form, which may have been open since the page knew less.  Its request is refused,
\* or makes the session, and then the answer may be lost.
Submit(name) ==
    /\ view = "list" /\ creating = None
    /\ creating' = name
    /\ UNCHANGED <<desktop, url, remembered, screen, start, list, unpaired, pairing, asking, cut, loads,
                   history, overlapped>>

PageCreated ==
    /\ creating # None /\ creating' = None
    /\ \/ /\ known /\ creating \notin exists
          /\ exists' = exists \cup {creating}
          /\ \/ BeginLoad("attach", creating)
             \/ UNCHANGED <<list, loads, overlapped>>
       \/ UNCHANGED <<exists, list, loads, overlapped>>
    /\ UNCHANGED <<known, url, remembered, screen, start, unpaired, pairing, asking, cut, history>>

---------------------------------------------------------------------------
(* The daemon answers, or the request is lost on its way there or back.    *)

\* A code is good or it is not; one that was accepted may have its answer lost.
PairAnswered ==
    /\ pairing = "asked"
    /\ \/ pairing' = "ok" /\ paired' = TRUE /\ known' = TRUE
       \/ pairing' = "refused" /\ known' \in {known, TRUE} /\ UNCHANGED paired
    /\ UNCHANGED <<exists, url, remembered, screen, start, list, unpaired, asking, cut, creating, loads,
                   posts, overlapped>>

MeAnswered ==
    /\ asking = "asked"
    /\ asking' = IF known THEN "known" ELSE "forbidden"
    /\ UNCHANGED <<desktop, url, remembered, screen, start, list, unpaired, pairing, cut, creating, loads,
                   history, overlapped>>

LoadAnswered(l) ==
    /\ l \in UnderWay /\ loads[l].reply = "asked"
    /\ loads' = IF known THEN [loads EXCEPT ![l].reply = "listed", ![l].names = exists]
                ELSE [loads EXCEPT ![l].reply = "forbidden"]
    /\ UNCHANGED <<desktop, url, remembered, screen, start, list, unpaired, pairing, asking, cut, creating,
                   history, overlapped>>

\* Sessions come and go, and so does what this browser may do.
DesktopActs ==
    /\ \/ exists' \in SUBSET Session /\ UNCHANGED <<known, paired>>
       \/ known' \in BOOLEAN /\ paired' = (paired /\ known') /\ UNCHANGED exists
    /\ UNCHANGED <<url, remembered, screen, start, list, unpaired, pairing, asking, cut, creating, loads,
                   posts, overlapped>>

---------------------------------------------------------------------------
PageNext ==
    \/ Scan \/ PageReload \/ PairAnswered \/ PairLands \/ MeAnswered \/ MeLands
    \/ \E l \in Load : LoadAnswered(l) \/ LoadLands(l)
    \/ Refresh \/ PageDetach \/ CutOff \/ CutLands \/ PageCreated
    \/ \E name \in Session : Tap(name) \/ Submit(name)
    \/ DesktopActs

PageSpec == PageInit /\ [][PageNext]_pageVars

---------------------------------------------------------------------------
\* Types; beside them, that start is waiting for just what it has asked for.
PageTypeOK ==
    /\ known \in BOOLEAN /\ exists \subseteq Session
    /\ url \in BOOLEAN /\ remembered \in Session \cup {None}
    /\ defined \in BOOLEAN /\ view \in {"list", "term"}
    /\ status \in {"", "pairing failed", "loading", "unpaired", "unreachable", "no sessions"}
    /\ rows \in [Session -> Nat] /\ knownSessions \subseteq Session
    /\ unpaired \in BOOLEAN
    /\ pairing \in {"idle", "asked", "ok", "refused"}
    /\ asking \in {"idle", "asked", "forbidden", "known"}
    /\ cut \in BOOLEAN /\ creating \in Session \cup {None}
    /\ loads \in [Load -> [then : {"idle", "start", "nothing", "attach"}, name : Session \cup {None},
                           reply : {"asked", "listed", "forbidden"}, names : SUBSET Session]]
    /\ paired \in BOOLEAN /\ overlapped \in BOOLEAN /\ posts \in Nat
    /\ start \in {"redeem", "me", "list", "threw", "over"}
    /\ start = "redeem" <=> pairing # "idle"
    /\ start = "me" <=> asking # "idle"
    /\ start = "list" <=> \E l \in Load : loads[l].then = "start"

\* The rows, what is said of them and what is known are of one answer, and a page whose
\* start went through is not blank (loadSessions, showUnpaired): unless two loads overlap,
\* each of which appends to what it finds.
ListAgrees ==
    /\ PageTypeOK
    /\ ~overlapped =>
        /\ \A s \in Session : rows[s] = 0 \/ (rows[s] = 1 /\ s \in knownSessions)
        /\ status = "" => \A s \in knownSessions : rows[s] = 1
        /\ status \notin {"", "pairing failed"} => rows = NoRows
        /\ start = "over" /\ rows = NoRows => status # ""

\* "Survives in history and in whatever the browser syncs" (redeemPairingCode): however
\* often the page is loaded, a code that was scanned once is posted once.
CodePostedOnce == posts <= 1

\* A page that has paired knows it: who this device is is asked after the code was
\* redeemed ("before anything else"), so it is not told that it is not paired.
PairedIsKnown ==
    [][start = "me" /\ start' \in {"list", "threw"} /\ paired /\ ~unpaired => ~unpaired']_pageVars

\* "Resume the session that was open, but only if it is still there" (start): it is
\* never one that start's own list did not have, although other loads may have said
\* otherwise; only where that load failed can it be one of an earlier list.
ResumesListed ==
    [][\A l \in Load :
           start = "list" /\ start' = "over" /\ view' # view /\ loads[l].then = "start" /\ status' # "unreachable"
             => loads[l].reply = "listed" /\ remembered \in loads[l].names]_pageVars

\* "A 403 here is the ordinary state of an unpaired device on the LAN tier, not a fault"
\* (loadSessions): a page whose start has ended shows sessions or says why not.
NeverBlank == start \in {"over", "threw"} /\ view = "list" /\ rows = NoRows => status # ""
=============================================================================
