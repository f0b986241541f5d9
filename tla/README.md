# A TLA+ model of omarchy-connect

omarchy-connect lets a phone attach to tmux sessions on a desktop. A Go daemon
listens on the tailnet (HTTPS, callers vouched for by Tailscale) and, if the user
turns it on, on the LAN (HTTP, callers known by a token). A CLI and a panel plugin
manage devices through the same files the daemon uses. A shell is what is at
stake, so the questions here are: who gets one, with which rights, for how long
after losing them, and what survives crashes and callers that run side by side.

This directory holds TLA+ modules translated from the source, TLC configurations
that check them on small instances, and proofs checked by TLAPS. `PROJECT.json`
names, for every definition, the lines of source it stands for.

## 1. The system

| Part | State | Operations | Talks to |
| --- | --- | --- | --- |
| **Device store** `internal/device` | `devices.json`, its lock file, temp files | Get, List, FindByNode, FindByToken, RegisterTailnet, CreatePaired, SetCapability, Rename, Touch, Revoke, Unblock | Daemon and CLI, which share the file |
| **Pairing store** `internal/pairing` | `pairing.json`: one code, its expiry, its wrong attempts | Create, Redeem, Peek | CLI creates, daemon redeems |
| **Identification, pairing** `server/identity.go`, `lan.go`, `pair.go` | the row a request was identified by, in its context; the cookie of the browser | resolve, identifyLAN, requireWrite, handlePair | Device store, pairing store, WhoIs |
| **Admission policy** `internal/auth` | none | AdmitTailnet | called by resolve |
| **Attach** `server/sessions.go`, `session/attach.go` | a websocket, a PTY, a tmux child, four goroutines, one context | open, pumpInput, pumpOutput, watchCapability, keepalive, Close | Device store, tmux, client |
| **Sessions and views** `session/tmux.go` | tmux's sessions; one view per session, by name | List (and sweep), Create, Kill, createView, Close | tmux |
| **Browser client, connection** `webui/assets/app.js` | socket, retry counter and timer, detached flag, remembered session | attach, connect, onclose, scheduleReconnect, reconnectNow, detach | daemon, by websocket |
| **Browser client, page** `webui/assets/app.js` | the code in the address, who this device is, the list | start, redeemPairingCode, loadMe, loadSessions, the form | daemon, by HTTP |
| **Daemon** `server/server.go`, `cmd/`, `config` | listeners, `config.json`, the systemd unit | Run, shutdown, lan on/off | all of the above |
| **CLI** `cmd/omarchy-connect` | none | devices ..., pair, lan, status | the three files |
| **Panel** `plugin/` | the rows and codes on the screen, one running process of each kind | refresh, a command on a row, startPairing, clearPairing | CLI |
| **Transport**, **QR**, **assets**, **log** | none that others read | probing, drawing, serving | network, Tailscale |

What interacts, and is hard to test:

* *Shared files.* The daemon writes `devices.json` on every touch and the CLI at
  any time. Only a lock on a second file, a temp file and a rename keep one from
  undoing the other, and a request acts on a copy of a row it read earlier.
* *Two locks where one was meant.* `pairing.Store` locks each access, but `Redeem`
  is two accesses with a decision in between.
* *Rights that are taken away.* A right is read when the request is identified;
  an attach lives for hours. Only `watchCapability`'s ticker connects the two.
* *Two listeners, two policies.* The same phone is a node on one and a token on
  the other, and the code of neither looks at the other's rows.
* *Nobody tells anybody.* The page and the panel know what was answered to what they
  asked, some time ago. Their requests and processes overlap, are late, or are lost, and
  what is on the screen is acted upon.
* *Processes under systemd.* Listeners fail one by one, a shutdown waits for goroutines,
  and what starts the daemon again is its exit code.
* *Teardown.* Four goroutines end one attach; the one that reads the PTY does not
  notice cancellation; tmux keeps what Close does not kill; the client redials.

What makes each part correct:

* Device store: the file is whole at every instant, one row per node, no rewrite
  grants or revives anything, all operations are atomic, the lock comes back.
* Pairing store: one code pairs once, wrong guesses are counted, the newest code
  is the only one.
* Identification and attach permission: a terminal only for an admitted caller,
  and only for a bounded time after a demotion or a revocation; pairing a known
  device names it.
* Attach: every goroutine, the PTY and the child end once any of them fails.
* Views: the view of a session shows that session, goes when its phone goes, and is
  never one that a dead daemon left; leaving disturbs nobody else.
* Client: it redials what was lost and nothing else, one socket at a time, and a page
  on a session is never left with nothing that will.
* Page: a code is posted once, and what is listed, said and resumed belongs together.
* Panel: the QR on the screen works, what it says it did was done, and its list comes to
  agree with the store.
* Daemon: it serves what is in the file, exits when it is told to, does not go down for
  the LAN's sake, and comes back when a tailnet listener has failed.

## 2. The modules

Written so far, in this order, the most important behaviour first:

| Module | Extends | What it is |
| --- | --- | --- |
| `Devices` | | the list and each operation of Store as pure operators |
| `DeviceStore` | `Devices` | the abstract store: each operation happens at one instant, or fails |
| `DeviceFile` | `Devices` | the store as written: lock, read, temp file, rename; errors and deaths |
| `Pairing` | | the pending code, and redemptions that run side by side |
| `Access` | `Devices` | both listeners, admission, pairing, attach permission, the CLI, time |
| `Views` | | requests as sequences of tmux commands on one session and its one view |
| `Lease` | | the abstract attach: a terminal held by right, checked at an interval, ended within a handshake |
| `Attach` | | one attach: handler, four goroutines, socket, PTY, child, time |
| `Browser` | | what the two halves of the page share: the view, the remembered session, whether `onResize` exists |
| `Client` | `Browser` | the page's connection: sockets, reconnect timers, late events, the user, the network |
| `Page` | `Browser` | the page beside it: pairing, who this is, the list, `start`, with answers that are late or lost |
| `Panel` | `Devices` | the panel of the desktop, and the processes it runs on the stores |
| `Daemon` | | the daemon's process, its listeners, its unit, and the commands that restart it |
| `MC*` | | instances for TLC |
| `*_proofs` | | theorems about the module they are named after; `Server_proofs` about `Access` and `Daemon`, `Browser_proofs` about `Client` and `Page` |

`DeviceFile` implements `DeviceStore` (the property `AtomicStore`), which is why
`Access` and `Panel` may run its operations on one atomic list. `Lease` is where `Access`
and `Attach` meet: the first implements it once per browser, on the device list
(`KeepsLeases`), the second with its goroutines and timers (`KeepsLease`). The other modules
meet at their edges: what ends a tmux client in `Views` is `SessionEnds` in `Attach`; what the CLI
does in `Access` is `RightChanges` in `Attach`; the close codes `Attach` sends are those
`Client` is closed with. `Page` has the terminal as one view, with `Client`'s sockets behind it. Each takes the others' part as something that may happen
at any time, which is more than they do together.

Two proof modules are about two components each. There every name must be unique, so what
`Page` and `Daemon` would share with `Client` and `Access` begins with `Page` or `Daemon`
(`PageInit`, `DaemonSpec`), and `Page`'s halves of functions that `Client` has too are
`PageAttach`, `PageDetach`, `PageCreated` and `PageReload`.

### Devices, DeviceStore, DeviceFile

A device is a record of the fields of the Go struct; `Created` and `LastSeen` are
left out, since only the throttle of `Touch` reads them: `Touch` may write or not.
The list is a set. `node` and `tokenHash` are `None` when omitted; `HashToken`
wraps the token, so that a hash is never taken for one. `EffectiveCapability`
treats a blocked row, and a capability it does not recognise, as read. Ids and
tokens are random in the code and never repeat here: an operation draws an id
outside `used`, the ids there have ever been.

`Effects(o, D, used)` gives, for an operation on a list, the lists it may leave,
whether `fn` asked for them to be written (`errReadOnly` says no) and the answer.

`DeviceFile` runs it as `withLock` does. `Call` enters; `Lock` is `flock`, shared
for the read-only operations and exclusive for the rest; `Read` parses the file
and runs `fn`; `CreateTemp`, `WriteTemp` and `RenameTemp` are `write`; `Unlock` is
the deferred `LOCK_UN`, with which the call returns. `Fail` is an error anywhere
before the rename and runs the deferred `os.Remove`. `Die` kills the caller at any
step; the kernel then drops its lock. The caller may be a goroutine or a process:
each opens the lock file itself, so `flock` excludes goroutines of one daemon too.
A caller that dies between calls is an idle one; a temp file nobody will read is
gone as far as the model goes.

The refinement maps `pc` to the abstract status: `idle`, `answered` at `unlock`,
`called` elsewhere. The operation happens at `RenameTemp`, or at `Read` when there
is nothing to write. `Die` after the rename is an operation that happened and whose
caller never learns it, as `DeviceStore!Leave` allows.

### Pairing

The file is a pending code with its attempts, `Absent`, or `Torn`: `os.WriteFile`
truncates and then writes, so that a death leaves something no load parses. Each of
`Load`, `Clear`, `Save` and `Create` is one acquisition of the lock and therefore
one step; `Decide` is what `Redeem` does between two of them. Errors of `Clear` and
`Save` are ignored, as in the code. `Crash` kills all redemptions at once, for they
are goroutines of the one daemon; `Expire` is the clock passing `Expires`. The
remaining variables record history for the properties: `wins`, `guesses`, which
codes were held by two redemptions (`overlapped`), which met an I/O error
(`faulted`), and whether any code was created while one was redeemed (`raced`).

### Access

A browser makes one request at a time. `ByTailnet` is `resolve` when WhoIs answers;
`ByBearerToken` is `resolve` when it does not, and `identifyLAN`; `PairingRoute` is
the way `identifyLAN` lets `POST /api/pair` in with nobody identified. A request
holds in `who` the row as it was read. `Pair` is `handlePair` after the code was
accepted, `Open` the start of an attach, `Check` the tick of `watchCapability`,
`Closed` the end of its closing handshake, `Drop` a client that goes or an error,
`TurnedAway` a 401 or 403. `CLI` runs any of the `devices` verbs on any id there has
ever been, those that are gone included.

Time is `Tick`. It does not pass a check that is due, nor the end of a handshake
that has taken `CloseGrace`. `exposed` counts for how many ticks on end a browser
has held a terminal its row no longer entitles it to.

What the model takes from outside: WhoIs (a node per browser, a tag, a user, or no
answer), the `time.Ticker`, and the closing handshake of the websocket library,
which gives up by itself after a few seconds.

### Views

One tmux session and the session named `ViewName(session)`, each a name for a set of
windows or `None`. `used` keeps windows from returning. A request runs `List`, `Open`,
`Create` or `Kill` one tmux command at a time, and all of them list first:
`ListSessions` is `list-sessions`, `Sweep` the loop that kills a view listed without a
client, `AfterList` what `Exists` decides. `KillStale` and `Group` are `createView`,
`AttachSession` the client that `Open` starts, `Detach` and `CloseView` the two halves
of `Attach.Close`, `NewSession` is `Create` with its second look, `KillView` and
`KillSession` are `Kill`. Where the code ignores an error, the model lets the command do
nothing; where it returns one, `GiveUp` ends the request. `CloseView` always takes
effect: it runs with a context of its own. `DaemonDies` is a death of the daemon, and
also its graceful end: `Shutdown` does not wait for websockets, so no `Close` runs.

tmux is outside: a kill of what is not there fails, a client of a session that ends
exits, grouped sessions share windows, `new-session -t` of a session that has gone makes
a group of its own. Names are taken as exact; tmux's prefix matching of `-t` is left out.

### Attach

One attach after `Open`. `pc` has the handler (it waits for the context, then runs its
deferred calls: `ClosePty`, `Kill`, `Reap`, `CloseNow`) and the four goroutines:
`pumpInput` (`Receive`, `WriteInput`, `ReadFails`), `watchCapability` (`Check`, `Stops`,
`EndClose`), `keepalive` (`Ping`, `Pong`, `PingFails`, `Stops`) and `pumpOutput`
(`Output`, `Sent`, `SendFails`, `PtyEnds`, `EndClose`). `Ends` is a return with its
deferred `cancel()`. `clock` also
counts, for the properties, for how long the client was `lost` and for how long it was without the
right (`exposed`). `Running` says which clocks run and `Due` what happens before time
goes on: goroutines take no time, except where they wait.

Of the websocket library it assumes what the code relies on: a `Read` whose context
ends closes the connection, `Close` sends its code and waits for the peer for a bounded
time, a `Ping` is answered only while somebody reads, `CloseNow` waits for a `Close`
that is under way. Of the PTY: a read ends when the descriptor is closed or the child has
gone, with `io.EOF` or another error. Of tmux: that it answers, since `Close` sets it no
deadline. `SessionEnds` is the end of the tmux client for whatever reason, and
`RightChanges` what `capabilityOf` would find. A client is `here`, `silent` (out of
range, and perhaps back) or `closed`. `causes` and `quiet` remember what has happened that
may end an attach: the session or the right has gone, or the client has hung up or has not
been there for `Patience`, the shorter of the two timeouts, on end. That it was away for a
moment is remembered too ("away"), but is not a reason. `Kill` of the view is in `Views`.

### Lease

What an attach is to the policy: `held` is `free`, `open` or `closing`, `right` whether its
holder may hold it. `Check` comes when `CheckInterval` has passed; one that finds no right
never leaves the terminal as it was, one that finds it may still end it, as a failed `Get`
does. From then on the end comes within `CloseGrace`. Nothing is checked in between, and
`RightChanges` and `GiveUp` may come at any time. `exposed` counts for how long the terminal
was held without the right.

For `Attach` the terminal is free once the context is cancelled, open while `watchCapability`
waits for its ticker, closing while it is in `conn.Close`. A close that `pumpOutput` has begun
may be under way by then, so that the handshake ends sooner: the clock of a lease that begins
to close may start anywhere. That "cancelled" may stand for the end of the tmux client is the
third part of `KeepsLease`: no time passes in between. For `Access` the right is that the row
the browser was identified by is still there, not blocked, and may write if it could.

### Client

An action is one task of the browser's event loop: a click, an answer that arrived, a
timer, an event. `Attach`, `Detach`, `Connect`, `ScheduleReconnect` and `ReconnectNow`
are the functions of those names, `OnClose` the handler, run for whichever socket closed
with the variables as they are by then; that the handlers are closures over module
variables and not over their socket is the hazard. `UserAsks`, `Created`, `Killed`
and `Refused` are the create form and the kill button around their `await`; `Started` the
end of `start`; `Reload` the page discarded and loaded again with only `localStorage`
left.

`attach` and `detach` name a function `onResize` that no script of the page defines, and
throw there (section 4). `defined` is whether it is: without it `Dial` does not dial, and
`Leave` and `Closing` leave view and socket as they are, while what comes before the throw
is done. `Defined = {TRUE, FALSE}` checks both pages in one run, so that what is shown of
the connection holds of the code as it is and of the code with those functions added.

`timers` counts the reconnect timers that are pending and `handle` those that
`reconnectTimer` knows, one at most: a timer whose handle was overwritten can no longer
be cleared. A socket is connecting, open or closing until its close event: `SocketCloses` is
the daemon's close frame, after which `readyState` is CLOSING and `reconnectNow` dials beside
it. `Own` is the socket of the session on the screen, as far as the page could tell: the
newest one, if it is for that session. Three variables are history. `raced`: `attach` or
`reconnectNow` dialled beside a socket that was alive, which the code allows. `loop`: the page
has dialled for its session, and its own socket then closed with 1000 ("ended") or 1008
("refused"). `late`: a socket of before has dropped and `onclose` has set a timer for it, which
is pending. Lengths of backoffs are left out.

### Page

Again one task of the event loop per action. Each `await` splits a function in two: a
request is asked, the daemon answers it as things are then (`PairAnswered`, `MeAnswered`,
`LoadAnswered`), and it lands later (`PairLands`, `MeLands`, `LoadLands`), when it may also
turn out to be lost. What the caller of an async function does next runs with the landing:
`KnowAndList` is the end of `loadMe` and the beginning of `loadSessions` in `start`, `GoOn`
what `start` and the form do once a list is there. `loads` has the loads of the list that
are under way; nothing in the code keeps two apart, and `overlapped` remembers that some
were. `rows` counts rows, for an append to what another load has put there shows one
session twice. `Scan` and `Reload` are page loads with a new code, or with what the
address still holds. The desktop may forget or admit the browser, and end or make a session, at any time.

### Panel

`Refresh`, `RunAction`, `StartPairing` and `ClearPairing` are the functions of those names;
`Tick` is every caller of `refresh` that does nothing else. A process is *started*, does its
work on the stores, and is heard of when it exits: `ListRead` and `ListLands`, `PairCreates`
and `PairLands`, with `ListFails` and `PairFails`. `ActionExits` is a command's work and
exit in one, as nothing the panel does tells them apart. The work is `Effects` of `Devices`,
and `ChangedElsewhere` runs the same operations for the daemon and other terminals.
`BuildDevices` and `ParseQrMatrix` are `Model.js`. A code on the screen is remembered with
how it is drawn; `meddled` that somebody else paired or redeemed since the panel did.

### Daemon

`Load`, `Bind`, `BindLan`, `Select`, `Shutdown` and `Wait` are `serve` and `Run` in order, and
`Unhooked` a SIGTERM that comes before `serve` handles signals and ends the process at once.
Each listener has a goroutine that fails (`ListenerFails`) and sends to `errs` (`Report`), or
returns after its server was shut down. `Exits` is the end of the process with what
`Restart=on-failure` makes of it. `Save`, `IsActive` and `Restart` are a `lan` command.
Signals, systemctl and deaths come at any time. `wanted` and `orphan` are history: whether
the unit is to run, and whether a `lan` command died before it restarted the daemon.

## 3. What the runs check

| Run | Instance | Properties |
| --- | --- | --- |
| `device_file` | 2 callers, 2 ids, 1 node, 1 name | `TypeOK`, `OneRow`, `OnlyAsOrdered`, `AtomicStore`, `LockReleased` |
| `pairing` | 2 redeemers, 2 codes, 3 attempts, 4 calls, symmetry | `SingleUseAlone`, `AttemptsCounted`, `NewestWins` |
| `pairing_single_use` | the same | `SingleUse`, violated |
| `access` | 2 browsers, 2 nodes (1 tagged), 2 ids, 2 names, interval 2, grace 1 | `ExposureBounded`, `AdmittedOnly`, `PairingOnlyNames`, `KeepsLeases`, `CutOff` |
| `views` | 3 requests, 3 sets of windows, symmetry | `TypeOK`, `NoViewLeft`, `StaleNeverShown`, `ShowsSession` |
| `attach` | check 2, keepalive 4, pong 3, write 2, closing 1 ticks | `TypeOK`, `DetachPrompt`, `NoDropWithoutCause`, `CutOffIsTold`, `KeepsLease`, `Finishes` |
| `client` | 2 sessions, 3 sockets, 2 timers, both pages | `TypeOK`, `OneChain`, `OnlyCurrent`, `StopsTheLoop`, `NeverStranded`, `Remembered`, `Redials` |
| `client_dials` | the same, the page as it is | `Dials`, violated |
| `page` | 1 session, 2 loads, both pages | `ListAgrees`, `CodePostedOnce`, `PairedIsKnown`, `ResumesListed` |
| `page_unpaired` | the same, the page as it is | `NeverBlank`, violated |
| `panel` | 1 id, node and name, 2 codes, 4 payloads | `QrScans`, `FlashHonest`, `CatchesUp` |
| `daemon` | 2 tailnet addresses and the LAN's, 2 `lan` commands | `Steady`, `ExitsWhenTold`, `ComesBack` |

**device_file.** Two callers suffice for every race: a write lost or revived takes
one stale reader and one writer. One node makes registrations collide; two ids
allow a second row, and one row that is revoked while another operation runs. It
shows that the lock, the temp file and the rename do make the store atomic, in any
interleaving of any two operations with an error or death at any step.

**pairing.** Two redeemers give an overlap and two codes an older and a newer one.
`maxAttempts` is five in the code and three here: what counts is that there is a
first, a middle and a last attempt, and the theorems hold for any number. `Calls`
bounds a behaviour: four calls are one more than the attempts allowed, so the guess that would be one too many is in range; two of them may overlap. Behaviours
end when the calls are used up, which is why this run does not look for deadlock.
It shows what survives the missing atomicity of `Redeem`. Without overlaps and I/O
errors a code pairs once and `MaxAttempts` wrong guesses end it; without a creation during
a redemption only the newest code pairs. All three conditions are needed, and
`pairing_single_use` shows the first.

**access.** One browser sits on a node that is admitted, one on a tagged node of
the same user; both may come over either listener and pair, in any order, while the
CLI works. Two ids let a browser have a tailnet and a paired row, and two names make a
rename change something. The constants are the code's in ticks of 10 s, rounded up: 15 s of
`capabilityCheckInterval` are two, the library's closing handshake (5 s to write, 5 s to
wait) is one. The run shows that what is lost is usable for at most three ticks, counting an
attach identified before and opened after the loss, and one whose client keeps typing
through the handshake, and that the handshake too comes to its end (`CutOff`); that no other
request and no command takes an attach out of its lease; and that a phone which pairs again
on the tailnet changes the name of its row as that is by then, not as it was read. A node of
another user is not in the run; `OnlyAdmitted` holds for any owners and tags.

**views.** Two requests make every collision of two commands; the third lets a view be
made, killed and made again under the first. Three sets of windows are a session, its
successor and a group of its own made by mistake. Requests that are done may begin
again, so lengths of behaviours are not bounded but by `Windows`. It shows that the
shared name is not fatal: whoever made the view now there, it shows the session that
was listed if that still exists, and the last to leave removes it. A dead daemon's view is
never shown, because `new-session` refuses a name that is taken: where the kill before it
fails, the attach does. With the variant that reuses what is there `StaleNeverShown` fails.
What is shared, though, is destroyed under others (section 4).

**attach.** The code's lengths, in ticks of 5 s, are 3, 6, 3, 2 and 2; the run's are as
small as they can be with the keepalive interval longest, a ping that may span a check,
and a write that expires before a ping does. `DetachPrompt`'s bound is reached, and
`SilenceIsBounded` proves it for every length. The run shows that an attach ends in full
from any of its goroutines, with an idle terminal too; that a client is not given up unless it
hangs up or is not there for a whole timeout on end, so that one that is slow, or away for
moments again and again, is kept (`NoDropWithoutCause` fails when all pings share one
deadline); and that a revoked one gets its 1008 although three other goroutines fail around it.
`DetachPrompt` has two bounds, for a client that is lost and for a right that is, and the
second is what `Access` counts on: a watcher that is slowed down by nothing, and a handshake
that `pumpOutput` or the client may have begun or broken off.

**client.** Three sockets are one that closes late, one that replaced it and one more; two
timers are one known and one whose handle is lost. `Socket` bounds how many are alive at
a time, dialling waits where all are, and sockets are used again. `Reload` makes
behaviours start over with something remembered. The run shows that drops, timers and
network changes alone keep one chain of sockets and timers, and that dialling beside a live
socket makes no second timer, nor one beside the newest socket, until the older one drops;
that every socket in use is for the session on the screen unless the page dialled beside a
live one; and that a page on a session that it has dialled for always has something pending
that will dial, even after such a race. After 1000 or 1008 of its own socket the page has no
newer socket and no timer, whatever it had dialled beside whatever; focus and visibility
still dial, which the code means as the user's doing. What `onclose` does when a socket of
before closes late is stated where it breaks this: it sets a timer (`late` in `OneChain` and
`StopsTheLoop`), and it forgets the session that the page has gone to (`LateClose` in
`Remembered`). Both are in section 4.

**page.** One session is listed, gone and back, and two loads overlap, of `start`, the
refresh button, the form or `detach`; longer queues of loads differ in how many rows they
double. It shows that a code is posted once however often the page is loaded, that a page
which paired does not take itself for unpaired, that only what `start`'s own list had is
resumed, and that without overlapping loads rows, status and `knownSessions` are of one
answer. With them they are not: a session may be listed twice until the next load.

**panel.** One id is a device of either kind that comes, changes its rights and goes, while
the panel works on a row that may be any of its past; ids are not drawn again, so a row can
also be of a device that is gone. Two codes are the panel's and another terminal's. The
payloads are nothing, a square, one with a short row and one with what is no module. It shows
that dropping clicks keeps message and command together, and that the two kinds of `revoke`
are announced as what they are; that one QR is never left up beside a newer other one; and that
the list agrees with the store in the end although polls are skipped, stale or fail.
`CatchesUp` leaves out a binary that is missing when the panel first looks, which is never
looked for again.

**daemon.** Two tailnet listeners make one fail while the other serves, and both at once;
`errs` has room for two. Two `lan` commands interleave their saves and restarts. It shows
that the order of saving and restarting suffices for the file to come into force, that `Run`
ends from every point at which it is told to, and that a failed listener costs a restart and
no more. `Steady` has in it why `Run` ends: no goroutine finds `errs` full, whichever
listeners fail when, and `wg.Wait` waits for no server that nobody shut down.

**Fairness.** `DeviceFile`: a caller that holds the lock goes on (weak fairness of
its own steps), as no step between `Lock` and `Unlock` waits for another caller.
Nothing is assumed about lock grants, so `LockReleased` says that a lock is given
back and not that everyone gets it. `Access`: time goes on, timers fire, and
handshakes end, the library's own deadline being the reason. `Attach`: each
goroutine is scheduled and time goes on; nothing is assumed of the client, the
terminal, the desktop, or of which of two enabled steps of a goroutine is taken.
`Client`: a pending timer fires and a queued `online` event is delivered, which the
event loop does; no socket has to open or close. `Panel`: the refresh timer fires, processes
exit, and reading the list does not fail for ever (strong fairness of `ListRead`, since each
poll may fail). `Daemon`: goroutines run, systemd starts what it is to start, and of starts
that are tried again and again one succeeds (strong fairness of `Load`, `Bind` and of a
`BindLan` that finds every listener up): tailscaled comes up, ports become free. `Pairing`,
`Views` and `Page` have no liveness property and no fairness.

**The properties can fail.** Beside the operators of the code there are some called
"Faulty variant": the same operator with a plausible mistake. Each property of a
passing run is violated when one of them takes the place of the original
(`PROJECT.json`, "mutants").

## 4. Where the code and its words differ

1. *A code can pair twice* (`SingleUse`). `Redeem` loads, decides and clears under
   two acquisitions of the lock. Two requests with the code, side by side, both
   succeed; the comment at `pairing.go:137` names just this as the worst outcome.
2. *A tap does not dial* (`Dials`). `attach` and `detach` use `onResize`, and the terminal's
   input `send` and `sendRaw`, which no script defines. `attach` throws before `connect()`:
   the page shows an empty terminal until it is focused again. `detach` throws before it
   closes the socket and shows the list; what is typed goes nowhere.
3. *A browser that is not paired sees nothing* (`NeverBlank`). For a 403 `renderCapability`
   reads the name of a user that is `null`, twice, and `start` ends before the list is
   loaded, which would have said what to do.

Seen while modelling, and true of the models, but not among the runs:

* *A phone on the tailnet gets a second row over the LAN.* `README.md:214` says that pairing
  a known device names it. The LAN listener knows nobody on the pairing route
  (`lan.go:22-25`), so `handlePair` makes a row.
* *A phone's view is destroyed under it.* `README.md:266-271` gives a phone a view of its own,
  destroyed on its detach. The name depends on the session only, and the sweep,
  `createView` of another attach and `Close` of an earlier one kill it whoever is on it.
  Its phone is dropped and dials again.
* *A killed session runs on.* `Kill` ends the view and the session by two commands
  (`tmux.go:257-258`); an `Open` that listed the session makes the view again in between,
  and the windows survive in it until that attach closes.
* *A page dials on after it was told to stop.* `README.md:158` has 1000 or 1008 stop the loop.
  `onclose` does not look at which socket has closed (`app.js:308-328`): where the page had
  dialled beside a socket that was alive (`reconnectNow` after a wake, say), the newest gets
  1008 and the older one then drops, `scheduleReconnect` runs and the page dials again.
  Without `late` in it `StopsTheLoop` fails on this.
* *A page forgets the session it is on.* In the same way a 1000 of the session the page has
  left, when it comes after `attach` of the next, runs `forgetSession` (`app.js:322-325`), and
  the next load of the page does not resume. Without `LateClose` in it `Remembered` fails.
* *Two sockets write into one terminal.* `reconnectNow` dials beside a socket that is
  connecting or closing (`app.js:359`), and `attach` beside any, as a kill or create answered
  late does; the older socket is not closed, and what it still brings is written to whichever
  terminal there is.
* *The end of a session is not told.* Only `io.EOF` is followed by close code 1000
  (`sessions.go:187`), and a PTY's master on Linux reads `EIO` when its child has gone. The
  client sees a network drop, dials again and is refused with 1008 "cannot attach".
* *`allow` on a blocked row succeeds.* Both the CLI (`devices.go:77`) and a panel whose row is
  stale say that the device can type; `EffectiveCapability` says that it cannot.
* *The panel's error goes at once.* A failed command sets `lastError` and starts a refresh,
  whose list clears it. Closing the panel while `pair` runs leaves a QR up on a closed panel.
* *Two `lan` commands lose a port.* They load and save `config.json` without a lock. One that
  races a `systemctl stop` starts the daemon again.

Also: a tagged node that was paired by hand
(`README.md:186`) is turned away on the tailnet listener, since `resolve` refuses what
the policy refuses before it looks at a token (`identity.go:62-67`); the kill button detaches
whatever session is on the screen when the answer comes (`app.js:519`); the comment at `pair.go:53-56` says that a tailnet device "is issued
one anyway", and no token is issued to it (90-99).

## 5. What is proved

All for any number of callers, browsers, ids, nodes, codes, requests, windows, sessions,
sockets, timers, loads of the list, devices, payloads, listeners and commands, and any lengths
of time that the assumptions allow.

| Theorem | States | From |
| --- | --- | --- |
| `FileIsWhole`, `NodeHasOneRow` | `[]TypeOK`, `[]OneRow` | `DeviceFile_proofs!Inv` |
| `ChangesAsOrdered` | `OnlyAsOrdered` | the same, and the shapes of the operations |
| `StoreIsAtomic` | `AtomicStore`: `DeviceFile` implements `DeviceStore` | the same |
| `SingleUseWhenAlone`, `AttemptsBounded`, `OnlyNewestWins` | the invariants of run `pairing` | `Pairing_proofs!Inv` |
| `ExposureIsBounded`, `OnlyAdmitted` | the invariants of run `access` | `Server_proofs!Inv` |
| `PairingNames` | `PairingOnlyNames` | the same |
| `AttachesAreLeases` | `KeepsLeases`: each attach of `Access` implements `Lease` | the same |
| `ClientsAreOwned`, `ViewsAreRemoved`, `NoStaleView` | `[]TypeOK`, `[]NoViewLeft`, `[]StaleNeverShown` | `Views_proofs!Inv` |
| `ViewShowsSession` | `ShowsSession` | the same |
| `NobodyLeavesAlone`, `SilenceIsBounded`, `DropsHaveCauses`, `WithdrawalIsTold` | the invariants of run `attach` | `Attach_proofs!Inv` |
| `AttachIsALease` | `KeepsLease`: `Attach` implements `Lease` | the same |
| `ListHoldsNothing`, `ChainIsSingle`, `ScreenIsCurrent`, `LoopStops`, `NobodyIsStranded` | the invariants of run `client` | `Browser_proofs!Inv` |
| `MemoryFollows` | `Remembered` | the same |
| `ListShowsOneAnswer`, `CodeIsPostedOnce` | the invariants of run `page` | `PageInv` |
| `PairingIsKnown`, `StartResumesListed` | `PairedIsKnown`, `ResumesListed` | the same |
| `CodesScan`, `MessagesAreTrue` | the invariants of run `panel` | `Panel_proofs!Inv` |
| `ServersAreShut`, `DaemonIsSteady` | `ShutInOrder`, `[]Steady` | `DaemonInv` |

*Devices.* `EffectsShape` says of every operation what relates its list to the one
it started from; `ShapeSound` that this keeps ids unique, one row per node, and only
tailnet rows blocked. Both are cited wherever a step changes the list.

*DeviceFile.* `OneRow` is not inductive: a list computed earlier could be stale
when it is renamed in. `Inv` adds that two holders of the lock are readers and that
an effect waiting to be written is still one of the effects of its call on the list
now in the file. That line is what the lock is for, and with it the rename is
`DeviceStore!Perform`.

*Pairing.* For a code whose redemptions neither overlap nor fail, `Inv` says where
its refusals are: in the file's counter or in the hands of the one redemption that
holds it; and that a win takes it out of both places. For the newest code, that
nothing loaded or pending is older as long as there was no race.

*Access.* The exposure of an attach is related to its clock: while it is open it is
at most the clock, since every check resets both or closes; while it is closing at
most an interval more. Rows in hand have an id that has been used, of the node or
token that brought them; tokens stay with their ids.

*Views.* That no view is left over when all is idle says nothing while something runs;
`Inv` adds that a view which is there has an owner, an attach that will kill it in
`CloseView`, unless something failed. For `ShowsSession` it adds that the view an `Open`
is about to attach to has the windows it listed if the session still does: whoever
made it made it from that session.

*Attach.* The time a client has been lost is related to keepalive's clock: while it waits
for its ticker it is at most that clock, while it waits for a pong at most an interval and
the time waited, for the ping before was answered. The rest orders the teardown (who has
cancelled, closed and reaped what) and says that whatever has begun to end has a cause, and
has sent 1008 if the right is the only one. Until then (`WaitInv`) a ping or a write under way
has waited no longer than the client has not been there, for time does not pass one that can
be answered: one that times out has waited for `Patience`.

The exposure is related to the watcher's clock in the same way: at most that clock while it
waits, at most an interval and the handshake's clock while it closes, where the socket is no
longer open and its handshake therefore counted. With that each step is one of the lease or
leaves it alone: a step after which the context is cancelled is `GiveUp` or nothing
(`CancelGivesUp`), one that touches neither the context nor the watcher nor its clocks is
nothing (`OthersKeepLease`), and `Check`, `RightChanges` and `Tick` are those of the lease.

*The leases of Access.* Every step but `Open`, `Check`, `Tick` and an end changes at most the
right of a lease (`SameHold`), and takes the exposure back to zero when it gives it. That a
browser without a terminal has no clock and no exposure is in the invariant.

*Client.* `NewestInv` says that without a race a socket in use is the newest and for the
session on the screen, and until the page leaves it is the only one and the loop goes on.
`OneChain` and `StopsTheLoop` carry each other: while the newest socket is alive and no late
drop is pending there is no timer, so that its 1000 or 1008 leaves none, and a drop of it sets
the only one; a drop of any other is what `late` remembers. `Cleared` is that what
`clearTimeout` leaves is of a late drop. `DialInv` strengthens `NeverStranded`: it is the
newest socket, and not just any, that keeps a page from being stranded, since one of before
may close with 1000 or 1008 and schedules nothing. For `Remembered` it suffices that a loop
that was stopped has no newest socket which could end it again.

*Page.* `ListAgrees` speaks of what is on the page between loads. `PageInv` adds that without
an overlap the load under way is the only one and finds the list empty, so that what it appends
is all there is; that `start` waits for exactly one thing, which its request, its question or its
one load tells (`StartWaits`, `OneStart`); that the address has lost its code from the first task
on, before anything is awaited (`CodeGone`); and that a browser that has paired is not refused
who it is (`PairedHolds`). The last three carry the other three properties.

*Daemon.* `NobodyBlocks` is about a channel with a bound and goroutines without one: `DaemonInv`
counts. What is in `errs` is at most the number of tailnet listeners that have reported
(`OneErrorEach`), a goroutine about to report is of a listener that has not, and the LAN's never
is (`LanIsQuiet`), so there is room. A cause "error" needs a listener that reported, which the same
count gives. `ShutInOrder`, proved on top of it, says which servers are shut down at each
place of `Run`; the LAN's must be one of them if it was bound, whether or not it still serves.

*Panel.* A message is true of what a command left if it fits the operation, and whether
"blocked" or "revoked" fits depends on the kind of a device whose row may be of long ago.
`Inv` therefore says that a device that is there has the kind it has in every row anybody
holds, on the screen or in a poll that has not landed: kinds never change and ids are not
drawn again. Of the codes it says that nothing is on the screen while one is asked for, and
that the one on its way is the newest unless somebody meddled.

The assumptions are those in the modules: `JunkAssumption` (an unfinished file is no
row), `BoundAssumption` and `FileAssumption` (an absent or torn file is no pending
code), `BrowserAssumption` (each browser has a node), `TimeAssumption` (an interval
is positive; in `Attach`, a pong times out within a keepalive interval, as the code's 15 s
and 30 s do), `WindowsAssumption`, `NoneAssumption` and `CodeAssumption` (`None` is none of them),
`DefinedAssumption`, `SocketAssumption`, `ListenerAssumption` (the tailnet's addresses are
finitely many and at least one, and the LAN's listener is none of them: `tailnet.go:84` returns
an error without), `OutsideAssumption` (what others run are operations of the store),
`MatrixAssumption` (payloads are rows of numbers). They are evaluated by the runs.

Only model-checked: `LockReleased`, `CutOff`, `Finishes`, `Redials`, `CatchesUp`,
`ExitsWhenTold` and `ComesBack`, which are liveness under fairness; and the three divergences
with a run, each shown by a behaviour. Every invariant and every action property of a passing
run is a theorem.

## 6. Not modelled, and the plan

Left out for good: log texts, formatting, QR, static files, probing of interfaces,
firewall hints, order of the list. Arguments the store refuses before it opens the
lock (an invalid capability, an empty name or node id) change nothing and are not
enumerated. fsync and power loss are outside: a process dies here, the machine does not. The
lint of pull requests is no part of the program.

systemd's limit of five starts in ten seconds is left out: restarts come five seconds apart,
and only commands by hand could reach it. `devices revoke` reads the row and then revokes it
(`devices.go:94-100`), two operations of the store that `Panel` has as one: the first decides
between two messages by the row's kind, which never changes, and ids are not drawn again.

Of tmux, prefix matching of names is left out, and that it may hang: `Close` sets it no
deadline (`attach.go:206`). A lock holder that is stopped stops everybody (`device.go:391`).
A request is decided on the row read when it was identified, so that a kill under way when
its device is demoted still happens. Of the page, the key bar and the menu are left out; of
the panel, the polls of status and health and the buttons for the LAN tier and the unit.

What could still be added:

1. `Views` with what follows a killed view: the page dials again. Two pages on one session,
   or one page that dialled beside a live socket, kill each other's view in turn; whether
   that comes to rest is a question of liveness for `Client` and `Views` together.
2. `Pairing` and `Access` composed: codes consumed against rows made, and the availability
   of the newest code. To prove: the bound on rows per code.
3. `Pairing` as an implementation of an abstract code that is redeemed in one step, while no
   two redemptions overlap and no fault occurs.
