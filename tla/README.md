# AgentSeat in TLA+

AgentSeat puts one desktop application into a private Wayland compositor and
lets software agents operate it next to a human, who always has priority. This
directory specifies the parts of it that decide who may do what and when, checks
them with TLC on small instances, and proves the central safety results with
TLAPS for all values of the constants.

Paths below are relative to the repository's root.

## 1. The system

| Part | State it keeps | Operations | Talks to |
| --- | --- | --- | --- |
| **Micro-host compositor**: input seat (`vendor/cage/seat.c`) | permission (`control_allowed`), epoch, grace period, keys and buttons held per device, what the application was told is down, hold deadlines, whose press began a pointer grab | the requests of `agentseat_control_v1`; physical and virtual key, button, touch, wheel events; three timers | application and physical devices (wlroots), daemon (Wayland connection, first in first out in each direction) |
| its clipboard (`vendor/cage/agentseat-clipboard.c`) | one offered text and its epoch | offer, expire, clear, send | seat, application |
| its scene (`vendor/cage/agentseat-scene.c`) | window ids, scene version | publish, snapshot, window actions | views, daemon |
| its windows, host clipboard, input method and lifetime (`vendor/cage/{view,xdg_shell,xwayland,host-*,application-lifetime}.c`) | views, selections, relays | wlroots callbacks | host session |
| **Daemon** (`native/agentseatd.c`) | write lease, its own copy of the epoch, pause, active operation and a ring of 16, window leases, chat, 32 client slots | about 40 JSON-RPC methods; one poll loop, one turn at a time | clients (Unix socket), compositor |
| its input backend (`native/agentseat-input.c`) | last state event, pressed keys and buttons, scene, content history | acquire, events, revoke, release | compositor |
| its request ledger (`native/request-ledger.c`) | 128 receipts within 1 MiB, 128 high-water marks | begin, finish, get | daemon |
| its captures (`native/agentseat-capture.c`) | receipts, one frame being copied, one worker thread | start, get, tick | compositor, worker |
| its semantic calls (`native/agentseat-semantic.c`, `bin/agentseat-a11y`) | one call and its stage, the bridge process | prepare, submit, cancel | bridge, AT-SPI |
| **Clients**: CLI (`lib/agentseat_cli`), SDK (`python/agentseat_client.py`), HUD (`native/agentseat-eye.c`) | session id, request numbers | requests, waits, retries | daemon |
| **Lifecycle** (`lib/agentseat_cli/lifecycle.py`, `bin/run-microhost`) | instance directories, locks, processes | start, stop, recover | all of the above |

How the parts interact. A client sends one request per connection. A *write*
names the session, a controller and an increasing number, and goes through the
ledger. Input requests also name the lease and the epoch, and are turned into
Wayland requests: first *acquire(epoch)*, then the event. The compositor grants
or refuses the acquire and drops virtual events while the gate is closed. Human
input, a hold that lasts too long, a moved scene or a lost connection revoke the
permission and advance the epoch; the daemon learns of it by a state event and
gives up lease and operation. The daemon revokes too (release, expiry, pause,
cancel), counting its own copy of the epoch up without waiting for the answer.

What is hard about it:

* permission is decided in one process and used by another, over queues;
  requests and revocations cross, and two epochs are counted independently;
* several controllers share the daemon and hand the lease on, while requests of
  the previous holder are still under way;
* human and agent hold the same keys; what is released, and when, has to be
  right for each device and for the application's own view;
* either process can end at any point, and clients repeat what they cannot be
  sure of;
* counters saturate, receipts are evicted, timers race with what they limit.

What makes each part correct: the **gate** never opens for a request that is
older than a takeover, never while a human is active, and both sides agree when
the link is quiet; a **lease** takes everything done under it along when it ends;
a **pause** that was acknowledged is final; the **ledger** carries a request out
at most once and answers it once; the **seat** never leaves a key down that
nobody holds, never takes one from a human, and bounds the agent's holds; the
**clipboard** is only ever offered under permission; the **input backend** never
forgets what it holds, and what it sends is read under the modifiers it meant; the
**scene** that the daemon goes by is one that existed, leases follow it, and input that
names a scene lands in no other; a **capture** ends, no receipt is read while it is
written, and no change after a frame is missed; the **server** lets go of every
connection; and the **HUD** shows, whenever its button can be clicked, what a click would
change, and its clicks take effect in their order. `PROJECT.json`
lists all components, and under `hazards` each place in the code where one of these could go wrong.

## 2. Modules

| Module | What it is |
| --- | --- |
| `ControlGate` | compositor and daemon joined by their connection: permission, epoch, leases, pause, input, text typing |
| `ControlGate_proofs` | its theorems |
| `RequestLedger` | the ledger as `response_for` uses it, with clients that repeat and daemons that restart |
| `OnceOnly` | what the ledger promises to its clients, abstractly |
| `RequestLedger_proofs` | its theorems: books, retry window, and that `RequestLedger` implements `OnceOnly` |
| `SeatInput` | the compositor's seat key by key and button by button, with drags and the clipboard |
| `SeatInput_proofs` | its theorems |
| `Operations` | what outlives its request in the daemon: typed text, window actions, pastes, semantic calls, and their receipts, with the part of the compositor that carries them out |
| `SemanticCall` | one semantic call, from the bridge to the application's reply (extended by `Operations`) |
| `OperationPromise` | what a receipt means, abstractly |
| `Operations_proofs` | the theorems of `Operations`, and that it implements `OperationPromise` |
| `InputBackend` | the daemon's side of keys, buttons, characters and the paste chord, with what the compositor makes of its requests |
| `InputBackend_proofs` | its theorems |
| `WindowScope` | numbered scenes, window leases and exclusions, and text typed under a scene that a client saw |
| `WindowScope_proofs` | its theorems |
| `ContentHistory` | the serial of content changes, its ring, and a client that waits for changes (extended by `Capture`) |
| `Capture` | a frame from its request to its file: the daemon's loop, the PNG thread, the renderer |
| `Capture_proofs` | the theorems of `Capture` and `ContentHistory` |
| `RpcServer` | the daemon's socket: backlog, slots, turns, deadlines, shutdown (extended by `Hud`) |
| `Hud` | the HUD and others as peers of that socket |
| `Hud_proofs` | its theorems |
| `MC*` | constants of `ControlGate`, `RequestLedger`, `SeatInput`, `WindowScope`, `InputBackend` for TLC, with symmetry where members can be exchanged |

Modules that compose two sides do so over explicit queues. No module contains
everything: the gate is whole in `ControlGate`, and appears in `SeatInput`, `Operations`,
`InputBackend` and `WindowScope` only as far as each needs, with fewer reasons to lose
it but at any time.

Definitions headed "Mistake" are not part of the specifications. Each is the
definition after it with a plausible slip; with it in place the property named
in `PROJECT.json` fails, which shows that the property is about that code.

### ControlGate

One action per handler of the compositor, per step of the daemon's turn, and per
RPC method that touches the gate.

*Compositor.* `ProcessAcquire`, `ProcessStaleAcquire` (acquire_geometry after
the scene moved), `ProcessRevoke`, `ProcessPress`, `ProcessRelease` take the
oldest request. `HumanKey`, `HumanTouch`, `HumanWheel` share
`ReportHumanActivity`; touch reports before it is counted, keys after.
`HoldTimeoutExpired`, `QuietElapses`, `ControlQuietTimer` are the timers,
`ControlResourceDestroy` the lost connection.

*Daemon.* `phase` is where the turn stands: `ExpireWriter` ("top"),
`ControlState` and `SyncControlState` ("poll"), the RPC methods ("serve"),
and `AdvanceIdle`, `TypeCodepoint`, `TypeCodepointFails`, which end the turn. `Crash`,
`Exit`, `StartDaemon` cover its life.

*Abstractions.* All keys and buttons of one side are one hold (SeatInput has
them apart). Times are the tests made on them: `quiet`, `seen.quiet`,
`leaseLive`. The scene is in WindowScope; here it is a nondeterministic choice that a
geometry is out of date. Requests that change nothing at the gate (reads, chat,
window leases) are left out; window actions and clipboard offers act on the gate
through the acquire in front of them, which is `SendMotion`. Pasting, window
actions and semantic calls are in `Operations`.

*Ghosts.* `takeovers` counts revocations the daemon did not ask for. Events and
requests carry the count known to their sender (`known`), `grant` what was known,
and under which lease, when the gate was last opened. `revsSent`/`revsDone` count the
daemon's own revocations and bound the runs; `stamp` is `revsSent` at the time of
sending, for the proofs.

### RequestLedger and OnceOnly

`Receive` has one disjunct per way out of `as_request_begin`; `Dispatch` is
whatever follows admission, rejections included; `Finish` stores the receipt.
`Evictions` and `Oldest` say what the `do`/`while` loop does in one step: forget
slots from `next_record` on until the new receipt fits, and put it where the loop
stopped. `Restart` may come at any point, also between `Dispatch` and `Finish`.
Clients are not modelled: any request may arrive any number of times for any
session. Malformed requests and failed allocations change nothing and are left out.
That two daemons never have the same session id is an assumption about the caller
(`lifecycle.py` takes a fresh UUID; the mistake `RestartInPlace` shows that
everything rests on it).

`OnceOnly` has two actions, *Execute* and *Answer*. The mapping is the identity on
the ghosts `executions` and `answered`; ring, marks, bytes and eviction are the
implementation that has to be invisible.

### SeatInput

The seat is one record; each handler is a composition of functions from seat to
seat in the order of the code (`Revoked` is control_revoke: end the drag, forget
virtual holds, release orphaned keys, release orphaned buttons). The daemon is any client:
it may acquire, revoke, offer and press in any order. `grab`, `drag`, `touched`
and `released` are what wlroots and the application make of the calls: a drag
whose button is released has dropped, one whose source is destroyed first is
cancelled. `age` and `orphans` are ghosts. Positions, focus, layouts, leaving keyboards and the HUD's
move are left out.

### Operations, SemanticCall and OperationPromise

*Compositor.* `WindowAction` (cg_scene_window_action), `ClipboardOffer`,
`ClipboardTransfer` (source_send and writer_ready, once all of the text is in a
pipe), `ClipboardGone`, `ProcessSync` (wl_display.sync), `ProcessKey` (the keys of a
codepoint, let through by the open gate or dropped), and the gate of
ControlGate reduced to epoch, permission and "a human is active".

*Daemon.* The turn is that of ControlGate with two more phases: "bridge", where
GLib's context is dispatched (`RunCallback`, `NoCallback`), and "semantic", where
`advance_semantic` runs, one action for each of its ways out. `ReadEvent` is
agentseat_input_dispatch; what each event leaves behind is `Noted`.
`SyncControlState` takes the answer to a window action. `StartType`, `StartWindow`,
`StartPaste` and `StartSemantic` accept an operation and put its receipt into the
slot of the oldest; `AdvanceTyping` has the cases of advance_typing. `Finish` is
finish_typing, `Outcome` what it makes of the outcome it is given.

*SemanticCall.* `call` is what as_semantic_status tells, `pending` the callback
that is due. `PreparationAdvances` and `PreparationFails` go through connecting,
asking the bridge (these three callbacks are one step: none looks at
`cancelled`), the bus, its identity and the target's. `Submit` is the commit
point. The application is external: it may carry out, decline, fail before or
after the effect, or be late, also for a method that nobody waits for any more.

*Abstractions.* The writer is one bit and its deadline; the scope of semantic
calls is one bit, `scopeWhole`; a stale scene is a choice (`CallStale`,
`ProcessStaleAcquire`). The keys of a codepoint are one request behind its acquire
(`CodepointSent`), and a codepoint that fails has sent both or the acquire only; a paste's chord is the acquire in front of it. Holds
and grace period are one bit on either side, and the daemon's may end first.
A window action that was carried out is confirmed by the scene or not. Not
modelled: a paste that fails before it is accepted, shutdown and exit, the wrap of 32-bit
tokens, more than 16 descriptors in GLib's context.

*Ghosts.* `done`, `accepted`, `dispatched` and `typed` (codepoints of each text that the gate let
through) are what really happened, `told` and `counted` what the daemon said of every operation and of
how much of it was submitted, whether its receipt is still there or not, `known` the takeovers known to
a sender. `OperationPromise` is implemented under `effect <- Effects`: methods carried out, window
actions and pastes done, texts of which a codepoint was let through; and `outcome <- Claim`. `Claim`
makes no claim where the code makes none. `submitted` counts Wayland submissions, not characters
proven in an application (docs/PROTOCOL.md, 111): so a finished text claims no effect, and a text
that was cancelled after its first codepoint, which finish_typing reports as cancelled with
`submitted` above 0, neither claims nor denies one. A text cancelled with `submitted` 0 denies, and is
held to it. How far the number itself can be trusted is `TextAsCounted`: no more codepoints are ever let
through than the receipt counts. Finished pastes are what `PasteReachedReader` is about.

### InputBackend

*Daemon.* `backend` is struct input_state with what agentseatd.c knows of the gate,
`op` the text or paste under way. `Methods` are what a client may ask: keys and
buttons, clicks, text, paste, pause, resume, creating and destroying the seat.
`Turn` is what a turn does of itself: `AdvanceTyping` and `AdvancePaste` send a
codepoint or the chord, `OperationEnds` stands for deadline and cancellation,
`Dispatch` reads one event. A call's requests are one sequence, appended at once,
as the call ends with a flush.

*Compositor.* One action per kind of request, `HumanActs`, `QuietElapses`,
`HoldTimeoutExpired`. `app` is the application: modifiers, keys and the
clipboard it was told of, and how it read the last key.

*Abstractions.* There is a physical keyboard. A character is a key and a set of
modifiers; which of several keymaps and layouts has it is left out, and so are Caps
Lock and latched modifiers. Motion and scrolling only acquire, as a click does
first.

### WindowScope

*Micro-host.* `Change` is anything the application or the window manager does
to the windows; `PublishIdle` is the idle callback, `TakeAcquire` an acquire with or
without a scene, which publishes first. A snapshot is sent as begin, windows, end
(`SceneEvents`).

*Daemon.* `SceneDescribed`, `SceneWindows`, `SceneDone` collect it, `Sync` is
sync_control_state at the end of the dispatch. `Release` and `Lease` are window.release
and window.lease, `SeatCreate` and `SeatDestroy` the seat's. `Type` accepts a text that
may name a scene, `Refuse` is a request that is turned away after its scene was stored,
`Advance` sends one codepoint.

*Abstractions.* A daemon that binds gets a snapshot at once: that is the initial
state. Not modelled: more than 256 windows (the scene is then not usable for
captures), the limits on exclusions and leases, takeovers by the human other than as a
loss of permission. That exclusions govern pointer targets and captures, and are
checked when a request is accepted and not again, is how the code is; typed text goes
on when the application moves the focus to an excluded window unless the request named a scene.

### ContentHistory and Capture

*The loop.* `place` is where run_server stands; `Drain`, `Check`, `Join` are
as_capture_tick, which is called in four places. `BufferEvent`, `ReadyEvent`,
`FailedEvent` are the listener's, `StaleEvent` what arrives for a frame that is gone,
`Submit`, `Get`, `GetChanges` the methods, `Close` the end of the session.

*The thread.* `WorkerOpen`, `WorkerWrite`, `WorkerReport`, `WorkerTell` are the steps of
`encode` that another thread could notice: file created, file written or
unlinked, receipt set, flag and eventfd.

*Micro-host.* `TakeCapture`, `TakeCopy`, `TakeRender`, `Commit`: a copy is made at the next
commit. `Drawn` leaves damage, `Render` carries it in a commit and counts it.

*Client.* `waiter` takes the serial of its frame and asks for changes after it, from
one answer to the next. `NothingMissed` compares what it heard with the commits there
really were; `born` lets the serial wrap during the run.

*Abstractions.* The dispatch goes on until the queue is empty, which is more than one
call reads and loses no order between the two threads. A path that is too long is left out, and so
is whether a window may be captured. A client less than 2^31 changes behind is assumed (`MaxCommits`), and that its
serial is this daemon's: `since` from an earlier one could meet an unwritten slot of
the ring, which reads as serial 0.

### RpcServer and Hud

`Poll`, `Serve`, `EndTurn` are a turn: `Serve` handles the lowest ready slot
(read, execute and answer; write; or hang up), `EndTurn(late)` expires deadlines and
accepts. A deadline is a choice of `late` slots at the end of a turn, which is where
it is compared. `Break` is a signal or a failed poll. A connection belongs to one
peer until both ends have closed; its number is then used again. Part of a request wakes the
loop and changes nothing, so only the rest that completes it is an action (`SendRest`): until then
poll does not find the request. Responses are the state or anything else. Of what methods do, the
seat's existence and pause remain; that the ledger refuses numbers that do not
increase is in RequestLedger.

`hud` is app_state: the HUD is one thread, so `doing` is the call it waits in. `Call` is rpc_call up to its
connect; the request is written after it, so the daemon may accept the connection, poll, and
pass it over. `StatusFails` and `ClickReturns` include the timeout of 180 ms, which runs from the
writing, and a request that cannot be written because the daemon has closed the connection (GIO
ignores SIGPIPE in the HUD; a HUD that died of it would no longer show a button). `OtherConnects`,
`OtherLeaves` are all other peers. The HUD's chat, a connect or a write that fails on a full backlog or buffer
and the check of the peer's uid are left out.

## 3. Runs

| Run | Question | Instance and why it is enough |
| --- | --- | --- |
| `gate_safety` | can anything queued before a takeover be delivered after it, anything pass from one lease to the next, anything go wrong at the end of the counter? | 2 controllers, 2 leases, 2 daemons in a row, 2 takeovers and 1 own revocation: the two epochs cross in both orders, and a second takeover hits what the first left. `EpochMax` 4 is reached, also across two daemons |
| `gate_live` | does a pause get its acknowledgement, a takeover its effect? | 1 controller and 1 of everything else; liveness needs the whole graph, without symmetry |
| `ledger` | are eviction and accounting right, is every request carried out at most once, is `OnceOnly` implemented? | ring of 2, limit of 3 bytes, sizes 1, 2 and 4: eviction by number, by bytes, and receipts too large to keep; 2 controllers for 1 mark; 2 sessions |
| `seat` | are keys and buttons accounted for, human holds kept, agent holds bounded? | 2 physical keyboards, a modifier and a bindable key, a mouse and a button, two hold times so that a later deadline can be the earlier; epoch to 4 |
| `backend` | is what the backend sends read as it was meant, does it remember what it holds? | Ctrl, Shift and V, the small and the capital letter, 1 button, texts of one character, 4 methods, epoch to 3: a revocation half way through each sequence, and a second one |
| `ops_receipts` | does a semantic call leave only with permission, and are receipts true? | 2 operations, semantic or window action, in a ring of 1, so that the second evicts the first while its reply is due; 1 takeover, 1 interruption. Two texts or pastes (`PromiseSpec`, `TextAsCounted`; 3.7 million states, 2 codepoints) pass too; one is in `ops_live` |
| `ops_live` | does every operation and every call end, and is the receipt of a text or a paste true, whatever is still queued when it is written? | 1 operation of any kind, texts of 1 and 2 codepoints, so that a text may end with none, one or both submitted and their keys still queued; liveness needs the whole graph |
| `ops_paste` | is a finished paste always one that was read? | 2 pastes, no takeover: **violated**, see below |
| `scope` | do leases follow the scene, does text land as observed? | 2 windows, 2 changes, 4 requests: an exclusion, a seat made anew and a text, with the scene moving before, between and after |
| `scope_geometry` | the same when others ask too | as `scope`: **violated**, see below |
| `capture` | who owns the receipt, what becomes of files, does every capture end, is a change missed? | 2 captures, 1 receipt kept (each evicts the last), a ring of 2, 16 serials of which 3 commits are made from 0 and from 14, so that the serial wraps |
| `hud` | does the Stop button tell the truth, does every connection end? | 2 slots, 3 connections at a time (one more than slots), accept batch of 2, resume and shutdown from others. A click can be overtaken by a look at the state only with three slots, see *An overtaken click* |

All pass but `ops_paste` and `scope_geometry`. `gate_safety` has 7.4 million distinct states, `scope` 4.5,
`ops_receipts` 3.7, `backend` 2.7 million; `hud` 619,000, `capture` 550,000,
`ops_live` 304,000, `ledger` 257,000, `seat` 206,000. None takes more than about three minutes
with two workers.

*The finding of `ops_paste`.* `clipboard_transfer` (agentseat-input.c:404) counts a
transfer if its token is the one last answered, `clipboard_offered` (:400) sets that
token, and `agentseat_input_paste_offer` (:1051) resets token and counts when the next
offer is *sent*. Between sending and answering, the events of the previous offer may
still come: paste A is offered, accepted and read by some application at once; before
the daemon reads these events, A is cancelled by its caller and paste B is offered,
which resets the counts; then the events are read: A was offered, A was transferred
(counted, since A is now the token), B was offered. `advance_typing` sees B's token
and a count of one, submits Ctrl+V and reports B finished, with A's bytes.
docs/PROTOCOL.md says that these counts describe bytes written to receive pipes and
that without a receiver the outcome is unknown. Resetting the counts in
`clipboard_offered` would close it.

*The finding of `scope_geometry`.* A request may name the scene it was made for;
docs/PROTOCOL.md (208) says of it: "The compositor checks it again at final acquisition; an
intervening scene change revokes delivery". The scene is stored by
agentseatd.c:1454 before the lines that follow reject the request (no lease at 1455,
STALE_CONTROL at 1463, BUSY at 1465), and `acquire_gate` (agentseat-input.c:86) sends with each codepoint of
a text what was stored last. A text named scene 1; while it is typed the windows
change, the daemon learns of scene 2, and another client's request that names scene 2, or
none, is refused as busy; from then on the codepoints are checked against that one, and
land in windows that the text's author did not see. `TypedAsObservedAlone`, in
`scope`, shows that this is the only way. Storing the scene after the checks would
close it.

*An overtaken click.* `control_clicked` looks at the state after each click; its comment says
(agentseat-eye.c:599): "Read the resulting pause state." It may not be the resulting one. The look is a request on a new connection, and
the daemon serves its slots by number, not by age. The click's connection is accepted, and poll called, before its
bytes are there (`rpc_call` connects at :112 and writes at :129), so this turn passes over its slot
(agentseatd.c:1747). The turn is long, more than the 180 ms that the HUD waits, so the click is
given up; it also frees two lower slots, and the listening socket was readable because another peer had
connected. So that peer and the HUD's request for the state get the lower slots (:1757-1770), and the
next turn answers the state, as it was before the click, and then carries out the click. The button can be used
and shows what is no longer so: until the next poll of the HUD, 300 ms later, a second click repeats the
first. `HudGivenUp.cfg` is not among the runs: `ResultingStateRead`, what the comment says, is
violated under it by this trace, in ten seconds, and holds with two slots. `ButtonTellsTheTruth` says what remains
true, such a click is carried out in that very turn or never, and `ClicksInOrder` that a second click always comes after
it. `HudThreeSlots.cfg`, not among the runs either as `ConnectionsEnd` takes too long with it, checks both with three slots
(1.6 million states, half a minute); both are proved for any number of slots.

*Bounds.* In ControlGate `MaxTakeovers`, `MaxRevokes`, `MaxLeases` and
`MaxStarts` limit how often something happens. `MaxInFlight` limits only those
who are free to speak; what must be done, such as processing, takeovers and
expiry, is never held back by it. One message volunteered at a time is enough for crossings,
because each acquire brings its event along and revocations come on top. The
other modules name their bounds in the CONSTANTS section.

*Deadlock* is checked in `ledger`, `seat`, `scope` and the runs of Operations. In the
others the system really may stop: the daemon crashes more often than `MaxStarts`
lets it start (ControlGate), ends its session (Capture) or its service (Hud), or the
methods and epochs of the run are used up (InputBackend).

`HudGivenUp.cfg` and `HudThreeSlots.cfg` apart, every .cfg is that of a run.

*Weaker than one might expect.* `NoStaleGrant` and `DeliveryAuthorized` are about
knowledge, not about the epochs themselves, because comparing epochs is what the
code does. `ViewsAgreeAtRest` leaves out the saturated epoch, where the daemon's
64-bit copy runs ahead for good. `ButtonsAreAccounted` and `RevocationNeverDrops`
make an exception for buttons of a mouse that was unplugged while they were down:
`handle_pointer_destroy` tells neither the application nor the daemon, until
the next revocation. `ButtonTellsTheTruth` makes two: for a change by somebody else since
the HUD last asked, as the button may be up to a poll behind, and for a click that the HUD gave up, which may still
be carried out, but in the present turn only. `TextAsCounted` excepts a text that ended with an unknown outcome,
whose last codepoint failed: it may have been sent without being counted. And three things hold only as the code has them, no property saying
otherwise: control.acquire by the same owner in the very turn in which its lease
runs out renews it (agentseatd.c:880); one more codepoint may be submitted between a
lease's end and the sweep that notices it (:637); a paste that fails after it took its
number leaves a gap in the ring of operations (:1280).

## 4. Fairness

`gate_live`, `ops_live`, `capture` and `hud` assume some. `Fairness` in ControlGate:

* weak fairness of `ProcessRequest`: the compositor's event loop reads a socket
  that stays readable;
* weak fairness of `ExpireWriter`, `SyncControlState`, `AdvanceTyping`: a turn
  of `run_server` goes on to its end;
* strong fairness of `ControlState`: it is possible in one part of the turn only,
  but `poll` reports a readable connection each time round.

No client, human, timer or crash is ever forced to happen. `PauseIsAcknowledged` gives up if
the daemon dies or somebody resumes. The three seconds after which `pause_seat`
stops waiting are not modelled.

`Fairness` in Operations has the same for its steps of the turn, and:

* strong fairness of `RunCallback`: an asynchronous call of GIO ends, by result,
  error or timeout (3 s for the bridge's socket, 1 s for the bus, `timeout_ms` for
  the method), and its callback is dispatched in a later turn;
* strong fairness of `OperationLate` and `PreparationLate`: deadlines pass. (They
  pass in the part of the turn that leads up to the test, where alone it matters.)

`FairSpec` in Capture: weak fairness of the loop's steps, of the thread's, and of
the deadline passing once armed. Neither a client nor the micro-host is forced
to do anything: a frame that never comes runs into its deadline.

`FairSpec` in Hud: weak fairness of the turn and of `poll` returning while
a client is connected or waits to be (at the latest at the next deadline), and strong fairness of `Lapses(i)`: one second passes for a
slot that stays in use while turns go by. Peers need not send, read or leave.

In Operations the application is not forced to answer, nor a window to move, nor anybody to read
a paste; `OperationEnds` and `CallEnds` hold without.

## 5. Proofs

The theorems hold for every value of the constants that the modules' ASSUMEs admit: any
number of controllers, windows, keys and devices, any length of the queues, any width
of epoch and serial, any size of the rings of requests, receipts, captures and changes, any bounds. The
bounds of section 3 do not enter. "Inductive" means: Init implies it, every action of
Next preserves it, and the property follows.

**ControlGate.** `TypeCorrect` is inductive by itself. `Linked` (a dead daemon holds
nothing, queues exist only with an owner) and `WorkBelongs` follow with it;
`QuietGate` needs only that whatever ends quiet also closes the gate.

`PauseAcknowledgement` needs to know that epochs on their way never exceed what
the daemon counts. `PauseInv` says that no queued acquire and no queued event is
beyond the daemon's epoch or the compositor's ceiling, which is its epoch plus the
revocations still queued. When a pause has been answered, the ceiling is reached,
and whatever is queued lies behind.

`GrantsAreFresh` rests on `KnowledgeInv`. `NoStaleGrant` is not inductive: an
acquire in the middle of the queue may carry an epoch higher than the compositor's
present one, because the daemon counts revocations still queued in front of it. What
is invariant is `Behind(e, k, c, t, x)`: an epoch *e* that was sent when *k*
takeovers were known lies behind the compositor's epoch *c* by at least the
*t - k* takeovers since, once the *x* revocations queued in front of it are
counted in. `Stamps` makes that *x* a difference of two counts. When the acquire
arrives, *x* is 0, so an equal epoch means *t = k*. The inequality is vacuous
once the epoch has stopped at its maximum, which is exactly why the code never grants
there.

`ViewsAgree` follows from `Told` (the last state event, queued or read, says what the
compositor's epoch and permission are) and from `Behind` with empty queues, which squeezes the daemon's
own count between the epoch it was told and the compositor's.

`HoldsNeedTheGate`, `DeliveryIsAuthorized` and `PermissionIsNotInherited` share
`LeaseInv`. A queued acquire is `Alive` if its epoch is the one the compositor will have
reached once the revocations in front of it are done; all others are refused. An alive
acquire behind the last revocation belongs to the present lease (`HolderKnown`);
acquires with no revocation between them ask for the same lease and epoch (`OneLease`), and so does
what follows an acquire that was granted (`OpenQueue`, `OpenHolder`). An edge comes right
behind the acquire it relies on (`Presses`). The one surprise is `SeatlessLease`: shutdown
destroys the seat and leaves the lease, so the invariant needs that the
gate has then moved past anything the lease could ask for.

**RequestLedger.** `OnceInv` adds to types and the two properties: `Marks` (whatever
was executed in this session is at or below its controller's mark), `Serving` (an
admitted request carries its mark, and has run only if it has an outcome),
`Grounded` (answers are of executed requests) and `Faithful` (a receipt repeats an
answer that was given). The marks are what makes eviction harmless: nothing in
the argument says that a receipt is still there. `LedgerImplementsPromise` uses the same
invariant to map each step to a step of `OnceOnly` or a stutter.

`BooksAreRight` and `WindowIsKept` are about the ring. A slot is named by its age, the distance from
`next` (`Place`, `At`), so that storing a receipt shifts what stays by the number of slots
forgotten, leaves a gap and puts the receipt last (`RingTurns`): modular arithmetic, once.
`Books` says that the bytes counted are the sum of the weights by age. As induction over a set cannot
be cited, each law of sums (splitting, moving, restricting, zeros) is shown by a smallest
counterexample, which the strict subset ordering of a finite set has; `FoldIsSum` ties the
sums to the folds of the model. The loop that makes room ends because an empty ring has room
for any receipt that passed the test (`RoomIsFound`), and stops at the least number, which `Min` returns.
`Window` says what the slots hold of `stored`: something of it each, in its order, with
none missing behind the first, the last receipt always; and, as long as no `History`
receipts in a row were too much, the i-th one at its very age. The last part is what makes one eviction
enough (`OneIsEnough`): the receipts that stay and the new one are a window of `stored`. `Numbered`
(each controller's receipts were stored in the order of their numbers) makes a
receipt name one place in `stored`. Assumed of the constants, besides the limits: `NoRecord` is no receipt.

**SeatInput.** The inductive invariant is `IInv`. `HumanInv` (no human holds anything while
the agent may, or does) is what makes a release on the agent's account harmless to a
human: `HumanSurvives` needs it together with `ReleasedInv`. `HoldInv` ties the
deadlines, the timer and the ghost ages: exactly what the agent holds has a deadline, the timer fires at the
first one, and age and deadline together stay within the longest hold. The timer is armed
for a least element, and the maximum of the hold times exists by assumption; that `Min`
and `Max` return such elements is proved from the well-foundedness of the naturals
(`Least`). `GrabInv`, which knows a drag of the agent for what it is, carries `NeverDrops`;
it fails for a mouse pulled out while down, which is why the property excepts that.
Assumed of the constants: keys and buttons are different things, as the code keeps them in different
arrays; hold times are positive and there is a longest, as `control_hold_timeout_request` clamps them
to 100..10000 ms.

**Operations.** `IInv` relates six books: what was told to the client, the ring of receipts,
the call and its method (`CallInv`), the requests and answers under way, the clipboard, and what really happened.
Its core is `EffectInv`: a request still under way has had no effect and no refusal, and a
refusal, heard or not, means no effect. `DeniedInv` then says that
whatever was reported cancelled or rejected is `Void`: not done, and nothing on its way that
could do it. `OneCall` and `HonestReceipts` are parts of it. `PromiseKept` classifies every
step as one that changes neither outcome nor effect (`Still`), ends the running operation
(`Ending`), accepts one (`Beginning`), or takes effect, and shows that each is that step
of `OperationPromise` under the mapping of section 2; `DeniedInv` is what an effect that comes
late needs. For typed text `TextIsHinted` is: keys of a text are under way, or were let through, only if its receipt counts some
of it (and then claims nothing) or says that the outcome is not known; so the first codepoint let through, be it
long after the text was cancelled and its receipt evicted, meets no denial.

`PermissionIsFresh` is an action property and needs more (`AwareAlways`). Epochs count
two things, takeovers and the daemon's own revocations. `Rank` is an epoch less the
takeovers that were known with it, `Now` the same for the compositor's present epoch, so `Now` counts the
revocations carried out. `KnowInv`: events tell of takeovers in order and of no more
than happened; the last one, queued or read, tells all of them; the daemon's epoch and
that of the operation rank at most `Now` plus the revocations queued. `AskInv`: the
daemon never queues a revocation behind the sync of the running operation, so once the compositor
has answered, nothing but a takeover can change the epoch: the answer has rank `Now`, and none
is under way. The daemon submits if the operation's epoch is the answer's and the latest state's. As
the operation's rank is at most `Now`, it knew of at least as many takeovers as the answer; as
takeovers are learnt in order, of no more. So it is the same number, which is what the property says.

**Capture and ContentHistory.** `OwnInv` says what each place of the loop and each step of the
thread implies for the active capture, its receipt, its pixels and its deadline; to keep it, one must know
that until the pixels are mapped no copy request and no ready event of that frame is under
way (`InFlight`), or an old answer could start a thread on a frame that is not there.
`WorkerOwns` follows. `FileInv` says what the thread has written at each step, and that a file belongs
to a receipt in the slot of its number; `FilesAreTold` follows. For `NoChangeIsMissed`,
`RingInv` says that the ring holds the last `History` commits that were reported, each at its
number modulo `History`, and that the events under way report the following ones in order;
`SinceInv` that the serial a receipt names is that of a commit no later than its picture;
`WaiterInv` that the client's cursor is the serial of a commit not after what it was told. The rest is modular arithmetic:
as the ring is shorter than half the span of serials, a difference of serials below
`History` is a difference of commits, and a larger one is a gap.

**InputBackend.** The queue to the compositor grows without bound, and what is true of it is said
request by request: `Remembered` (each hold, and each press still queued, is a key the backend has down or one
that a later release or revocation in the queue ends), `Announced` (right ahead of each key press its
modifiers, or at the head of the queue the virtual keyboard has them already), `Chords` (two ahead of a chord's key an
acquire which, if it is granted, finds the text on offer), `Sorted` and `Levels` (the epochs of the
acquires, and for each place in the queue an epoch the compositor will have reached, which rises
only at a revocation). Each has a lemma for a batch put behind the queue and one for the head taken
off. `Sendable` is what a batch needs for the first, whatever sent it, and one lemma for each kind of
call shows that its batch is so: for release_all by counting the codes held up to each (`EachIsNth`),
for the chord because its modifiers are Ctrl alone when no key is down. The compositor's end needs that an acquire which meets the seat
allowed is for the current epoch: `Levels` says no later one, `EpochInv` no earlier one, so
permission with an offer is never withdrawn but by a revocation, which also ends the holds and the offer.
`PasteInv` adds that an answer "yes" under way is worthless only if the epoch has moved on, in which case the
chord is refused. The three properties are parts of `IInv` or follow from `Remembered`. `Releases` is a
function on the numbers of its requests, not a fold, so that this can be proved of it.

**WindowScope.** `Sound` says that events describe scenes that were published, the windows of a
scene right before its end, in the queue or already in the pending description, and in the order of their versions. So what the daemon
commits is one whole scene (`SceneInv`), and `LeaseInv` gives `ScopeFollows`. For `TypedAlone`,
`TextInv` follows the scene an operation named through the daemon's backend and the queue,
unless another client's request overwrote it; the compositor compares it with the present scene.

**RpcServer and Hud.** The HUD gives up waiting 180 ms after it wrote and may then click or ask again,
so several of its connections can be under way, in the backlog and in slots. `CallInv`: those that it gave up are
sent whole and left; only the one it waits in may be unsent. `ServedInv`: their responses are taken at once, and poll
finds a slot only when its request is whole. `LastInv`: the connection the HUD waits in is behind all its others in the backlog, and no other is in the
backlog once it is in a slot. For this, accepting must not change the order: the places given to free slots grow with
the slots (`PlacesInOrder`), and each of them is given (`PlacesAreTaken`, a counting argument). It cannot be said of
the slots themselves, as the finding shows; what can be said is that when poll finds the HUD's request
in a slot it finds those given up as well. So when the state is answered nothing else of the HUD is left but clicks
of this very turn (`TruthInv`), and of two clicks under way one is of this turn and the other not accepted yet (`ClicksInv`).

**Left to TLC.** Liveness (`PauseIsAcknowledged`, `TakeoverEndsTyping`, `OperationEnds`,
`CallEnds`, `CaptureEnds`, `ConnectionsEnd`), which rests on fairness and ENABLED and which TLAPS does
not handle. `TextAsCounted`, which needs the keys of a text in the queue counted. `PasteReachedReader`, `TypedAsObserved` and
`ResultingStateRead`, which the code does not satisfy.
`CarriedOutOnce`, `TypeCorrect` and `ClicksAreInOrder`, on the other hand, are proved and no property of a run; the first follows from
`OnceOnlySpec`, which `ledger` checks.

## 6. Plan

Done in this order: ControlGate with proofs, RequestLedger with OnceOnly and proofs,
SeatInput, Operations with SemanticCall and OperationPromise, ContentHistory and Capture,
WindowScope, InputBackend, RpcServer and Hud, then the proofs for ControlGate's remaining
properties, Capture, WindowScope, SeatInput, Operations and Hud, RequestLedger's ring, and
InputBackend. Every invariant of a passing run but `TextAsCounted` is now proved as well; what is left to TLC is
listed at the end of section 5. Next would be a proof of `TextAsCounted`, by the sum of the codepoints let through and
those queued, and the HUD's chat, which uses the same connections.

## 7. Not modelled

* *Collaboration chat and activity*: one thread appends to a ring with increasing ids
  and reads it; a model would restate the assignments.
* *Session lifecycle* (`lifecycle.py`, `bin/run-microhost`): processes, signals, systemd
  scopes and files whose behaviour a model would have to invent. What the other modules need of it, a fresh
  session id for every daemon, is an assumption of RequestLedger.
* *Application lifetime in the compositor*: to the modules here the end of the
  micro-host, after which the daemon ends (`Break` in RpcServer).
* *Input method relay, host clipboard bridge*: they neither use nor change the
  permission, the seat's holds or the scene.
* *GTK dispatch preload*: part of the application, which answers, fails or is late.
* *Drawing, positions and focus*, which wlroots does; the HUD's chat, animation and layout;
  diagnostics, translations and build files; malformed requests, except that they
  change nothing; memory exhaustion.

wlroots, json-c, XKB, GIO and the kernel are external: what is used of them is modelled
from how the code calls them.
