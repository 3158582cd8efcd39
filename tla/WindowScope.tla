---------------------------- MODULE WindowScope ----------------------------
(***************************************************************************)
(* What the agent may touch: the micro-host (vendor/cage/agentseat-scene.c *)
(* and the gate of seat.c) describes the windows of the application in     *)
(* numbered scenes; the daemon (native/agentseatd.c, agentseat-input.c)    *)
(* keeps window leases and exclusions for the scene it knows, and lets a   *)
(* request name the scene whose coordinates it uses.                       *)
(*                                                                         *)
(* A scene is the set of mapped windows, the focused one and an            *)
(* arrangement, which stands for every position, size and title.  Text     *)
(* operations stand for all input that names a scene.  Who holds the write *)
(* lease, human activity and the rest of the gate are in ControlGate,      *)
(* window actions and the other operations in Operations.                  *)
(*                                                                         *)
(* Definitions headed "Mistake" are not part of the specification.         *)
(***************************************************************************)
EXTENDS Integers, Sequences, FiniteSets, TLC

CONSTANTS
    Windows,      \* windows of the application; ids are not used again
    NoWindow,
    Arrangements,
    MaxChanges,   \* bound: changes of the scene by the application
    TextLength,   \* codepoints of a text operation
    MaxAsked      \* bound: requests of clients

ASSUME ScopeAssumption ==
    /\ NoWindow \notin Windows
    /\ {MaxChanges, TextLength, MaxAsked} \subseteq Nat

VARIABLES
    \* the micro-host
    actual,       \* the windows as they are
    changes,      \* changes so far
    previous,     \* seat->scene->previous, the scene published last
    version,      \* seat->scene->version
    idle,         \* a publication is scheduled
    hostEpoch,    \* seat->control_epoch
    allowed,      \* seat->control_allowed
    \* the connection
    requests,     \* to the micro-host
    events,       \* to the daemon
    \* the daemon
    phase,        \* "dispatch" or "serve": the half of the turn it is in
    pending,      \* self->pending_scene
    scene,        \* self->scene
    known,        \* self->control_epoch
    epoch,        \* state->control_epoch
    sceneVersion, \* state->scene_version
    leases,       \* state->leases
    denied,       \* state->denied_windows
    focused,      \* state->focused_window
    created,      \* state->created
    geometry,     \* self->submit_geometry
    text,         \* state->typing: the text operation
    asked,        \* requests of clients so far
    \* ghosts
    published,    \* the scene of each version
    landed        \* a codepoint that the micro-host's last step gave to a window

hostVars == <<actual, changes, previous, version, idle, hostEpoch, allowed>>
linkVars == <<requests, events>>
sceneVars == <<pending, scene, known>>
scopeVars == <<sceneVersion, leases, focused>>
seatVars == <<epoch, denied, created, geometry, text>>
ghostVars == <<published, landed>>
vars == <<hostVars, linkVars, phase, sceneVars, scopeVars, seatVars, asked, ghostVars>>

Scenes == [windows : SUBSET Windows, focus : Windows \cup {NoWindow}, arrangement : Arrangements]
Proper(s) == s.focus \in s.windows \cup {NoWindow}

NoText == [left |-> 0]
\* named: the scene the request named, 0 none; replaced: another request has
\* stored another one since.
NoLanding == [named |-> 0, replaced |-> FALSE, in |-> [windows |-> {}]]

Init ==
    /\ \E s \in Scenes :
        /\ Proper(s) /\ Cardinality(s.windows) <= 1
        /\ actual = s /\ previous = s /\ published = <<s>>
        /\ scene = [windows |-> s.windows, focus |-> s.focus, arrangement |-> s.arrangement,
                    version |-> 1]
        /\ pending = scene
    /\ changes = 0 /\ version = 1 /\ idle = FALSE
    /\ hostEpoch = 1 /\ allowed = FALSE
    /\ requests = <<>> /\ events = <<>>
    /\ phase = "dispatch"
    /\ known = 1 /\ epoch = 1
    /\ sceneVersion = 0 /\ leases = {} /\ focused = NoWindow
    /\ denied = {} /\ created = FALSE /\ geometry = 0 /\ text = NoText
    /\ asked = 0
    /\ landed = NoLanding

----------------------------------------------------------------------------
(* The micro-host.                                                         *)

\* scene_begin and every window_info, then scene_done.
SceneEvents(s, v) ==
    <<[kind |-> "windows", version |-> v, windows |-> s.windows],
      [kind |-> "done", version |-> v, focus |-> s.focus, arrangement |-> s.arrangement]>>

StateEvent(e) == [kind |-> "state", epoch |-> e]

\* publish: a scene that differs from the last one gets a version and is sent.
NewVersion == IF actual # previous THEN version + 1 ELSE version
NewEvents == IF actual # previous THEN SceneEvents(actual, version + 1) ELSE <<>>
Publish ==
    /\ previous' = actual
    /\ version' = NewVersion
    /\ published' = IF actual # previous THEN Append(published, actual) ELSE published

\* The application maps, unmaps, focuses or arranges its windows, and
\* cg_scene_changed schedules a publication.
Change ==
    /\ changes < MaxChanges
    /\ changes' = changes + 1
    /\ \E s \in Scenes \ {actual} : Proper(s) /\ actual' = s
    /\ idle' = TRUE
    /\ landed' = NoLanding
    /\ UNCHANGED <<previous, version, hostEpoch, allowed, linkVars, phase, sceneVars, scopeVars,
                   seatVars, asked, published>>

PublishIdle ==
    /\ idle
    /\ idle' = FALSE
    /\ Publish
    /\ events' = events \o NewEvents
    /\ landed' = NoLanding
    /\ UNCHANGED <<actual, changes, hostEpoch, allowed, requests, phase, sceneVars, scopeVars,
                   seatVars, asked>>

\* control_revoke, and the state that is sent after it
Revoked(sent) ==
    /\ allowed' = FALSE
    /\ hostEpoch' = hostEpoch + 1
    /\ events' = sent \o <<StateEvent(hostEpoch + 1)>>

TakeRevoke ==
    /\ requests # <<>> /\ Head(requests).kind = "revoke"
    /\ requests' = Tail(requests)
    /\ Revoked(events)
    /\ landed' = NoLanding
    /\ UNCHANGED <<actual, changes, previous, version, idle, phase, sceneVars, scopeVars, seatVars,
                   asked, published>>

\* control_acquire_request; the codepoint in the same flush lands if it may.
Acquired(r, sent) ==
    /\ allowed' = (r.epoch = hostEpoch)
    /\ events' = IF allowed' # allowed \/ ~allowed' THEN sent \o <<StateEvent(hostEpoch)>> ELSE sent
    /\ landed' = IF allowed' /\ r.kind = "codepoint" /\ actual.focus # NoWindow
                 THEN [named |-> r.named, replaced |-> r.replaced, in |-> actual]
                 ELSE NoLanding
    /\ UNCHANGED hostEpoch

\* Mistake: a publication that is scheduled is not taken into account.
CheckedVersionPlain == version

\* cg_scene_current_version: what is due is published before the comparison.
CheckedVersion == NewVersion

\* control_acquire_geometry_request if a scene is named, else the plain request.
TakeAcquire ==
    /\ requests # <<>> /\ Head(requests).kind \in {"acquire", "codepoint"}
    /\ requests' = Tail(requests)
    /\ LET r == Head(requests)
       IN \/ r.geometry = 0 /\ Acquired(r, events) /\ UNCHANGED <<previous, version, published>>
          \/ /\ r.geometry # 0
             /\ Publish
             /\ IF r.geometry # CheckedVersion
                THEN Revoked(events \o NewEvents) /\ landed' = NoLanding
                ELSE Acquired(r, events \o NewEvents)
    /\ UNCHANGED <<actual, changes, idle, phase, sceneVars, scopeVars, seatVars, asked>>

----------------------------------------------------------------------------
(* The first half of the daemon's turn: events, in batches of any length.  *)

Dispatches(kind) ==
    /\ phase = "dispatch" /\ events # <<>> /\ Head(events).kind = kind
    /\ events' = Tail(events)

DispatchUnchanged == <<hostVars, requests, phase, scopeVars, seatVars, asked, ghostVars>>

ControlState ==
    /\ Dispatches("state")
    /\ known' = Head(events).epoch
    /\ UNCHANGED <<DispatchUnchanged, pending, scene>>

\* Mistake: the scene in use is rewritten while its description arrives.
SceneDescribedInPlace ==
    /\ pending' = [pending EXCEPT !.version = Head(events).version, !.windows = Head(events).windows]
    /\ scene' = pending'

\* The scene in use is left alone until the new one is complete.
SceneDescribed ==
    /\ pending' = [pending EXCEPT !.version = Head(events).version, !.windows = Head(events).windows]
    /\ UNCHANGED scene

\* scene_begin and window_info
SceneWindows ==
    /\ Dispatches("windows")
    /\ SceneDescribed
    /\ UNCHANGED <<DispatchUnchanged, known>>

SceneDone ==
    /\ Dispatches("done")
    /\ pending' = [pending EXCEPT !.version = Head(events).version, !.focus = Head(events).focus,
                                  !.arrangement = Head(events).arrangement]
    /\ scene' = pending'
    /\ UNCHANGED <<DispatchUnchanged, known>>

\* Windows that appear are leased, excluded ones stay excluded.
Leasable == scene.windows \ denied

\* The scene's part of sync_control_state.
SyncScene(isCreated, synced) ==
    /\ sceneVersion' = scene.version
    /\ IF scene.version # synced
       THEN leases' = (IF isCreated THEN Leasable ELSE {}) /\ focused' = scene.focus
       ELSE UNCHANGED <<leases, focused>>

\* sync_control_state ends the first half.
Sync ==
    /\ phase = "dispatch" /\ phase' = "serve"
    /\ SyncScene(created, sceneVersion)
    /\ IF known > epoch THEN epoch' = known /\ text' = NoText ELSE UNCHANGED <<epoch, text>>
    /\ UNCHANGED <<hostVars, linkVars, sceneVars, denied, created, geometry, asked, ghostVars>>

----------------------------------------------------------------------------
(* The second half: requests of clients.                                   *)

Serves == phase = "serve" /\ phase' = phase /\ asked < MaxAsked /\ asked' = asked + 1
ServeUnchanged == <<hostVars, events, sceneVars, ghostVars>>

\* revoke_input, with what the caller has sent before
RevokeInput(more) ==
    /\ epoch' = epoch + 1
    /\ text' = NoText
    /\ requests' = requests \o <<[kind |-> "revoke"]>> \o more

\* agentseat_input_create acquires with the scene named last, then the leases
\* are made anew.
SeatCreate ==
    /\ Serves /\ ~created
    /\ created' = TRUE
    /\ requests' = Append(requests, [kind |-> "acquire", epoch |-> known, geometry |-> geometry])
    /\ SyncScene(TRUE, 0)
    /\ UNCHANGED <<ServeUnchanged, epoch, denied, geometry, text>>

\* seat.destroy: the input is revoked, and again with the devices.
SeatDestroy ==
    /\ Serves /\ created
    /\ RevokeInput(<<[kind |-> "revoke"]>>)
    /\ created' = FALSE /\ leases' = {} /\ focused' = NoWindow
    /\ UNCHANGED <<ServeUnchanged, sceneVersion, denied, geometry>>

\* window.release
Release(w) ==
    /\ Serves /\ created
    /\ w \in scene.windows \cap leases
    /\ denied' = denied \cup {w}
    /\ leases' = leases \ {w}
    /\ IF focused = w THEN RevokeInput(<<>>) ELSE UNCHANGED <<epoch, text, requests>>
    /\ UNCHANGED <<ServeUnchanged, sceneVersion, focused, created, geometry>>

\* window.lease; one that changes nothing is left out.
Lease(w) ==
    /\ Serves /\ created
    /\ w \in scene.windows \ leases
    /\ denied' = denied \ {w}
    /\ leases' = leases \cup {w}
    /\ UNCHANGED <<ServeUnchanged, requests, sceneVersion, focused, epoch, created, geometry, text>>

\* The scene a request may name: none, or the one the daemon knows.
Namable == {0, scene.version}

\* keyboard.type of the writer
Type(g) ==
    /\ Serves /\ created
    /\ text = NoText /\ focused \in leases
    /\ geometry' = g
    /\ text' = [left |-> TextLength, epoch |-> epoch, named |-> g, replaced |-> FALSE]
    /\ UNCHANGED <<ServeUnchanged, requests, scopeVars, epoch, denied, created>>

\* A write without the lease, at an old epoch or during a text operation: what
\* it names is stored before it is refused (left out if that changes nothing).
Refuse(g) ==
    /\ Serves /\ g # geometry
    /\ geometry' = g
    /\ text' = IF text = NoText THEN text ELSE [text EXCEPT !.replaced = TRUE]
    /\ UNCHANGED <<ServeUnchanged, requests, scopeVars, epoch, denied, created>>

\* advance_typing ends the turn: one codepoint, with the scene stored last.
Advance ==
    /\ phase = "serve" /\ phase' = "dispatch"
    /\ IF text = NoText \/ text.epoch # epoch
       THEN text' = NoText /\ UNCHANGED requests
       ELSE /\ requests' = Append(requests,
                    [kind |-> "codepoint", epoch |-> text.epoch, geometry |-> geometry,
                     named |-> text.named, replaced |-> text.replaced])
            /\ text' = IF text.left = 1 THEN NoText ELSE [text EXCEPT !.left = @ - 1]
    /\ UNCHANGED <<ServeUnchanged, scopeVars, epoch, denied, created, geometry, asked>>

----------------------------------------------------------------------------

Dispatch == ControlState \/ SceneWindows \/ SceneDone

Next ==
    \/ Change \/ PublishIdle \/ TakeRevoke \/ TakeAcquire
    \/ Dispatch \/ Sync
    \/ SeatCreate \/ SeatDestroy
    \/ \E w \in Windows : Release(w) \/ Lease(w)
    \/ \E g \in Namable : Type(g) \/ Refuse(g)
    \/ Advance

Spec == Init /\ [][Next]_vars

----------------------------------------------------------------------------

ScopeTypeOK ==
    /\ {actual, previous} \subseteq Scenes
    /\ version = Len(published) /\ sceneVersion \in 0..version
    /\ scene.version \in 1..version /\ pending.version \in 1..version
    /\ leases \subseteq Windows /\ denied \subseteq Windows
    /\ focused \in Windows \cup {NoWindow}
    /\ known <= hostEpoch
    /\ phase \in {"dispatch", "serve"}
    /\ geometry \in 0..version

\* Whenever the daemon serves requests, the scene it uses is one the micro-host
\* published under that number, whole, and exactly the windows of it that are not
\* excluded are leased: a window that appears is included, an exclusion outlives
\* every refresh and every new seat, and no seat means no lease
\* (native/agentseatd.c, sync_control_state; docs/PROTOCOL.md: "Explicit
\* exclusions remain in effect across scene refreshes").
ScopeFollowsScene ==
    /\ ScopeTypeOK
    /\ phase = "serve" =>
        /\ [f \in DOMAIN actual |-> scene[f]] = published[scene.version]
        /\ leases = IF created THEN scene.windows \ denied ELSE {}

\* A codepoint of an operation that named a scene lands only while the windows
\* are as that scene had them, however late the publication of a change is
\* (vendor/cage/seat.c, control_acquire_geometry_request; docs/PROTOCOL.md: "The
\* compositor checks it again at final acquisition").
TypedAsObserved == landed.named # 0 => landed.in = published[landed.named]

\* The same for an operation during which no refused request of another client
\* has replaced the scene that was named.
TypedAsObservedAlone == ~landed.replaced => TypedAsObserved
=============================================================================
