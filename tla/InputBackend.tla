---------------------------- MODULE InputBackend ----------------------------
(***************************************************************************)
(* What the daemon's input backend (native/agentseat-input.c) remembers of *)
(* the keys and buttons it presses for a controller, and what becomes of   *)
(* them at the compositor: the two ends of one Wayland connection.  The    *)
(* backend keeps the set of what it holds and the modifiers these keys     *)
(* imply; it announces modifiers ahead of each key, borrows them for every *)
(* character it types, and sends Ctrl+V when an offered text may be        *)
(* pasted.  Nothing of that is told back to it, and the compositor may     *)
(* refuse or revoke the permission between any two requests.               *)
(*                                                                         *)
(* ControlGate has the permission itself, SeatInput the seat key by key    *)
(* with human and agent side by side, Operations the receipts.             *)
(*                                                                         *)
(* Definitions headed "Mistake" are not part of the specification: each is *)
(* the definition that follows it as a plausible slip would leave it.      *)
(***************************************************************************)
EXTENDS Integers, Sequences, FiniteSets

CONSTANTS
    Keys,         \* key codes
    Buttons,      \* button codes
    Modifiers,    \* those keys that set a modifier, named like the key
    Ctrl, V,      \* the keys of the paste chord, 29 and 47
    Characters,   \* what can be typed: a key and the modifiers of its level
    TextLength,   \* bound: characters of a text
    MaxCalls,     \* bound: methods that ask for input or for the seat
    MaxEpoch,     \* bound: the epoch after the last revocation
    MaxAhead,     \* bound: requests under way when a method sends more
    MaxInFlight   \* bound: events under way when another is volunteered

ASSUME CodesAssumption ==
    /\ Keys \subseteq Nat /\ Buttons \subseteq Nat /\ Keys \cap Buttons = {}
    /\ Modifiers \subseteq Keys /\ Ctrl \in Modifiers /\ V \in Keys \ Modifiers
ASSUME CharactersAssumption ==
    Characters \subseteq [key : Keys \ Modifiers, mods : SUBSET Modifiers]

Inputs == Keys \cup Buttons
None == 0
ASSUME NoneAssumption == None \notin Inputs

VARIABLES
    backend,   \* struct input_state, and what agentseatd.c knows of the gate
    op,        \* the operation agentseatd.c has under way
    calls,     \* methods served so far
    toHost,    \* requests on their way to the compositor
    host,      \* the compositor's seat
    toDaemon,  \* events on their way to the daemon
    app        \* what the application was told

vars == <<backend, op, calls, toHost, host, toDaemon, app>>

NoOp == [kind |-> "none", text |-> <<>>, offered |-> "no", token |-> None]

----------------------------------------------------------------------------
(* Requests, each call's as one sequence: it is flushed at the end of the  *)
(* call.  "meant" goes with a press for the reader of the model only: the  *)
(* modifiers under which the caller wants it read, and "of" what it is part *)
(* of.                                                                     *)

\* acquire_gate, for the epoch of agentseat_input_arm.
Acquired == <<[type |-> "acquire", epoch |-> backend.epoch]>>

\* send_modifiers_to.
Mods(mods) == <<[type |-> "modifiers", mods |-> mods]>>

Sent(i, down, meant, of) ==
    <<[type |-> "input", code |-> i, down |-> down, meant |-> meant, of |-> of]>>

Toggled(set, i, down) == IF down THEN set \cup {i} ELSE set \ {i}

\* update_xkb_key: the modifiers that are down after a key.
ModsAfter(b, i, down) == IF i \in Modifiers THEN Toggled(b.mods, i, down) ELSE b.mods

\* The backend after agentseat_input_key or agentseat_input_button, and what
\* that call sends (send_raw_key): nothing for what is so already.
Pressed(b, i, down) ==
    IF (i \in b.pressed) = down THEN b
    ELSE [b EXCEPT !.pressed = Toggled(@, i, down), !.mods = ModsAfter(b, i, down)]

Presses(b, i, down, of) ==
    IF (i \in b.pressed) = down THEN <<>>
    ELSE (IF i \in Keys THEN Mods(ModsAfter(b, i, down)) ELSE <<>>)
         \o Sent(i, down, IF of = "chord" THEN {Ctrl} ELSE Pressed(b, i, down).pressed \cap Modifiers, of)

\* Mistake: the modifiers stay as they are.
ReleasedKeysOnly(b) == [b EXCEPT !.pressed = {}]

\* release_all: what the backend remembers after it, and what it sends, keys in
\* the order of their codes and then buttons.
Released(b) == [b EXCEPT !.pressed = {}, !.mods = @ \ b.pressed]

\* The n-th code of a set, in the order of the codes.
Nth(S, n) == CHOOSE i \in S : Cardinality({j \in S : j <= i}) = n

Releases(b) ==
    LET keys == b.pressed \cap Keys
        buttons == b.pressed \cap Buttons
        turns == 2 * Cardinality(keys)
        key(n) == Nth(keys, (n + 1) \div 2)
        release(i) == Head(Sent(i, FALSE, {}, "release"))
    IN [n \in 1..(turns + Cardinality(buttons)) |->
           IF n > turns THEN release(Nth(buttons, n - turns))
           ELSE IF n % 2 = 0 THEN release(key(n))
           ELSE Head(Mods(b.mods \ {k \in keys : k <= key(n)}))]

----------------------------------------------------------------------------
(* The daemon's end.                                                       *)

\* require_active and require_input_active, and no operation under way.
Ready ==
    /\ backend.created
    /\ ~backend.paused
    /\ ~backend.humanActive
    /\ op = NoOp

\* The bounds on what is asked for.
Call ==
    /\ calls < MaxCalls
    /\ Len(toHost) <= MaxAhead
    /\ calls' = calls + 1
Send(requests) == toHost' = toHost \o requests

\* keyboard.key and pointer.button.
KeyOrButton(i, down) ==
    /\ Ready
    /\ Call
    /\ Send(Acquired \o Presses(backend, i, down, "key"))
    /\ backend' = Pressed(backend, i, down)
    /\ UNCHANGED <<op, host, toDaemon, app>>

\* pointer.click: both in one method, each with its own acquire_gate.
Click(b) ==
    /\ Ready
    /\ Call
    /\ LET down == Pressed(backend, b, TRUE) IN
       /\ Send(Acquired \o Presses(backend, b, TRUE, "key") \o Acquired \o Presses(down, b, FALSE, "key"))
       /\ backend' = Pressed(down, b, FALSE)
    /\ UNCHANGED <<op, host, toDaemon, app>>

\* keyboard.type: the text is checked as a whole, and typed later.
Type(text) ==
    /\ Ready
    /\ Call
    /\ op' = [kind |-> "type", text |-> text, offered |-> "no", token |-> calls']
    /\ UNCHANGED <<backend, toHost, host, toDaemon, app>>

\* type_codepoint: the modifiers of the character's level take the place of
\* those held, and are given back behind it.
Typed(ch) ==
    Mods(ch.mods) \o Sent(ch.key, TRUE, ch.mods, "text") \o Sent(ch.key, FALSE, {}, "text")
    \o Mods(backend.mods)

\* advance_typing, one character a turn.
AdvanceTyping ==
    /\ op.kind = "type"
    /\ ~backend.humanActive
    /\ Send(Acquired \o Typed(Head(op.text)))
    /\ op' = IF Len(op.text) = 1 THEN NoOp ELSE [op EXCEPT !.text = Tail(@)]
    /\ UNCHANGED <<backend, calls, host, toDaemon, app>>

Offered(token) == <<[type |-> "offer", epoch |-> backend.epoch, token |-> token]>>

\* keyboard.paste: agentseat_input_paste_offer, refused while a key is down.
Paste ==
    /\ Ready
    /\ backend.pressed \cap Keys = {}
    /\ Call
    /\ Send(Acquired \o Offered(calls'))
    /\ op' = [kind |-> "paste", text |-> <<>>, offered |-> "no", token |-> calls']
    /\ UNCHANGED <<backend, host, toDaemon, app>>

\* The four agentseat_input_key calls of advance_typing.
Chord ==
    LET b1 == Pressed(backend, Ctrl, TRUE)
        b2 == Pressed(b1, V, TRUE)
        b3 == Pressed(b2, V, FALSE)
    IN [after |-> Pressed(b3, Ctrl, FALSE),
        sent |-> Acquired \o Presses(backend, Ctrl, TRUE, "chord") \o Acquired \o Presses(b1, V, TRUE, "chord")
                 \o Acquired \o Presses(b2, V, FALSE, "chord") \o Acquired \o Presses(b3, Ctrl, FALSE, "chord")]

\* Mistake: whatever the answer.
AdvancePasteAnyway ==
    /\ op.kind = "paste"
    /\ op.offered \in {"yes", "refused"}
    /\ ~backend.humanActive
    /\ Send(Chord.sent)
    /\ backend' = Chord.after
    /\ op' = [op EXCEPT !.offered = "used"]
    /\ UNCHANGED <<calls, host, toDaemon, app>>

\* advance_typing, once the offer is answered: the chord is sent once, and the
\* operation lasts until the text is read.
AdvancePaste ==
    /\ op.kind = "paste"
    /\ op.offered \in {"yes", "refused"}
    /\ ~backend.humanActive
    /\ IF op.offered = "yes"
       THEN Send(Chord.sent) /\ backend' = Chord.after /\ op' = [op EXCEPT !.offered = "used"]
       ELSE op' = NoOp /\ UNCHANGED <<toHost, backend>>
    /\ UNCHANGED <<calls, host, toDaemon, app>>

\* What else ends an operation in advance_typing: a human, the deadline, the
\* text having been read.
OperationEnds ==
    /\ op # NoOp
    /\ op' = NoOp
    /\ UNCHANGED <<backend, calls, toHost, host, toDaemon, app>>

\* The bound on epochs, revocations under way included.
Revocations(n) ==
    LET coming == Len(SelectSeq(toHost, LAMBDA r : r.type = "revoke")) IN
    host.epoch + coming + n <= MaxEpoch /\ backend.epoch + n <= MaxEpoch

Revoke == <<[type |-> "revoke"]>>

\* revoke_input and agentseat_input_revoke; then more, and the backend becomes b.
Revoking(n, more, b) ==
    /\ Revocations(n)
    /\ op' = NoOp
    /\ Send(Revoke \o Releases(backend) \o more)
    /\ backend' = [b EXCEPT !.epoch = backend.epoch + 1]
    /\ UNCHANGED <<calls, host, toDaemon, app>>

\* control.release, operation.cancel, and the end of a write lease.
RevokeInput == Revoking(1, <<>>, Released(backend))

\* seat.pause and seat.resume (agentseat_input_pause finds nothing to release).
Pause ==
    /\ backend.created
    /\ Revoking(1, <<>>, [Released(backend) EXCEPT !.paused = TRUE])

Resume ==
    /\ backend.created
    /\ backend.paused
    /\ backend' = [backend EXCEPT !.paused = FALSE]
    /\ UNCHANGED <<op, calls, toHost, host, toDaemon, app>>

\* seat.destroy: destroy_seat revokes once more, and the devices go.
Destroy ==
    /\ backend.created
    /\ Revoking(2, Revoke \o <<[type |-> "destroy"]>>,
                [Released(backend) EXCEPT !.created = FALSE, !.paused = TRUE, !.mods = {}])

\* seat.create: create_seat asks for the gate and then for the devices.  When a
\* later step fails the gate stays open for nobody.
Create ==
    /\ ~backend.created
    /\ Call
    /\ \/ /\ Send(Acquired \o <<[type |-> "create"]>> \o Mods({}))
          /\ backend' = [backend EXCEPT !.created = TRUE, !.paused = FALSE]
       \/ /\ Send(Acquired \o <<[type |-> "create"], [type |-> "destroy"]>>)
          /\ UNCHANGED backend
    /\ UNCHANGED <<op, host, toDaemon, app>>

\* sync_control_state after control_state.
Synced(event) ==
    IF event.epoch > backend.epoch
    THEN /\ op' = NoOp
         /\ Send(Releases(backend))
         /\ backend' = [Released(backend) EXCEPT !.epoch = event.epoch,
                                                 !.humanActive = event.active]
    ELSE /\ backend' = [backend EXCEPT !.humanActive = event.active]
         /\ UNCHANGED <<op, toHost>>

\* agentseat_input_dispatch: an event of the compositor.
Dispatch ==
    /\ toDaemon # <<>>
    /\ toDaemon' = Tail(toDaemon)
    /\ LET event == Head(toDaemon) IN
       \/ event.type = "state" /\ Synced(event)
       \/ /\ event.type = "offered"
          /\ op' = IF event.token = op.token THEN [op EXCEPT !.offered = event.answer] ELSE op
          /\ UNCHANGED <<backend, toHost>>
    /\ UNCHANGED <<calls, host, app>>

\* human_remaining_ms runs out.  It was counted from an event, so it may run out
\* early only when a later event is under way or was never sent.
HumanForgotten ==
    /\ backend.humanActive
    /\ host.quiet \/ host.unsaid \/ toDaemon # <<>>
    /\ backend' = [backend EXCEPT !.humanActive = FALSE]
    /\ UNCHANGED <<op, calls, toHost, host, toDaemon, app>>

----------------------------------------------------------------------------
(* The compositor's end.                                                   *)

\* control_send_state.
State(h) == [type |-> "state", epoch |-> h.epoch, active |-> ~h.quiet]

HumanModifiers(h) == IF h.humanHolds THEN Modifiers ELSE {}

\* Mistake: the holds are left for the daemon to release.
RevokedSeatKeepsHolds(h) ==
    [h EXCEPT !.allowed = FALSE, !.epoch = @ + 1, !.offer = FALSE, !.keyboard = "other"]

\* control_revoke: the seat, and the application.
RevokedSeat(h) ==
    [h EXCEPT !.allowed = FALSE, !.epoch = @ + 1, !.held = {}, !.offer = FALSE,
              !.keyboard = "other"]
RevokedApp(h) == [app EXCEPT !.down = {}, !.mods = HumanModifiers(h)]

Take(type) == toHost # <<>> /\ Head(toHost).type = type /\ toHost' = Tail(toHost)

\* control_acquire_request.
HostAcquire ==
    /\ Take("acquire")
    /\ LET granted == Head(toHost).epoch = host.epoch /\ host.quiet /\ ~host.humanHolds
           h == [host EXCEPT !.allowed = granted, !.offer = @ /\ granted]
       IN /\ host' = h
          /\ toDaemon' = IF granted /\ host.allowed THEN toDaemon ELSE Append(toDaemon, State(h))
    /\ UNCHANGED <<backend, op, calls, app>>

\* control_revoke_request.
HostRevoke ==
    /\ Take("revoke")
    /\ host' = RevokedSeat(host)
    /\ app' = RevokedApp(host)
    /\ toDaemon' = Append(toDaemon, State(host'))
    /\ UNCHANGED <<backend, op, calls>>

\* handle_keyboard_group_modifiers: wlroots keeps the virtual keyboard's own
\* modifiers, and calls when they change.
HostModifiers ==
    /\ Take("modifiers")
    /\ LET mods == Head(toHost).mods
           told == mods # host.vk /\ host.allowed
       IN /\ host' = [host EXCEPT !.vk = mods, !.keyboard = IF told THEN "agent" ELSE @]
          /\ app' = [app EXCEPT !.mods = IF told THEN mods ELSE @]
    /\ UNCHANGED <<backend, op, calls, toDaemon>>

\* wlr_seat_set_keyboard, which announces the modifiers of a new keyboard.
ModsWith == IF host.keyboard = "agent" THEN app.mods ELSE host.vk

\* handle_keyboard_group_key and handle_cursor_button of the agent's devices.
HostInput ==
    /\ Take("input")
    /\ LET r == Head(toHost)
           key == r.code \in Keys
           mods == IF key THEN ModsWith ELSE app.mods
       IN IF ~host.allowed THEN UNCHANGED <<host, app>>
          ELSE /\ host' = [host EXCEPT !.held = Toggled(@, r.code, r.down),
                                       !.keyboard = IF key THEN "agent" ELSE @]
               /\ app' = [app EXCEPT
                            !.down = Toggled(@, r.code, r.down), !.mods = mods,
                            !.read = IF key /\ r.down /\ r.code \notin app.down
                                     THEN [of |-> r.of, seen |-> mods, meant |-> r.meant,
                                           offer |-> host.offer]
                                     ELSE @]
    /\ UNCHANGED <<backend, op, calls, toDaemon>>

\* control_clipboard_offer_request.
HostOffer ==
    /\ Take("offer")
    /\ LET r == Head(toHost)
           accepted == host.allowed /\ r.epoch = host.epoch
       IN /\ host' = [host EXCEPT !.offer = @ \/ accepted]
          /\ toDaemon' = Append(toDaemon, [type |-> "offered", token |-> r.token,
                                 answer |-> IF accepted THEN "yes" ELSE "refused"])
    /\ UNCHANGED <<backend, op, calls, app>>

\* handle_virtual_keyboard (cg_keyboard_group_add, handle_new_keyboard), and the
\* destruction of the devices, which hold nothing then.
HostDevices ==
    /\ Take("create") \/ Take("destroy")
    /\ host' = [host EXCEPT !.vk = {}, !.keyboard = "other"]
    /\ app' = [app EXCEPT !.mods = IF host.allowed THEN {} ELSE @]
    /\ UNCHANGED <<backend, op, calls, toDaemon>>

\* report_human_activity, with the human's keys as that leaves them.  In the
\* grace period the daemon is told of it at most every 32 ms.
HumanActs(holds) ==
    LET takeover == host.allowed \/ host.quiet
        h == [(IF takeover THEN RevokedSeat(host) ELSE host)
                EXCEPT !.quiet = FALSE, !.humanHolds = holds]
    IN /\ takeover => Revocations(1)
       /\ Len(toDaemon) < MaxInFlight
       /\ \E told \in {TRUE, takeover} :
            /\ host' = [h EXCEPT !.unsaid = ~told]
            /\ toDaemon' = IF told THEN Append(toDaemon, State(h)) ELSE toDaemon
       /\ app' = [(IF takeover THEN RevokedApp(h) ELSE app) EXCEPT !.mods = HumanModifiers(h)]
       /\ UNCHANGED <<backend, op, calls, toHost>>

\* control_timer_expired.
QuietElapses ==
    /\ ~host.quiet
    /\ Len(toDaemon) < MaxInFlight
    /\ host' = [host EXCEPT !.quiet = TRUE, !.unsaid = FALSE]
    /\ toDaemon' = Append(toDaemon, State(host'))
    /\ UNCHANGED <<backend, op, calls, toHost, app>>

\* hold_timeout_expired.
HoldTimeoutExpired ==
    /\ host.held # {}
    /\ Revocations(1)
    /\ Len(toDaemon) < MaxInFlight
    /\ host' = RevokedSeat(host)
    /\ app' = RevokedApp(host)
    /\ toDaemon' = Append(toDaemon, State(host'))
    /\ UNCHANGED <<backend, op, calls, toHost>>

----------------------------------------------------------------------------
Init ==
    /\ backend = [epoch |-> 1, created |-> FALSE, paused |-> TRUE, humanActive |-> FALSE,
                  pressed |-> {}, mods |-> {}]
    /\ op = NoOp
    /\ calls = 0
    /\ toHost = <<>>
    /\ host = [epoch |-> 1, allowed |-> FALSE, quiet |-> TRUE, humanHolds |-> FALSE,
               unsaid |-> FALSE, held |-> {}, offer |-> FALSE, vk |-> {}, keyboard |-> "other"]
    /\ toDaemon = <<>>
    /\ app = [down |-> {}, mods |-> {},
              read |-> [of |-> "nothing", seen |-> {}, meant |-> {}, offer |-> FALSE]]

Methods ==
    \/ \E i \in Inputs, down \in BOOLEAN : KeyOrButton(i, down)
    \/ \E b \in Buttons : Click(b)
    \/ \E text \in UNION {[1..n -> Characters] : n \in 1..TextLength} : Type(text)
    \/ Paste
    \/ RevokeInput
    \/ Pause
    \/ Resume
    \/ Destroy
    \/ Create

Turn == AdvanceTyping \/ AdvancePaste \/ OperationEnds \/ Dispatch \/ HumanForgotten

Compositor ==
    \/ HostAcquire \/ HostRevoke \/ HostModifiers \/ HostInput \/ HostOffer \/ HostDevices
    \/ \E holds \in BOOLEAN : HumanActs(holds)
    \/ QuietElapses
    \/ HoldTimeoutExpired

Next == Methods \/ Turn \/ Compositor

Spec == Init /\ [][Next]_vars

----------------------------------------------------------------------------
(* What the two ends promise each other.                                   *)

\* A key of the agent is read by the application under the modifiers the caller
\* meant: those of the character it types, Ctrl alone for the paste chord, and
\* otherwise those the caller holds; also after takeovers, refusals and
\* revocations that met the modifiers half way.
ReadAsMeant == app.read.seen = app.read.meant

\* What the compositor holds for the agent, the backend remembers, unless what
\* ends the hold is on its way: so its release_all can always let go of it.
HoldsAreRemembered ==
    host.held \subseteq backend.pressed \cup
        {i \in Inputs : \E n \in DOMAIN toHost :
            \/ toHost[n].type = "revoke"
            \/ toHost[n].type = "input" /\ toHost[n].code = i /\ ~toHost[n].down}

\* The paste chord finds the text that was offered for it, and not something
\* the application kept: its key is never read after the offer was withdrawn.
ChordFindsOffer == app.read.of = "chord" => app.read.offer

=============================================================================
