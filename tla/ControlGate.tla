---------------------------- MODULE ControlGate ----------------------------
(***************************************************************************)
(* The input gate: who may send input to the application, decided by the   *)
(* micro-host compositor (vendor/cage/seat.c) and driven by the daemon     *)
(* (native/agentseatd.c through native/agentseat-input.c) over one Wayland *)
(* connection, agentseat_control_v1, which is FIFO in each direction.      *)
(*                                                                         *)
(* The compositor owns the permission (allowed) and its epoch.  Human      *)
(* input revokes the permission and moves the epoch before the daemon can  *)
(* know; every request of the daemon carries the epoch it believes in, so  *)
(* a request that was queued before a takeover must die in the queue.      *)
(*                                                                         *)
(* Time is abstracted to the tests the code makes on it: quiet is          *)
(* "now >= human_until_msec", seen.quiet is the daemon's own countdown,    *)
(* leaseLive is "now < writer_deadline".  All keys and buttons of one side *)
(* are one abstract hold here; SeatInput tells them apart.                *)
(*                                                                         *)
(* Definitions headed "Mistake" are not part of the specification: each is *)
(* the definition that follows it as a plausible slip would leave it.      *)
(***************************************************************************)
EXTENDS Integers, Sequences

CONSTANTS
    Controllers,   \* controller_id values
    NoWriter,      \* the empty writer_id
    EpochMax,      \* UINT32_MAX, where the compositor's epoch saturates
    MaxTakeovers,  \* bound: revocations the compositor starts by itself
    MaxRevokes,    \* bound: revocations the daemon's callers ask for
    MaxLeases,     \* bound: write leases handed out
    MaxStarts,     \* bound: daemons started against this compositor
    MaxInFlight    \* bound: messages under way when another is volunteered

ASSUME NoWriterAssumption == NoWriter \notin Controllers
ASSUME EpochAssumption == EpochMax \in Nat /\ EpochMax > 1
ASSUME BoundsAssumption ==
    /\ MaxTakeovers \in Nat
    /\ MaxRevokes \in Nat
    /\ MaxLeases \in Nat
    /\ MaxStarts \in Nat
    /\ MaxInFlight \in Nat

VARIABLES
    epoch,         \* compositor: seat->control_epoch
    allowed,       \* compositor: seat->control_allowed
    quiet,         \* compositor: now >= seat->human_until_msec
    timer,         \* compositor: control_timer is armed
    humanHeld,     \* compositor: human_held(seat)
    virtualHeld,   \* compositor: a virtual key or button is held
    owned,         \* compositor: seat->control_resource is bound
    toComp,        \* requests on their way to the compositor
    toDaemon,      \* state events on their way to the daemon
    running,       \* daemon: the process is alive
    phase,         \* daemon: where run_server's turn stands
    seen,          \* daemon: the last state event, as input_state keeps it
    controlEpoch,  \* daemon: state.control_epoch (64 bits)
    created,       \* daemon: state.created
    paused,        \* daemon: state.paused
    quit,          \* daemon: state.quit
    writer,        \* daemon: state.writer_id
    nextLease,     \* daemon: state.next_lease, the current lease if any
    leaseLive,     \* daemon: now < state.writer_deadline
    pressed,       \* daemon: pressed_keys / pressed_buttons of input_state
    typing,        \* daemon: epoch of the active text operation, 0 if none
    takeovers,     \* ghost: revocations the daemon did not ask for
    revsSent,      \* ghost: revoke requests sent
    revsDone,      \* ghost: revoke requests processed (or lost with the link)
    grant,         \* ghost: knowledge and lease behind the last permission
    starts         \* counts daemons started, for MaxStarts

compVars == <<epoch, allowed, quiet, timer, humanHeld, virtualHeld, owned>>
leaseVars == <<writer, nextLease, leaseLive>>
seatVars == <<created, paused, quit>>
daemonVars == <<running, phase, seen, controlEpoch, created, paused, quit,
                writer, nextLease, leaseLive, pressed, typing>>
ghostVars == <<takeovers, revsSent, revsDone, grant, starts>>
vars == <<compVars, toComp, toDaemon, daemonVars, ghostVars>>

Kinds == {"acquire", "revoke", "press", "release"}

RequestType == [kind : Kinds, epoch : Nat, known : Nat, stamp : Nat, lease : Nat]

StateType == [epoch : Nat, allowed : BOOLEAN, quiet : BOOLEAN,
              held : BOOLEAN, known : Nat]

----------------------------------------------------------------------------
(* The compositor.                                                         *)

\* control_send_state: nothing is sent without a bound resource.  held is
\* what human_held() answers at the moment of the call.
SendState(held) ==
    toDaemon' =
        IF owned /\ running
        THEN Append(toDaemon, [epoch |-> epoch', allowed |-> allowed',
                               quiet |-> quiet', held |-> held,
                               known |-> takeovers'])
        ELSE toDaemon

NoGrant == [known |-> 0, lease |-> 0]

Bump == IF epoch < EpochMax THEN epoch + 1 ELSE epoch

\* Mistake: the virtual keys stay down.
ControlRevokeKeepsHolds ==
    /\ allowed' = FALSE
    /\ grant' = NoGrant
    /\ epoch' = Bump
    /\ UNCHANGED virtualHeld

\* control_revoke: permission, epoch and every virtual hold go together.
ControlRevoke ==
    /\ allowed' = FALSE
    /\ grant' = NoGrant
    /\ epoch' = Bump
    /\ virtualHeld' = FALSE

Pending(kind) == owned /\ toComp # <<>> /\ Head(toComp).kind = kind

\* Bound: who is free to speak does so only while few messages are under way.
\* What must be done (process, take over, adopt, expire) is never held back.
Room == Len(toComp) + Len(toDaemon) < MaxInFlight

\* Mistakes: one of the four conditions is forgotten.
GrantedAtTheEnd(m) == m.epoch = epoch /\ quiet /\ ~humanHeld
GrantedWhileHeld(m) == m.epoch = epoch /\ m.epoch # EpochMax /\ quiet

\* The test of control_acquire_request.
Granted(m) ==
    /\ m.epoch = epoch
    /\ m.epoch # EpochMax
    /\ quiet
    /\ ~humanHeld

\* control_acquire_request, also reached from control_acquire_geometry_request
\* when the scene has not moved.  A refusal closes the gate, but is not a
\* revocation: the epoch and the virtual holds stay.
ProcessAcquire ==
    /\ Pending("acquire")
    /\ LET m == Head(toComp) IN
       /\ allowed' = Granted(m)
       /\ grant' = IF Granted(m) THEN [known |-> m.known, lease |-> m.lease] ELSE NoGrant
    /\ toComp' = Tail(toComp)
    /\ UNCHANGED <<epoch, quiet, timer, humanHeld, virtualHeld, owned>>
    /\ UNCHANGED <<daemonVars, takeovers, revsSent, revsDone, starts>>
    /\ IF allowed' = allowed /\ allowed' THEN UNCHANGED toDaemon ELSE SendState(humanHeld)

\* control_acquire_geometry_request when the scene moved since the caller
\* looked: a revocation that nobody asked for.  Any acquire may carry a
\* geometry (submit_geometry is the caller's choice) and any may be too old.
ProcessStaleAcquire ==
    /\ Pending("acquire")
    /\ takeovers < MaxTakeovers
    /\ ControlRevoke
    /\ takeovers' = takeovers + 1
    /\ toComp' = Tail(toComp)
    /\ UNCHANGED <<quiet, timer, humanHeld, owned>>
    /\ UNCHANGED <<daemonVars, revsSent, revsDone, starts>>
    /\ SendState(humanHeld)

\* Mistake: the daemon is not told that its request was carried out.
ProcessRevokeSilently ==
    /\ Pending("revoke")
    /\ ControlRevoke
    /\ revsDone' = revsDone + 1
    /\ toComp' = Tail(toComp)
    /\ UNCHANGED <<quiet, timer, humanHeld, owned, toDaemon>>
    /\ UNCHANGED <<daemonVars, takeovers, revsSent, starts>>

\* control_revoke_request.
ProcessRevoke ==
    /\ Pending("revoke")
    /\ ControlRevoke
    /\ revsDone' = revsDone + 1
    /\ toComp' = Tail(toComp)
    /\ UNCHANGED <<quiet, timer, humanHeld, owned>>
    /\ UNCHANGED <<daemonVars, takeovers, revsSent, starts>>
    /\ SendState(humanHeld)

\* The virtual keyboard or pointer: handle_keyboard_group_key and
\* handle_cursor_button drop the event unless the gate is open.
ProcessPress ==
    /\ Pending("press")
    /\ virtualHeld' = (allowed \/ virtualHeld)
    /\ toComp' = Tail(toComp)
    /\ UNCHANGED <<epoch, allowed, quiet, timer, humanHeld, owned, toDaemon>>
    /\ UNCHANGED <<daemonVars, ghostVars>>

ProcessRelease ==
    /\ Pending("release")
    /\ virtualHeld' = (virtualHeld /\ ~allowed)
    /\ toComp' = Tail(toComp)
    /\ UNCHANGED <<epoch, allowed, quiet, timer, humanHeld, owned, toDaemon>>
    /\ UNCHANGED <<daemonVars, ghostVars>>

\* report_human_activity.  Reports less than 32 ms apart are not sent unless
\* they take over, which is the nondeterministic half of the last conjunct.
Takeover == allowed \/ quiet

\* Mistake: the 32 ms limit on reports applies to takeovers too.
ReportHumanActivityRarely(held) ==
    /\ IF Takeover THEN takeovers < MaxTakeovers ELSE Room
    /\ IF Takeover
       THEN ControlRevoke /\ takeovers' = takeovers + 1
       ELSE UNCHANGED <<allowed, grant, epoch, virtualHeld, takeovers>>
    /\ quiet' = FALSE
    /\ timer' = TRUE
    /\ UNCHANGED <<owned, toComp, daemonVars, revsSent, revsDone, starts>>
    /\ SendState(held) \/ UNCHANGED toDaemon

ReportHumanActivity(held) ==
    /\ IF Takeover THEN takeovers < MaxTakeovers ELSE Room
    /\ IF Takeover
       THEN ControlRevoke /\ takeovers' = takeovers + 1
       ELSE UNCHANGED <<allowed, grant, epoch, virtualHeld, takeovers>>
    /\ quiet' = FALSE
    /\ timer' = TRUE
    /\ UNCHANGED <<owned, toComp, daemonVars, revsSent, revsDone, starts>>
    /\ SendState(held) \/ (~Takeover /\ UNCHANGED toDaemon)

\* Physical keys, modifiers and buttons are recorded before they are
\* reported (handle_keyboard_group_key, handle_cursor_button); closing the
\* window by the keyboard reports and leaves the holds as they are.
HumanKey ==
    \E held \in BOOLEAN :
        /\ humanHeld' = held
        /\ ReportHumanActivity(held)

\* Touch is reported first and changes touch_points afterwards.
HumanTouch ==
    \E held \in BOOLEAN :
        /\ humanHeld' = held
        /\ ReportHumanActivity(humanHeld)

\* handle_cursor_axis: the wheel never takes over; it prolongs a takeover.
HumanWheel ==
    /\ ~allowed
    /\ ~quiet
    /\ UNCHANGED humanHeld
    /\ ReportHumanActivity(humanHeld)

\* handle_pointer_destroy: the holds of an unplugged pointer vanish and
\* nothing is reported.
HumanUnplug ==
    /\ humanHeld
    /\ humanHeld' = FALSE
    /\ UNCHANGED <<epoch, allowed, quiet, timer, virtualHeld, owned>>
    /\ UNCHANGED <<toComp, toDaemon, daemonVars, ghostVars>>

\* hold_timeout_expired: armed exactly while a virtual hold has a deadline.
HoldTimeoutExpired ==
    /\ virtualHeld
    /\ takeovers < MaxTakeovers
    /\ ControlRevoke
    /\ takeovers' = takeovers + 1
    /\ UNCHANGED <<quiet, timer, humanHeld, owned, toComp>>
    /\ UNCHANGED <<daemonVars, revsSent, revsDone, starts>>
    /\ SendState(humanHeld)

\* The grace period ends; the timer fires no earlier than that.
QuietElapses ==
    /\ ~quiet
    /\ quiet' = TRUE
    /\ UNCHANGED <<epoch, allowed, timer, humanHeld, virtualHeld, owned>>
    /\ UNCHANGED <<toComp, toDaemon, daemonVars, ghostVars>>

\* control_quiet_timer.
ControlQuietTimer ==
    /\ timer
    /\ quiet
    /\ Room
    /\ timer' = FALSE
    /\ UNCHANGED <<epoch, allowed, quiet, humanHeld, virtualHeld, owned>>
    /\ UNCHANGED <<toComp, daemonVars, ghostVars>>
    /\ SendState(humanHeld)

\* control_resource_destroy, when the connection of a dead daemon is found
\* closed.  Requests still unread are lost.
ControlResourceDestroy ==
    /\ owned
    /\ ~running
    /\ owned' = FALSE
    /\ ControlRevoke
    /\ takeovers' = takeovers + 1
    /\ revsDone' = revsSent
    /\ toComp' = <<>>
    /\ UNCHANGED <<quiet, timer, humanHeld, toDaemon, daemonVars>>
    /\ UNCHANGED <<revsSent, starts>>

ProcessRequest ==
    \/ ProcessAcquire
    \/ ProcessStaleAcquire
    \/ ProcessRevoke
    \/ ProcessPress
    \/ ProcessRelease

Human ==
    \/ HumanKey
    \/ HumanTouch
    \/ HumanWheel
    \/ HumanUnplug

Compositor ==
    \/ ProcessRequest
    \/ Human
    \/ HoldTimeoutExpired
    \/ QuietElapses
    \/ ControlQuietTimer
    \/ ControlResourceDestroy

----------------------------------------------------------------------------
(* The daemon: one poll loop, one turn at a time.  A turn sweeps an expired *)
(* lease ("top"), reads state events and adopts what they say ("poll"),    *)
(* serves RPC requests ("serve") and advances the text operation.          *)

Turn(p) == running /\ phase = p

\* human_remaining_ms > 0.
HumanActive == ~seen.quiet \/ seen.held

\* require_active and require_writer.
Active == created /\ ~paused /\ ~HumanActive
Authorized(c) == writer = c /\ leaseLive

\* The uint32_t argument of the acquire request.
Wire(e) == e % (EpochMax + 1)

\* The lease a request is sent under; 0 when nobody holds one.
CurrentLease == IF writer = NoWriter THEN 0 ELSE nextLease

Request(kind, e, r) ==
    [kind |-> kind, epoch |-> e, stamp |-> r,
     known |-> IF kind \in {"acquire", "press"} THEN seen.known ELSE 0,
     lease |-> IF kind \in {"acquire", "press"} THEN CurrentLease ELSE 0]

MayRevoke == revsSent < MaxRevokes

\* acquire_gate, with or without submit_geometry.
AcquireGate(q, e) == Append(q, Request("acquire", e, revsSent))
PressEvent(q) == Append(q, Request("press", 0, revsSent))
ReleaseEvent(q, r) == Append(q, Request("release", 0, r))
RevokeRequest(q, r) == Append(q, Request("revoke", 0, r))

\* release_all lifts only what input_state remembers as pressed.
ReleaseAll(q, r) == IF pressed THEN ReleaseEvent(q, r) ELSE q

\* agentseat_input_revoke.
Revoked == ReleaseAll(RevokeRequest(toComp, revsSent), revsSent + 1)

\* Mistake: the text operation outlives its lease.
DropWriterOnly ==
    /\ writer' = NoWriter
    /\ leaseLive' = FALSE
    /\ pressed' = FALSE
    /\ UNCHANGED typing

\* revoke_input, and the cancellation half of sync_control_state.
DropWriter ==
    /\ writer' = NoWriter
    /\ leaseLive' = FALSE
    /\ typing' = 0
    /\ pressed' = FALSE

\* Mistake: the daemon does not count its own revocation.
RevokeInputUncounted ==
    /\ DropWriter
    /\ toComp' = Revoked
    /\ revsSent' = revsSent + 1
    /\ UNCHANGED <<compVars, toDaemon, running, seen, nextLease, controlEpoch>>
    /\ UNCHANGED <<takeovers, revsDone, grant, starts>>

RevokeInput ==
    /\ controlEpoch' = controlEpoch + 1
    /\ DropWriter
    /\ toComp' = Revoked
    /\ revsSent' = revsSent + 1
    /\ UNCHANGED <<compVars, toDaemon, running, seen, nextLease>>
    /\ UNCHANGED <<takeovers, revsDone, grant, starts>>

\* Mistake: an expired lease is forgotten without closing the gate.
ExpireWriterOnly ==
    /\ Turn("top")
    /\ phase' = "poll"
    /\ IF writer # NoWriter /\ ~leaseLive
       THEN DropWriter
       ELSE UNCHANGED <<writer, leaseLive, typing, pressed>>
    /\ UNCHANGED <<compVars, toComp, toDaemon, running, seen, controlEpoch, seatVars,
                   nextLease, ghostVars>>

\* run_server, top of the loop: an expired lease is swept.
ExpireWriter ==
    /\ Turn("top")
    /\ phase' = "poll"
    /\ IF writer # NoWriter /\ ~leaseLive
       THEN RevokeInput /\ UNCHANGED seatVars
       ELSE UNCHANGED <<compVars, toComp, toDaemon, running, seen, controlEpoch, seatVars,
                        leaseVars, pressed, typing, ghostVars>>

\* control_state: the listener keeps the last event.
ControlState ==
    /\ Turn("poll")
    /\ toDaemon # <<>>
    /\ seen' = Head(toDaemon)
    /\ toDaemon' = Tail(toDaemon)
    /\ UNCHANGED <<compVars, toComp, running, phase, controlEpoch, seatVars,
                   leaseVars, pressed, typing, ghostVars>>

\* sync_control_state: a newer epoch ends whatever was going on.  The local
\* releases are sent, no revoke is: the compositor already did it.
SyncControlState ==
    /\ Turn("poll")
    /\ phase' = "serve"
    /\ IF seen.epoch > controlEpoch
       THEN /\ controlEpoch' = seen.epoch
            /\ toComp' = ReleaseAll(toComp, revsSent)
            /\ DropWriter
       ELSE UNCHANGED <<controlEpoch, toComp, writer, leaseLive, typing, pressed>>
    /\ UNCHANGED <<compVars, toDaemon, running, seen, seatVars, nextLease, ghostVars>>

\* control.acquire (and control.renew, which asks for more and does less):
\* the holder extends its lease, even one that ran out but is not yet swept.
AcquireControl(c) ==
    /\ Turn("serve")
    /\ Active
    /\ writer \in {NoWriter, c}
    /\ writer = NoWriter => nextLease < MaxLeases
    /\ writer' = c
    /\ nextLease' = IF writer = NoWriter THEN nextLease + 1 ELSE nextLease
    /\ leaseLive' = TRUE
    /\ UNCHANGED <<compVars, toComp, toDaemon, running, phase, seen, controlEpoch,
                   seatVars, pressed, typing, ghostVars>>

\* control.release.
ReleaseControl(c) ==
    /\ Turn("serve")
    /\ Authorized(c)
    /\ MayRevoke
    /\ RevokeInput
    /\ UNCHANGED <<phase, seatVars>>

\* operation.cancel of the active operation, by anyone.
CancelOperation ==
    /\ Turn("serve")
    /\ typing # 0
    /\ MayRevoke
    /\ RevokeInput
    /\ UNCHANGED <<phase, seatVars>>

\* window.release of the focused window.
ReleaseWindow ==
    /\ Turn("serve")
    /\ created
    /\ MayRevoke
    /\ RevokeInput
    /\ UNCHANGED <<phase, seatVars>>

\* seat.pause: emergency stop, asks for no lease.
Pause ==
    /\ Turn("serve")
    /\ created
    /\ MayRevoke
    /\ RevokeInput
    /\ paused' = TRUE
    /\ UNCHANGED <<phase, created, quit>>

\* seat.resume: permission is not restored, only the daemon's own switch.
Resume ==
    /\ Turn("serve")
    /\ created
    /\ paused' = FALSE
    /\ UNCHANGED <<compVars, toComp, toDaemon, running, phase, seen, controlEpoch,
                   created, quit, leaseVars, pressed, typing, ghostVars>>

\* seat.create asks for the gate with the epoch of the last event, and may
\* still fail afterwards, leaving the request behind.
CreateSeat ==
    /\ Turn("serve")
    /\ ~created
    /\ Room
    /\ toComp' = AcquireGate(toComp, seen.epoch)
    /\ \/ created' = TRUE /\ paused' = FALSE
       \/ UNCHANGED <<created, paused>>
    /\ UNCHANGED <<compVars, toDaemon, running, phase, seen, controlEpoch, quit,
                   leaseVars, pressed, typing, ghostVars>>

\* seat.destroy: revoke_input, then destroy_seat revokes once more.
DestroySeat ==
    /\ Turn("serve")
    /\ MayRevoke
    /\ controlEpoch' = controlEpoch + 1
    /\ DropWriter
    /\ toComp' = IF created THEN RevokeRequest(Revoked, revsSent + 1) ELSE Revoked
    /\ revsSent' = IF created THEN revsSent + 2 ELSE revsSent + 1
    /\ created' = FALSE
    /\ paused' = TRUE
    /\ UNCHANGED <<compVars, toDaemon, running, phase, seen, nextLease, quit>>
    /\ UNCHANGED <<takeovers, revsDone, grant, starts>>

\* seat_destroy alone, as shutdown and the end of main call it: a revoke for
\* the compositor, but neither a new daemon epoch nor the end of the lease.
SeatDestroyed ==
    /\ toComp' = IF created THEN Revoked ELSE toComp
    /\ revsSent' = IF created THEN revsSent + 1 ELSE revsSent

Shutdown ==
    /\ Turn("serve")
    /\ MayRevoke
    /\ SeatDestroyed
    /\ pressed' = IF created THEN FALSE ELSE pressed
    /\ created' = FALSE
    /\ paused' = TRUE
    /\ quit' = TRUE
    /\ UNCHANGED <<compVars, toDaemon, running, phase, seen, controlEpoch, leaseVars, typing>>
    /\ UNCHANGED <<takeovers, revsDone, grant, starts>>

\* The admission response_for and dispatch give to pointer and keyboard
\* requests: lease, no other operation, and the seat in the agent's hands.
InputAdmitted(c) ==
    /\ Turn("serve")
    /\ Authorized(c)
    /\ Active
    /\ typing = 0

InputSent ==
    UNCHANGED <<compVars, toDaemon, running, phase, seen, controlEpoch, seatVars,
                leaseVars, typing, ghostVars>>

\* pointer.move_absolute and pointer.scroll; window actions and clipboard
\* offers are preceded by the same acquire.
SendMotion(c) ==
    /\ InputAdmitted(c)
    /\ Room
    /\ toComp' = AcquireGate(toComp, Wire(controlEpoch))
    /\ UNCHANGED pressed
    /\ InputSent

\* Mistake: the edge is sent without asking for the gate first.
SendPressUnasked(c) ==
    /\ InputAdmitted(c)
    /\ Room
    /\ toComp' = IF pressed THEN toComp ELSE PressEvent(toComp)
    /\ pressed' = TRUE
    /\ InputSent

\* keyboard.key and pointer.button: an edge the daemon believes already made
\* is not sent again, the acquire is.
SendPress(c) ==
    /\ InputAdmitted(c)
    /\ Room
    /\ LET asked == AcquireGate(toComp, Wire(controlEpoch)) IN
        toComp' = IF pressed THEN asked ELSE PressEvent(asked)
    /\ pressed' = TRUE
    /\ InputSent

SendRelease(c) ==
    /\ InputAdmitted(c)
    /\ Room
    /\ toComp' = ReleaseAll(AcquireGate(toComp, Wire(controlEpoch)), revsSent)
    /\ pressed' = FALSE
    /\ InputSent

\* pointer.click: press and release in one request, the gate asked twice.
SendClick(c) ==
    /\ InputAdmitted(c)
    /\ Room
    /\ LET Ask(q) == AcquireGate(q, Wire(controlEpoch))
            down == IF pressed THEN Ask(toComp) ELSE PressEvent(Ask(toComp))
        IN toComp' = ReleaseEvent(Ask(down), revsSent)
    /\ pressed' = FALSE
    /\ InputSent

\* keyboard.type: accepted now, submitted one codepoint per turn.
StartTyping(c) ==
    /\ InputAdmitted(c)
    /\ typing' = controlEpoch
    /\ UNCHANGED <<compVars, toComp, toDaemon, running, phase, seen, controlEpoch,
                   seatVars, leaseVars, pressed, ghostVars>>

\* The end of a turn: advance_typing, or the cancellation that quit forces.
EndTurn ==
    /\ Turn("serve")
    /\ phase' = "top"
    /\ UNCHANGED <<compVars, toDaemon, running, seen, controlEpoch, seatVars,
                   leaseVars, ghostVars>>

MayType == ~quit /\ ~paused /\ ~HumanActive /\ typing = controlEpoch

\* Nothing to do, nothing due yet (next_msec), or past the deadline.
AdvanceIdle ==
    /\ EndTurn
    /\ IF typing # 0 /\ MayType THEN typing' \in {0, typing} ELSE typing' = 0
    /\ UNCHANGED <<toComp, pressed>>

\* One codepoint.  The raw edges of type_codepoint are not remembered as
\* pressed.  The lease's deadline is not looked at again here.
TypeCodepoint ==
    /\ EndTurn
    /\ typing # 0
    /\ MayType
    /\ Room
    /\ toComp' = ReleaseEvent(PressEvent(AcquireGate(toComp, Wire(typing))), revsSent)
    /\ typing' \in {0, typing}
    /\ UNCHANGED pressed

\* A key became unavailable: the gate was asked for and nothing typed.
TypeCodepointFails ==
    /\ EndTurn
    /\ typing # 0
    /\ MayType
    /\ Room
    /\ toComp' = ReleaseAll(AcquireGate(toComp, Wire(typing)), revsSent)
    /\ typing' = 0
    /\ pressed' = FALSE

NothingSeen == [epoch |-> 0, allowed |-> FALSE, quiet |-> TRUE, held |-> FALSE, known |-> 0]

\* What is left of a daemon that ended: nothing of its state.
DaemonGone ==
    /\ running' = FALSE
    /\ phase' = "top"
    /\ toDaemon' = <<>>
    /\ seen' = NothingSeen
    /\ controlEpoch' = 0
    /\ created' = FALSE
    /\ paused' = TRUE
    /\ quit' = FALSE
    /\ writer' = NoWriter
    /\ nextLease' = 0
    /\ leaseLive' = FALSE
    /\ pressed' = FALSE
    /\ typing' = 0
    /\ UNCHANGED <<compVars, takeovers, revsDone, grant, starts>>

\* The loop ends after shutdown, or on SIGTERM; main destroys the seat.
Exit ==
    /\ Turn("top") \/ (Turn("poll") /\ quit)
    /\ SeatDestroyed
    /\ DaemonGone

Crash ==
    /\ running
    /\ DaemonGone
    /\ UNCHANGED <<toComp, revsSent>>

\* A daemon starts: control_bind sends the state, input_state_init waits for
\* it and main adopts its epoch before the first turn.
StartDaemon ==
    /\ ~running
    /\ ~owned
    /\ starts < MaxStarts
    /\ starts' = starts + 1
    /\ running' = TRUE
    /\ owned' = TRUE
    /\ seen' = [epoch |-> epoch, allowed |-> allowed, quiet |-> quiet,
                held |-> humanHeld, known |-> takeovers]
    /\ controlEpoch' = epoch
    /\ UNCHANGED <<epoch, allowed, quiet, timer, humanHeld, virtualHeld, toComp, toDaemon>>
    /\ UNCHANGED <<phase, seatVars, leaseVars, pressed, typing>>
    /\ UNCHANGED <<takeovers, revsSent, revsDone, grant>>

\* Time, as the daemon counts it.
LeaseRunsOut ==
    /\ writer # NoWriter
    /\ leaseLive
    /\ leaseLive' = FALSE
    /\ UNCHANGED <<compVars, toComp, toDaemon, running, phase, seen, controlEpoch,
                   seatVars, writer, nextLease, pressed, typing, ghostVars>>

DaemonQuietElapses ==
    /\ running
    /\ ~seen.quiet
    /\ seen' = [seen EXCEPT !.quiet = TRUE]
    /\ UNCHANGED <<compVars, toComp, toDaemon, running, phase, controlEpoch,
                   seatVars, leaseVars, pressed, typing, ghostVars>>

Serve ==
    \/ \E c \in Controllers :
        \/ AcquireControl(c)
        \/ ReleaseControl(c)
        \/ SendMotion(c)
        \/ SendPress(c)
        \/ SendRelease(c)
        \/ SendClick(c)
        \/ StartTyping(c)
    \/ CancelOperation
    \/ ReleaseWindow
    \/ Pause
    \/ Resume
    \/ CreateSeat
    \/ DestroySeat
    \/ Shutdown

AdvanceTyping == AdvanceIdle \/ TypeCodepoint \/ TypeCodepointFails

Daemon ==
    \/ ExpireWriter
    \/ ControlState
    \/ SyncControlState
    \/ Serve
    \/ AdvanceTyping
    \/ LeaseRunsOut
    \/ DaemonQuietElapses
    \/ Exit
    \/ Crash
    \/ StartDaemon

Init ==
    /\ epoch = 1
    /\ allowed = FALSE
    /\ quiet = TRUE
    /\ timer = FALSE
    /\ humanHeld = FALSE
    /\ virtualHeld = FALSE
    /\ owned = FALSE
    /\ toComp = <<>>
    /\ toDaemon = <<>>
    /\ running = FALSE
    /\ phase = "top"
    /\ seen = NothingSeen
    /\ controlEpoch = 0
    /\ created = FALSE
    /\ paused = TRUE
    /\ quit = FALSE
    /\ writer = NoWriter
    /\ nextLease = 0
    /\ leaseLive = FALSE
    /\ pressed = FALSE
    /\ typing = 0
    /\ takeovers = 0
    /\ revsSent = 0
    /\ revsDone = 0
    /\ grant = NoGrant
    /\ starts = 0

Next == Compositor \/ Daemon

Spec == Init /\ [][Next]_vars

----------------------------------------------------------------------------
(* What the gate promises.                                                 *)

CompTypes ==
    /\ epoch \in 1..EpochMax
    /\ allowed \in BOOLEAN /\ quiet \in BOOLEAN /\ timer \in BOOLEAN
    /\ humanHeld \in BOOLEAN /\ virtualHeld \in BOOLEAN /\ owned \in BOOLEAN

LinkTypes ==
    /\ toComp \in Seq(RequestType)
    /\ toDaemon \in Seq(StateType)

SeatTypes == created \in BOOLEAN /\ paused \in BOOLEAN /\ quit \in BOOLEAN

LeaseTypes ==
    /\ writer \in Controllers \cup {NoWriter}
    /\ nextLease \in Nat
    /\ leaseLive \in BOOLEAN

DaemonTypes ==
    /\ running \in BOOLEAN
    /\ phase \in {"top", "poll", "serve"}
    /\ seen \in StateType
    /\ controlEpoch \in Nat
    /\ typing \in Nat
    /\ pressed \in BOOLEAN
    /\ SeatTypes
    /\ LeaseTypes

GhostTypes ==
    /\ takeovers \in Nat
    /\ revsSent \in Nat
    /\ revsDone \in Nat
    /\ grant \in [known : Nat, lease : Nat]
    /\ starts \in Nat

\* Every variable keeps its type; the epoch stays within its width.
TypeOK == CompTypes /\ LinkTypes /\ DaemonTypes /\ GhostTypes

\* While the gate is open, the request that opened it was sent by a daemon
\* that had already heard of every revocation it did not ask for: a request
\* queued before a takeover never gets the gate back after it, whatever the
\* daemon added to its own epoch meanwhile (revoke_input counts the epoch up
\* on both sides).
NoStaleGrant == allowed => grant.known = takeovers

\* The same for the input itself: an edge about to be delivered comes from a
\* daemon that knows of every takeover, under the lease that opened the gate.
DeliveryAuthorized ==
    (toComp # <<>> /\ Head(toComp).kind = "press" /\ allowed) =>
        /\ Head(toComp).known = takeovers
        /\ Head(toComp).lease = grant.lease

\* A virtual key is never left down behind a closed gate, where its release
\* would be dropped (control_acquire_request refuses without releasing).
HoldsImplyGate == virtualHeld => allowed

\* The gate is never open while a human holds something or was active within
\* the grace period.
GateImpliesQuiet == allowed => quiet /\ ~humanHeld

\* pause_seat in lib/agentseat_cli/actions.py: a heartbeat with the gate
\* closed at an epoch not older than the daemon's own acknowledges the pause.
\* It does: the gate is closed and no request on its way can open it.
PauseAcknowledged ==
    /\ Turn("serve")
    /\ created
    /\ paused
    /\ ~seen.allowed
    /\ seen.epoch >= controlEpoch

PauseAckSound ==
    PauseAcknowledged =>
        /\ ~allowed
        /\ \A i \in 1..Len(toComp) : toComp[i].kind = "acquire" => toComp[i].epoch < epoch

\* When nothing is on its way in either direction, the two sides agree on the
\* epoch and on the permission: no change of the gate goes unannounced.
AtRest == Turn("serve") /\ owned /\ toComp = <<>> /\ toDaemon = <<>>

ViewsAgreeAtRest ==
    (AtRest /\ epoch < EpochMax) =>
        /\ seen.epoch = epoch
        /\ controlEpoch = epoch
        /\ seen.allowed = allowed

\* Work in progress belongs to a lease and to the current epoch: whatever ends
\* one (release, expiry, pause, takeover) has already ended the other.
WorkBelongsToLease ==
    /\ typing # 0 => typing = controlEpoch /\ writer # NoWriter
    /\ pressed => writer # NoWriter

\* Permission is never handed on from one lease to the next: between two
\* writers the compositor has seen the gate closed.
PermissionNotInherited ==
    [][(allowed /\ allowed' /\ grant.lease # 0) => grant'.lease = grant.lease]_vars

----------------------------------------------------------------------------
(* What eventually happens.                                                *)

\* Both processes run and nobody is forced to ask for anything.  The
\* compositor's event loop reads what the daemon flushed; run_server goes
\* round its loop, and a poll of a readable connection dispatches it, so an
\* event cannot be passed over turn after turn (strong fairness: the action
\* is possible in one part of the turn only).
Fairness ==
    /\ WF_vars(ProcessRequest)
    /\ SF_vars(ControlState)
    /\ WF_vars(ExpireWriter)
    /\ WF_vars(SyncControlState)
    /\ WF_vars(AdvanceTyping)

FairSpec == Spec /\ Fairness

\* pause_seat waits for an acknowledgement; as long as the daemon lives and
\* nobody resumes, it comes, although the gate may be changing hands at the
\* moment of the pause.
PauseIsAcknowledged ==
    (Turn("serve") /\ created /\ paused) ~> (PauseAcknowledged \/ ~paused \/ ~running)

\* A takeover the daemon has not heard of yet ends the text operation that
\* was running under the old epoch.
TakeoverEndsTyping ==
    (typing # 0 /\ typing < epoch) ~> (typing = 0)

============================================================================
