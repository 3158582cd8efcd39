----------------------------- MODULE SeatInput -----------------------------
(***************************************************************************)
(* The compositor's input seat (vendor/cage/seat.c) key by key and button  *)
(* by button: which device holds what, what the application has been told  *)
(* is down, deadlines of virtual holds, drags, and the agent's clipboard   *)
(* (vendor/cage/agentseat-clipboard.c).  ControlGate has the protocol with *)
(* the daemon; here the daemon is any client that may ask for anything.    *)
(*                                                                         *)
(* The seat is one record, as in the code, and what a handler does in      *)
(* sequence is a composition of functions from seat to seat.               *)
(*                                                                         *)
(* Definitions headed "Mistake" are not part of the specification: each is *)
(* the definition that follows it as a plausible slip would leave it.      *)
(***************************************************************************)
EXTENDS Integers, FiniteSetsExt

CONSTANTS
    Keyboards,  \* physical keyboards
    Mice,       \* physical pointers
    Agent,      \* the virtual keyboard and pointer of the gate's owner
    Keys,       \* key codes
    Modifiers,  \* those keys that set a modifier
    Bindings,   \* those keys that may be a compositor key binding
    Buttons,    \* button codes
    HoldTimes,  \* values of hold_timeout, in ticks
    MaxEpoch,   \* bound: the epoch after the last revocation
    Nothing     \* no clipboard, no deadline, no timer, no grab

ASSUME DevicesAssumption == Agent \notin Keyboards \cup Mice
ASSUME KeysAssumption ==
    /\ Modifiers \subseteq Keys /\ Bindings \subseteq Keys
    /\ Keys \cap Buttons = {}
ASSUME HoldAssumption ==
    /\ HoldTimes \subseteq Nat \ {0}
    /\ \E longest \in HoldTimes : \A time \in HoldTimes : time <= longest
ASSUME EpochAssumption == MaxEpoch \in Nat \ {0}
ASSUME NothingAssumption == Nothing \notin Nat /\ Nothing \notin [button : Buttons, by : Mice \cup {Agent}]

VARIABLES
    seat,     \* struct cg_seat, its devices, and what wlr_seat knows of a grab
    age,      \* ghost: ticks since the agent first pressed what it holds
    orphans   \* ghost: buttons that a mouse unplugged since the last revocation
              \* left down

vars == <<seat, age, orphans>>

Inputs == Keys \cup Buttons
Time == Nat \cup {Nothing}

Seat == [allowed : BOOLEAN,                          \* control_allowed
         epoch : 1..MaxEpoch,                        \* control_epoch
         quiet : BOOLEAN,                            \* now >= human_until_msec
         hold : HoldTimes,                           \* hold_timeout_ms
         deadline : [Inputs -> Time],                \* key_deadlines, button_deadlines
         timer : Time,                               \* hold_timer
         heldKeys : [Keyboards \cup {Agent} -> SUBSET Keys],
         depressed : [Keyboards -> SUBSET Modifiers],
         forwardedKeys : SUBSET Keys,
         heldButtons : [Mice \cup {Agent} -> SUBSET Buttons],
         forwardedButtons : SUBSET Buttons,
         grabVirtual : BOOLEAN,                      \* pointer_grab_virtual
         clipboard : 1..MaxEpoch \cup {Nothing},     \* epoch of the offer
         \* wlr_seat: the press that the pointer grab began with, what became
         \* of the application's last pointer drag, and touch points.
         grab : [button : Buttons, by : Mice \cup {Agent}] \cup {Nothing},
         drag : {"none", "active", "dropped", "cancelled"},
         touched : BOOLEAN,
         released : SUBSET Inputs]                   \* releases sent by this handler

\* key_held and button_held: down on some device.
KeyHeld(s) == UNION {s.heldKeys[d] : d \in Keyboards \cup {Agent}}
ButtonHeld(s) == UNION {s.heldButtons[d] : d \in Mice \cup {Agent}}

HumanKeys(s) == UNION {s.heldKeys[d] : d \in Keyboards}
HumanButtons(s) == UNION {s.heldButtons[d] : d \in Mice}

\* physical_modifier_hint.
Hinted(s) == UNION {s.depressed[d] : d \in Keyboards}

\* human_held.
HumanHeld(s) == HumanKeys(s) # {} \/ Hinted(s) # {} \/ HumanButtons(s) # {} \/ s.touched

AgentHolds(s) == s.heldKeys[Agent] \cup s.heldButtons[Agent]

----------------------------------------------------------------------------
(* Steps of the handlers.                                                  *)

\* The seat as a handler finds it.
Found == [seat EXCEPT !.released = {}]

\* wlr_seat_keyboard_notify_key for every key that differs.
KeysSent(s, to) ==
    [s EXCEPT !.forwardedKeys = to, !.released = @ \cup (s.forwardedKeys \ to)]

\* release_orphaned_keys.
WithoutOrphans(s, hints) ==
    KeysSent(s, s.forwardedKeys \cap (KeyHeld(s) \cup (IF hints THEN Hinted(s) ELSE {})))

\* wlr_seat_pointer_notify_button for every button that differs.  A grab
\* begins with the first button down.  Letting go of the button it began with
\* drops what is dragged.
ButtonsSent(s, to, d) ==
    [s EXCEPT
        !.forwardedButtons = to,
        !.released = @ \cup (s.forwardedButtons \ to),
        !.grab = IF to = {} THEN Nothing
                 ELSE IF s.forwardedButtons = {}
                      THEN [button |-> CHOOSE b \in to : TRUE, by |-> d]
                      ELSE @,
        !.drag = IF @ = "active" /\ s.grab.button \notin to THEN "dropped" ELSE @]

\* control_revoke ends the drag that a virtual press is the root of.
DragEnded(s) ==
    IF s.drag = "active" /\ s.grabVirtual THEN [s EXCEPT !.drag = "cancelled"] ELSE s

\* Mistake: only the virtual keyboard is forgotten.
ForgottenKeys(s) ==
    [s EXCEPT !.allowed = FALSE, !.clipboard = Nothing, !.epoch = @ + 1, !.grabVirtual = FALSE,
              !.deadline = [i \in Inputs |-> Nothing], !.timer = Nothing,
              !.heldKeys[Agent] = {}]

\* The virtual holds are forgotten before what is orphaned is released.
Forgotten(s) ==
    [s EXCEPT !.allowed = FALSE, !.clipboard = Nothing, !.epoch = @ + 1, !.grabVirtual = FALSE,
              !.deadline = [i \in Inputs |-> Nothing], !.timer = Nothing,
              !.heldKeys[Agent] = {}, !.heldButtons[Agent] = {}]

\* Mistake: the application is not told of the buttons.
RevokedSilently(s) == WithoutOrphans(Forgotten(DragEnded(s)), TRUE)

\* Mistake: the buttons are released before the drag is ended.
RevokedInDisorder(s) ==
    LET f == WithoutOrphans(Forgotten(s), TRUE) IN
    DragEnded(ButtonsSent(f, f.forwardedButtons \cap ButtonHeld(f), Agent))

\* control_revoke.
Revoked(s) ==
    LET f == WithoutOrphans(Forgotten(DragEnded(s)), TRUE) IN
    ButtonsSent(f, f.forwardedButtons \cap ButtonHeld(f), Agent)

\* report_human_activity.
Takeover(s) == s.allowed \/ s.quiet
Reported(s) == [(IF Takeover(s) THEN Revoked(s) ELSE s) EXCEPT !.quiet = FALSE]

\* schedule_hold_timeout.
Scheduled(s) ==
    LET due == {s.deadline[i] : i \in Inputs} \ {Nothing} IN
    [s EXCEPT !.timer = IF due = {} THEN Nothing ELSE Min(due)]

\* Mistake: every press of a key that is down begins its time anew.
TimedAnew(s, i, down) ==
    Scheduled([s EXCEPT !.deadline[i] = IF down THEN s.hold ELSE Nothing])

\* The deadline of a virtual hold: set by its first press, lifted by release.
Timed(s, i, down) ==
    Scheduled([s EXCEPT !.deadline[i] =
        IF ~down THEN Nothing ELSE IF @ = Nothing THEN s.hold ELSE @])

Toggled(set, i, down) == IF down THEN set \cup {i} ELSE set \ {i}

KeyHolding(s, d, k, down) == [s EXCEPT !.heldKeys[d] = Toggled(@, k, down)]
ButtonHolding(s, d, b, down) == [s EXCEPT !.heldButtons[d] = Toggled(@, b, down)]

\* handle_key_event: the application hears of a key when its first holder
\* presses it and when its last one lets go.
KeyForwarded(s, k, handled) ==
    IF handled THEN s
    ELSE KeysSent(s, Toggled(s.forwardedKeys, k, k \in KeyHeld(s)))

\* The same in handle_cursor_button, which remembers whose press a grab began
\* with.
ButtonForwarded(s, d, b) ==
    LET down == b \in ButtonHeld(s)
        t == ButtonsSent(s, Toggled(s.forwardedButtons, b, down), d)
    IN IF (b \in s.forwardedButtons) = down THEN s
       ELSE [t EXCEPT !.grabVirtual = CASE t.forwardedButtons = {} -> FALSE
                                        [] s.forwardedButtons = {} -> d = Agent
                                        [] OTHER -> @]

\* The seat becomes t, and the ghosts follow: ages begin with a first press and
\* end with the hold, and a revocation leaves no button without a holder.
Becomes(t) ==
    /\ t.epoch <= MaxEpoch
    /\ seat' = t
    /\ age' = [i \in Inputs |->
                IF i \notin AgentHolds(t) THEN Nothing
                ELSE IF age[i] = Nothing THEN 0 ELSE age[i]]
    /\ orphans' = IF t.epoch # seat.epoch THEN {} ELSE orphans

----------------------------------------------------------------------------
(* The handlers.                                                           *)

\* Mistake: a refusal leaves the clipboard alone.
AcquireKeepsClipboard(epoch) ==
    LET granted == epoch = seat.epoch /\ seat.quiet /\ ~HumanHeld(seat) IN
    Becomes([Found EXCEPT !.allowed = granted])

\* control_acquire_request, for whatever epoch.  (That a refusal does not touch
\* the agent's holds is why they need deadlines.)
Acquire(epoch) ==
    LET granted == epoch = seat.epoch /\ seat.quiet /\ ~HumanHeld(seat) IN
    Becomes([Found EXCEPT !.allowed = granted,
                         !.clipboard = IF granted THEN @ ELSE Nothing])

\* control_revoke_request; control_acquire_geometry_request after the scene
\* moved; and control_resource_destroy, whose client's devices go with it.
Revoke == Becomes(Revoked(Found))

\* control_hold_timeout_request: for the holds that begin from now on.
HoldTimeout(time) == Becomes([Found EXCEPT !.hold = time])

\* handle_keyboard_group_key for a virtual keyboard.
AgentKey(k, down) ==
    /\ seat.allowed
    /\ \E handled \in {FALSE, down /\ k \in Bindings} :
        Becomes(KeyForwarded(KeyHolding(Timed(Found, k, down), Agent, k, down), k, handled))

\* Mistake: a human key is recorded after it is reported.
HumanKeyReportedFirst(d, k, down) ==
    \E handled \in {FALSE, down /\ k \in Bindings} :
        Becomes(KeyForwarded(KeyHolding(WithoutOrphans(Reported(Found), FALSE), d, k, down),
                             k, handled))

\* handle_keyboard_group_key for a physical keyboard: the hold is recorded
\* before the takeover, so that the takeover leaves it to the human.
HumanKey(d, k, down) ==
    \E handled \in {FALSE, down /\ k \in Bindings} :
        Becomes(KeyForwarded(WithoutOrphans(Reported(KeyHolding(Found, d, k, down)), FALSE),
                             k, handled))

\* Mistake: what the modifiers vouched for is not looked at again.
HumanModifiersOnly(d, mods) ==
    /\ mods # seat.depressed[d]
    /\ Becomes(Reported([Found EXCEPT !.depressed[d] = mods]))

\* handle_keyboard_group_modifiers for a physical keyboard: modifiers may come
\* before or after the key that sets them.
HumanModifiers(d, mods) ==
    /\ mods # seat.depressed[d]
    /\ Becomes(WithoutOrphans(Reported([Found EXCEPT !.depressed[d] = mods]), TRUE))

\* handle_cursor_button for a virtual and for a physical pointer.
AgentButton(b, down) ==
    /\ seat.allowed
    /\ Becomes(ButtonForwarded(ButtonHolding(Timed(Found, b, down), Agent, b, down), Agent, b))

HumanButton(d, b, down) ==
    Becomes(ButtonForwarded(Reported(ButtonHolding(Found, d, b, down)), d, b))

\* handle_touch_down and handle_touch_up (of the last point): reported first.
HumanTouch == Becomes([Reported(Found) EXCEPT !.touched = ~@])

\* Activity that holds nothing: touch motion, the wheel during the grace
\* period, the closing of the window by the keyboard.
HumanActivity == Becomes(Reported(Found))

\* handle_pointer_destroy: the holds go with the mouse, unreported.
HumanUnplug(d) ==
    /\ seat.heldButtons[d] # {}
    /\ LET t == [Found EXCEPT !.heldButtons[d] = {}] IN
       /\ seat' = t
       /\ orphans' = orphans \cup (t.forwardedButtons \ ButtonHeld(t))
       /\ UNCHANGED age

\* The application starts a drag from the press it was sent last; wlroots
\* accepts that while this is the only button down (handle_request_start_drag).
StartDrag ==
    /\ seat.grab # Nothing
    /\ seat.forwardedButtons = {seat.grab.button}
    /\ seat.drag # "active"
    /\ Becomes([Found EXCEPT !.drag = "active"])

\* cg_clipboard_offer, of text that passes its tests.
ClipboardOffer(epoch) ==
    /\ seat.allowed
    /\ epoch = seat.epoch
    /\ Becomes([Found EXCEPT !.clipboard = epoch])

\* expire, and the application's own selection (handle_request_set_selection).
ClipboardEnds ==
    /\ seat.clipboard # Nothing
    /\ Becomes([Found EXCEPT !.clipboard = Nothing])

\* The grace period after human activity ends.
QuietElapses ==
    /\ ~seat.quiet
    /\ Becomes([Found EXCEPT !.quiet = TRUE])

\* hold_timeout_expired.
HoldTimeoutExpired ==
    /\ seat.timer = 0
    /\ Becomes(Revoked(Found))

\* Time does not pass a timer that is due: the event loop serves it first.
Tick ==
    /\ seat.timer # Nothing
    /\ seat.timer # 0
    /\ LET earlier(t) == IF t = Nothing THEN t ELSE t - 1 IN
       seat' = [Found EXCEPT !.timer = earlier(@),
                            !.deadline = [i \in Inputs |-> earlier(seat.deadline[i])]]
    /\ age' = [i \in Inputs |-> IF age[i] = Nothing THEN Nothing ELSE age[i] + 1]
    /\ UNCHANGED orphans

Init ==
    /\ \E h \in HoldTimes :
        seat = [allowed |-> FALSE, epoch |-> 1, quiet |-> TRUE, hold |-> h,
                deadline |-> [i \in Inputs |-> Nothing], timer |-> Nothing,
                heldKeys |-> [d \in Keyboards \cup {Agent} |-> {}],
                depressed |-> [d \in Keyboards |-> {}],
                forwardedKeys |-> {},
                heldButtons |-> [d \in Mice \cup {Agent} |-> {}],
                forwardedButtons |-> {}, grabVirtual |-> FALSE, clipboard |-> Nothing,
                grab |-> Nothing, drag |-> "none", touched |-> FALSE,
                released |-> {}]
    /\ age = [i \in Inputs |-> Nothing]
    /\ orphans = {}

Gate ==
    \/ \E epoch \in 1..MaxEpoch : Acquire(epoch) \/ ClipboardOffer(epoch)
    \/ Revoke
    \/ \E time \in HoldTimes : HoldTimeout(time)
    \/ ClipboardEnds

AgentInput ==
    \E down \in BOOLEAN :
        \/ \E k \in Keys : AgentKey(k, down)
        \/ \E b \in Buttons : AgentButton(b, down)

HumanInput ==
    \/ \E d \in Keyboards, k \in Keys, down \in BOOLEAN : HumanKey(d, k, down)
    \/ \E d \in Keyboards, mods \in SUBSET Modifiers : HumanModifiers(d, mods)
    \/ \E d \in Mice, b \in Buttons, down \in BOOLEAN : HumanButton(d, b, down)
    \/ HumanTouch
    \/ HumanActivity
    \/ \E d \in Mice : HumanUnplug(d)

Next ==
    \/ Gate
    \/ AgentInput
    \/ HumanInput
    \/ StartDrag
    \/ QuietElapses
    \/ HoldTimeoutExpired
    \/ Tick

Spec == Init /\ [][Next]_vars

----------------------------------------------------------------------------
(* What the seat promises.                                                 *)

\* A deadline is a number of ticks, so in particular none passes unserved.
TypeOK ==
    /\ seat \in Seat
    /\ age \in [Inputs -> Time]
    /\ orphans \subseteq Buttons

Revocation == seat'.epoch # seat.epoch

\* The application never believes a key down that nobody holds, except for one
\* that a physical modifier vouches for, and only key bindings are kept from it.
KeysAreAccounted ==
    /\ seat.forwardedKeys \subseteq KeyHeld(seat) \cup Hinted(seat)
    /\ KeyHeld(seat) \ seat.forwardedKeys \subseteq Bindings

\* Nor a button, except for those of a mouse that was pulled out since the
\* last revocation (handle_pointer_destroy tells nobody).
ButtonsAreAccounted ==
    /\ seat.forwardedButtons \subseteq ButtonHeld(seat) \cup orphans
    /\ ButtonHeld(seat) \subseteq seat.forwardedButtons

\* No hold of the agent outlives the longest hold time, however often the key
\* is pressed again, the gate reopened, or refused and left closed.
HoldsAreBounded ==
    /\ TypeOK
    /\ \A i \in AgentHolds(seat) : seat.timer # Nothing /\ age[i] + seat.timer <= Max(HoldTimes)

\* The agent's text can be pasted only under the permission it was offered in.
ClipboardIsGated ==
    seat.clipboard # Nothing => seat.allowed /\ seat.clipboard = seat.epoch

\* What a human holds stays down for the application, without a blip: also
\* when the agent held it first and the human's own press revokes the agent.
HumanHoldsSurvive ==
    [][seat'.released \cap (HumanKeys(seat') \cup HumanButtons(seat')) = {}]_vars

\* A revocation leaves nothing down on the agent's account.
RevocationReleases ==
    [][Revocation =>
        /\ AgentHolds(seat') = {}
        /\ seat'.forwardedKeys \subseteq HumanKeys(seat') \cup Hinted(seat')
        /\ seat'.forwardedButtons \subseteq HumanButtons(seat')]_vars

\* A takeover never completes the agent's drag: what was dragged is not dropped
\* where the human happened to interrupt.  (A mouse that was pulled out while
\* down leaves its button down, and then whose press began a grab is not known
\* until the next revocation.)
RevocationNeverDrops ==
    [][Revocation /\ seat.drag = "active" /\ seat.grab.by = Agent
            /\ seat.grab.button \in seat.heldButtons[Agent] /\ orphans = {}
        => seat'.drag = "cancelled"]_vars

=============================================================================
