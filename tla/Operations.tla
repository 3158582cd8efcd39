----------------------------- MODULE Operations -----------------------------
(***************************************************************************)
(* Operations that outlive the request that asked for them: typed text, a  *)
(* change of a window, a paste, a semantic call (native/agentseatd.c).     *)
(* One runs at a time; the ring `operations` keeps a receipt of the last   *)
(* MAX_OPERATIONS.  Their effects lie elsewhere: the compositor carries    *)
(* out window actions and serves the private clipboard, the application    *)
(* runs semantic methods (SemanticCall).                                   *)
(*                                                                         *)
(* The link to the compositor is FIFO in each direction, as in             *)
(* ControlGate, which has the gate in full; here it is reduced to          *)
(* permission, epoch and "a human is active", the writer to one bit and    *)
(* its deadline, the keys of a codepoint to one request and those of       *)
(* Ctrl+V to the acquire that precedes them.                               *)
(*                                                                         *)
(* Definitions headed "Mistake" are not part of the specification: each is *)
(* the definition that follows it as a plausible slip would leave it.      *)
(***************************************************************************)
EXTENDS SemanticCall, Sequences

CONSTANTS
    Kinds,          \* kinds of operations asked for
    MaxOperations,  \* MAX_OPERATIONS, the receipts kept
    MaxAccepted,    \* bound: operations accepted
    MaxText,        \* bound: codepoints of a text
    MaxReads,       \* CLIP_READS, how often one offer is read
    MaxTakeovers,   \* bound: revocations the compositor starts
    MaxRevokes,     \* bound: what the daemon's callers do to an operation
    MaxInFlight     \* bound: messages under way in a direction when
                    \* another is volunteered

AllKinds == {"type", "window", "paste", "semantic"}

ASSUME KindsAssumption == Kinds \subseteq AllKinds
ASSUME SizesAssumption ==
    /\ MaxOperations \in Nat \ {0}
    /\ MaxAccepted \in Nat
    /\ MaxText \in Nat
    /\ MaxReads \in Nat
    /\ MaxTakeovers \in Nat
    /\ MaxRevokes \in Nat
    /\ MaxInFlight \in Nat

VARIABLES
    epoch,         \* compositor: seat->control_epoch
    allowed,       \* compositor: seat->control_allowed
    human,         \* compositor: a human was active in the grace period
    clip,          \* compositor: token of the text offered, 0 if none
    reads,         \* compositor: reads that may still be served
    toComp,        \* requests on their way
    toDaemon,      \* events on their way
    phase,         \* daemon: where run_server's turn stands
    seen,          \* daemon: what input_state keeps of the events
    controlEpoch,  \* daemon: state.control_epoch
    paused,        \* daemon: state.paused
    writer,        \* daemon: a write lease is held
    leaseLive,     \* daemon: now < state.writer_deadline
    scopeWhole,    \* daemon: semantic_scope_complete
    operations,    \* daemon: state.operations
    nextOperation, \* daemon: state.next_operation
    typing,        \* daemon: token of the active operation, 0 if none
    opLate,        \* daemon: now >= typing->deadline_msec
    takeovers,     \* ghost: revocations the daemon did not ask for
    revokes,       \* counts interruptions by callers, for MaxRevokes
    done,          \* ghost: window actions carried out, pastes handed over
    typed,         \* ghost: codepoints of each text that were let through
    told,          \* ghost: kind and outcome of every operation so far
    counted        \* ghost: what its receipt last said was submitted of a text

compVars == <<epoch, allowed, human, clip, reads>>
linkVars == <<toComp, toDaemon>>
leaseVars == <<writer, leaseLive>>
operationVars == <<operations, nextOperation, typing, opLate>>
daemonVars == <<phase, seen, controlEpoch, paused, leaseVars, scopeWhole, operationVars>>
textVars == <<typed, counted>>
ghostVars == <<takeovers, revokes, done, told, textVars>>
vars == <<semanticVars, compVars, linkVars, daemonVars, ghostVars>>

Tokens == 1..MaxAccepted

----------------------------------------------------------------------------
(* The compositor.                                                         *)

StateEvent == [kind |-> "state", epoch |-> epoch', allowed |-> allowed',
               human |-> human', known |-> takeovers']

Bumped(q) == Append(q, StateEvent)

\* control_revoke: with the permission goes the text offered.
ControlRevoke ==
    /\ allowed' = FALSE
    /\ epoch' = epoch + 1
    /\ clip' = 0

Takes(kind) == toComp # <<>> /\ Head(toComp).kind = kind /\ toComp' = Tail(toComp)

\* Bounds: each side volunteers messages only while few of its own are under
\* way; the other side's loop makes room again.
Room == Len(toComp) < MaxInFlight
RoomBack == Len(toDaemon) < MaxInFlight

CompositorOnly == UNCHANGED <<semanticVars, daemonVars>>

\* control_acquire_request.
ProcessAcquire ==
    /\ Takes("acquire")
    /\ allowed' = (Head(toComp).epoch = epoch /\ ~human)
    /\ clip' = IF allowed' THEN clip ELSE 0
    /\ UNCHANGED <<epoch, human, reads, ghostVars>>
    /\ toDaemon' = IF allowed /\ allowed' THEN toDaemon ELSE Bumped(toDaemon)
    /\ CompositorOnly

\* control_acquire_geometry_request when the scene moved.
ProcessStaleAcquire ==
    /\ Takes("acquire")
    /\ takeovers < MaxTakeovers
    /\ ControlRevoke
    /\ takeovers' = takeovers + 1
    /\ UNCHANGED <<human, reads, revokes, done, told, textVars>>
    /\ toDaemon' = Bumped(toDaemon)
    /\ CompositorOnly

ProcessRevoke ==
    /\ Takes("revoke")
    /\ ControlRevoke
    /\ UNCHANGED <<human, reads, ghostVars>>
    /\ toDaemon' = Bumped(toDaemon)
    /\ CompositorOnly

\* wl_display.sync: answered after everything that was asked before it.
ProcessSync ==
    /\ Takes("sync")
    /\ toDaemon' = Append(toDaemon, [kind |-> "synced", token |-> Head(toComp).token,
                                     known |-> takeovers])
    /\ UNCHANGED <<compVars, ghostVars>>
    /\ CompositorOnly

\* The virtual keyboard: the keys of a codepoint pass the open gate or are
\* dropped.
ProcessKey ==
    /\ Takes("key")
    /\ typed' = IF allowed THEN [typed EXCEPT ![Head(toComp).token] = @ + 1] ELSE typed
    /\ UNCHANGED <<compVars, toDaemon, takeovers, revokes, done, told, counted>>
    /\ CompositorOnly

OpenFor(m) == allowed /\ m.epoch = epoch

\* cg_scene_window_action: refused behind a closed gate or under another
\* epoch, for an unknown window, or by the policy for the window.
WindowAction ==
    /\ Takes("window")
    /\ \E ok \in BOOLEAN :
        /\ ok => OpenFor(Head(toComp))
        /\ toDaemon' = Append(toDaemon, [kind |-> "action_done", token |-> Head(toComp).token,
                                         ok |-> ok])
        /\ done' = IF ok THEN done \cup {Head(toComp).token} ELSE done
    /\ UNCHANGED <<compVars, takeovers, revokes, told, textVars>>
    /\ CompositorOnly

\* control_clipboard_offer_request and cg_clipboard_offer: the offer replaces
\* the one before, unless the gate, the payload or memory forbids it.
ClipboardOffer ==
    /\ Takes("offer")
    /\ \E ok \in BOOLEAN :
        /\ ok => OpenFor(Head(toComp))
        /\ toDaemon' = Append(toDaemon, [kind |-> "offered", token |-> Head(toComp).token,
                                         ok |-> ok])
        /\ clip' = IF ok THEN Head(toComp).token ELSE clip
        /\ reads' = IF ok THEN MaxReads ELSE reads
    /\ UNCHANGED <<epoch, allowed, human, ghostVars>>
    /\ CompositorOnly

\* source_send and writer_ready: some application asked for the selection, by
\* itself or because of Ctrl+V, and all of the text went into its pipe.
ClipboardTransfer ==
    /\ clip # 0
    /\ reads > 0
    /\ reads' = reads - 1
    /\ toDaemon' = Append(toDaemon, [kind |-> "transfer", token |-> clip])
    /\ done' = done \cup {clip}
    /\ UNCHANGED <<epoch, allowed, human, clip, toComp, takeovers, revokes, told, textVars>>
    /\ CompositorOnly

\* expire after ten seconds, or another selection took its place.
ClipboardGone ==
    /\ clip # 0
    /\ clip' = 0
    /\ UNCHANGED <<epoch, allowed, human, reads, linkVars, ghostVars>>
    /\ CompositorOnly

\* report_human_activity.
HumanActs ==
    /\ allowed \/ ~human
    /\ takeovers < MaxTakeovers
    /\ human' = TRUE
    /\ ControlRevoke
    /\ takeovers' = takeovers + 1
    /\ toDaemon' = Bumped(toDaemon)
    /\ UNCHANGED <<reads, toComp, revokes, done, told, textVars>>
    /\ CompositorOnly

\* The grace period ends and control_quiet_timer says so.
HumanRests ==
    /\ human
    /\ RoomBack
    /\ human' = FALSE
    /\ UNCHANGED <<epoch, allowed, clip, reads, toComp, ghostVars>>
    /\ toDaemon' = Bumped(toDaemon)
    /\ CompositorOnly

ProcessRequest ==
    \/ ProcessAcquire
    \/ ProcessStaleAcquire
    \/ ProcessRevoke
    \/ ProcessSync
    \/ ProcessKey
    \/ WindowAction
    \/ ClipboardOffer

Compositor ==
    \/ ProcessRequest
    \/ ClipboardTransfer
    \/ ClipboardGone
    \/ HumanActs
    \/ HumanRests

----------------------------------------------------------------------------
(* The daemon: receipts and how an operation ends.                         *)

Turn(p) == phase = p

NoReceipt == [token |-> 0, kind |-> "none", epoch |-> 0, active |-> FALSE,
              outcome |-> "none", submitted |-> 0, count |-> 0,
              asked |-> FALSE, keysSent |-> FALSE, cancelRequested |-> FALSE,
              replied |-> FALSE, succeeded |-> FALSE, known |-> 0]

Slot(t) == t % MaxOperations

\* The receipt is still there.
Kept(t) == t # 0 /\ operations[Slot(t)].token = t

Active(t) == Kept(t) /\ operations[Slot(t)].active

Current == operations[Slot(typing)]

Uncertain == {"cancelled", "deadline_exceeded", "outcome_unknown"}

\* What finish_typing makes of the outcome it is given.
Outcome(o, outcome) ==
    IF /\ outcome \in Uncertain
       /\ \/ (o.kind = "semantic" /\ call.sent)
          \/ (o.kind \in {"window", "paste"} /\ o.submitted > 0)
    THEN "outcome_unknown"
    ELSE outcome

\* The call of an operation that ends is given up with it.
Abandons(o) == o.kind = "semantic" /\ call.busy

\* finish_typing for receipt o.
Finish(o, outcome) ==
    LET ended == [o EXCEPT !.active = FALSE, !.outcome = Outcome(o, outcome),
                           !.cancelRequested = @ \/ Abandons(o)]
    IN /\ operations' = [operations EXCEPT ![Slot(o.token)] = ended]
       /\ told' = [told EXCEPT ![o.token].outcome = ended.outcome]
       /\ typing' = 0
       /\ IF Abandons(o) THEN CancelCall ELSE UNCHANGED callVars
       /\ UNCHANGED <<nextOperation, opLate, dispatched, appVars>>

NothingEnds == UNCHANGED <<operationVars, told, semanticVars>>

\* finish_typing, if anything runs.
FinishTyping(outcome) ==
    IF typing # 0 THEN Finish(Current, outcome) ELSE NothingEnds

RevokeRequest == [kind |-> "revoke", epoch |-> 0, token |-> 0]
AcquireRequest(e) == [kind |-> "acquire", epoch |-> e, token |-> 0]
KeyRequest(t) == [kind |-> "key", epoch |-> 0, token |-> t]

\* revoke_input.
RevokeInput ==
    /\ controlEpoch' = controlEpoch + 1
    /\ writer' = FALSE
    /\ leaseLive' = FALSE
    /\ FinishTyping("cancelled")
    /\ toComp' = Append(toComp, RevokeRequest)

TurnTo(p) == phase' = p /\ UNCHANGED <<compVars, takeovers, done, typed>>

----------------------------------------------------------------------------
(* The daemon: one turn.                                                   *)

\* The top of run_server: the expired lease, then the preparation's deadline
\* in as_semantic_prepare_poll.  An expired lease ends the operation first.
ExpireWriter ==
    /\ Turn("top")
    /\ writer
    /\ ~leaseLive
    /\ RevokeInput
    /\ UNCHANGED <<phase, seen, paused, scopeWhole, toDaemon, compVars>>
    /\ UNCHANGED <<takeovers, revokes, done, textVars>>

PreparePoll ==
    /\ Turn("top")
    /\ writer => leaseLive
    /\ PreparationExpired
    /\ TurnTo("poll")
    /\ UNCHANGED <<pending, callLate, dispatched, appVars, linkVars, seen, controlEpoch>>
    /\ UNCHANGED <<paused, leaseVars, scopeWhole, operationVars, revokes, told, counted>>

\* What each event leaves in input_state.  A transfer counts for the token
\* last offered.
Noted(m) ==
    CASE m.kind = "state" ->
            [seen EXCEPT !.epoch = m.epoch, !.allowed = m.allowed,
                         !.human = m.human, !.known = m.known]
      [] m.kind = "synced" ->
            IF m.token # seen.asked THEN seen
            ELSE [seen EXCEPT !.asked = 0, !.authToken = m.token, !.authEpoch = seen.epoch,
                              !.authAllowed = seen.allowed, !.authKnown = m.known]
      [] m.kind = "action_done" ->
            [seen EXCEPT !.actionToken = m.token, !.actionOk = m.ok]
      [] m.kind = "offered" ->
            [seen EXCEPT !.clipToken = m.token, !.clipOk = m.ok]
      [] m.kind = "transfer" ->
            IF m.token # seen.clipToken THEN seen ELSE [seen EXCEPT !.transferred = TRUE]

\* agentseat_input_dispatch.
ReadEvent ==
    /\ Turn("poll")
    /\ toDaemon # <<>>
    /\ seen' = Noted(Head(toDaemon))
    /\ toDaemon' = Tail(toDaemon)
    /\ UNCHANGED <<semanticVars, compVars, toComp, phase, controlEpoch, paused>>
    /\ UNCHANGED <<leaseVars, scopeWhole, operationVars, ghostVars>>

\* Mistake: any answer is taken for the one to this window action.
AcknowledgedByAny(o) == o.kind = "window" /\ seen.actionToken # 0

\* The answer to this window action is there.
Acknowledged(o) == o.kind = "window" /\ seen.actionToken = o.token

\* sync_control_state when the epoch moved: what was going on is cancelled.
SyncTakeover ==
    /\ Turn("poll")
    /\ seen.epoch > controlEpoch
    /\ controlEpoch' = seen.epoch
    /\ writer' = FALSE
    /\ leaseLive' = FALSE
    /\ FinishTyping("cancelled")
    /\ TurnTo("bridge")
    /\ UNCHANGED <<linkVars, seen, paused, scopeWhole, revokes, counted>>

\* sync_control_state when it did not: the answer to a window action ends it,
\* a positive one once the scene shows it.
SyncControlState ==
    /\ Turn("poll")
    /\ seen.epoch <= controlEpoch
    /\ IF typing # 0 /\ Acknowledged(Current)
       THEN \/ /\ ~seen.actionOk
               /\ Finish(Current, "rejected")
            \/ /\ seen.actionOk
               /\ Finish(Current, "finished") \/ NothingEnds
       ELSE NothingEnds
    /\ TurnTo("bridge")
    /\ UNCHANGED <<linkVars, seen, controlEpoch, paused, leaseVars, scopeWhole, revokes, counted>>

\* as_semantic_dispatch, with something to run or without.
RunCallback ==
    /\ Turn("bridge")
    /\ DispatchCallback
    /\ TurnTo("serve")
    /\ UNCHANGED <<linkVars, seen, controlEpoch, paused, leaseVars, scopeWhole>>
    /\ UNCHANGED <<operationVars, revokes, told, counted>>

NoCallback ==
    /\ Turn("bridge")
    /\ TurnTo("serve")
    /\ UNCHANGED <<semanticVars, linkVars, seen, controlEpoch, paused, leaseVars, scopeWhole>>
    /\ UNCHANGED <<operationVars, revokes, told, counted>>

Serving ==
    /\ Turn("serve")
    /\ UNCHANGED <<phase, compVars, toDaemon, takeovers, done, textVars>>

\* control.acquire.
AcquireControl ==
    /\ Serving
    /\ ~paused
    /\ ~seen.human
    /\ writer' = TRUE
    /\ leaseLive' = TRUE
    /\ UNCHANGED <<semanticVars, toComp, seen, controlEpoch, paused, scopeWhole>>
    /\ UNCHANGED <<operationVars, revokes, told>>

\* control.release, operation.cancel of the active operation, window.release
\* of the focused window, seat.pause.
Interrupt ==
    /\ Serving
    /\ revokes < MaxRevokes
    /\ revokes' = revokes + 1
    /\ RevokeInput
    /\ \/ ((writer /\ leaseLive) \/ typing # 0) /\ UNCHANGED paused
       \/ paused' = TRUE
    /\ UNCHANGED <<seen, scopeWhole>>

\* seat.resume.
Resume ==
    /\ Serving
    /\ paused
    /\ paused' = FALSE
    /\ UNCHANGED <<semanticVars, toComp, seen, controlEpoch, leaseVars, scopeWhole>>
    /\ UNCHANGED <<operationVars, revokes, told>>

\* window.lease, window.release of a window in the background, a scene too
\* large for the registry.
ScopeChanges ==
    /\ Serving
    /\ "semantic" \in Kinds
    /\ scopeWhole => revokes < MaxRevokes
    /\ revokes' = IF scopeWhole THEN revokes + 1 ELSE revokes
    /\ scopeWhole' = ~scopeWhole
    /\ UNCHANGED <<semanticVars, toComp, seen, controlEpoch, paused, leaseVars>>
    /\ UNCHANGED <<operationVars, told>>

\* The tests of response_for and dispatch before an operation is accepted.
Admitted(kind) ==
    /\ Serving
    /\ kind \in Kinds
    /\ nextOperation < MaxAccepted
    /\ writer
    /\ leaseLive
    /\ ~paused
    /\ ~seen.human
    /\ typing = 0
    /\ Room

NewToken == nextOperation + 1

\* A new receipt takes the slot of the oldest.
Accept(kind, submitted, count, active) ==
    LET o == [NoReceipt EXCEPT !.token = NewToken, !.kind = kind, !.epoch = controlEpoch,
                               !.active = active, !.submitted = submitted, !.count = count,
                               !.outcome = IF active THEN "running" ELSE "finished",
                               !.known = seen.known]
    IN /\ nextOperation' = NewToken
       /\ operations' = [operations EXCEPT ![Slot(NewToken)] = o]
       /\ typing' = IF active THEN NewToken ELSE 0
       /\ opLate' = FALSE
       /\ told' = [told EXCEPT ![NewToken] = [kind |-> kind, outcome |-> o.outcome]]
       /\ UNCHANGED <<controlEpoch, paused, leaseVars, scopeWhole, revokes>>

\* keyboard.type: an empty text is finished at once.
StartType ==
    /\ Admitted("type")
    /\ \E n \in 0..MaxText : Accept("type", 0, n, n > 0)
    /\ UNCHANGED <<semanticVars, toComp, seen>>

\* window.focus, move, resize, close.
StartWindow ==
    /\ Admitted("window")
    /\ Accept("window", 1, 1, TRUE)
    /\ toComp' = toComp \o <<AcquireRequest(controlEpoch),
                             [kind |-> "window", epoch |-> controlEpoch, token |-> NewToken]>>
    /\ UNCHANGED <<semanticVars, seen>>

\* keyboard.paste: agentseat_input_paste_offer forgets the last offer.
StartPaste ==
    /\ Admitted("paste")
    /\ Accept("paste", 1, 1, TRUE)
    /\ seen' = [seen EXCEPT !.clipToken = 0, !.clipOk = TRUE, !.transferred = FALSE]
    /\ toComp' = toComp \o <<AcquireRequest(controlEpoch),
                             [kind |-> "offer", epoch |-> controlEpoch, token |-> NewToken]>>
    /\ UNCHANGED semanticVars

\* a11y.*: refused while the slot of the last call is taken.
StartSemantic ==
    /\ Admitted("semantic")
    /\ scopeWhole
    /\ Accept("semantic", 0, 1, TRUE)
    /\ StartCall(NewToken)
    /\ UNCHANGED <<toComp, seen>>

----------------------------------------------------------------------------
(* The end of a turn: advance_typing ("advance"), then advance_semantic.    *)

AdvanceOnly ==
    /\ Turn("serve")
    /\ TurnTo("semantic")
    /\ UNCHANGED <<toDaemon, seen, paused, scopeWhole, revokes>>

SameLease == UNCHANGED <<controlEpoch, leaseVars>>

CountSent == counted' = [counted EXCEPT ![typing] = operations'[Slot(typing)].submitted]

Interrupted(o) == paused \/ seen.human \/ o.epoch # controlEpoch

\* Nothing runs, or nothing is due: next_msec, the answers of others.
Waits(o) ==
    \/ o.kind \in {"type", "window", "semantic"}
    \/ (o.kind = "paste" /\ seen.clipToken # o.token)

AdvanceIdle ==
    /\ AdvanceOnly
    /\ SameLease
    /\ typing # 0 => (~Interrupted(Current) /\ ~opLate /\ Waits(Current))
    /\ UNCHANGED <<toComp, counted>>
    /\ NothingEnds

\* Mistake: the deadline is not looked at.
AdvanceCancelledOnly ==
    /\ AdvanceOnly
    /\ SameLease
    /\ typing # 0
    /\ Interrupted(Current)
    /\ Finish(Current, "cancelled")
    /\ UNCHANGED <<toComp, counted>>

\* Taken over, paused, or past the deadline.
AdvanceCancelled ==
    /\ AdvanceOnly
    /\ SameLease
    /\ typing # 0
    /\ Interrupted(Current) \/ opLate
    /\ Finish(Current, IF Interrupted(Current) THEN "cancelled" ELSE "deadline_exceeded")
    /\ UNCHANGED <<toComp, counted>>

Proceeds(kind) ==
    /\ AdvanceOnly
    /\ typing # 0
    /\ ~Interrupted(Current)
    /\ ~opLate
    /\ Current.kind = kind

CodepointSent == toComp' = toComp \o <<AcquireRequest(Current.epoch), KeyRequest(typing)>>

\* Mistake: a codepoint that failed is reported as one never sent.
TypeCodepointDenied ==
    /\ Proceeds("type")
    /\ SameLease
    /\ Room
    /\ CodepointSent
    /\ LET o == [Current EXCEPT !.submitted = @ + 1] IN
       \/ o.submitted = o.count /\ Finish(o, "finished")
       \/ /\ o.submitted < o.count
          /\ operations' = [operations EXCEPT ![Slot(typing)] = o]
          /\ UNCHANGED <<nextOperation, typing, opLate, told, semanticVars>>
       \/ Finish(Current, "cancelled")
    /\ CountSent

\* Mistake: the operation ends before its last codepoint is counted.
TypeCodepointLastUncounted ==
    /\ Proceeds("type")
    /\ SameLease
    /\ Room
    /\ CodepointSent
    /\ LET o == [Current EXCEPT !.submitted = @ + 1] IN
       IF o.submitted = o.count THEN Finish(Current, "finished")
       ELSE /\ operations' = [operations EXCEPT ![Slot(typing)] = o]
            /\ UNCHANGED <<nextOperation, typing, opLate, told, semanticVars>>
    /\ CountSent

\* One codepoint, or as many of its requests as were made when it failed:
\* the receipt does not count it then.
TypeCodepoint ==
    /\ Proceeds("type")
    /\ SameLease
    /\ Room
    /\ \/ /\ LET o == [Current EXCEPT !.submitted = @ + 1] IN
             \/ o.submitted = o.count /\ Finish(o, "finished")
             \/ /\ o.submitted < o.count
                /\ operations' = [operations EXCEPT ![Slot(typing)] = o]
                /\ UNCHANGED <<nextOperation, typing, opLate, told, semanticVars>>
          /\ CodepointSent
       \/ /\ Finish(Current, "outcome_unknown")
          /\ CodepointSent \/ toComp' = Append(toComp, AcquireRequest(Current.epoch))
    /\ CountSent

\* The offer was refused.
PasteRefused ==
    /\ Proceeds("paste")
    /\ SameLease
    /\ seen.clipToken = typing
    /\ ~seen.clipOk
    /\ Finish(Current, "rejected")
    /\ UNCHANGED <<toComp, counted>>

\* The offer stands: Ctrl+V once, then the wait for a reader.  The four key
\* events are one acquire here.
PasteProceeds ==
    /\ Proceeds("paste")
    /\ SameLease
    /\ seen.clipToken = typing
    /\ seen.clipOk
    /\ Current.keysSent \/ Room
    /\ toComp' = IF Current.keysSent THEN toComp
                 ELSE Append(toComp, AcquireRequest(Current.epoch))
    /\ LET o == [Current EXCEPT !.keysSent = TRUE] IN
       IF seen.transferred THEN Finish(o, "finished")
       ELSE /\ operations' = [operations EXCEPT ![Slot(typing)] = o]
            /\ UNCHANGED <<nextOperation, typing, opLate, told, semanticVars>>
    /\ UNCHANGED counted

\* A key could not be sent.
PasteKeysFail ==
    /\ Proceeds("paste")
    /\ seen.clipToken = typing
    /\ seen.clipOk
    /\ ~Current.keysSent
    /\ Room
    /\ controlEpoch' = controlEpoch + 1
    /\ writer' = FALSE
    /\ leaseLive' = FALSE
    /\ Finish([Current EXCEPT !.keysSent = TRUE], "cancelled")
    /\ toComp' = toComp \o <<AcquireRequest(Current.epoch), RevokeRequest>>
    /\ UNCHANGED counted

AdvanceTyping ==
    \/ AdvanceIdle
    \/ AdvanceCancelled
    \/ TypeCodepoint
    \/ PasteRefused
    \/ PasteProceeds
    \/ PasteKeysFail

\* The receipt of the last call as advance_semantic brings it up to date.
Receipt ==
    [operations[Slot(call.token)] EXCEPT
        !.submitted = IF call.sent THEN 1 ELSE 0,
        !.replied = call.replied,
        !.succeeded = call.succeeded,
        !.cancelRequested = @ \/ call.cancelled]

AdvancesSemantic ==
    /\ Turn("semantic")
    /\ TurnTo("top")
    /\ UNCHANGED <<toDaemon, controlEpoch, paused, leaseVars, scopeWhole, revokes, counted>>

Unasked == UNCHANGED <<toComp, seen>>

Write(o) ==
    /\ operations' = [operations EXCEPT ![Slot(call.token)] = o]
    /\ UNCHANGED <<nextOperation, typing, opLate, told>>

\* No call yet, or its receipt has been evicted while the reply was due.
NoReceiptKept ==
    /\ AdvancesSemantic
    /\ ~Kept(call.token)
    /\ Unasked
    /\ NothingEnds

\* The operation is over; a late reply is entered all the same.
NoteLateReply ==
    /\ AdvancesSemantic
    /\ Kept(call.token)
    /\ ~Receipt.active
    /\ Unasked
    /\ Write(Receipt)
    /\ UNCHANGED semanticVars

CallRuns == AdvancesSemantic /\ Active(call.token)

CallOver ==
    /\ CallRuns
    /\ ~call.busy
    /\ Unasked
    /\ Finish(Receipt, call.stage)

MayContinue ==
    /\ ~Interrupted(Receipt)
    /\ writer
    /\ leaseLive
    /\ scopeWhole

CallInterrupted ==
    /\ CallRuns
    /\ call.busy
    /\ ~MayContinue
    /\ Unasked
    /\ Finish(Receipt, "cancelled")

CallPrepares ==
    /\ CallRuns
    /\ call.busy
    /\ MayContinue
    /\ ~call.ready
    /\ Unasked
    /\ Write(Receipt)
    /\ UNCHANGED semanticVars

CallReady == CallRuns /\ call.busy /\ MayContinue /\ call.ready

\* The scene moved since the caller looked.
CallStale ==
    /\ CallReady
    /\ Unasked
    /\ Finish(Receipt, "rejected")

\* agentseat_input_check_authority: ask for the gate, and have the compositor
\* answer behind it.
AskAuthority ==
    /\ CallReady
    /\ ~Receipt.asked
    /\ Room
    /\ toComp' = toComp \o <<AcquireRequest(Receipt.epoch),
                             [kind |-> "sync", epoch |-> 0, token |-> Receipt.token]>>
    /\ seen' = [seen EXCEPT !.asked = Receipt.token]
    /\ Write([Receipt EXCEPT !.asked = TRUE])
    /\ UNCHANGED semanticVars

Answered == Receipt.asked /\ seen.authToken = Receipt.token

AwaitAuthority ==
    /\ CallReady
    /\ Receipt.asked
    /\ ~Answered
    /\ Unasked
    /\ Write(Receipt)
    /\ UNCHANGED semanticVars

Authorized ==
    /\ seen.authAllowed
    /\ seen.authEpoch = Receipt.epoch
    /\ seen.allowed
    /\ seen.epoch = Receipt.epoch

AuthorityRefused ==
    /\ CallReady
    /\ Answered
    /\ ~Authorized
    /\ Unasked
    /\ Finish(Receipt, "cancelled")

\* Mistake: the receipt learns of the submission only in the next turn.
ReceiptBeforeSubmit == Receipt

ReceiptAfterSubmit == [Receipt EXCEPT !.submitted = IF call'.sent THEN 1 ELSE 0]

\* Mistake: having asked is enough; the answer is not waited for.
SubmitCallUnanswered ==
    /\ CallReady
    /\ Receipt.asked
    /\ Submit
    /\ Unasked
    /\ Write(ReceiptAfterSubmit)

\* The single commit point.
SubmitCall ==
    /\ CallReady
    /\ Answered
    /\ Authorized
    /\ Submit
    /\ Unasked
    /\ Write(ReceiptAfterSubmit)

AdvanceSemantic ==
    \/ NoReceiptKept
    \/ NoteLateReply
    \/ CallOver
    \/ CallInterrupted
    \/ CallPrepares
    \/ CallStale
    \/ AskAuthority
    \/ AwaitAuthority
    \/ AuthorityRefused
    \/ SubmitCall

----------------------------------------------------------------------------
(* Time, and the application.  A deadline may pass at any moment; that it   *)
(* did matters when it is looked at, so it passes in the part of the turn  *)
(* that leads up to the test.                                              *)

LeaseRunsOut ==
    /\ leaseLive
    /\ revokes < MaxRevokes
    /\ revokes' = revokes + 1
    /\ leaseLive' = FALSE
    /\ UNCHANGED <<semanticVars, compVars, linkVars, phase, seen, controlEpoch, paused>>
    /\ UNCHANGED <<writer, scopeWhole, operationVars, takeovers, done, told, textVars>>

OperationLate ==
    /\ Turn("serve")
    /\ typing # 0
    /\ ~opLate
    /\ opLate' = TRUE
    /\ UNCHANGED <<semanticVars, compVars, linkVars, phase, seen, controlEpoch, paused>>
    /\ UNCHANGED <<leaseVars, scopeWhole, operations, nextOperation, typing, ghostVars>>

PreparationLate ==
    /\ Turn("top")
    /\ call.busy
    /\ ~call.sent
    /\ ~callLate
    /\ callLate' = TRUE
    /\ UNCHANGED <<call, pending, stop, dispatched, appVars, compVars, linkVars, daemonVars>>
    /\ UNCHANGED ghostVars

\* human_remaining_ms: the daemon's own clock, which may run out first, as
\* activity soon after a report is not reported.
DaemonQuietElapses ==
    /\ Turn("serve")
    /\ seen.human
    /\ seen' = [seen EXCEPT !.human = FALSE]
    /\ UNCHANGED <<semanticVars, compVars, linkVars, phase, controlEpoch, paused>>
    /\ UNCHANGED <<leaseVars, scopeWhole, operationVars, ghostVars>>

Time ==
    \/ LeaseRunsOut
    \/ OperationLate
    \/ PreparationLate
    \/ DaemonQuietElapses

ApplicationMethod ==
    /\ Application
    /\ UNCHANGED <<compVars, linkVars, daemonVars, ghostVars>>

Serve ==
    \/ AcquireControl
    \/ Interrupt
    \/ Resume
    \/ ScopeChanges
    \/ StartType
    \/ StartWindow
    \/ StartPaste
    \/ StartSemantic

Daemon ==
    \/ ExpireWriter
    \/ PreparePoll
    \/ ReadEvent
    \/ SyncTakeover
    \/ SyncControlState
    \/ RunCallback
    \/ NoCallback
    \/ Serve
    \/ AdvanceTyping
    \/ AdvanceSemantic

Init ==
    /\ InitSemantic
    /\ epoch = 1
    /\ allowed = FALSE
    /\ human = FALSE
    /\ clip = 0
    /\ reads = 0
    /\ toComp = <<>>
    /\ toDaemon = <<>>
    /\ phase = "top"
    /\ seen = [epoch |-> 1, allowed |-> FALSE, human |-> FALSE, known |-> 0,
               asked |-> 0, authToken |-> 0, authEpoch |-> 0, authAllowed |-> FALSE,
               authKnown |-> 0, actionToken |-> 0, actionOk |-> TRUE,
               clipToken |-> 0, clipOk |-> TRUE, transferred |-> FALSE]
    /\ controlEpoch = 1
    /\ paused = FALSE
    /\ writer = FALSE
    /\ leaseLive = FALSE
    /\ scopeWhole = TRUE
    /\ operations = [s \in 0..MaxOperations - 1 |-> NoReceipt]
    /\ nextOperation = 0
    /\ typing = 0
    /\ opLate = FALSE
    /\ takeovers = 0
    /\ revokes = 0
    /\ done = {}
    /\ typed = [t \in Tokens |-> 0]
    /\ counted = [t \in Tokens |-> 0]
    /\ told = [t \in Tokens |-> [kind |-> "none", outcome |-> "none"]]

Next == Compositor \/ Daemon \/ Time \/ ApplicationMethod

Spec == Init /\ [][Next]_vars

----------------------------------------------------------------------------
(* What the receipts promise.                                              *)

Outcomes == {"none", "running", "finished", "cancelled", "rejected",
             "deadline_exceeded", "outcome_unknown"}

ReceiptType ==
    [token : 0..MaxAccepted, kind : Kinds \cup {"none"}, epoch : Nat,
     active : BOOLEAN, outcome : Outcomes, submitted : Nat, count : Nat,
     asked : BOOLEAN, keysSent : BOOLEAN, cancelRequested : BOOLEAN,
     replied : BOOLEAN, succeeded : BOOLEAN, known : Nat]

CallType ==
    [token : 0..MaxAccepted, stage : Stages, busy : BOOLEAN, ready : BOOLEAN,
     sent : BOOLEAN, replied : BOOLEAN, succeeded : BOOLEAN, cancelled : BOOLEAN]

\* Receipts, the call and the active operation keep their types; the active
\* operation is the only one whose receipt is active, and never evicted.
TypeOK ==
    /\ operations \in [0..MaxOperations - 1 -> ReceiptType]
    /\ call \in CallType
    /\ typing \in 0..nextOperation
    /\ \A s \in DOMAIN operations :
        operations[s].active <=> (typing # 0 /\ operations[s].token = typing)

\* What a receipt claims.  Nothing, if it says that keys were sent ("submitted
\* counts Wayland submissions, not characters proven in an application",
\* docs/PROTOCOL.md): so of a finished text, and of one that was cancelled
\* after its first codepoint.  PasteReachedReader has the finished paste.
Claim(t) ==
    IF \/ told[t].kind \in {"type", "paste"} /\ told[t].outcome = "finished"
       \/ counted[t] > 0 /\ told[t].outcome \in {"cancelled", "rejected"}
    THEN "outcome_unknown"
    ELSE told[t].outcome

Effects == accepted \cup done \cup {t \in Tokens : typed[t] > 0}

Promise == INSTANCE OperationPromise
    WITH outcome <- [t \in Tokens |-> Claim(t)], effect <- Effects

\* The receipts mean what OperationPromise says: one operation at a time,
\* finished only if done, cancelled or rejected only if never done (neither
\* before nor after, by a request still queued, a method still in the
\* application's inbox or a key of a text that is said to have sent none),
\* and no outcome is revised.
PromiseSpec == Promise!Spec

\* A semantic method is submitted only if the compositor, asked after the
\* call was prepared, had the gate open for it, and no takeover came between
\* the moment the operation was accepted and that answer, nor is one known
\* since.
SubmittedUnderPermission ==
    [][(call'.sent /\ ~call.sent) =>
        LET o == operations[Slot(call.token)] IN
        /\ o.token = typing
        /\ seen.authToken = o.token
        /\ seen.authKnown = o.known
        /\ seen.known = o.known]_vars

\* may_have_side_effects is what happened: the receipt of a semantic call
\* says submitted exactly if the method left, whatever ended the operation,
\* and reports an answer only to its own method.
ReceiptsAreHonest ==
    /\ TypeOK
    /\ \A s \in DOMAIN operations :
        LET o == operations[s] IN
        o.kind = "semantic" =>
            /\ o.submitted = 1 <=> o.token \in dispatched
            /\ o.replied => o.token \in dispatched
            /\ o.succeeded => o.token \in accepted

\* A cancelled or evicted call never starts a second one beside it: what is
\* under way is the last call, and only one method is ever waited for.
OneCallAtATime ==
    /\ pending # "none" <=> (call.busy /\ ~call.ready)
    /\ Active(call.token) => call.token = typing

\* No more of a text is let through, then or later, than its receipt counts,
\* whatever ended it and also when the receipt is gone; unless it says that
\* the outcome is not known.
TextAsCounted ==
    \A t \in Tokens :
        told[t].kind = "type" /\ told[t].outcome # "outcome_unknown" => typed[t] <= counted[t]

\* docs/PROTOCOL.md, keyboard.paste: "No receiver within five seconds leaves
\* an unknown outcome", and the counts "describe bytes written to application
\* receive pipes": a paste that finished was read by somebody.
PasteReachedReader ==
    \A t \in Tokens :
        told[t] = [kind |-> "paste", outcome |-> "finished"] => t \in done

----------------------------------------------------------------------------
(* What eventually happens.                                                *)

\* The two event loops run, asynchronous calls have timeouts (three seconds
\* for the bridge, one for the bus, call_timeout for the method), and
\* deadlines pass.
Fairness ==
    /\ WF_vars(ProcessRequest)
    /\ WF_vars(ExpireWriter)
    /\ WF_vars(PreparePoll)
    /\ SF_vars(ReadEvent)
    /\ WF_vars(SyncTakeover \/ SyncControlState)
    /\ SF_vars(RunCallback)
    /\ WF_vars(NoCallback)
    /\ WF_vars(AdvanceTyping)
    /\ WF_vars(AdvanceSemantic)
    /\ SF_vars(OperationLate)
    /\ SF_vars(PreparationLate)

FairSpec == Spec /\ Fairness

\* The one place for an operation is never taken for good.
OperationEnds == \A t \in Tokens : (typing = t) ~> (typing # t)

\* Nor is the bridge: SEMANTIC_BUSY ends, whoever gave the call up.
CallEnds == call.busy ~> ~call.busy

=============================================================================
