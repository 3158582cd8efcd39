---------------------------- MODULE SemanticCall ----------------------------
(***************************************************************************)
(* One semantic call of the daemon (native/agentseat-semantic.c): a target *)
(* is prepared by the accessibility bridge and verified, step by step, by  *)
(* asynchronous calls; the daemon then submits the method once.  Preparing *)
(* can be given up at any point, a submitted method cannot: its slot stays *)
(* taken until a reply or the end of the wait for one.                     *)
(*                                                                         *)
(* At most one asynchronous call is outstanding; pending names the         *)
(* callback that waits for it.  GIO, the bridge and the application are    *)
(* external: a call ends with a result or an error, and one whose          *)
(* cancellable was triggered may still have finished before.  The private  *)
(* context never needs more than the AS_SEMANTIC_POLL_MAX descriptors.     *)
(***************************************************************************)
EXTENDS Naturals

VARIABLES
    call,        \* struct as_semantic, what its status tells
    pending,     \* the callback that is due, "none" if none is
    stop,        \* the call's cancellable was triggered
    callLate,    \* now >= deadline of the preparation
    dispatched,  \* ghost: calls handed to the bus
    inbox,       \* external: methods the application has yet to look at
    answer,      \* external: its answer to the method waited for
    accepted     \* external: methods the application carried out

callVars == <<call, pending, stop, callLate>>
appVars == <<inbox, answer, accepted>>
semanticVars == <<callVars, dispatched, appVars>>

\* The exchange with the bridge (connected, written, read_ready, none of which
\* looks at cancelled), the connection to its bus, and what the bus says of
\* itself and of the target.
Preparation == <<"read_ready", "bus_ready", "bus_identity_ready", "target_pid_ready">>

Stages == {"idle", "preparing", "prepared", "in_flight",
           "finished", "rejected", "cancelled", "outcome_unknown"}

Idle == [token |-> 0, stage |-> "idle", busy |-> FALSE, ready |-> FALSE,
         sent |-> FALSE, replied |-> FALSE, succeeded |-> FALSE,
         cancelled |-> FALSE]

InitSemantic ==
    /\ call = Idle
    /\ pending = "none"
    /\ stop = FALSE
    /\ callLate = FALSE
    /\ dispatched = {}
    /\ inbox = {}
    /\ answer = "none"
    /\ accepted = {}

\* fail.
Failed(c) ==
    [c EXCEPT !.stage = IF c.sent THEN "outcome_unknown"
                        ELSE IF c.cancelled THEN "cancelled" ELSE "rejected",
              !.busy = FALSE, !.ready = FALSE]

\* as_semantic_start when the previous call is over: everything of it is
\* forgotten, and either the bridge's socket is being connected or the scope
\* is unavailable.
StartCall(t) ==
    LET fresh == [Idle EXCEPT !.token = t, !.stage = "preparing", !.busy = TRUE] IN
    /\ ~call.busy
    /\ \/ call' = fresh /\ pending' = "read_ready"
       \/ call' = Failed(fresh) /\ pending' = "none"
    /\ stop' = FALSE
    /\ callLate' = FALSE
    /\ answer' = "none"
    /\ UNCHANGED <<dispatched, inbox, accepted>>

\* Mistake: a prepared call waits for a callback that is not coming.
CancelledCallLingers(c) ==
    LET marked == [c EXCEPT !.cancelled = TRUE] IN
    IF c.sent THEN marked ELSE [marked EXCEPT !.ready = FALSE]

\* Mistake: the slot of a call in flight is given free.
CancelledCallFreed(c) ==
    LET marked == [c EXCEPT !.cancelled = TRUE] IN
    IF c.sent \/ c.stage = "prepared" THEN Failed(marked)
    ELSE [marked EXCEPT !.ready = FALSE]

\* as_semantic_cancel: a prepared call is dropped at once, one in
\* preparation when its callback runs, one in flight is only marked.
CancelledCall(c) ==
    LET marked == [c EXCEPT !.cancelled = TRUE] IN
    IF c.sent THEN marked
    ELSE IF c.stage = "prepared" THEN Failed(marked)
    ELSE [marked EXCEPT !.ready = FALSE]

CancelStops == call.busy /\ ~call.sent /\ call.stage # "prepared"

\* as_semantic_cancel, when there is something to cancel.
CancelCall ==
    /\ call' = IF call.busy THEN CancelledCall(call) ELSE call
    /\ stop' = (stop \/ CancelStops)
    /\ UNCHANGED <<pending, callLate>>

\* The deadline as as_semantic_prepare_poll looks at it, once in a turn.
PreparationExpired ==
    IF call.busy /\ ~call.sent /\ callLate
    THEN /\ call' = IF call.ready THEN Failed(call) ELSE call
         /\ stop' = (stop \/ ~call.ready)
    ELSE UNCHANGED <<call, stop>>

\* The steps that look at cancelled before they go on.
Checked == {"bus_ready", "bus_identity_ready", "target_pid_ready"}

\* An asynchronous call of the preparation failed, or what it brought was
\* refused: error, timeout, wrong peer, bus, process or arguments.
PreparationFails ==
    /\ \E i \in DOMAIN Preparation : pending = Preparation[i]
    /\ call' = Failed(call)
    /\ pending' = "none"
    /\ UNCHANGED <<stop, callLate, dispatched, appVars>>

\* It brought what was hoped for: the next one starts, or the target is ready.
PreparationAdvances ==
    \E i \in DOMAIN Preparation :
        /\ pending = Preparation[i]
        /\ ~(call.cancelled /\ pending \in Checked)
        /\ IF pending = "target_pid_ready"
           THEN /\ pending' = "none"
                /\ call' = [call EXCEPT !.ready = TRUE, !.stage = "prepared"]
           ELSE pending' = Preparation[i + 1] /\ UNCHANGED call
        /\ UNCHANGED <<stop, callLate, dispatched, appVars>>

\* as_semantic_submit, the single commit point: the method leaves, unless the
\* target is no longer the process that was verified.
MaySubmit == call.ready /\ ~call.sent /\ ~call.cancelled

Submit ==
    IF MaySubmit
    THEN \/ /\ call' = [call EXCEPT !.sent = TRUE, !.ready = FALSE, !.stage = "in_flight"]
            /\ pending' = "action_replied"
            /\ dispatched' = dispatched \cup {call.token}
            /\ inbox' = inbox \cup {call.token}
            /\ UNCHANGED <<stop, callLate, answer, accepted>>
         \/ /\ call' = Failed(call)
            /\ UNCHANGED <<pending, stop, callLate, dispatched, appVars>>
    ELSE UNCHANGED semanticVars

\* external: the application looks at a method, soon or long after anybody
\* waits for it, and carries it out, declines it, or the dispatcher does not
\* know it.
ApplicationActs ==
    \E t \in inbox, a \in {"true", "false", "refused", "error"} :
        /\ inbox' = inbox \ {t}
        /\ accepted' = IF a = "true" THEN accepted \cup {t} ELSE accepted
        /\ answer' = IF pending = "action_replied" /\ t = call.token THEN a ELSE answer
        /\ UNCHANGED <<callVars, dispatched>>

\* external: an error may come after the effect.
ApplicationActsAndFails ==
    \E t \in inbox :
        /\ inbox' = inbox \ {t}
        /\ accepted' = accepted \cup {t}
        /\ answer' = IF pending = "action_replied" /\ t = call.token THEN "error" ELSE answer
        /\ UNCHANGED <<callVars, dispatched>>

\* Only an answer of the application, or a standard refusal to dispatch, says
\* what happened; no answer within call_timeout and other errors do not.
ReplyOutcome(a) ==
    CASE a = "true" -> "finished"
      [] a \in {"false", "refused"} -> "rejected"
      [] a \in {"error", "none"} -> "outcome_unknown"

\* action_replied.
ActionReplied ==
    /\ pending = "action_replied"
    /\ pending' = "none"
    /\ call' = [call EXCEPT !.busy = FALSE, !.ready = FALSE,
                            !.replied = answer \in {"true", "false", "refused"},
                            !.succeeded = (answer = "true"),
                            !.stage = ReplyOutcome(answer)]
    /\ answer' = "none"
    /\ UNCHANGED <<stop, callLate, dispatched, inbox, accepted>>

\* as_semantic_dispatch: the callback that is due runs, if it is due.
DispatchCallback == PreparationFails \/ PreparationAdvances \/ ActionReplied

Application == ApplicationActs \/ ApplicationActsAndFails

=============================================================================
