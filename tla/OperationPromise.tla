-------------------------- MODULE OperationPromise --------------------------
(***************************************************************************)
(* What the receipt of an operation means (docs/PROTOCOL.md, "Keyboard     *)
(* operations" and "Native semantic writes").  Operations run one at a     *)
(* time.  A receipt that says finished is about something that happened;   *)
(* one that says cancelled or rejected, about something that did not       *)
(* happen and never will; when the daemon cannot know, it says so.  What   *)
(* it once said of the outcome, it does not take back.                     *)
(***************************************************************************)
CONSTANT Tokens  \* operations, by number

VARIABLES
    outcome,  \* what the receipt of each operation says
    effect    \* operations that reached their target

vars == <<outcome, effect>>

Final == {"finished", "cancelled", "rejected", "deadline_exceeded", "outcome_unknown"}

Denied == {"cancelled", "rejected"}

Init ==
    /\ outcome = [t \in Tokens |-> "none"]
    /\ effect = {}

\* An operation is accepted when no other runs; one that has nothing to do
\* makes no claim.
Accept(t) ==
    /\ outcome[t] = "none"
    /\ \A u \in Tokens : outcome[u] # "running"
    /\ \E o \in {"running", "outcome_unknown"} :
        outcome' = [outcome EXCEPT ![t] = o]
    /\ UNCHANGED effect

\* It takes effect while it runs, or later if nobody was told otherwise.
TakeEffect(t) ==
    /\ t \notin effect
    /\ outcome[t] # "none"
    /\ outcome[t] \notin Denied
    /\ effect' = effect \cup {t}
    /\ UNCHANGED outcome

End(t) ==
    /\ outcome[t] = "running"
    /\ \E o \in Final :
        /\ o = "finished" => t \in effect
        /\ o \in Denied => t \notin effect
        /\ outcome' = [outcome EXCEPT ![t] = o]
    /\ UNCHANGED effect

Next == \E t \in Tokens : Accept(t) \/ TakeEffect(t) \/ End(t)

Spec == Init /\ [][Next]_vars

=============================================================================
