------------------------------ MODULE OnceOnly ------------------------------
(***************************************************************************)
(* What a client of the daemon may rely on when it repeats a write request *)
(* whose answer it never saw (docs/PROTOCOL.md, "Transport, sessions and   *)
(* receipts"): whatever is lost, repeated or restarted, a request is       *)
(* carried out at most once, later requests of a controller are never      *)
(* carried out before earlier ones, and there is one answer to a request.  *)
(***************************************************************************)
EXTENDS Naturals

CONSTANTS
    Sessions,     \* session_id values, in the order of their daemons
    Controllers,  \* controller_id values
    Sequences,    \* request_id values
    Bodies,       \* method and parameters
    Outcomes      \* results and errors

VARIABLES
    executions,  \* how often each request was carried out
    answered     \* the answers given to requests that were carried out

vars == <<executions, answered>>

Keys == [session : Sessions, owner : Controllers, sequence : Sequences]

Answers == [key : Keys, body : Bodies, outcome : Outcomes]

\* j comes after k from the same controller to the same daemon.
Later(j, k) ==
    /\ j.session = k.session
    /\ j.owner = k.owner
    /\ j.sequence > k.sequence

Init ==
    /\ executions = [k \in Keys |-> 0]
    /\ answered = {}

Execute(k) ==
    /\ executions[k] = 0
    /\ \A j \in Keys : Later(j, k) => executions[j] = 0
    /\ executions' = [executions EXCEPT ![k] = 1]
    /\ UNCHANGED answered

Answer(a) ==
    /\ executions[a.key] = 1
    /\ \A b \in answered : b.key # a.key
    /\ answered' = answered \cup {a}
    /\ UNCHANGED executions

Next == (\E k \in Keys : Execute(k)) \/ (\E a \in Answers : Answer(a))

Spec == Init /\ [][Next]_vars

\* No request is carried out twice.
AtMostOnce == \A k \in Keys : executions[k] <= 1

\* Whoever is answered about a request is told the same.
OneAnswer == \A a, b \in answered : a.key = b.key => a = b

=============================================================================
