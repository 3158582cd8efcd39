------------------------- MODULE Operations_proofs -------------------------
(***************************************************************************)
(* Theorems about Operations, for every set of kinds of operations, every  *)
(* number of receipts kept and every bound.                                *)
(*                                                                         *)
(* IInv is inductive.  Its parts: types; CallInv, how far the semantic     *)
(* call is and what that says of the method; BookInv, which receipts there *)
(* are; TieInv, what ties receipts to the call; EffectInv, what requests   *)
(* and answers under way say of window actions and offers; DeniedInv, that *)
(* what was denied did not and will not happen.  From it follow OneCall-   *)
(* AtATime and ReceiptsAreHonest, and with TextInv, what keys under way    *)
(* say of texts, the refinement of OperationPromise.                       *)
(* Given IInv, KnowInv and AskInv are inductive: what the daemon knows of  *)
(* takeovers, and what the answer behind an acquire says of it; from them  *)
(* follows SubmittedUnderPermission.                                       *)
(***************************************************************************)
EXTENDS Operations, Integers, FiniteSetTheorems, TLAPS

LEMMA SizesAre ==
    /\ MaxOperations \in Nat \ {0} /\ MaxAccepted \in Nat /\ MaxText \in Nat /\ MaxReads \in Nat
    /\ Kinds \subseteq {"type", "window", "paste", "semantic"}
    /\ Tokens = 1..MaxAccepted
  BY SizesAssumption, KindsAssumption DEF AllKinds, Tokens

----------------------------------------------------------------------------
(* The parts of the invariant.                                             *)

Requests ==
    [kind : {"acquire", "revoke", "sync"}, epoch : Nat, token : 0..MaxAccepted]
    \cup [kind : {"window", "offer", "key"}, epoch : Nat, token : Tokens]

Events ==
    [kind : {"state"}, epoch : Nat, allowed : BOOLEAN, human : BOOLEAN, known : Nat]
    \cup [kind : {"synced"}, token : 0..MaxAccepted, known : Nat]
    \cup [kind : {"action_done", "offered"}, token : Tokens, ok : BOOLEAN]
    \cup [kind : {"transfer"}, token : Tokens]

Views == [epoch : Nat, allowed : BOOLEAN, human : BOOLEAN, known : Nat,
          asked : 0..MaxAccepted, authToken : 0..MaxAccepted, authEpoch : Nat,
          authAllowed : BOOLEAN, authKnown : Nat, actionToken : 0..MaxAccepted,
          actionOk : BOOLEAN, clipToken : 0..MaxAccepted, clipOk : BOOLEAN, transferred : BOOLEAN]

CompTyped ==
    /\ epoch \in Nat /\ allowed \in BOOLEAN /\ human \in BOOLEAN
    /\ clip \in 0..MaxAccepted /\ takeovers \in Nat /\ done \subseteq Tokens

LinkTyped ==
    /\ toComp \in Seq(Requests) /\ toDaemon \in Seq(Events)
    /\ seen \in Views /\ controlEpoch \in Nat

BookTyped ==
    /\ operations \in [0..MaxOperations - 1 -> ReceiptType]
    /\ nextOperation \in 0..MaxAccepted
    /\ typing \in {0, nextOperation}
    /\ told \in [Tokens -> [kind : Kinds \cup {"none"}, outcome : Outcomes]]

\* The call, the callback that is due for it, and its method.
CallInv ==
    /\ call \in CallType /\ answer \in {"none", "true", "false", "refused", "error"}
    /\ dispatched \subseteq Tokens /\ inbox \subseteq dispatched /\ accepted \subseteq dispatched
    /\ inbox \cap accepted = {}
    /\ pending # "none" <=> (call.busy /\ ~call.ready)
    /\ pending = "action_replied" <=> (call.busy /\ call.sent)
    /\ pending # "action_replied" => answer = "none"
    /\ call.ready <=> call.stage = "prepared"
    /\ call.ready => call.busy /\ ~call.sent
    /\ call.token = 0 => ~call.busy /\ ~call.sent
    /\ call.token # 0 => (call.sent <=> call.token \in dispatched)
    /\ ~call.busy /\ call.token # 0 =>
        call.stage \in {"finished", "rejected", "cancelled", "outcome_unknown"}
    /\ call.stage = "finished" => call.token \in accepted
    /\ call.stage \in {"rejected", "cancelled"} => call.token \notin inbox \cup accepted
    /\ call.replied => call.sent
    /\ call.succeeded => call.token \in accepted
    /\ pending = "action_replied" =>
        /\ answer = "true" => call.token \in accepted
        /\ answer \in {"false", "refused"} => call.token \notin inbox \cup accepted

KindOf(t) == told[t].kind

\* The receipts, and what was told of the operations.
BookInv ==
    /\ \A s \in 0..MaxOperations - 1 :
        /\ operations[s].token <= nextOperation
        /\ operations[s].token # 0 =>
            /\ Slot(operations[s].token) = s
            /\ operations[s].kind = KindOf(operations[s].token)
        /\ operations[s].token = 0 => operations[s].kind = "none"
        /\ operations[s].active <=> (typing # 0 /\ operations[s].token = typing)
        /\ operations[s].kind \in {"window", "paste"} => operations[s].submitted > 0
    /\ nextOperation # 0 => Kept(nextOperation)
    /\ \A t \in Tokens :
        /\ told[t].kind = "none" <=> t > nextOperation
        /\ told[t].outcome = "none" <=> t > nextOperation
        /\ told[t].outcome = "running" <=> t = typing

\* A receipt of a semantic call says what became of the method.
Honest(o) ==
    o.kind = "semantic" =>
        /\ o.submitted = 1 <=> o.token \in dispatched
        /\ o.replied => o.token \in dispatched
        /\ o.succeeded => o.token \in accepted

TieInv ==
    /\ \A t \in dispatched : KindOf(t) = "semantic"
    /\ call.token <= nextOperation
    /\ call.token # 0 => KindOf(call.token) = "semantic"
    /\ typing # 0 /\ KindOf(typing) = "semantic" => call.token = typing
    /\ \A s \in 0..MaxOperations - 1 : Honest(operations[s])

\* A request of that kind for t is under way; there is one for each at most.
In(q, kind, t) == \E n \in 1..Len(q) : q[n].kind = kind /\ q[n].token = t
Once(q, kind) ==
    \A n, m \in 1..Len(q) :
        q[n].kind = kind /\ q[m].kind = kind /\ q[n].token = q[m].token => n = m

Asked(t) == In(toComp, "window", t) \/ In(toComp, "offer", t)

\* The compositor said no, or yes to a window action, whether or not the
\* daemon heard it; x is what it heard last.
Denial(m, t) == m.kind \in {"action_done", "offered"} /\ m.token = t /\ ~m.ok
Grant(m, t) == m.kind = "action_done" /\ m.token = t /\ m.ok

NoIn(q, x, t) ==
    \/ \E n \in 1..Len(q) : Denial(q[n], t)
    \/ x.actionToken = t /\ ~x.actionOk
    \/ x.clipToken = t /\ ~x.clipOk
YesIn(q, x, t) ==
    \/ \E n \in 1..Len(q) : Grant(q[n], t)
    \/ x.actionToken = t /\ x.actionOk

Refused(t) == NoIn(toDaemon, seen, t)
Granted(t) == YesIn(toDaemon, seen, t)

EffectInv ==
    /\ Once(toComp, "window") /\ Once(toComp, "offer")
    /\ clip # 0 => KindOf(clip) = "paste"
    /\ \A t \in Tokens :
        /\ In(toComp, "window", t) => KindOf(t) = "window"
        /\ In(toComp, "offer", t) => KindOf(t) = "paste"
        /\ t \in done => KindOf(t) \in {"window", "paste"}
        /\ Granted(t) => t \in done
        /\ Asked(t) => t \notin done /\ clip # t /\ ~Refused(t)
        /\ Refused(t) => t \notin done /\ clip # t /\ KindOf(t) \in {"window", "paste"}

\* Neither done nor still to be done.
Void(t) == t \notin inbox \cup accepted \cup done /\ ~Asked(t) /\ clip # t

DeniedInv == \A t \in Tokens : told[t].outcome \in {"cancelled", "rejected"} => Void(t)

IInv ==
    /\ CompTyped /\ LinkTyped /\ BookTyped
    /\ CallInv /\ BookInv /\ TieInv /\ EffectInv /\ DeniedInv

----------------------------------------------------------------------------
(* Queues.                                                                 *)

LEMMA TailIs ==
    ASSUME NEW S, NEW q \in Seq(S), q # <<>>
    PROVE  /\ Head(q) = q[1] /\ Head(q) \in S /\ Tail(q) \in Seq(S)
           /\ Len(q) \in Nat /\ Len(Tail(q)) = Len(q) - 1 /\ 1 \in 1..Len(q)
           /\ \A n \in 1..Len(Tail(q)) : n + 1 \in 1..Len(q) /\ Tail(q)[n] = q[n + 1]
  OBVIOUS

LEMMA AppendIs ==
    ASSUME NEW S, NEW q \in Seq(S), NEW m \in S
    PROVE  /\ Append(q, m) \in Seq(S) /\ Len(q) \in Nat /\ Len(Append(q, m)) = Len(q) + 1
           /\ \A n \in 1..Len(q) : Append(q, m)[n] = q[n]
           /\ Append(q, m)[Len(q) + 1] = m
           /\ \A n \in 1..Len(Append(q, m)) : n \in 1..Len(q) \/ n = Len(q) + 1
  OBVIOUS

LEMMA TwoMore ==
    ASSUME NEW S, NEW q \in Seq(S), NEW a \in S, NEW b \in S
    PROVE  q \o <<a, b>> = Append(Append(q, a), b)
  OBVIOUS

LEMMA InAppend ==
    ASSUME NEW S, NEW q \in Seq(S), NEW m \in S, NEW kind, NEW t
    PROVE  In(Append(q, m), kind, t) <=> In(q, kind, t) \/ (m.kind = kind /\ m.token = t)
  <1> DEFINE r == Append(q, m)
  <1>1. /\ Len(q) \in Nat /\ Len(r) = Len(q) + 1 /\ r[Len(q) + 1] = m
        /\ \A n \in 1..Len(q) : r[n] = q[n] /\ n \in 1..Len(r)
        /\ \A n \in 1..Len(r) : n \in 1..Len(q) \/ n = Len(q) + 1
        /\ Len(q) + 1 \in 1..Len(r)
    BY AppendIs
  <1> HIDE DEF r
  <1>2. In(r, kind, t) => In(q, kind, t) \/ (m.kind = kind /\ m.token = t)
    BY <1>1 DEF In
  <1>3. In(q, kind, t) => In(r, kind, t)
    BY <1>1 DEF In
  <1>4. m.kind = kind /\ m.token = t => In(r, kind, t)
    BY <1>1 DEF In
  <1> QED BY <1>2, <1>3, <1>4 DEF r

LEMMA OnceAppend ==
    ASSUME NEW S, NEW q \in Seq(S), NEW m \in S, NEW kind, Once(q, kind),
           m.kind # kind \/ ~In(q, kind, m.token)
    PROVE  Once(Append(q, m), kind)
  <1> DEFINE r == Append(q, m)
  <1>1. /\ Len(q) \in Nat /\ r[Len(q) + 1] = m
        /\ \A n \in 1..Len(q) : r[n] = q[n]
        /\ \A n \in 1..Len(r) : n \in 1..Len(q) \/ n = Len(q) + 1
    BY AppendIs
  <1> HIDE DEF r
  <1>2. Once(r, kind)
    BY <1>1 DEF Once, In
  <1> QED BY <1>2 DEF r

LEMMA TailKeeps ==
    ASSUME NEW S, NEW q \in Seq(S), q # <<>>, NEW kind, Once(q, kind)
    PROVE  /\ Once(Tail(q), kind)
           /\ \A t : In(Tail(q), kind, t) => In(q, kind, t)
           /\ Head(q).kind = kind => ~In(Tail(q), kind, Head(q).token)
           /\ Head(q).kind = kind => In(q, kind, Head(q).token)
  <1> DEFINE r == Tail(q)
  <1>1. /\ Head(q) = q[1] /\ 1 \in 1..Len(q) /\ Len(q) \in Nat /\ Len(r) \in Nat
        /\ \A n \in 1..Len(r) : n + 1 \in 1..Len(q) /\ r[n] = q[n + 1]
    BY TailIs
  <1> HIDE DEF r
  <1>2. ASSUME NEW n \in 1..Len(r), NEW m \in 1..Len(r),
               r[n].kind = kind /\ r[m].kind = kind /\ r[n].token = r[m].token
        PROVE  n = m
    <2>1. n + 1 = m + 1
      BY <1>1, <1>2 DEF Once
    <2> QED BY <2>1
  <1>3. Once(r, kind)
    BY <1>2 DEF Once
  <1>4. \A t : In(r, kind, t) => In(q, kind, t)
    BY <1>1 DEF In
  <1>5. ASSUME q[1].kind = kind, In(r, kind, q[1].token) PROVE FALSE
    <2>1. PICK n \in 1..Len(r) : r[n].kind = kind /\ r[n].token = q[1].token
      BY <1>5 DEF In
    <2>2. n + 1 = 1
      BY <1>1, <1>5, <2>1 DEF Once
    <2> QED BY <1>1, <2>2
  <1>6. Head(q).kind = kind => In(q, kind, Head(q).token)
    BY <1>1 DEF In
  <1> QED BY <1>1, <1>3, <1>4, <1>5, <1>6 DEF r

\* Requests that ask for no window action and offer nothing.
SameAsks(q, r) ==
    \A kind \in {"window", "offer"} :
        /\ Once(q, kind) => Once(r, kind)
        /\ \A t : In(r, kind, t) <=> In(q, kind, t)

LEMMA SameAsksMore ==
    ASSUME NEW q \in Seq(Requests), NEW m \in Requests, m.kind \notin {"window", "offer"}
    PROVE  SameAsks(q, Append(q, m)) /\ Append(q, m) \in Seq(Requests)
  BY InAppend, OnceAppend, AppendIs DEF SameAsks

LEMMA SameAsksChain ==
    ASSUME NEW q, NEW r, NEW s, SameAsks(q, r), SameAsks(r, s)
    PROVE  SameAsks(q, s)
  BY DEF SameAsks

LEMMA SameAsksTail ==
    ASSUME NEW q \in Seq(Requests), q # <<>>, Head(q).kind \notin {"window", "offer"},
           Once(q, "window"), Once(q, "offer")
    PROVE  SameAsks(q, Tail(q))
  <1> DEFINE r == Tail(q)
  <1>1. /\ Head(q) = q[1] /\ Len(q) \in Nat /\ Len(r) = Len(q) - 1
        /\ \A n \in 1..Len(r) : n + 1 \in 1..Len(q) /\ r[n] = q[n + 1]
    BY TailIs
  <1> HIDE DEF r
  <1>2. ASSUME NEW kind \in {"window", "offer"}, NEW t, In(q, kind, t) PROVE In(r, kind, t)
    <2>1. PICK n \in 1..Len(q) : q[n].kind = kind /\ q[n].token = t
      BY <1>2 DEF In
    <2>2. n # 1
      BY <1>1, <2>1
    <2>3. n - 1 \in 1..Len(r) /\ r[n - 1] = q[n]
      BY <1>1, <2>2
    <2> QED BY <2>1, <2>3 DEF In
  <1>3. ASSUME NEW kind \in {"window", "offer"}
        PROVE  Once(r, kind) /\ \A t : In(r, kind, t) => In(q, kind, t)
    BY TailKeeps DEF r
  <1>4. \A kind \in {"window", "offer"} :
            (Once(q, kind) => Once(r, kind)) /\ \A t : In(r, kind, t) <=> In(q, kind, t)
    BY <1>2, <1>3
  <1> QED BY <1>4 DEF SameAsks, r

\* Messages and their fields.
LEMMA EventFields ==
    ASSUME NEW m \in Events
    PROVE  /\ m.kind \in {"state", "synced", "action_done", "offered", "transfer"}
           /\ m.kind = "state" => /\ m.epoch \in Nat /\ m.allowed \in BOOLEAN
                                  /\ m.human \in BOOLEAN /\ m.known \in Nat
           /\ m.kind = "synced" => m.token \in 0..MaxAccepted /\ m.known \in Nat
           /\ m.kind \in {"action_done", "offered"} => m.token \in Tokens /\ m.ok \in BOOLEAN
           /\ m.kind = "transfer" => m.token \in Tokens
  BY DEF Events

LEMMA RequestsAre ==
    /\ RevokeRequest \in Requests /\ RevokeRequest.kind = "revoke"
    /\ \A e \in Nat : AcquireRequest(e) \in Requests /\ AcquireRequest(e).kind = "acquire"
  BY SizesAre DEF RevokeRequest, AcquireRequest, Requests


----------------------------------------------------------------------------
(* The call.                                                               *)

LEMMA Failing ==
    ASSUME NEW c \in CallType
    PROVE  /\ Failed(c) \in CallType /\ Failed(c).token = c.token /\ Failed(c).sent = c.sent
           /\ ~Failed(c).busy /\ ~Failed(c).ready
           /\ Failed(c).replied = c.replied /\ Failed(c).succeeded = c.succeeded
           /\ Failed(c).stage \in {"outcome_unknown", "cancelled", "rejected"}
           /\ c.sent => Failed(c).stage = "outcome_unknown"
  BY DEF Failed, CallType, Stages

\* A call that was never sent and ended.
LEMMA FailedKeeps ==
    ASSUME CallInv, ~call.sent, call.token # 0, NEW c \in CallType, c.token = call.token,
           ~c.sent, c.replied = call.replied, c.succeeded = call.succeeded,
           call' = Failed(c), pending' = "none", UNCHANGED <<dispatched, appVars>>
    PROVE  CallInv'
  <1>1. /\ call' \in CallType /\ call'.token = call.token /\ ~call'.sent
        /\ ~call'.busy /\ ~call'.ready
        /\ call'.replied = call.replied /\ call'.succeeded = call.succeeded
        /\ call'.stage \in {"outcome_unknown", "cancelled", "rejected"}
    BY Failing
  <1>2. dispatched' = dispatched /\ inbox' = inbox /\ accepted' = accepted /\ answer' = answer
    BY DEF appVars
  <1> QED BY <1>1, <1>2 DEF CallInv

LEMMA StartCallKeeps ==
    ASSUME CallInv, NEW t \in Tokens, t \notin dispatched, StartCall(t)
    PROVE  CallInv' /\ call'.token = t /\ UNCHANGED <<dispatched, inbox, accepted>>
  <1> DEFINE fresh == [Idle EXCEPT !.token = t, !.stage = "preparing", !.busy = TRUE]
  <1>0. /\ Idle \in CallType
        /\ ~Idle.ready /\ ~Idle.sent /\ ~Idle.replied /\ ~Idle.succeeded
    BY SizesAre DEF Idle, CallType, Stages
  <1>a. t \in 0..MaxAccepted
    BY SizesAre
  <1>1. /\ fresh \in CallType /\ fresh.token = t /\ fresh.stage = "preparing" /\ fresh.busy
        /\ ~fresh.ready /\ ~fresh.sent /\ ~fresh.replied /\ ~fresh.succeeded
    BY <1>0, <1>a DEF CallType, Stages
  <1>2. \/ call' = fresh /\ pending' = "read_ready"
        \/ call' = Failed(fresh) /\ pending' = "none"
    BY DEF StartCall
  <1> HIDE DEF fresh
  <1>3. UNCHANGED <<dispatched, inbox, accepted>> /\ t # 0
    BY SizesAre DEF StartCall
  <1>b. answer' = "none"
    BY DEF StartCall
  <1>4. CASE call' = fresh /\ pending' = "read_ready"
    BY <1>1, <1>3, <1>4, <1>b DEF CallInv
  <1>5. CASE call' = Failed(fresh) /\ pending' = "none"
    <2>1. /\ call' \in CallType /\ call'.token = t /\ ~call'.sent /\ ~call'.busy /\ ~call'.ready
          /\ ~call'.replied /\ ~call'.succeeded
          /\ call'.stage \in {"outcome_unknown", "cancelled", "rejected"}
      BY <1>1, <1>5, Failing
    <2> QED BY <1>3, <1>5, <1>b, <2>1 DEF CallInv
  <1> QED BY <1>2, <1>4, <1>5

LEMMA CancelCallKeeps ==
    ASSUME CallInv, CancelCall, UNCHANGED <<dispatched, appVars>>
    PROVE  CallInv' /\ call'.token = call.token
  <1>1. pending' = pending /\ call \in CallType
        /\ UNCHANGED <<dispatched, inbox, answer, accepted>>
    BY DEF CancelCall, CallInv, appVars
  <1> DEFINE marked == [call EXCEPT !.cancelled = TRUE]
  <1>2. /\ marked \in CallType /\ marked.token = call.token /\ marked.stage = call.stage
        /\ marked.busy = call.busy /\ marked.ready = call.ready /\ marked.sent = call.sent
        /\ marked.replied = call.replied /\ marked.succeeded = call.succeeded
    BY <1>1 DEF CallType
  <1>3. call' = IF ~call.busy THEN call
                ELSE IF call.sent THEN marked
                ELSE IF call.stage = "prepared" THEN Failed(marked)
                ELSE [marked EXCEPT !.ready = FALSE]
    BY <1>1, <1>2 DEF CancelCall, CancelledCall
  <1> HIDE DEF marked
  <1>4. CASE ~call.busy
    <2>1. call' = call
      BY <1>3, <1>4
    <2> QED BY <1>1, <2>1 DEF CallInv
  <1>5. CASE call.busy /\ call.sent
    <2>1. call' = marked
      BY <1>3, <1>5
    <2> QED BY <1>1, <1>2, <2>1 DEF CallInv
  <1>6. CASE call.busy /\ ~call.sent /\ call.stage = "prepared"
    <2>1. call' = Failed(marked)
      BY <1>3, <1>6
    <2>2. pending' = "none" /\ call.token # 0
      BY <1>1, <1>6 DEF CallInv
    <2>3. CallInv'
      BY <1>1, <1>2, <1>6, <2>1, <2>2, FailedKeeps DEF appVars
    <2> QED BY <1>2, <2>1, <2>3, Failing
  <1>7. CASE call.busy /\ ~call.sent /\ call.stage # "prepared"
    <2>1. call' = [marked EXCEPT !.ready = FALSE]
      BY <1>3, <1>7
    <2>2. /\ call' \in CallType /\ call'.token = call.token /\ call'.stage = call.stage
          /\ call'.busy = call.busy /\ ~call'.ready /\ call'.sent = call.sent
          /\ call'.replied = call.replied /\ call'.succeeded = call.succeeded
      BY <1>2, <2>1 DEF CallType
    <2> QED BY <1>1, <1>7, <2>2 DEF CallInv
  <1> QED BY <1>4, <1>5, <1>6, <1>7

LEMMA PreparationKeeps ==
    ASSUME CallInv, PreparationExpired, UNCHANGED <<pending, dispatched, appVars>>
    PROVE  CallInv' /\ call'.token = call.token
  <1>1. CASE call' = call
    BY <1>1 DEF CallInv, appVars
  <1>2. CASE call.busy /\ ~call.sent /\ call.ready /\ call' = Failed(call)
    <2>1. pending' = "none" /\ call.token # 0 /\ call \in CallType
      BY <1>2 DEF CallInv
    <2>2. CallInv'
      BY <1>2, <2>1, FailedKeeps
    <2> QED BY <1>2, <2>1, <2>2, Failing
  <1> QED BY <1>1, <1>2 DEF PreparationExpired

LEMMA CallbackKeeps ==
    ASSUME CallInv, DispatchCallback
    PROVE  CallInv' /\ call'.token = call.token /\ UNCHANGED <<dispatched, inbox, accepted>>
  <1>1. call \in CallType
    BY DEF CallInv
  <1>2. CASE PreparationFails
    <2>1. /\ call' = Failed(call) /\ pending' = "none" /\ pending # "none"
          /\ pending # "action_replied" /\ UNCHANGED <<dispatched, appVars>>
      BY <1>2 DEF PreparationFails, Preparation
    <2>2. call.busy /\ ~call.sent /\ call.token # 0
      BY <2>1 DEF CallInv
    <2>3. CallInv'
      BY <1>1, <2>1, <2>2, FailedKeeps
    <2> QED BY <1>1, <2>1, <2>3, Failing DEF appVars
  <1>3. CASE PreparationAdvances
    <2>1. PICK i \in DOMAIN Preparation :
              /\ pending = Preparation[i]
              /\ IF pending = "target_pid_ready"
                 THEN /\ pending' = "none"
                      /\ call' = [call EXCEPT !.ready = TRUE, !.stage = "prepared"]
                 ELSE pending' = Preparation[i + 1] /\ UNCHANGED call
              /\ UNCHANGED <<stop, callLate, dispatched, appVars>>
      BY <1>3 DEF PreparationAdvances
    <2>2. /\ pending # "none" /\ pending # "action_replied"
          /\ pending # "target_pid_ready" =>
              pending' \in {"bus_ready", "bus_identity_ready", "target_pid_ready"}
      BY <2>1 DEF Preparation
    <2>3. call.busy /\ ~call.ready /\ ~call.sent
      BY <2>2 DEF CallInv
    <2>4. UNCHANGED <<dispatched, inbox, answer, accepted>>
      BY <2>1 DEF appVars
    <2>5. CASE pending = "target_pid_ready"
      <3>1. /\ call' \in CallType /\ call'.token = call.token /\ call'.stage = "prepared"
            /\ call'.busy = call.busy /\ call'.ready /\ call'.sent = call.sent
            /\ call'.replied = call.replied /\ call'.succeeded = call.succeeded
            /\ pending' = "none"
        BY <1>1, <2>1, <2>5 DEF CallType, Stages
      <3> QED BY <2>3, <2>4, <3>1 DEF CallInv
    <2>6. CASE pending # "target_pid_ready"
      <3>1. call' = call /\ pending' # "none" /\ pending' # "action_replied"
        BY <2>1, <2>2, <2>6
      <3> QED BY <2>3, <2>4, <3>1 DEF CallInv
    <2> QED BY <2>5, <2>6
  <1>4. CASE ActionReplied
    <2>1. /\ pending = "action_replied" /\ pending' = "none"
          /\ UNCHANGED <<dispatched, inbox, accepted>>
      BY <1>4 DEF ActionReplied
    <2>2. call.busy /\ call.sent
      BY <2>1 DEF CallInv
    <2>3. answer \in {"none", "true", "false", "refused", "error"} /\ answer' = "none"
      BY <1>4 DEF ActionReplied, CallInv
    <2>4. PICK stage \in {"finished", "rejected", "outcome_unknown"} :
              /\ stage = ReplyOutcome(answer)
              /\ stage = "finished" => answer = "true"
              /\ stage = "rejected" => answer \in {"false", "refused"}
      BY <2>3 DEF ReplyOutcome
    <2>a. PICK replied \in BOOLEAN : replied = (answer \in {"true", "false", "refused"})
      <3>1. CASE answer \in {"true", "false", "refused"}
        <4>1. TRUE = (answer \in {"true", "false", "refused"})
          BY <3>1
        <4> QED BY <4>1, Zenon
      <3>2. CASE answer \notin {"true", "false", "refused"}
        <4>1. FALSE = (answer \in {"true", "false", "refused"})
          BY <3>2
        <4> QED BY <4>1, Zenon
      <3> QED BY <3>1, <3>2, Zenon
    <2>b. PICK succeeded \in BOOLEAN : succeeded = (answer = "true")
      OBVIOUS
    <2>6. call' = [call EXCEPT !.busy = FALSE, !.ready = FALSE, !.replied = replied,
                               !.succeeded = succeeded, !.stage = stage]
      BY <1>4, <2>4, <2>a, <2>b DEF ActionReplied
    <2>7. /\ call' \in CallType /\ call'.token = call.token /\ ~call'.busy /\ ~call'.ready
          /\ call'.sent = call.sent /\ call'.stage = stage
          /\ call'.succeeded = succeeded
      BY <1>1, <2>6 DEF CallType, Stages
    <2>8. /\ answer = "true" => call.token \in accepted
          /\ answer \in {"false", "refused"} => call.token \notin inbox \cup accepted
      BY <2>1 DEF CallInv
    <2> QED BY <2>1, <2>2, <2>3, <2>4, <2>b, <2>7, <2>8 DEF CallInv
  <1> QED BY <1>2, <1>3, <1>4 DEF DispatchCallback

LEMMA SubmitKeeps ==
    ASSUME CallInv, call.token \in Tokens, Submit
    PROVE  /\ CallInv' /\ call'.token = call.token /\ accepted' = accepted
           /\ dispatched' = IF call'.sent THEN dispatched \cup {call.token} ELSE dispatched
           /\ inbox' \subseteq inbox \cup {call.token}
  <1>1. call \in CallType /\ call.token # 0
    BY SizesAre DEF CallInv
  <1>2. CASE /\ MaySubmit
             /\ call' = [call EXCEPT !.sent = TRUE, !.ready = FALSE, !.stage = "in_flight"]
             /\ pending' = "action_replied"
             /\ dispatched' = dispatched \cup {call.token}
             /\ inbox' = inbox \cup {call.token}
             /\ UNCHANGED <<stop, callLate, answer, accepted>>
    <2>1. /\ call' \in CallType /\ call'.token = call.token /\ call'.stage = "in_flight"
          /\ call'.busy = call.busy /\ ~call'.ready /\ call'.sent
          /\ call'.replied = call.replied /\ call'.succeeded = call.succeeded
      BY <1>1, <1>2 DEF CallType, Stages
    <2>2. call.busy /\ ~call.sent /\ pending = "none" /\ call.token \notin dispatched
      BY <1>1, <1>2 DEF CallInv, MaySubmit
    <2>3. ~call.succeeded /\ answer' = answer /\ accepted' = accepted
      BY <1>2, <2>2 DEF CallInv
    <2>4. answer = "none"
      BY <2>2 DEF CallInv
    <2> QED BY <1>1, <1>2, <2>1, <2>2, <2>3, <2>4 DEF CallInv
  <1>3. CASE /\ MaySubmit
             /\ call' = Failed(call)
             /\ UNCHANGED <<pending, stop, callLate, dispatched, appVars>>
    <2>1. call.busy /\ ~call.sent /\ pending = "none"
      BY <1>3 DEF MaySubmit, CallInv
    <2>2. pending' = "none" /\ UNCHANGED <<dispatched, appVars>>
      BY <1>3, <2>1
    <2>3. CallInv'
      BY <1>1, <1>3, <2>1, <2>2, FailedKeeps
    <2>4. call'.token = call.token /\ ~call'.sent
      BY <1>1, <1>3, <2>1, Failing
    <2> QED BY <2>2, <2>3, <2>4 DEF appVars
  <1>4. CASE ~MaySubmit
    <2>1. UNCHANGED <<call, pending, dispatched, inbox, answer, accepted>>
      BY <1>4 DEF Submit, semanticVars, callVars, appVars
    <2>2. CallInv' /\ (call.sent => call.token \in dispatched)
      BY <1>1, <2>1 DEF CallInv
    <2> QED BY <2>1, <2>2
  <1> QED BY <1>2, <1>3, <1>4 DEF Submit

LEMMA ApplicationKeeps ==
    ASSUME CallInv, Application
    PROVE  /\ CallInv' /\ call' = call /\ dispatched' = dispatched
           /\ inbox' \subseteq inbox
           /\ accepted \subseteq accepted' /\ accepted' \subseteq accepted \cup inbox
  <1>1. PICK t \in inbox, a \in {"true", "false", "refused", "error"} :
            /\ inbox' = inbox \ {t}
            /\ \/ accepted' = IF a = "true" THEN accepted \cup {t} ELSE accepted
               \/ a = "error" /\ accepted' = accepted \cup {t}
            /\ answer' = IF pending = "action_replied" /\ t = call.token THEN a ELSE answer
            /\ UNCHANGED <<callVars, dispatched>>
    BY DEF Application, ApplicationActs, ApplicationActsAndFails
  <1>2. UNCHANGED <<call, pending, dispatched>>
    BY <1>1 DEF callVars
  <1>3. inbox' \subseteq inbox /\ accepted \subseteq accepted'
        /\ accepted' \subseteq accepted \cup {t} /\ t \in inbox /\ t \notin accepted
    BY <1>1 DEF CallInv
  <1>4. /\ dispatched' \subseteq Tokens /\ inbox' \subseteq dispatched'
        /\ accepted' \subseteq dispatched' /\ inbox' \cap accepted' = {}
    BY <1>1, <1>2, <1>3 DEF CallInv
  <1>5. /\ answer' \in {"none", "true", "false", "refused", "error"}
        /\ pending' # "action_replied" => answer' = "none"
    BY <1>1, <1>2 DEF CallInv
  <1>6. pending' = "action_replied" =>
            /\ answer' = "true" => call'.token \in accepted'
            /\ answer' \in {"false", "refused"} => call'.token \notin inbox' \cup accepted'
    <2>1. CASE t = call.token /\ pending = "action_replied"
      BY <1>1, <1>2, <1>3, <2>1 DEF CallInv
    <2>2. CASE t # call.token
      BY <1>1, <1>2, <1>3, <2>2 DEF CallInv
    <2> QED BY <1>2, <2>1, <2>2
  <1>7. call'.stage \in {"rejected", "cancelled"} => call'.token \notin inbox' \cup accepted'
    BY <1>2, <1>3 DEF CallInv
  <1>8. (call'.stage = "finished" => call'.token \in accepted')
        /\ (call'.succeeded => call'.token \in accepted')
    BY <1>2, <1>3 DEF CallInv
  <1>9. CallInv'
    BY <1>2, <1>4, <1>5, <1>6, <1>7, <1>8 DEF CallInv
  <1> QED BY <1>2, <1>3, <1>9

----------------------------------------------------------------------------
(* Answers on their way.                                                   *)

LEMMA AnswersMore ==
    ASSUME NEW q \in Seq(Events), NEW m \in Events, NEW x, NEW t
    PROVE  /\ NoIn(Append(q, m), x, t) <=> NoIn(q, x, t) \/ Denial(m, t)
           /\ YesIn(Append(q, m), x, t) <=> YesIn(q, x, t) \/ Grant(m, t)
  <1> DEFINE r == Append(q, m)
  <1>1. /\ Len(q) \in Nat /\ Len(r) = Len(q) + 1 /\ r[Len(q) + 1] = m
        /\ \A n \in 1..Len(q) : r[n] = q[n] /\ n \in 1..Len(r)
        /\ \A n \in 1..Len(r) : n \in 1..Len(q) \/ n = Len(q) + 1
        /\ Len(q) + 1 \in 1..Len(r)
    BY AppendIs
  <1> HIDE DEF r
  <1>2. (\E n \in 1..Len(r) : Denial(r[n], t)) <=> (\E n \in 1..Len(q) : Denial(q[n], t)) \/ Denial(m, t)
    BY <1>1
  <1>3. (\E n \in 1..Len(r) : Grant(r[n], t)) <=> (\E n \in 1..Len(q) : Grant(q[n], t)) \/ Grant(m, t)
    BY <1>1
  <1> QED BY <1>2, <1>3 DEF NoIn, YesIn, r

LEMMA AnswersRead ==
    ASSUME seen \in Views, NEW q \in Seq(Events), q # <<>>, NEW t
    PROVE  /\ NoIn(Tail(q), Noted(Head(q)), t) => NoIn(q, seen, t)
           /\ YesIn(Tail(q), Noted(Head(q)), t) => YesIn(q, seen, t)
           /\ Noted(Head(q)) \in Views
  <1> DEFINE r == Tail(q)
             m == Head(q)
  <1>1. /\ m = q[1] /\ 1 \in 1..Len(q) /\ m \in Events
        /\ \A n \in 1..Len(r) : n + 1 \in 1..Len(q) /\ r[n] = q[n + 1]
    BY TailIs
  <1> HIDE DEF r, m
  <1>2. /\ (\E n \in 1..Len(r) : Denial(r[n], t)) => \E n \in 1..Len(q) : Denial(q[n], t)
        /\ (\E n \in 1..Len(r) : Grant(r[n], t)) => \E n \in 1..Len(q) : Grant(q[n], t)
        /\ Denial(m, t) => \E n \in 1..Len(q) : Denial(q[n], t)
        /\ Grant(m, t) => \E n \in 1..Len(q) : Grant(q[n], t)
    BY <1>1
  <1>3. PICK x : x = Noted(m)
    OBVIOUS
  <1>4. /\ x \in Views
        /\ (x.actionToken = seen.actionToken /\ x.actionOk = seen.actionOk)
           \/ (m.kind = "action_done" /\ x.actionToken = m.token /\ x.actionOk = m.ok)
        /\ (x.clipToken = seen.clipToken /\ x.clipOk = seen.clipOk)
           \/ (m.kind = "offered" /\ x.clipToken = m.token /\ x.clipOk = m.ok)
    <2> USE <1>1, <1>3, EventFields
    <2>1. CASE m.kind = "state"
      <3>1. x = [seen EXCEPT !.epoch = m.epoch, !.allowed = m.allowed,
                             !.human = m.human, !.known = m.known]
        BY <2>1 DEF Noted
      <3>2. m.epoch \in Nat /\ m.allowed \in BOOLEAN /\ m.human \in BOOLEAN /\ m.known \in Nat
        BY <2>1
      <3> QED BY <3>1, <3>2 DEF Views
    <2>2. CASE m.kind = "synced"
      <3>1. x = seen \/ x = [seen EXCEPT !.asked = 0, !.authToken = m.token, !.authEpoch = seen.epoch,
                                         !.authAllowed = seen.allowed, !.authKnown = m.known]
        BY <2>2 DEF Noted
      <3>2. m.token \in 0..MaxAccepted /\ m.known \in Nat /\ 0 \in 0..MaxAccepted
        BY <2>2, SizesAre
      <3>3. CASE x = seen
        BY <3>3
      <3>4. CASE x = [seen EXCEPT !.asked = 0, !.authToken = m.token, !.authEpoch = seen.epoch,
                                  !.authAllowed = seen.allowed, !.authKnown = m.known]
        <4>1. seen.epoch \in Nat /\ seen.allowed \in BOOLEAN
          BY DEF Views
        <4> QED BY <3>2, <3>4, <4>1 DEF Views
      <3> QED BY <3>1, <3>3, <3>4
    <2>3. CASE m.kind = "action_done"
      <3>1. x = [seen EXCEPT !.actionToken = m.token, !.actionOk = m.ok]
        BY <2>3 DEF Noted
      <3>2. m.token \in 0..MaxAccepted /\ m.ok \in BOOLEAN
        BY <2>3, SizesAre
      <3> QED BY <2>3, <3>1, <3>2 DEF Views
    <2>4. CASE m.kind = "offered"
      <3>1. x = [seen EXCEPT !.clipToken = m.token, !.clipOk = m.ok]
        BY <2>4 DEF Noted
      <3>2. m.token \in 0..MaxAccepted /\ m.ok \in BOOLEAN
        BY <2>4, SizesAre
      <3> QED BY <2>4, <3>1, <3>2 DEF Views
    <2>5. CASE m.kind = "transfer"
      <3>1. x = seen \/ x = [seen EXCEPT !.transferred = TRUE]
        BY <2>5 DEF Noted
      <3> QED BY <3>1 DEF Views
    <2> QED BY <2>1, <2>2, <2>3, <2>4, <2>5
  <1>5. x.actionToken = t /\ ~x.actionOk =>
            (seen.actionToken = t /\ ~seen.actionOk) \/ Denial(m, t)
    BY <1>4 DEF Denial
  <1>6. x.clipToken = t /\ ~x.clipOk =>
            (seen.clipToken = t /\ ~seen.clipOk) \/ Denial(m, t)
    BY <1>4 DEF Denial
  <1>7. x.actionToken = t /\ x.actionOk =>
            (seen.actionToken = t /\ seen.actionOk) \/ Grant(m, t)
    BY <1>4 DEF Grant
  <1>8. NoIn(r, x, t) => NoIn(q, seen, t)
    BY <1>2, <1>5, <1>6 DEF NoIn
  <1>9. YesIn(r, x, t) => YesIn(q, seen, t)
    BY <1>2, <1>7 DEF YesIn
  <1> QED BY <1>3, <1>4, <1>8, <1>9 DEF r, m

----------------------------------------------------------------------------
(* Steps that ask for nothing new and take no effect.                      *)

LinkSame ==
    /\ CompTyped' /\ LinkTyped'
    /\ SameAsks(toComp, toComp')
    /\ \A t \in Tokens : (Refused(t)' => Refused(t)) /\ (Granted(t)' => Granted(t))
    /\ clip' \in {clip, 0} /\ done' = done

LEMMA EffectsKept ==
    ASSUME BookTyped, EffectInv, LinkSame,
           \A t \in Tokens : told'[t].kind = told[t].kind \/ told[t].kind = "none"
    PROVE  EffectInv' /\ \A t \in Tokens : (Asked(t)' <=> Asked(t)) /\ (clip' = t => clip = t)
  <1>1. Once(toComp', "window") /\ Once(toComp', "offer")
    BY DEF EffectInv, LinkSame, SameAsks
  <1>2. ASSUME NEW t \in Tokens
        PROVE  /\ In(toComp', "window", t) <=> In(toComp, "window", t)
               /\ In(toComp', "offer", t) <=> In(toComp, "offer", t)
               /\ Asked(t)' <=> Asked(t)
               /\ clip' = t => clip = t
               /\ told'[t].kind = told[t].kind \/ told[t].kind = "none"
               /\ Refused(t)' => Refused(t)
               /\ Granted(t)' => Granted(t)
    BY SizesAre DEF LinkSame, SameAsks, Asked
  <1>3. ASSUME NEW t \in Tokens
        PROVE  /\ In(toComp', "window", t) => told'[t].kind = "window"
               /\ In(toComp', "offer", t) => told'[t].kind = "paste"
               /\ t \in done' => told'[t].kind \in {"window", "paste"}
    BY <1>2 DEF EffectInv, LinkSame, KindOf
  <1>4. clip' # 0 => told'[clip'].kind = "paste"
    <2>1. clip' # 0 => clip' = clip /\ clip \in Tokens
      BY SizesAre DEF LinkSame, CompTyped
    <2> QED BY <2>1 DEF EffectInv, KindOf
  <1>5. ASSUME NEW t \in Tokens
        PROVE  /\ Granted(t)' => t \in done'
               /\ Asked(t)' => t \notin done' /\ clip' # t /\ ~Refused(t)'
               /\ Refused(t)' => t \notin done' /\ clip' # t /\ told'[t].kind \in {"window", "paste"}
    BY <1>2 DEF EffectInv, LinkSame, KindOf
  <1>6. EffectInv'
    BY <1>1, <1>3, <1>4, <1>5 DEF EffectInv, KindOf
  <1> QED BY <1>2, <1>6

Denied == {"cancelled", "rejected"}
Finals == {"finished", "cancelled", "rejected", "deadline_exceeded", "outcome_unknown"}

\* What a step says of the outcomes: nothing, the end of the active operation,
\* or the beginning of one.
Still == told' = told /\ accepted' = accepted /\ done' = done

Ends(t, outcome) == typing # 0 /\ t = typing /\ typing' = 0 /\ told' = [told EXCEPT ![t].outcome = outcome]

Ending ==
    /\ typing # 0 /\ accepted' = accepted /\ done' = done
    /\ \E out \in Finals :
        /\ Ends(typing, out)
        /\ out \in Denied => Void(typing)
        /\ out = "finished" =>
            KindOf(typing) \in {"type", "paste"} \/ typing \in accepted \cup done

LEMMA DeniedKept ==
    ASSUME DeniedInv, CallInv, inbox' \subseteq inbox, accepted' \subseteq accepted \cup inbox,
           done' = done,
           \A t \in Tokens : (Asked(t)' <=> Asked(t)) /\ (clip' = t => clip = t),
           \A t \in Tokens : told'[t].outcome \in Denied => told[t].outcome \in Denied \/ Void(t)
    PROVE  DeniedInv'
  <1>1. ASSUME NEW t \in Tokens, told'[t].outcome \in Denied PROVE Void(t)'
    <2>1. Void(t)
      BY <1>1 DEF DeniedInv, Denied
    <2> QED BY <2>1 DEF Void
  <1> QED BY <1>1 DEF DeniedInv, Denied

\* The ring, the call and the method are as before, or the call is where
\* CallInv allows it to be.
LEMMA CallStep ==
    ASSUME IInv, CallInv', call'.token = call.token, UNCHANGED <<dispatched, inbox, accepted>>,
           UNCHANGED <<operations, nextOperation, typing, told>>, LinkSame
    PROVE  IInv' /\ Still
  <1>1. CompTyped' /\ LinkTyped' /\ BookTyped'
    BY DEF IInv, LinkSame, BookTyped
  <1>2. BookInv'
    BY DEF IInv, BookInv, Kept, KindOf
  <1>3. TieInv'
    BY DEF IInv, TieInv, KindOf, Honest
  <1>4. EffectInv' /\ \A t \in Tokens : (Asked(t)' <=> Asked(t)) /\ (clip' = t => clip = t)
    BY EffectsKept DEF IInv
  <1>5. done' = done /\ told' = told
    BY DEF LinkSame
  <1>6. DeniedInv'
    BY <1>4, <1>5, DeniedKept DEF IInv
  <1> QED BY <1>1, <1>2, <1>3, <1>4, <1>5, <1>6 DEF IInv, Still

LEMMA CallIdle ==
    ASSUME CallInv, UNCHANGED semanticVars
    PROVE  CallInv' /\ call' = call /\ UNCHANGED <<dispatched, inbox, accepted, answer>>
  BY DEF CallInv, semanticVars, callVars, appVars

\* Nothing happened to operations or the call.
LEMMA QuietStep ==
    ASSUME IInv, UNCHANGED semanticVars,
           UNCHANGED <<operations, nextOperation, typing, told>>, LinkSame
    PROVE  IInv' /\ Still
  BY CallIdle, CallStep DEF IInv

----------------------------------------------------------------------------
(* The ring.                                                               *)

LEMMA SlotIs ==
    ASSUME NEW t \in Nat
    PROVE  Slot(t) \in 0..MaxOperations - 1
  BY SizesAre DEF Slot

LEMMA ReceiptFields ==
    ASSUME NEW o \in ReceiptType
    PROVE  /\ o.token \in 0..MaxAccepted /\ o.kind \in Kinds \cup {"none"} /\ o.epoch \in Nat
           /\ o.active \in BOOLEAN /\ o.outcome \in Outcomes /\ o.submitted \in Nat /\ o.count \in Nat
           /\ o.asked \in BOOLEAN /\ o.keysSent \in BOOLEAN /\ o.cancelRequested \in BOOLEAN
           /\ o.replied \in BOOLEAN /\ o.succeeded \in BOOLEAN /\ o.known \in Nat
  BY DEF ReceiptType

\* The active operation has its receipt.
LEMMA CurrentIs ==
    ASSUME BookTyped, BookInv, typing # 0
    PROVE  /\ typing \in Tokens /\ typing = nextOperation /\ Kept(typing)
           /\ Slot(typing) \in 0..MaxOperations - 1
           /\ Current \in ReceiptType /\ Current.token = typing /\ Current.active
           /\ Current.kind = KindOf(typing) /\ KindOf(typing) # "none"
           /\ Current.kind \in {"window", "paste"} => Current.submitted > 0
  <1>1. typing \in Tokens /\ typing = nextOperation /\ typing \in Nat
    BY SizesAre DEF BookTyped
  <1>2. Kept(typing)
    BY <1>1 DEF BookInv
  <1>3. Slot(typing) \in 0..MaxOperations - 1
    BY <1>1, SlotIs
  <1>4. Current \in ReceiptType
    BY <1>3 DEF BookTyped, Current
  <1>5. Current.token = typing
    BY <1>2 DEF Kept, Current
  <1>6. Current.active /\ Current.kind = KindOf(typing)
        /\ (Current.kind \in {"window", "paste"} => Current.submitted > 0)
    BY <1>3, <1>5 DEF BookInv, Current
  <1>7. KindOf(typing) # "none"
    BY <1>1 DEF BookInv, KindOf
  <1> QED BY <1>1, <1>2, <1>3, <1>4, <1>5, <1>6, <1>7

\* A receipt is brought up to date, or ends.
LEMMA WriteKeeps ==
    ASSUME BookTyped, BookInv, NEW t \in Tokens, Kept(t), NEW o \in ReceiptType, o.token = t,
           o.kind = operations[Slot(t)].kind,
           o.kind \in {"window", "paste"} => o.submitted > 0,
           o.active <=> (typing' # 0 /\ t = typing'),
           operations' = [operations EXCEPT ![Slot(t)] = o],
           nextOperation' = nextOperation,
           NEW outcome \in Finals,
           (typing' = typing /\ told' = told) \/ Ends(t, outcome)
    PROVE  /\ BookTyped' /\ BookInv'
           /\ \A u \in Tokens : told'[u].kind = told[u].kind /\ (u # t => told'[u] = told[u])
           /\ operations'[Slot(t)] = o
           /\ \A s \in 0..MaxOperations - 1 : s # Slot(t) => operations'[s] = operations[s]
           /\ Ends(t, outcome) => told'[t].outcome = outcome
  <1>1. Slot(t) \in 0..MaxOperations - 1 /\ t # 0 /\ t \in Nat
    BY SlotIs, SizesAre
  <1>2. /\ operations' \in [0..MaxOperations - 1 -> ReceiptType]
        /\ operations'[Slot(t)] = o
        /\ \A s \in 0..MaxOperations - 1 : s # Slot(t) => operations'[s] = operations[s]
    BY <1>1 DEF BookTyped
  <1>3. /\ told' \in [Tokens -> [kind : Kinds \cup {"none"}, outcome : Outcomes]]
        /\ \A u \in Tokens : told'[u].kind = told[u].kind /\ (u # t => told'[u] = told[u])
        /\ Ends(t, outcome) => told'[t].outcome = outcome
    <2>1. CASE told' = told /\ ~Ends(t, outcome)
      BY <2>1 DEF BookTyped
    <2>2. CASE Ends(t, outcome)
      <3>1. told' = [told EXCEPT ![t].outcome = outcome]
        BY <2>2 DEF Ends
      <3>2. outcome \in Outcomes
        BY DEF Outcomes, Finals
      <3> QED BY <3>1, <3>2 DEF BookTyped
    <2> QED BY <2>1, <2>2
  <1>4. typing' \in {0, nextOperation'} /\ nextOperation' \in 0..MaxAccepted
        /\ (typing' = typing \/ (typing' = 0 /\ t = typing))
    BY DEF BookTyped, Ends
  <1>5. BookTyped'
    BY <1>2, <1>3, <1>4 DEF BookTyped
  <1>6. ASSUME NEW s \in 0..MaxOperations - 1
        PROVE  /\ operations'[s].token <= nextOperation'
               /\ operations'[s].token # 0 =>
                   /\ Slot(operations'[s].token) = s
                   /\ operations'[s].kind = told'[operations'[s].token].kind
               /\ operations'[s].token = 0 => operations'[s].kind = "none"
               /\ operations'[s].active <=> (typing' # 0 /\ operations'[s].token = typing')
               /\ operations'[s].kind \in {"window", "paste"} => operations'[s].submitted > 0
    <2>1. operations[Slot(t)].token = t
      BY DEF Kept
    <2>2. CASE s = Slot(t)
      <3>1. t <= nextOperation /\ o.kind = told[t].kind
        BY <1>1, <2>1 DEF BookInv, KindOf
      <3> QED BY <1>1, <1>2, <1>3, <2>2, <3>1
    <2>3. CASE s # Slot(t)
      <3>1. operations'[s] = operations[s]
        BY <1>2, <2>3
      <3>2. operations[s].token # t
        BY <1>1, <2>3 DEF BookInv
      <3>3. operations[s].token # 0 => operations[s].token \in Tokens
        BY SizesAre, ReceiptFields DEF BookTyped
      <3>4. operations[s].token # 0 => told'[operations[s].token].kind = told[operations[s].token].kind
        BY <1>3, <3>3
      <3>5. operations[s].active <=> (typing # 0 /\ operations[s].token = typing)
        BY DEF BookInv
      <3>6. operations[s].active <=> (typing' # 0 /\ operations[s].token = typing')
        BY <1>4, <3>2, <3>5
      <3>7. /\ operations[s].token <= nextOperation
            /\ operations[s].token # 0 =>
                   /\ Slot(operations[s].token) = s
                   /\ operations[s].kind = told[operations[s].token].kind
            /\ operations[s].token = 0 => operations[s].kind = "none"
            /\ operations[s].kind \in {"window", "paste"} => operations[s].submitted > 0
        BY DEF BookInv, KindOf
      <3> QED BY <3>1, <3>4, <3>6, <3>7
    <2> QED BY <2>2, <2>3
  <1>7. nextOperation' # 0 => Kept(nextOperation)'
    <2>1. nextOperation # 0 => operations[Slot(nextOperation)].token = nextOperation
      BY DEF BookInv, Kept
    <2>2. nextOperation # 0 => Slot(nextOperation) \in 0..MaxOperations - 1
      BY SlotIs DEF BookTyped
    <2>3. operations[Slot(t)].token = t
      BY DEF Kept
    <2>4. nextOperation # 0 => operations'[Slot(nextOperation)].token = nextOperation
      BY <1>2, <2>1, <2>2, <2>3
    <2> QED BY <2>4 DEF Kept, Slot
  <1>8. ASSUME NEW u \in Tokens
        PROVE  /\ told'[u].kind = "none" <=> u > nextOperation'
               /\ told'[u].outcome = "none" <=> u > nextOperation'
               /\ told'[u].outcome = "running" <=> u = typing'
    <2>1. /\ told[u].kind = "none" <=> u > nextOperation
          /\ told[u].outcome = "none" <=> u > nextOperation
          /\ told[u].outcome = "running" <=> u = typing
      BY DEF BookInv
    <2>2. u # 0
      BY SizesAre
    <2>3. CASE ~Ends(t, outcome)
      BY <2>1, <2>3
    <2>4. CASE Ends(t, outcome)
      <3>1. t = typing /\ typing' = 0
        BY <2>4 DEF Ends
      <3>2. CASE u = t
        <4>1. told'[u].outcome = outcome /\ outcome # "none" /\ outcome # "running"
          BY <1>3, <2>4, <3>2 DEF Finals
        <4>2. ~(u > nextOperation)
          BY <2>1, <3>1, <3>2
        <4> QED BY <1>3, <2>1, <2>2, <3>1, <4>1, <4>2
      <3>3. CASE u # t
        BY <1>3, <2>1, <2>2, <3>1, <3>3
      <3> QED BY <3>2, <3>3
    <2> QED BY <2>3, <2>4
  <1>9. BookInv'
    BY <1>6, <1>7, <1>8 DEF BookInv, KindOf, Slot
  <1> QED BY <1>2, <1>3, <1>5, <1>9

\* The receipts stay honest when one of them is rewritten.
LEMMA TieKept ==
    ASSUME BookTyped, BookInv, TieInv, NEW t \in Tokens, Kept(t), NEW o \in ReceiptType, o.token = t,
           call.token \in 0..MaxAccepted, call'.token = call.token, nextOperation' = nextOperation,
           typing' \in {0, typing},
           \A u \in Tokens : told'[u].kind = told[u].kind,
           operations'[Slot(t)] = o,
           \A s \in 0..MaxOperations - 1 : s # Slot(t) => operations'[s] = operations[s],
           dispatched' \subseteq Tokens,
           \A u \in Tokens : u # t => (u \in dispatched' <=> u \in dispatched),
           \A u \in Tokens : u \in accepted => u \in accepted',
           t \in dispatched' => KindOf(t) = "semantic",
           Honest(o)'
    PROVE  TieInv'
  <1>1. \A u \in dispatched' : told'[u].kind = "semantic"
    BY DEF TieInv, KindOf
  <1>2. /\ call'.token <= nextOperation'
        /\ call'.token # 0 => told'[call'.token].kind = "semantic"
        /\ typing' # 0 /\ told'[typing'].kind = "semantic" => call'.token = typing'
    <2>1. call.token # 0 => told'[call.token].kind = told[call.token].kind
      BY SizesAre
    <2>2. typing # 0 => typing \in Tokens
      BY SizesAre DEF BookTyped
    <2>3. (call.token # 0 => told[call.token].kind = "semantic") /\ call.token <= nextOperation
      BY DEF TieInv, KindOf
    <2>4. typing # 0 /\ told[typing].kind = "semantic" => call.token = typing
      BY DEF TieInv, KindOf
    <2>5. typing # 0 => told'[typing].kind = told[typing].kind
      BY <2>2
    <2> QED BY <2>1, <2>3, <2>4, <2>5
  <1>3. ASSUME NEW s \in 0..MaxOperations - 1, s # Slot(t) PROVE Honest(operations[s])'
    <2>1. operations'[s] = operations[s] /\ Honest(operations[s]) /\ operations[s] \in ReceiptType
      BY <1>3 DEF TieInv, BookTyped
    <2>2. operations[s].token # t
      BY <1>3, SizesAre DEF BookInv
    <2>3. operations[s].kind = "semantic" => operations[s].token \in Tokens
      BY <2>1, SizesAre, ReceiptFields DEF BookInv
    <2> QED BY <2>1, <2>2, <2>3 DEF Honest
  <1>4. \A s \in 0..MaxOperations - 1 : Honest(operations[s])'
    <2>1. Honest(operations[Slot(t)])'
      <3>1. Slot(t)' = Slot(t)
        BY DEF Slot
      <3> QED BY <3>1 DEF Honest
    <2> QED BY <1>3, <2>1
  <1> QED BY <1>1, <1>2, <1>4 DEF TieInv, KindOf

\* What may be entered for the active operation.
Fits(o) ==
    /\ o \in ReceiptType /\ o.token = typing /\ o.kind = KindOf(typing)
    /\ o.kind \in {"window", "paste"} => o.submitted > 0
    /\ Honest(o)

LEMMA CurrentFits ==
    ASSUME IInv, typing # 0
    PROVE  Fits(Current)
  <1>1. Slot(typing) \in 0..MaxOperations - 1
    BY CurrentIs DEF IInv
  <1>2. Honest(operations[Slot(typing)])
    BY <1>1 DEF IInv, TieInv
  <1> QED BY <1>2, CurrentIs DEF IInv, Fits, Current

\* Whatever is not asked for, done, or with the application.
LEMMA NeverBegun ==
    ASSUME IInv, typing # 0,
           \/ KindOf(typing) = "type"
           \/ KindOf(typing) = "semantic" /\ ~call.sent
    PROVE  Void(typing)
  <1>1. typing \in Tokens
    BY CurrentIs DEF IInv
  <1>2. ~Asked(typing) /\ typing \notin done /\ clip # typing
    BY <1>1, SizesAre DEF IInv, EffectInv, Asked, KindOf
  <1>3. typing \notin inbox \cup accepted
    <2>1. CASE KindOf(typing) = "type"
      BY <2>1 DEF IInv, CallInv, TieInv
    <2>2. CASE KindOf(typing) = "semantic" /\ ~call.sent
      BY <2>2 DEF IInv, CallInv, TieInv
    <2> QED BY <2>1, <2>2
  <1> QED BY <1>2, <1>3 DEF Void

\* What Finish says, and when it denies.
LEMMA OutcomeIs ==
    ASSUME IInv, typing # 0, NEW o, Fits(o), NEW outcome \in Finals,
           outcome = "rejected" => Void(typing)
    PROVE  /\ Outcome(o, outcome) \in Finals
           /\ Outcome(o, outcome) \in Denied => Void(typing)
           /\ Outcome(o, outcome) = "finished" => outcome = "finished"
  <1>1. Outcome(o, outcome) \in {outcome, "outcome_unknown"}
    BY DEF Outcome
  <1>2. ASSUME outcome = "cancelled", Outcome(o, outcome) = "cancelled" PROVE Void(typing)
    <2>1. ~(o.kind = "semantic" /\ call.sent) /\ ~(o.kind \in {"window", "paste"} /\ o.submitted > 0)
      BY <1>2 DEF Outcome, Uncertain
    <2>2. o.kind \in {"type", "semantic"}
      BY <2>1, SizesAre, CurrentIs DEF Fits, IInv, ReceiptType
    <2> QED BY <2>1, <2>2, NeverBegun DEF Fits
  <1> QED BY <1>1, <1>2 DEF Finals, Denied

LEMMA FinishStep ==
    ASSUME IInv, typing # 0, NEW o, Fits(o), NEW outcome \in Finals,
           outcome = "rejected" => Void(typing),
           outcome = "finished" =>
               KindOf(typing) \in {"type", "paste"} \/ typing \in accepted \cup done,
           Finish(o, outcome), LinkSame
    PROVE  IInv' /\ Ending
  <1>0. PICK out \in Finals :
            /\ out = Outcome(o, outcome)
            /\ out \in Denied => Void(typing)
            /\ out = "finished" => outcome = "finished"
    BY OutcomeIs
  <1> DEFINE flag == o.cancelRequested \/ Abandons(o)
  <1>1. PICK b \in BOOLEAN : b = flag
    <2>1. o.cancelRequested \in BOOLEAN
      BY ReceiptFields DEF Fits
    <2>2. CASE flag
      <3>1. TRUE = flag
        BY <2>1, <2>2 DEF Abandons, IInv, CallInv, CallType
      <3> QED BY <3>1, Zenon
    <2>3. CASE ~flag
      <3>1. FALSE = flag
        BY <2>1, <2>3 DEF Abandons, IInv, CallInv, CallType
      <3> QED BY <3>1, Zenon
    <2> QED BY <2>2, <2>3, Zenon
  <1> HIDE DEF flag
  <1>a. PICK e : e = [o EXCEPT !.active = FALSE, !.outcome = out, !.cancelRequested = b]
    OBVIOUS
  <1>2. o \in ReceiptType /\ o.token = typing /\ typing \in Tokens /\ Kept(typing)
        /\ o.kind = KindOf(typing) /\ Slot(typing) \in 0..MaxOperations - 1
    BY CurrentIs DEF Fits, IInv
  <1>3. /\ operations' = [operations EXCEPT ![Slot(typing)] = e]
        /\ told' = [told EXCEPT ![typing].outcome = e.outcome]
        /\ typing' = 0
        /\ IF Abandons(o) THEN CancelCall ELSE UNCHANGED callVars
        /\ UNCHANGED <<nextOperation, opLate, dispatched, appVars>>
    BY <1>0, <1>1, <1>2, <1>a DEF Finish, flag
  <1>4. /\ e \in ReceiptType /\ e.token = typing /\ e.kind = o.kind
        /\ e.submitted = o.submitted /\ ~e.active /\ e.outcome = out
        /\ e.replied = o.replied /\ e.succeeded = o.succeeded
    <2>1. out \in Outcomes
      BY DEF Outcomes, Finals
    <2> QED BY <1>2, <1>a, <2>1 DEF ReceiptType
  <1>5. told' = [told EXCEPT ![typing].outcome = out]
    BY <1>3, <1>4
  <1>6. Ends(typing, out)
    BY <1>3, <1>5 DEF Ends
  <1>7. /\ BookTyped' /\ BookInv'
        /\ \A u \in Tokens : told'[u].kind = told[u].kind /\ (u # typing => told'[u] = told[u])
        /\ operations'[Slot(typing)] = e
        /\ \A s \in 0..MaxOperations - 1 : s # Slot(typing) => operations'[s] = operations[s]
        /\ told'[typing].outcome = out
    <2>1. operations[Slot(typing)].kind = o.kind
      BY <1>2, CurrentIs DEF IInv, Current
    <2>2. e.kind \in {"window", "paste"} => e.submitted > 0
      BY <1>4 DEF Fits
    <2>3. nextOperation' = nextOperation /\ (e.active <=> (typing' # 0 /\ typing = typing'))
      BY <1>3, <1>4
    <2>4. BookTyped /\ BookInv
      BY DEF IInv
    <2>5. PICK t \in Tokens : t = typing
      BY <1>2
    <2>6. /\ Kept(t) /\ e.token = t /\ e.kind = operations[Slot(t)].kind
          /\ e.active <=> (typing' # 0 /\ t = typing')
          /\ operations' = [operations EXCEPT ![Slot(t)] = e] /\ nextOperation' = nextOperation
          /\ Ends(t, out)
      BY <1>2, <1>3, <1>4, <1>6, <2>1, <2>3, <2>5
    <2>7. /\ BookTyped' /\ BookInv'
          /\ \A u \in Tokens : told'[u].kind = told[u].kind /\ (u # t => told'[u] = told[u])
          /\ operations'[Slot(t)] = e
          /\ \A s \in 0..MaxOperations - 1 : s # Slot(t) => operations'[s] = operations[s]
          /\ told'[t].outcome = out
      BY <1>4, <2>2, <2>4, <2>6, WriteKeeps
    <2> QED BY <2>5, <2>7
  <1>8. UNCHANGED <<dispatched, inbox, answer, accepted>>
    BY <1>3 DEF appVars
  <1>9. CallInv' /\ call'.token = call.token
    <2>1. CASE Abandons(o)
      BY <1>3, <2>1, CancelCallKeeps DEF IInv
    <2>2. CASE ~Abandons(o)
      <3>1. UNCHANGED <<call, pending>>
        BY <1>3, <2>2 DEF callVars
      <3> QED BY <1>8, <3>1 DEF IInv, CallInv
    <2> QED BY <2>1, <2>2
  <1>10. TieInv'
    <2>1. Honest(e)'
      BY <1>4, <1>8 DEF Fits, Honest
    <2>2. typing \in dispatched' => KindOf(typing) = "semantic"
      BY <1>8 DEF IInv, TieInv
    <2>3. dispatched' \subseteq Tokens /\ typing' \in {0, typing} /\ nextOperation' = nextOperation
          /\ call.token \in 0..MaxAccepted
      BY <1>3, <1>8 DEF IInv, CallInv, CallType
    <2>4. BookTyped /\ BookInv /\ TieInv
      BY DEF IInv
    <2> QED BY <1>2, <1>4, <1>7, <1>8, <1>9, <2>1, <2>2, <2>3, <2>4, TieKept
  <1>11. EffectInv' /\ \A t \in Tokens : (Asked(t)' <=> Asked(t)) /\ (clip' = t => clip = t)
    BY <1>7, EffectsKept DEF IInv
  <1>12. DeniedInv'
    <2>1. done' = done
      BY DEF LinkSame
    <2>2. \A t \in Tokens : told'[t].outcome \in Denied => told[t].outcome \in Denied \/ Void(t)
      BY <1>0, <1>7
    <2> QED BY <1>8, <1>11, <2>1, <2>2, DeniedKept DEF IInv
  <1>13. IInv'
    BY <1>7, <1>9, <1>10, <1>11, <1>12 DEF IInv, LinkSame
  <1>14. Ending
    BY <1>0, <1>6, <1>8 DEF Ending, LinkSame
  <1> QED BY <1>13, <1>14

\* finish_typing, whether or not anything runs.
LEMMA CancelStep ==
    ASSUME IInv, FinishTyping("cancelled"), LinkSame
    PROVE  IInv' /\ (Still \/ Ending)
  <1>1. CASE typing # 0
    <2>1. Finish(Current, "cancelled") /\ Fits(Current) /\ "cancelled" \in Finals
      BY <1>1, CurrentFits DEF FinishTyping, Finals
    <2> QED BY <1>1, <2>1, FinishStep
  <1>2. CASE typing = 0
    <2>1. NothingEnds
      BY <1>2 DEF FinishTyping
    <2> QED BY <2>1, QuietStep DEF NothingEnds, operationVars
  <1> QED BY <1>1, <1>2

\* A receipt brought up to date by advance_typing or advance_semantic.
LEMMA WriteStep ==
    ASSUME IInv, NEW t \in Tokens, Kept(t), NEW o \in ReceiptType, o.token = t,
           o.kind = operations[Slot(t)].kind, o.active = operations[Slot(t)].active,
           o.kind \in {"window", "paste"} => o.submitted > 0,
           Honest(o), UNCHANGED semanticVars,
           operations' = [operations EXCEPT ![Slot(t)] = o],
           UNCHANGED <<nextOperation, typing, told>>, LinkSame
    PROVE  IInv' /\ Still
  <1>1. CallInv' /\ call' = call /\ UNCHANGED <<dispatched, inbox, accepted, answer>>
    BY CallIdle DEF IInv
  <1>2. o.active <=> (typing' # 0 /\ t = typing')
    <2>1. operations[Slot(t)].token = t /\ Slot(t) \in 0..MaxOperations - 1
      BY SlotIs, SizesAre DEF Kept
    <2> QED BY <2>1 DEF IInv, BookInv
  <1>3. /\ BookTyped' /\ BookInv'
        /\ \A u \in Tokens : told'[u].kind = told[u].kind
        /\ operations'[Slot(t)] = o
        /\ \A s \in 0..MaxOperations - 1 : s # Slot(t) => operations'[s] = operations[s]
    <2>1. "finished" \in Finals
      BY DEF Finals
    <2> QED BY <1>2, <2>1, WriteKeeps DEF IInv
  <1>4. TieInv'
    <2>1. Honest(o)'
      BY <1>1 DEF Honest
    <2>2. t \in dispatched' => KindOf(t) = "semantic"
      BY <1>1 DEF IInv, TieInv
    <2>3. dispatched' \subseteq Tokens /\ call'.token = call.token /\ call.token \in 0..MaxAccepted
      BY <1>1 DEF IInv, CallInv, CallType
    <2>4. BookTyped /\ BookInv /\ TieInv
      BY DEF IInv
    <2> QED BY <1>1, <1>3, <2>1, <2>2, <2>3, <2>4, TieKept
  <1>5. EffectInv' /\ \A u \in Tokens : (Asked(u)' <=> Asked(u)) /\ (clip' = u => clip = u)
    BY <1>3, EffectsKept DEF IInv
  <1>6. DeniedInv'
    BY <1>1, <1>5, DeniedKept DEF IInv, LinkSame
  <1> QED BY <1>1, <1>3, <1>4, <1>5, <1>6 DEF IInv, LinkSame, Still

----------------------------------------------------------------------------
(* The link.                                                               *)

LEMMA SameAsksItself ==
    ASSUME NEW q
    PROVE  SameAsks(q, q)
  BY DEF SameAsks

LEMMA LinkFrom ==
    ASSUME IInv, CompTyped', toComp' \in Seq(Requests), SameAsks(toComp, toComp'),
           seen' \in Views, controlEpoch' \in Nat,
           seen'.actionToken = seen.actionToken /\ seen'.actionOk = seen.actionOk,
           seen'.clipToken = seen.clipToken /\ seen'.clipOk = seen.clipOk,
           clip' \in {clip, 0}, done' = done,
           \/ toDaemon' = toDaemon
           \/ \E m \in Events : m.kind \in {"state", "synced"} /\ toDaemon' = Append(toDaemon, m)
    PROVE  LinkSame
  <1>1. toDaemon \in Seq(Events)
    BY DEF IInv, LinkTyped
  <1>2. toDaemon' \in Seq(Events)
    BY <1>1, AppendIs
  <1>3. ASSUME NEW t \in Tokens
        PROVE  /\ NoIn(toDaemon', seen, t) <=> NoIn(toDaemon, seen, t)
               /\ YesIn(toDaemon', seen, t) <=> YesIn(toDaemon, seen, t)
    <2>1. CASE toDaemon' = toDaemon
      BY <2>1
    <2>2. ASSUME NEW m \in Events, m.kind \in {"state", "synced"}, toDaemon' = Append(toDaemon, m)
          PROVE  /\ NoIn(toDaemon', seen, t) <=> NoIn(toDaemon, seen, t)
                 /\ YesIn(toDaemon', seen, t) <=> YesIn(toDaemon, seen, t)
      <3>1. ~Denial(m, t) /\ ~Grant(m, t)
        BY <2>2 DEF Denial, Grant
      <3> QED BY <1>1, <2>2, <3>1, AnswersMore
    <2> QED BY <2>1, <2>2
  <1>4. ASSUME NEW t \in Tokens
        PROVE  /\ NoIn(toDaemon', seen', t) <=> NoIn(toDaemon', seen, t)
               /\ YesIn(toDaemon', seen', t) <=> YesIn(toDaemon', seen, t)
    BY DEF NoIn, YesIn
  <1>5. \A t \in Tokens : (Refused(t)' => Refused(t)) /\ (Granted(t)' => Granted(t))
    BY <1>3, <1>4 DEF Refused, Granted
  <1> QED BY <1>2, <1>5 DEF LinkSame, LinkTyped

\* The daemon sends nothing, or asks for nothing but the gate.
LEMMA SendsLittle ==
    ASSUME IInv, UNCHANGED <<epoch, allowed, human, clip, takeovers, done, toDaemon>>,
           toComp' \in Seq(Requests), SameAsks(toComp, toComp'),
           seen' \in Views, controlEpoch' \in Nat,
           seen'.actionToken = seen.actionToken /\ seen'.actionOk = seen.actionOk,
           seen'.clipToken = seen.clipToken /\ seen'.clipOk = seen.clipOk
    PROVE  LinkSame
  <1>1. CompTyped'
    BY DEF IInv, CompTyped
  <1> QED BY <1>1, LinkFrom

LEMMA SendsNothing ==
    ASSUME IInv, UNCHANGED <<epoch, allowed, human, clip, takeovers, done, toDaemon, toComp, seen>>,
           controlEpoch' \in Nat
    PROVE  LinkSame
  <1>1. toComp \in Seq(Requests) /\ seen \in Views
    BY DEF IInv, LinkTyped
  <1> QED BY <1>1, SameAsksItself, SendsLittle

LEMMA SendsOne ==
    ASSUME IInv, UNCHANGED <<epoch, allowed, human, clip, takeovers, done, toDaemon, seen>>,
           controlEpoch' \in Nat,
           NEW m \in Requests, m.kind \in {"acquire", "revoke", "sync"}, toComp' = Append(toComp, m)
    PROVE  LinkSame
  <1>1. toComp \in Seq(Requests) /\ seen \in Views
    BY DEF IInv, LinkTyped
  <1> QED BY <1>1, SameAsksMore, SendsLittle

----------------------------------------------------------------------------
(* What the compositor does.                                               *)

LEMMA TakesIs ==
    ASSUME IInv, NEW kind, Takes(kind)
    PROVE  /\ toComp # <<>> /\ toComp \in Seq(Requests) /\ toComp' = Tail(toComp)
           /\ toComp' \in Seq(Requests) /\ Head(toComp) \in Requests /\ Head(toComp).kind = kind
           /\ kind \notin {"window", "offer"} => SameAsks(toComp, toComp')
  <1>1. toComp # <<>> /\ toComp \in Seq(Requests) /\ toComp' = Tail(toComp)
        /\ Head(toComp).kind = kind
    BY DEF Takes, IInv, LinkTyped
  <1>2. toComp' \in Seq(Requests) /\ Head(toComp) \in Requests
    BY <1>1, TailIs
  <1> QED BY <1>1, <1>2, SameAsksTail DEF IInv, EffectInv

LEMMA StateEventIs ==
    ASSUME epoch' \in Nat, allowed' \in BOOLEAN, human' \in BOOLEAN, takeovers' \in Nat
    PROVE  /\ StateEvent \in Events /\ StateEvent.kind = "state"
           /\ StateEvent.epoch = epoch' /\ StateEvent.known = takeovers'
  BY DEF StateEvent, Events

\* A step of the compositor that says nothing but what it is.
LEMMA CompositorStep ==
    ASSUME IInv, CompositorOnly, told' = told, CompTyped',
           toComp' \in Seq(Requests), SameAsks(toComp, toComp'),
           clip' \in {clip, 0}, done' = done,
           \/ toDaemon' = toDaemon
           \/ \E m \in Events : m.kind \in {"state", "synced"} /\ toDaemon' = Append(toDaemon, m)
    PROVE  IInv'
  <1>1. UNCHANGED semanticVars /\ UNCHANGED <<operations, nextOperation, typing, told>>
        /\ UNCHANGED <<seen, controlEpoch>>
    BY DEF CompositorOnly, daemonVars, operationVars
  <1>2. seen' \in Views /\ controlEpoch' \in Nat
    BY <1>1 DEF IInv, LinkTyped
  <1>3. LinkSame
    BY <1>1, <1>2, LinkFrom
  <1> QED BY <1>1, <1>3, QuietStep

\* A step of the compositor that carries something out.
LEMMA EffectStep ==
    ASSUME IInv, CompositorOnly, told' = told, CompTyped', LinkTyped', EffectInv', DeniedInv'
    PROVE  IInv'
  <1>1. UNCHANGED semanticVars /\ UNCHANGED <<operations, nextOperation, typing, told>>
    BY DEF CompositorOnly, daemonVars, operationVars
  <1>2. CallInv' /\ call' = call /\ UNCHANGED <<dispatched, inbox, accepted>>
    BY <1>1, CallIdle DEF IInv
  <1>3. BookTyped'
    BY <1>1 DEF IInv, BookTyped
  <1>4. BookInv'
    BY <1>1 DEF IInv, BookInv, Kept, KindOf
  <1>5. TieInv'
    BY <1>1, <1>2 DEF IInv, TieInv, KindOf, Honest
  <1> QED BY <1>2, <1>3, <1>4, <1>5 DEF IInv

LEMMA ProcessAcquireKeeps == ASSUME IInv, ProcessAcquire PROVE IInv'
  <1>1. /\ toComp' \in Seq(Requests) /\ SameAsks(toComp, toComp') /\ Head(toComp) \in Requests
    BY TakesIs DEF ProcessAcquire
  <1>2. UNCHANGED <<epoch, human, takeovers, done, told>> /\ CompositorOnly
    BY DEF ProcessAcquire, ghostVars
  <1>3. allowed' \in BOOLEAN /\ clip' \in {clip, 0}
    BY DEF ProcessAcquire
  <1>4. CompTyped'
    BY <1>2, <1>3, SizesAre DEF IInv, CompTyped
  <1>5. toDaemon' = toDaemon \/ toDaemon' = Append(toDaemon, StateEvent)
    BY DEF ProcessAcquire, Bumped
  <1>6. StateEvent \in Events /\ StateEvent.kind = "state"
    BY <1>4, StateEventIs DEF CompTyped
  <1> QED BY <1>1, <1>2, <1>3, <1>4, <1>5, <1>6, CompositorStep

LEMMA RevokedIs ==
    ASSUME IInv, ControlRevoke, takeovers' \in Nat, human' \in BOOLEAN, done' = done
    PROVE  CompTyped' /\ clip' = 0 /\ StateEvent \in Events /\ StateEvent.kind = "state"
  <1>a. epoch \in Nat /\ done \subseteq Tokens /\ epoch' = epoch + 1 /\ clip' = 0 /\ allowed' = FALSE
    BY DEF IInv, CompTyped, ControlRevoke
  <1>b. epoch' \in Nat /\ clip' \in 0..MaxAccepted
    BY <1>a, SizesAre
  <1>c. allowed' \in BOOLEAN
    BY DEF ControlRevoke
  <1>1. CompTyped' /\ clip' = 0
    BY <1>a, <1>b, <1>c DEF CompTyped
  <1> QED BY <1>1, StateEventIs DEF CompTyped

LEMMA ProcessStaleAcquireKeeps == ASSUME IInv, ProcessStaleAcquire PROVE IInv'
  <1>1. /\ toComp' \in Seq(Requests) /\ SameAsks(toComp, toComp')
    BY TakesIs DEF ProcessStaleAcquire
  <1>2. ControlRevoke /\ takeovers' \in Nat /\ human' \in BOOLEAN /\ done' = done /\ told' = told
        /\ toDaemon' = Append(toDaemon, StateEvent) /\ CompositorOnly
    BY DEF ProcessStaleAcquire, Bumped, IInv, CompTyped
  <1> QED BY <1>1, <1>2, RevokedIs, CompositorStep

LEMMA ProcessRevokeKeeps == ASSUME IInv, ProcessRevoke PROVE IInv'
  <1>1. /\ toComp' \in Seq(Requests) /\ SameAsks(toComp, toComp')
    BY TakesIs DEF ProcessRevoke
  <1>2. ControlRevoke /\ takeovers' \in Nat /\ human' \in BOOLEAN /\ done' = done /\ told' = told
        /\ toDaemon' = Append(toDaemon, StateEvent) /\ CompositorOnly
    BY DEF ProcessRevoke, Bumped, IInv, CompTyped, ghostVars
  <1> QED BY <1>1, <1>2, RevokedIs, CompositorStep

LEMMA HumanActsKeeps == ASSUME IInv, HumanActs PROVE IInv'
  <1>1. /\ toComp' \in Seq(Requests) /\ SameAsks(toComp, toComp')
    BY SameAsksItself DEF HumanActs, IInv, LinkTyped
  <1>2. ControlRevoke /\ takeovers' \in Nat /\ human' \in BOOLEAN /\ done' = done /\ told' = told
        /\ toDaemon' = Append(toDaemon, StateEvent) /\ CompositorOnly
    BY DEF HumanActs, Bumped, IInv, CompTyped
  <1> QED BY <1>1, <1>2, RevokedIs, CompositorStep

LEMMA HumanRestsKeeps == ASSUME IInv, HumanRests PROVE IInv'
  <1>1. /\ toComp' \in Seq(Requests) /\ SameAsks(toComp, toComp')
    BY SameAsksItself DEF HumanRests, IInv, LinkTyped
  <1>2. CompTyped' /\ clip' = clip /\ done' = done /\ told' = told
        /\ toDaemon' = Append(toDaemon, StateEvent) /\ CompositorOnly
    BY DEF HumanRests, Bumped, IInv, CompTyped, ghostVars
  <1>3. StateEvent \in Events /\ StateEvent.kind = "state"
    BY <1>2, StateEventIs DEF CompTyped
  <1> QED BY <1>1, <1>2, <1>3, CompositorStep

LEMMA ClipboardGoneKeeps == ASSUME IInv, ClipboardGone PROVE IInv'
  <1>1. /\ toComp' \in Seq(Requests) /\ SameAsks(toComp, toComp') /\ toDaemon' = toDaemon
    BY SameAsksItself DEF ClipboardGone, IInv, LinkTyped, linkVars
  <1>2. CompTyped' /\ clip' = 0 /\ done' = done /\ told' = told /\ CompositorOnly
    BY SizesAre DEF ClipboardGone, IInv, CompTyped, ghostVars
  <1> QED BY <1>1, <1>2, CompositorStep

LEMMA RequestFields ==
    ASSUME NEW m \in Requests
    PROVE  /\ m.kind \in {"acquire", "revoke", "sync", "window", "offer", "key"} /\ m.epoch \in Nat
           /\ m.token \in 0..MaxAccepted
           /\ m.kind \in {"window", "offer", "key"} => m.token \in Tokens
  BY SizesAre DEF Requests

LEMMA ProcessSyncKeeps == ASSUME IInv, ProcessSync PROVE IInv'
  <1> DEFINE m == [kind |-> "synced", token |-> Head(toComp).token, known |-> takeovers]
  <1>1. /\ toComp' \in Seq(Requests) /\ SameAsks(toComp, toComp') /\ Head(toComp) \in Requests
    BY TakesIs DEF ProcessSync
  <1>2. CompTyped' /\ clip' = clip /\ done' = done /\ told' = told /\ CompositorOnly
        /\ toDaemon' = Append(toDaemon, m)
    BY DEF ProcessSync, IInv, CompTyped, ghostVars, compVars
  <1>3. m \in Events /\ m.kind = "synced"
    <2>1. Head(toComp).token \in 0..MaxAccepted /\ takeovers \in Nat
      BY <1>1, RequestFields DEF IInv, CompTyped
    <2> QED BY <2>1 DEF Events
  <1> HIDE DEF m
  <1> QED BY <1>1, <1>2, <1>3, CompositorStep

LEMMA ProcessKeyKeeps == ASSUME IInv, ProcessKey PROVE IInv'
  <1>1. toComp' \in Seq(Requests) /\ SameAsks(toComp, toComp')
    BY TakesIs DEF ProcessKey
  <1>2. CompTyped' /\ clip' = clip /\ done' = done /\ told' = told /\ CompositorOnly
        /\ toDaemon' = toDaemon
    BY DEF ProcessKey, IInv, CompTyped, compVars
  <1> QED BY <1>1, <1>2, CompositorStep

\* The application's answer to a request that was the only one for t.
LEMMA OnlyOne ==
    ASSUME IInv, NEW kind \in {"window", "offer"}, Takes(kind), NEW t, t = Head(toComp).token
    PROVE  /\ t \in Tokens /\ ~Asked(t)' /\ Asked(t)
           /\ KindOf(t) = IF kind = "window" THEN "window" ELSE "paste"
           /\ t \notin done /\ clip # t /\ ~Refused(t)
           /\ Once(toComp', "window") /\ Once(toComp', "offer")
           /\ toComp' \in Seq(Requests)
           /\ \A u \in Tokens :
               /\ In(toComp', "window", u) => In(toComp, "window", u)
               /\ In(toComp', "offer", u) => In(toComp, "offer", u)
               /\ Asked(u)' => Asked(u)
  <1>1. /\ toComp # <<>> /\ toComp \in Seq(Requests) /\ toComp' = Tail(toComp)
        /\ toComp' \in Seq(Requests) /\ Head(toComp) \in Requests /\ Head(toComp).kind = kind
    BY TakesIs
  <1>2. t \in Tokens
    BY <1>1, RequestFields
  <1>3. Once(toComp, "window") /\ Once(toComp, "offer")
    BY DEF IInv, EffectInv
  <1>4. /\ Once(toComp', "window") /\ Once(toComp', "offer")
        /\ \A u : In(toComp', "window", u) => In(toComp, "window", u)
        /\ \A u : In(toComp', "offer", u) => In(toComp, "offer", u)
        /\ ~In(toComp', kind, t) /\ In(toComp, kind, t)
    BY <1>1, <1>3, TailKeeps
  <1>5. /\ KindOf(t) = IF kind = "window" THEN "window" ELSE "paste"
        /\ ~In(toComp, IF kind = "window" THEN "offer" ELSE "window", t)
    BY <1>2, <1>4 DEF IInv, EffectInv
  <1>6. ~(In(toComp', "window", t) \/ In(toComp', "offer", t))
    BY <1>4, <1>5
  <1>7. Asked(t) /\ ~Asked(t)'
    BY <1>4, <1>6 DEF Asked
  <1>8. \A u : Asked(u)' => Asked(u)
    BY <1>4 DEF Asked
  <1> QED BY <1>1, <1>2, <1>4, <1>5, <1>7, <1>8 DEF IInv, EffectInv

LEMMA WindowActionKeeps == ASSUME IInv, WindowAction PROVE IInv'
  <1>1. Takes("window") /\ CompositorOnly /\ told' = told /\ clip' = clip /\ UNCHANGED compVars
        /\ takeovers' = takeovers /\ seen' = seen /\ controlEpoch' = controlEpoch
    BY DEF WindowAction, compVars, CompositorOnly, daemonVars
  <1>2. PICK t : t = Head(toComp).token
    OBVIOUS
  <1>3. PICK ok \in BOOLEAN :
            /\ toDaemon' = Append(toDaemon, [kind |-> "action_done", token |-> t, ok |-> ok])
            /\ done' = IF ok THEN done \cup {t} ELSE done
    BY <1>2 DEF WindowAction
  <1>4. PICK m : m = [kind |-> "action_done", token |-> t, ok |-> ok]
    OBVIOUS
  <1>5. /\ t \in Tokens /\ ~Asked(t)' /\ Asked(t) /\ KindOf(t) = "window"
        /\ t \notin done /\ clip # t /\ ~Refused(t)
        /\ Once(toComp', "window") /\ Once(toComp', "offer") /\ toComp' \in Seq(Requests)
        /\ \A u \in Tokens :
               /\ In(toComp', "window", u) => In(toComp, "window", u)
               /\ In(toComp', "offer", u) => In(toComp, "offer", u)
               /\ Asked(u)' => Asked(u)
    BY <1>1, <1>2, OnlyOne
  <1>6. /\ m \in Events /\ m.kind = "action_done" /\ m.token = t /\ m.ok = ok
        /\ toDaemon \in Seq(Events) /\ toDaemon' = Append(toDaemon, m)
    BY <1>3, <1>4, <1>5 DEF Events, IInv, LinkTyped
  <1>7. ASSUME NEW u \in Tokens
        PROVE  /\ Refused(u)' <=> Refused(u) \/ (u = t /\ ~ok)
               /\ Granted(u)' <=> Granted(u) \/ (u = t /\ ok)
    <2>1. /\ Denial(m, u) <=> (u = t /\ ~ok)
          /\ Grant(m, u) <=> (u = t /\ ok)
      BY <1>6 DEF Denial, Grant
    <2>2. /\ NoIn(toDaemon', seen, u) <=> NoIn(toDaemon, seen, u) \/ Denial(m, u)
          /\ YesIn(toDaemon', seen, u) <=> YesIn(toDaemon, seen, u) \/ Grant(m, u)
      BY <1>6, AnswersMore
    <2> QED BY <1>1, <2>1, <2>2 DEF Refused, Granted
  <1>8. CompTyped' /\ LinkTyped'
    <2>1. toDaemon' \in Seq(Events)
      BY <1>6, AppendIs
    <2>2. done' \subseteq Tokens
      BY <1>3, <1>5 DEF IInv, CompTyped
    <2> QED BY <1>1, <1>5, <2>1, <2>2 DEF IInv, CompTyped, LinkTyped, compVars
  <1>9. EffectInv'
    <2>1. clip' # 0 => told'[clip'].kind = "paste"
      BY <1>1 DEF IInv, EffectInv, KindOf
    <2>2. ASSUME NEW u \in Tokens
          PROVE  /\ In(toComp', "window", u) => told'[u].kind = "window"
                 /\ In(toComp', "offer", u) => told'[u].kind = "paste"
                 /\ u \in done' => told'[u].kind \in {"window", "paste"}
                 /\ Granted(u)' => u \in done'
                 /\ Asked(u)' => u \notin done' /\ clip' # u /\ ~Refused(u)'
                 /\ Refused(u)' => u \notin done' /\ clip' # u
                                   /\ told'[u].kind \in {"window", "paste"}
      <3>1. /\ In(toComp, "window", u) => told[u].kind = "window"
            /\ In(toComp, "offer", u) => told[u].kind = "paste"
            /\ u \in done => told[u].kind \in {"window", "paste"}
            /\ Granted(u) => u \in done
            /\ Asked(u) => u \notin done /\ clip # u /\ ~Refused(u)
            /\ Refused(u) => u \notin done /\ clip # u /\ told[u].kind \in {"window", "paste"}
        BY DEF IInv, EffectInv, KindOf
      <3>2. CASE u = t
        <4>1. ~Asked(u)' /\ u \notin done /\ clip # u /\ ~Refused(u) /\ told[u].kind = "window"
          BY <1>5, <3>2 DEF KindOf
        <4> QED BY <1>1, <1>3, <1>5, <1>7, <3>1, <3>2, <4>1
      <3>3. CASE u # t
        BY <1>1, <1>3, <1>5, <1>7, <3>1, <3>3
      <3> QED BY <3>2, <3>3
    <2> QED BY <1>5, <2>1, <2>2 DEF EffectInv, KindOf
  <1>10. DeniedInv'
    <2>1. UNCHANGED <<inbox, accepted>>
      BY <1>1 DEF CompositorOnly, semanticVars, appVars
    <2>2. ASSUME NEW u \in Tokens, told'[u].outcome \in Denied PROVE Void(u)'
      <3>1. Void(u)
        BY <1>1, <2>2 DEF IInv, DeniedInv, Denied
      <3>2. u # t
        BY <1>5, <3>1 DEF Void
      <3> QED BY <1>1, <1>3, <1>5, <2>1, <3>1, <3>2 DEF Void
    <2> QED BY <2>2 DEF DeniedInv, Denied
  <1> QED BY <1>1, <1>8, <1>9, <1>10, EffectStep

LEMMA ClipboardOfferKeeps == ASSUME IInv, ClipboardOffer PROVE IInv'
  <1>1. Takes("offer") /\ CompositorOnly /\ told' = told /\ done' = done
        /\ UNCHANGED <<epoch, allowed, human>>
        /\ takeovers' = takeovers /\ seen' = seen /\ controlEpoch' = controlEpoch
    BY DEF ClipboardOffer, ghostVars, CompositorOnly, daemonVars
  <1>2. PICK t : t = Head(toComp).token
    OBVIOUS
  <1>3. PICK ok \in BOOLEAN :
            /\ toDaemon' = Append(toDaemon, [kind |-> "offered", token |-> t, ok |-> ok])
            /\ clip' = IF ok THEN t ELSE clip
    BY <1>2 DEF ClipboardOffer
  <1>4. PICK m : m = [kind |-> "offered", token |-> t, ok |-> ok]
    OBVIOUS
  <1>5. /\ t \in Tokens /\ ~Asked(t)' /\ Asked(t) /\ KindOf(t) = "paste"
        /\ t \notin done /\ clip # t /\ ~Refused(t)
        /\ Once(toComp', "window") /\ Once(toComp', "offer") /\ toComp' \in Seq(Requests)
        /\ \A u \in Tokens :
               /\ In(toComp', "window", u) => In(toComp, "window", u)
               /\ In(toComp', "offer", u) => In(toComp, "offer", u)
               /\ Asked(u)' => Asked(u)
    BY <1>1, <1>2, OnlyOne
  <1>6. /\ m \in Events /\ m.kind = "offered" /\ m.token = t /\ m.ok = ok
        /\ toDaemon \in Seq(Events) /\ toDaemon' = Append(toDaemon, m)
    BY <1>3, <1>4, <1>5 DEF Events, IInv, LinkTyped
  <1>7. ASSUME NEW u \in Tokens
        PROVE  /\ Refused(u)' <=> Refused(u) \/ (u = t /\ ~ok)
               /\ Granted(u)' <=> Granted(u)
    <2>1. /\ Denial(m, u) <=> (u = t /\ ~ok)
          /\ ~Grant(m, u)
      BY <1>6 DEF Denial, Grant
    <2>2. /\ NoIn(toDaemon', seen, u) <=> NoIn(toDaemon, seen, u) \/ Denial(m, u)
          /\ YesIn(toDaemon', seen, u) <=> YesIn(toDaemon, seen, u) \/ Grant(m, u)
      BY <1>6, AnswersMore
    <2> QED BY <1>1, <2>1, <2>2 DEF Refused, Granted
  <1>8. CompTyped' /\ LinkTyped'
    <2>1. toDaemon' \in Seq(Events)
      BY <1>6, AppendIs
    <2>2. clip' \in 0..MaxAccepted
      BY <1>3, <1>5, SizesAre DEF IInv, CompTyped
    <2> QED BY <1>1, <1>5, <2>1, <2>2 DEF IInv, CompTyped, LinkTyped
  <1>9. EffectInv'
    <2>1. clip' # 0 => told'[clip'].kind = "paste"
      BY <1>1, <1>3, <1>5 DEF IInv, EffectInv, KindOf
    <2>2. ASSUME NEW u \in Tokens
          PROVE  /\ In(toComp', "window", u) => told'[u].kind = "window"
                 /\ In(toComp', "offer", u) => told'[u].kind = "paste"
                 /\ u \in done' => told'[u].kind \in {"window", "paste"}
                 /\ Granted(u)' => u \in done'
                 /\ Asked(u)' => u \notin done' /\ clip' # u /\ ~Refused(u)'
                 /\ Refused(u)' => u \notin done' /\ clip' # u
                                   /\ told'[u].kind \in {"window", "paste"}
      <3>1. /\ In(toComp, "window", u) => told[u].kind = "window"
            /\ In(toComp, "offer", u) => told[u].kind = "paste"
            /\ u \in done => told[u].kind \in {"window", "paste"}
            /\ Granted(u) => u \in done
            /\ Asked(u) => u \notin done /\ clip # u /\ ~Refused(u)
            /\ Refused(u) => u \notin done /\ clip # u /\ told[u].kind \in {"window", "paste"}
        BY DEF IInv, EffectInv, KindOf
      <3>2. CASE u = t
        <4>1. ~Asked(u)' /\ u \notin done /\ clip # u /\ ~Refused(u) /\ told[u].kind = "paste"
          BY <1>5, <3>2 DEF KindOf
        <4> QED BY <1>1, <1>3, <1>5, <1>7, <3>1, <3>2, <4>1
      <3>3. CASE u # t
        BY <1>1, <1>3, <1>5, <1>7, <3>1, <3>3
      <3> QED BY <3>2, <3>3
    <2> QED BY <1>5, <2>1, <2>2 DEF EffectInv, KindOf
  <1>10. DeniedInv'
    <2>1. UNCHANGED <<inbox, accepted>>
      BY <1>1 DEF CompositorOnly, semanticVars, appVars
    <2>2. ASSUME NEW u \in Tokens, told'[u].outcome \in Denied PROVE Void(u)'
      <3>1. Void(u)
        BY <1>1, <2>2 DEF IInv, DeniedInv, Denied
      <3>2. u # t
        BY <1>5, <3>1 DEF Void
      <3> QED BY <1>1, <1>3, <1>5, <2>1, <3>1, <3>2 DEF Void
    <2> QED BY <2>2 DEF DeniedInv, Denied
  <1> QED BY <1>1, <1>8, <1>9, <1>10, EffectStep

LEMMA ClipboardTransferKeeps == ASSUME IInv, ClipboardTransfer PROVE IInv'
  <1> DEFINE m == [kind |-> "transfer", token |-> clip]
  <1>1. CompositorOnly /\ told' = told /\ UNCHANGED <<epoch, allowed, human, clip, toComp, takeovers>>
        /\ seen' = seen /\ controlEpoch' = controlEpoch
        /\ toDaemon' = Append(toDaemon, m) /\ done' = done \cup {clip} /\ clip # 0
    BY DEF ClipboardTransfer, CompositorOnly, daemonVars
  <1>2. clip \in Tokens /\ toDaemon \in Seq(Events) /\ KindOf(clip) = "paste"
    BY <1>1, SizesAre DEF IInv, CompTyped, LinkTyped, EffectInv
  <1>3. m \in Events /\ m.kind = "transfer"
    BY <1>2 DEF Events
  <1> HIDE DEF m
  <1>4. ASSUME NEW u \in Tokens
        PROVE  /\ Refused(u)' <=> Refused(u)
               /\ Granted(u)' <=> Granted(u)
               /\ Asked(u)' <=> Asked(u)
    <2>1. ~Denial(m, u) /\ ~Grant(m, u)
      BY <1>3 DEF Denial, Grant
    <2>2. /\ NoIn(toDaemon', seen, u) <=> NoIn(toDaemon, seen, u)
          /\ YesIn(toDaemon', seen, u) <=> YesIn(toDaemon, seen, u)
      BY <1>1, <1>2, <1>3, <2>1, AnswersMore
    <2> QED BY <1>1, <2>2 DEF Refused, Granted, Asked
  <1>5. CompTyped' /\ LinkTyped'
    <2>1. toDaemon' \in Seq(Events)
      BY <1>1, <1>2, <1>3, AppendIs
    <2>2. done' \subseteq Tokens
      BY <1>1, <1>2 DEF IInv, CompTyped
    <2> QED BY <1>1, <2>1, <2>2 DEF IInv, CompTyped, LinkTyped
  <1>6. EffectInv'
    <2>1. clip' # 0 => told'[clip'].kind = "paste"
      BY <1>1 DEF IInv, EffectInv, KindOf
    <2>2. ASSUME NEW u \in Tokens
          PROVE  /\ In(toComp', "window", u) => told'[u].kind = "window"
                 /\ In(toComp', "offer", u) => told'[u].kind = "paste"
                 /\ u \in done' => told'[u].kind \in {"window", "paste"}
                 /\ Granted(u)' => u \in done'
                 /\ Asked(u)' => u \notin done' /\ clip' # u /\ ~Refused(u)'
                 /\ Refused(u)' => u \notin done' /\ clip' # u
                                   /\ told'[u].kind \in {"window", "paste"}
      <3>1. /\ In(toComp, "window", u) => told[u].kind = "window"
            /\ In(toComp, "offer", u) => told[u].kind = "paste"
            /\ u \in done => told[u].kind \in {"window", "paste"}
            /\ Granted(u) => u \in done
            /\ Asked(u) => u \notin done /\ clip # u /\ ~Refused(u)
            /\ Refused(u) => u \notin done /\ clip # u /\ told[u].kind \in {"window", "paste"}
        BY DEF IInv, EffectInv, KindOf
      <3> QED BY <1>1, <1>2, <1>4, <3>1 DEF KindOf
    <2>3. Once(toComp', "window") /\ Once(toComp', "offer")
      BY <1>1 DEF IInv, EffectInv
    <2> QED BY <2>1, <2>2, <2>3 DEF EffectInv, KindOf
  <1>7. DeniedInv'
    <2>1. UNCHANGED <<inbox, accepted>>
      BY <1>1 DEF CompositorOnly, semanticVars, appVars
    <2>2. ASSUME NEW u \in Tokens, told'[u].outcome \in Denied PROVE Void(u)'
      <3>1. Void(u)
        BY <1>1, <2>2 DEF IInv, DeniedInv, Denied
      <3> QED BY <1>1, <1>4, <2>1, <3>1 DEF Void
    <2> QED BY <2>2 DEF DeniedInv, Denied
  <1> QED BY <1>1, <1>5, <1>6, <1>7, EffectStep

LEMMA CompositorKeeps == ASSUME IInv, Compositor PROVE IInv'
  BY ProcessAcquireKeeps, ProcessStaleAcquireKeeps, ProcessRevokeKeeps, ProcessSyncKeeps,
     ProcessKeyKeeps, WindowActionKeeps, ClipboardOfferKeeps, ClipboardTransferKeeps, ClipboardGoneKeeps,
     HumanActsKeeps, HumanRestsKeeps
  DEF Compositor, ProcessRequest

----------------------------------------------------------------------------
(* What the daemon does between requests.                                  *)

\* A step of the daemon that leaves the compositor's side alone.
DaemonOnly == UNCHANGED <<epoch, allowed, human, clip, takeovers, done, toDaemon>>

LEMMA RevokeInputKeeps ==
    ASSUME IInv, RevokeInput, DaemonOnly, seen' = seen
    PROVE  IInv' /\ (Still \/ Ending)
  <1>1. controlEpoch' \in Nat
    BY DEF RevokeInput, IInv, LinkTyped
  <1>2. LinkSame
    BY <1>1, RequestsAre, SendsOne DEF RevokeInput, DaemonOnly
  <1> QED BY <1>2, CancelStep DEF RevokeInput

LEMMA ExpireWriterKeeps == ASSUME IInv, ExpireWriter PROVE IInv' /\ (Still \/ Ending)
  BY RevokeInputKeeps DEF ExpireWriter, compVars, DaemonOnly

LEMMA InterruptKeeps == ASSUME IInv, Interrupt PROVE IInv' /\ (Still \/ Ending)
  BY RevokeInputKeeps DEF Interrupt, Serving, compVars, DaemonOnly

\* The daemon's own clocks and flags.
LEMMA NothingKeeps ==
    ASSUME IInv, UNCHANGED semanticVars, UNCHANGED <<operations, nextOperation, typing, told>>,
           DaemonOnly, UNCHANGED <<toComp, seen, controlEpoch>>
    PROVE  IInv' /\ Still
  <1>1. LinkSame
    BY SendsNothing DEF DaemonOnly, IInv, LinkTyped
  <1> QED BY <1>1, QuietStep

LEMMA AcquireControlKeeps == ASSUME IInv, AcquireControl PROVE IInv' /\ Still
  BY NothingKeeps DEF AcquireControl, Serving, compVars, DaemonOnly, operationVars

LEMMA ResumeKeeps == ASSUME IInv, Resume PROVE IInv' /\ Still
  BY NothingKeeps DEF Resume, Serving, compVars, DaemonOnly, operationVars

LEMMA ScopeChangesKeeps == ASSUME IInv, ScopeChanges PROVE IInv' /\ Still
  BY NothingKeeps DEF ScopeChanges, Serving, compVars, DaemonOnly, operationVars

LEMMA NoCallbackKeeps == ASSUME IInv, NoCallback PROVE IInv' /\ Still
  BY NothingKeeps DEF NoCallback, TurnTo, compVars, linkVars, DaemonOnly, operationVars

LEMMA AdvanceIdleKeeps == ASSUME IInv, AdvanceIdle PROVE IInv' /\ Still
  BY NothingKeeps
  DEF AdvanceIdle, AdvanceOnly, SameLease, NothingEnds, TurnTo, compVars, DaemonOnly, operationVars

LEMMA NoReceiptKeptKeeps == ASSUME IInv, NoReceiptKept PROVE IInv' /\ Still
  BY NothingKeeps
  DEF NoReceiptKept, AdvancesSemantic, Unasked, NothingEnds, TurnTo, compVars, DaemonOnly,
      operationVars

LEMMA LeaseRunsOutKeeps == ASSUME IInv, LeaseRunsOut PROVE IInv' /\ Still
  BY NothingKeeps DEF LeaseRunsOut, compVars, linkVars, DaemonOnly, operationVars

LEMMA OperationLateKeeps == ASSUME IInv, OperationLate PROVE IInv' /\ Still
  BY NothingKeeps DEF OperationLate, compVars, linkVars, DaemonOnly, ghostVars

LEMMA PreparationLateKeeps == ASSUME IInv, PreparationLate PROVE IInv' /\ Still
  <1>1. UNCHANGED <<call, pending, dispatched, inbox, answer, accepted>>
        /\ UNCHANGED <<operations, nextOperation, typing, told>>
        /\ DaemonOnly /\ UNCHANGED <<toComp, seen, controlEpoch>>
    BY DEF PreparationLate, appVars, compVars, linkVars, daemonVars, operationVars, ghostVars,
           DaemonOnly
  <1>2. CallInv'
    BY <1>1 DEF IInv, CallInv
  <1>3. LinkSame
    BY <1>1, SendsNothing DEF DaemonOnly, IInv, LinkTyped
  <1> QED BY <1>1, <1>2, <1>3, CallStep

LEMMA DaemonQuietElapsesKeeps == ASSUME IInv, DaemonQuietElapses PROVE IInv' /\ Still
  <1>1. seen \in Views /\ toComp \in Seq(Requests) /\ controlEpoch \in Nat
    BY DEF IInv, LinkTyped
  <1>2. seen' = [seen EXCEPT !.human = FALSE]
    BY DEF DaemonQuietElapses
  <1>3. /\ seen' \in Views
        /\ seen'.actionToken = seen.actionToken /\ seen'.actionOk = seen.actionOk
        /\ seen'.clipToken = seen.clipToken /\ seen'.clipOk = seen.clipOk
    BY <1>1, <1>2 DEF Views
  <1>4. UNCHANGED semanticVars /\ UNCHANGED <<operations, nextOperation, typing, told>>
        /\ UNCHANGED <<epoch, allowed, human, clip, takeovers, done, toDaemon>>
        /\ toComp' = toComp /\ controlEpoch' = controlEpoch
    BY DEF DaemonQuietElapses, compVars, linkVars, operationVars, ghostVars
  <1>5. SameAsks(toComp, toComp')
    BY <1>4, SameAsksItself
  <1>6. LinkSame
    BY <1>1, <1>3, <1>4, <1>5, SendsLittle
  <1> QED BY <1>4, <1>6, QuietStep

LEMMA ReadEventKeeps == ASSUME IInv, ReadEvent PROVE IInv' /\ Still
  <1>1. seen \in Views /\ toDaemon \in Seq(Events) /\ toDaemon # <<>> /\ controlEpoch \in Nat
        /\ toComp \in Seq(Requests)
    BY DEF ReadEvent, IInv, LinkTyped
  <1>2. seen' = Noted(Head(toDaemon)) /\ toDaemon' = Tail(toDaemon)
        /\ UNCHANGED semanticVars /\ UNCHANGED <<operations, nextOperation, typing, told>>
        /\ UNCHANGED <<epoch, allowed, human, clip, takeovers, done, toComp, controlEpoch>>
    BY DEF ReadEvent, compVars, operationVars, ghostVars
  <1>3. toDaemon' \in Seq(Events) /\ seen' \in Views
    BY <1>1, <1>2, TailIs, AnswersRead
  <1>4. ASSUME NEW t \in Tokens PROVE (Refused(t)' => Refused(t)) /\ (Granted(t)' => Granted(t))
    BY <1>1, <1>2, AnswersRead DEF Refused, Granted
  <1>5. LinkSame
    BY <1>1, <1>2, <1>3, <1>4, SameAsksItself DEF LinkSame, IInv, CompTyped, LinkTyped
  <1> QED BY <1>2, <1>5, QuietStep

LEMMA PreparePollKeeps == ASSUME IInv, PreparePoll PROVE IInv' /\ Still
  <1>1. /\ PreparationExpired /\ UNCHANGED <<pending, dispatched, appVars>>
        /\ UNCHANGED <<operations, nextOperation, typing, told>>
        /\ DaemonOnly /\ UNCHANGED <<toComp, seen, controlEpoch>>
    BY DEF PreparePoll, TurnTo, compVars, linkVars, operationVars, DaemonOnly
  <1>2. CallInv' /\ call'.token = call.token /\ UNCHANGED <<dispatched, inbox, accepted>>
    BY <1>1, PreparationKeeps DEF IInv, appVars
  <1>3. LinkSame
    BY <1>1, SendsNothing DEF DaemonOnly, IInv, LinkTyped
  <1> QED BY <1>1, <1>2, <1>3, CallStep

LEMMA RunCallbackKeeps == ASSUME IInv, RunCallback PROVE IInv' /\ Still
  <1>1. /\ DispatchCallback
        /\ UNCHANGED <<operations, nextOperation, typing, told>>
        /\ DaemonOnly /\ UNCHANGED <<toComp, seen, controlEpoch>>
    BY DEF RunCallback, TurnTo, compVars, linkVars, operationVars, DaemonOnly
  <1>2. CallInv' /\ call'.token = call.token /\ UNCHANGED <<dispatched, inbox, accepted>>
    BY <1>1, CallbackKeeps DEF IInv
  <1>3. LinkSame
    BY <1>1, SendsNothing DEF DaemonOnly, IInv, LinkTyped
  <1> QED BY <1>1, <1>2, <1>3, CallStep

LEMMA SyncTakeoverKeeps == ASSUME IInv, SyncTakeover PROVE IInv' /\ (Still \/ Ending)
  <1>1. FinishTyping("cancelled") /\ controlEpoch' = seen.epoch
        /\ DaemonOnly /\ UNCHANGED <<toComp, seen>>
    BY DEF SyncTakeover, TurnTo, compVars, linkVars, DaemonOnly
  <1>2. controlEpoch' \in Nat
    BY <1>1 DEF IInv, LinkTyped, Views
  <1>3. LinkSame
    BY <1>1, <1>2, SendsNothing DEF DaemonOnly
  <1> QED BY <1>1, <1>3, CancelStep

\* What was refused was not done.
LEMMA RefusedIsVoid ==
    ASSUME IInv, typing # 0, Refused(typing)
    PROVE  Void(typing)
  <1>1. typing \in Tokens
    BY CurrentIs DEF IInv
  <1>2. typing \notin done /\ clip # typing /\ ~Asked(typing) /\ KindOf(typing) \in {"window", "paste"}
    BY <1>1 DEF IInv, EffectInv
  <1>3. typing \notin inbox \cup accepted
    BY <1>2 DEF IInv, TieInv, CallInv
  <1> QED BY <1>2, <1>3 DEF Void

LEMMA SyncControlStateKeeps == ASSUME IInv, SyncControlState PROVE IInv' /\ (Still \/ Ending)
  <1>1. DaemonOnly /\ UNCHANGED <<toComp, seen, controlEpoch>>
    BY DEF SyncControlState, TurnTo, compVars, linkVars, DaemonOnly
  <1>2. LinkSame
    BY <1>1, SendsNothing DEF DaemonOnly, IInv, LinkTyped
  <1>3. CASE NothingEnds
    BY <1>2, <1>3, QuietStep DEF NothingEnds, operationVars
  <1>4. CASE typing # 0 /\ Acknowledged(Current) /\ ~seen.actionOk /\ Finish(Current, "rejected")
    <2>1. Refused(typing)
      BY <1>4, CurrentIs DEF Acknowledged, Refused, NoIn, IInv
    <2>2. Fits(Current) /\ "rejected" \in Finals
      BY <1>4, CurrentFits DEF Finals
    <2> QED BY <1>2, <1>4, <2>1, <2>2, RefusedIsVoid, FinishStep
  <1>5. CASE typing # 0 /\ Acknowledged(Current) /\ seen.actionOk /\ Finish(Current, "finished")
    <2>1. Granted(typing) /\ typing \in Tokens
      BY <1>5, CurrentIs DEF Acknowledged, Granted, YesIn, IInv
    <2>2. typing \in done
      BY <2>1 DEF IInv, EffectInv
    <2>3. Fits(Current) /\ "finished" \in Finals
      BY <1>5, CurrentFits DEF Finals
    <2> QED BY <1>2, <1>5, <2>2, <2>3, FinishStep
  <1> QED BY <1>3, <1>4, <1>5 DEF SyncControlState

----------------------------------------------------------------------------
(* advance_typing.                                                         *)

LEMMA AdvanceIs ==
    ASSUME AdvanceOnly
    PROVE  DaemonOnly /\ seen' = seen
  BY DEF AdvanceOnly, TurnTo, compVars, DaemonOnly

\* Keys are preceded by a request for the gate.
LEMMA AcquireSent ==
    ASSUME IInv, AdvanceOnly, typing # 0, controlEpoch' \in Nat,
           toComp' = Append(toComp, AcquireRequest(Current.epoch)) \/ CodepointSent
    PROVE  LinkSame
  <1>1. PICK a : a = AcquireRequest(Current.epoch)
    OBVIOUS
  <1>2. a \in Requests /\ a.kind = "acquire"
    BY <1>1, CurrentIs, ReceiptFields, RequestsAre DEF IInv
  <1>3. CASE toComp' = Append(toComp, a)
    BY <1>2, <1>3, AdvanceIs, SendsOne DEF DaemonOnly
  <1>4. CASE CodepointSent
    <2>1. PICK m : m = KeyRequest(typing)
      OBVIOUS
    <2>2. m \in Requests /\ m.kind = "key"
      BY <2>1, CurrentIs DEF KeyRequest, Requests, IInv
    <2>3. PICK q : q = Append(toComp, a)
      OBVIOUS
    <2>4. toComp \in Seq(Requests) /\ seen \in Views
      BY DEF IInv, LinkTyped
    <2>5. SameAsks(toComp, q) /\ q \in Seq(Requests)
      BY <1>2, <2>3, <2>4, SameAsksMore
    <2>6. toComp' = Append(q, m)
      BY <1>1, <1>2, <1>4, <2>1, <2>2, <2>3, <2>4, TwoMore DEF CodepointSent
    <2>7. SameAsks(toComp, toComp') /\ toComp' \in Seq(Requests)
      BY <2>2, <2>5, <2>6, SameAsksMore, SameAsksChain
    <2> QED BY <2>4, <2>7, AdvanceIs, SendsLittle DEF DaemonOnly
  <1> QED BY <1>1, <1>3, <1>4

LEMMA AdvanceCancelledKeeps == ASSUME IInv, AdvanceCancelled PROVE IInv' /\ (Still \/ Ending)
  <1>1. LinkSame
    BY AdvanceIs, SendsNothing DEF AdvanceCancelled, SameLease, DaemonOnly, IInv, LinkTyped
  <1>2. PICK outcome \in {"cancelled", "deadline_exceeded"} : Finish(Current, outcome)
    BY DEF AdvanceCancelled
  <1>3. outcome \in Finals /\ typing # 0
    BY DEF Finals, AdvanceCancelled
  <1> QED BY <1>1, <1>2, <1>3, CurrentFits, FinishStep

LEMMA TypeCodepointKeeps == ASSUME IInv, TypeCodepoint PROVE IInv' /\ (Still \/ Ending)
  <1> DEFINE o == [Current EXCEPT !.submitted = @ + 1]
  <1>1. /\ typing # 0 /\ Current.kind = "type" /\ AdvanceOnly /\ controlEpoch' = controlEpoch
        /\ toComp' = Append(toComp, AcquireRequest(Current.epoch)) \/ CodepointSent
    BY DEF TypeCodepoint, Proceeds, SameLease
  <1>2. LinkSame
    BY <1>1, AcquireSent DEF IInv, LinkTyped
  <1>3. Fits(Current) /\ typing \in Tokens /\ KindOf(typing) = "type" /\ Kept(typing)
    BY <1>1, CurrentFits, CurrentIs DEF IInv
  <1>4. Current.submitted + 1 \in Nat
    BY <1>3, ReceiptFields DEF Fits
  <1>5. /\ o \in ReceiptType /\ o.token = typing /\ o.kind = "type" /\ o.active = Current.active
    BY <1>1, <1>3, <1>4 DEF Fits, ReceiptType
  <1>6. \/ Finish(o, "finished")
        \/ operations' = [operations EXCEPT ![Slot(typing)] = o]
           /\ UNCHANGED <<nextOperation, typing, told, semanticVars>>
        \/ Finish(Current, "outcome_unknown")
    BY DEF TypeCodepoint
  <1> HIDE DEF o
  <1>7. CASE Finish(o, "finished")
    <2>1. Fits(o) /\ "finished" \in Finals
      BY <1>3, <1>5 DEF Fits, Honest, Finals
    <2> QED BY <1>1, <1>2, <1>3, <1>7, <2>1, FinishStep
  <1>8. CASE Finish(Current, "outcome_unknown")
    <2>1. "outcome_unknown" \in Finals
      BY DEF Finals
    <2> QED BY <1>1, <1>2, <1>3, <1>8, <2>1, FinishStep
  <1>9. CASE operations' = [operations EXCEPT ![Slot(typing)] = o]
             /\ UNCHANGED <<nextOperation, typing, told, semanticVars>>
    <2>1. PICK t \in Tokens : t = typing
      BY <1>3
    <2>2. Honest(o)
      BY <1>5 DEF Honest
    <2>3. o.kind = operations[Slot(t)].kind /\ o.active = operations[Slot(t)].active
      BY <1>1, <1>5, <2>1 DEF Current
    <2>4. operations' = [operations EXCEPT ![Slot(t)] = o] /\ Kept(t) /\ o.token = t
          /\ ~(o.kind \in {"window", "paste"})
      BY <1>3, <1>5, <1>9, <2>1
    <2> QED BY <1>2, <1>5, <1>9, <2>2, <2>3, <2>4, WriteStep
  <1> QED BY <1>6, <1>7, <1>8, <1>9

LEMMA PasteRefusedKeeps == ASSUME IInv, PasteRefused PROVE IInv' /\ (Still \/ Ending)
  <1>1. typing # 0 /\ AdvanceOnly /\ UNCHANGED <<controlEpoch, toComp>>
        /\ seen.clipToken = typing /\ ~seen.clipOk /\ Finish(Current, "rejected")
    BY DEF PasteRefused, Proceeds, SameLease
  <1>2. LinkSame
    BY <1>1, AdvanceIs, SendsNothing DEF DaemonOnly, IInv, LinkTyped
  <1>3. Refused(typing) /\ "rejected" \in Finals
    BY <1>1 DEF Refused, NoIn, Finals
  <1> QED BY <1>1, <1>2, <1>3, RefusedIsVoid, CurrentFits, FinishStep

\* The receipt once the keys are on their way.
LEMMA KeysNoted ==
    ASSUME IInv, typing # 0, Current.kind = "paste", NEW o, o = [Current EXCEPT !.keysSent = TRUE]
    PROVE  /\ Fits(o) /\ Honest(o) /\ o \in ReceiptType /\ o.token = typing /\ o.kind = "paste"
           /\ o.active = Current.active /\ o.submitted > 0 /\ KindOf(typing) = "paste"
           /\ typing \in Tokens /\ Kept(typing)
  <1>1. Fits(Current) /\ Current.active \in BOOLEAN /\ typing \in Tokens /\ Kept(typing)
    BY CurrentFits, CurrentIs, ReceiptFields DEF IInv
  <1>2. /\ o \in ReceiptType /\ o.token = typing /\ o.kind = "paste" /\ o.active = Current.active
        /\ o.submitted = Current.submitted
    BY <1>1 DEF Fits, ReceiptType
  <1> QED BY <1>1, <1>2 DEF Fits, Honest

LEMMA PasteProceedsKeeps == ASSUME IInv, PasteProceeds PROVE IInv' /\ (Still \/ Ending)
  <1>1. PICK o : o = [Current EXCEPT !.keysSent = TRUE]
    OBVIOUS
  <1>2. /\ typing # 0 /\ Current.kind = "paste" /\ AdvanceOnly /\ controlEpoch' = controlEpoch
        /\ toComp' = toComp \/ toComp' = Append(toComp, AcquireRequest(Current.epoch))
        /\ \/ Finish(o, "finished")
           \/ operations' = [operations EXCEPT ![Slot(typing)] = o]
              /\ UNCHANGED <<nextOperation, typing, told, semanticVars>>
    BY <1>1 DEF PasteProceeds, Proceeds, SameLease
  <1>3. LinkSame
    BY <1>2, AcquireSent, AdvanceIs, SendsNothing DEF DaemonOnly, IInv, LinkTyped
  <1>4. /\ Fits(o) /\ Honest(o) /\ o \in ReceiptType /\ o.token = typing /\ o.kind = "paste"
        /\ o.active = Current.active /\ o.submitted > 0 /\ KindOf(typing) = "paste"
        /\ typing \in Tokens /\ Kept(typing)
    BY <1>1, <1>2, KeysNoted
  <1>5. CASE Finish(o, "finished")
    <2>1. "finished" \in Finals
      BY DEF Finals
    <2> QED BY <1>2, <1>3, <1>4, <1>5, <2>1, FinishStep
  <1>6. CASE operations' = [operations EXCEPT ![Slot(typing)] = o]
             /\ UNCHANGED <<nextOperation, typing, told, semanticVars>>
    <2>1. PICK t \in Tokens : t = typing
      BY <1>4
    <2>2. o.kind = operations[Slot(t)].kind /\ o.active = operations[Slot(t)].active
      BY <1>2, <1>4, <2>1 DEF Current
    <2>3. operations' = [operations EXCEPT ![Slot(t)] = o] /\ Kept(t) /\ o.token = t
      BY <1>4, <1>6, <2>1
    <2> QED BY <1>3, <1>4, <1>6, <2>2, <2>3, WriteStep
  <1> QED BY <1>2, <1>5, <1>6

LEMMA PasteKeysFailKeeps == ASSUME IInv, PasteKeysFail PROVE IInv' /\ (Still \/ Ending)
  <1>1. PICK o : o = [Current EXCEPT !.keysSent = TRUE]
    OBVIOUS
  <1>2. /\ typing # 0 /\ Current.kind = "paste" /\ AdvanceOnly /\ controlEpoch' = controlEpoch + 1
        /\ toComp' = toComp \o <<AcquireRequest(Current.epoch), RevokeRequest>>
        /\ Finish(o, "cancelled")
    BY <1>1 DEF PasteKeysFail, Proceeds
  <1>3. LinkSame
    <2>1. PICK q : q = Append(toComp, AcquireRequest(Current.epoch))
      OBVIOUS
    <2>2. toComp \in Seq(Requests) /\ seen \in Views /\ controlEpoch \in Nat
      BY DEF IInv, LinkTyped
    <2>3. AcquireRequest(Current.epoch) \in Requests /\ AcquireRequest(Current.epoch).kind = "acquire"
      BY <1>2, CurrentIs, ReceiptFields, RequestsAre DEF IInv
    <2>4. q \in Seq(Requests) /\ SameAsks(toComp, q)
      BY <2>1, <2>2, <2>3, SameAsksMore
    <2>5. toComp' = Append(q, RevokeRequest)
      BY <1>2, <2>1, <2>2, <2>3, RequestsAre, TwoMore
    <2>6. toComp' \in Seq(Requests) /\ SameAsks(q, toComp')
      BY <2>4, <2>5, RequestsAre, SameAsksMore
    <2>7. SameAsks(toComp, toComp') /\ controlEpoch' \in Nat
      BY <1>2, <2>2, <2>4, <2>6, SameAsksChain
    <2> QED BY <1>2, <2>2, <2>6, <2>7, AdvanceIs, SendsLittle DEF DaemonOnly
  <1>4. Fits(o) /\ "cancelled" \in Finals
    BY <1>1, <1>2, KeysNoted DEF Finals
  <1> QED BY <1>2, <1>3, <1>4, FinishStep

----------------------------------------------------------------------------
(* advance_semantic.                                                       *)

LEMMA SemanticAdvances ==
    ASSUME AdvancesSemantic
    PROVE  DaemonOnly /\ controlEpoch' = controlEpoch
  BY DEF AdvancesSemantic, TurnTo, compVars, DaemonOnly

LEMMA ReceiptIs ==
    ASSUME IInv, Kept(call.token)
    PROVE  /\ call.token \in Tokens /\ KindOf(call.token) = "semantic"
           /\ Receipt \in ReceiptType /\ Receipt.token = call.token /\ Receipt.kind = "semantic"
           /\ Receipt.kind = operations[Slot(call.token)].kind
           /\ Receipt.active = operations[Slot(call.token)].active
           /\ Receipt.submitted = IF call.sent THEN 1 ELSE 0
           /\ Receipt.replied = call.replied /\ Receipt.succeeded = call.succeeded
           /\ Honest(Receipt)
           /\ Receipt.active => typing # 0 /\ call.token = typing /\ Fits(Receipt)
  <1>1. call \in CallType /\ call.token # 0 /\ operations[Slot(call.token)].token = call.token
    BY DEF IInv, CallInv, Kept
  <1>2. call.token \in Tokens /\ call.replied \in BOOLEAN /\ call.succeeded \in BOOLEAN
        /\ call.cancelled \in BOOLEAN
    BY <1>1, SizesAre DEF CallType
  <1>a. call.token \in Nat
    BY <1>2, SizesAre
  <1>b. PICK s \in 0..MaxOperations - 1 : s = Slot(call.token)
    BY <1>a, SlotIs
  <1>3. PICK old \in ReceiptType : old = operations[s] /\ old = operations[Slot(call.token)]
    BY <1>b DEF IInv, BookTyped
  <1>4. old.kind = "semantic" /\ KindOf(call.token) = "semantic" /\ old.token = call.token
    <2>1. old.token = call.token
      BY <1>1, <1>3
    <2>2. KindOf(call.token) = "semantic"
      BY <1>1 DEF IInv, TieInv
    <2>3. old.kind = KindOf(old.token)
      BY <1>1, <1>3, <2>1 DEF IInv, BookInv
    <2> QED BY <2>1, <2>2, <2>3
  <1>5. PICK n \in Nat : n = IF call.sent THEN 1 ELSE 0
    OBVIOUS
  <1>6. PICK b \in BOOLEAN : b = (old.cancelRequested \/ call.cancelled)
    <2>1. old.cancelRequested \in BOOLEAN
      BY ReceiptFields
    <2>2. CASE old.cancelRequested \/ call.cancelled
      <3>1. TRUE = (old.cancelRequested \/ call.cancelled)
        BY <1>2, <2>1, <2>2
      <3> QED BY <3>1, Zenon
    <2>3. CASE ~(old.cancelRequested \/ call.cancelled)
      <3>1. FALSE = (old.cancelRequested \/ call.cancelled)
        BY <1>2, <2>1, <2>3
      <3> QED BY <3>1, Zenon
    <2> QED BY <2>2, <2>3, Zenon
  <1>7. Receipt = [old EXCEPT !.submitted = n, !.replied = call.replied,
                              !.succeeded = call.succeeded, !.cancelRequested = b]
    BY <1>3, <1>5, <1>6 DEF Receipt
  <1>8. /\ Receipt \in ReceiptType /\ Receipt.token = old.token /\ Receipt.kind = old.kind
        /\ Receipt.active = old.active /\ Receipt.submitted = n
        /\ Receipt.replied = call.replied /\ Receipt.succeeded = call.succeeded
    BY <1>2, <1>7 DEF ReceiptType
  <1>9. Honest(Receipt)
    <2>1. /\ n = 1 <=> call.token \in dispatched
          /\ call.replied => call.token \in dispatched
          /\ call.succeeded => call.token \in accepted
      BY <1>1, <1>2, <1>5 DEF IInv, CallInv
    <2> QED BY <1>4, <1>8, <2>1 DEF Honest
  <1>10. Receipt.active => typing # 0 /\ call.token = typing
    <2>1. old.active <=> (typing # 0 /\ old.token = typing)
      BY <1>3 DEF IInv, BookInv
    <2> QED BY <1>4, <1>8, <2>1
  <1>11. Receipt.active => Fits(Receipt)
    BY <1>4, <1>8, <1>9, <1>10 DEF Fits
  <1> QED BY <1>2, <1>3, <1>4, <1>5, <1>8, <1>9, <1>10, <1>11

\* While the call of the active operation is looked after.
LEMMA RunsIs ==
    ASSUME IInv, CallRuns
    PROVE  /\ AdvancesSemantic /\ Kept(call.token) /\ typing # 0 /\ call.token = typing
           /\ Receipt.active /\ Fits(Receipt) /\ KindOf(typing) = "semantic"
  <1>1. AdvancesSemantic /\ Kept(call.token) /\ operations[Slot(call.token)].active
    BY DEF CallRuns, Active
  <1>2. Receipt.active
    BY <1>1, ReceiptIs
  <1> QED BY <1>1, <1>2, ReceiptIs

LEMMA UnaskedIs ==
    ASSUME IInv, AdvancesSemantic, Unasked
    PROVE  LinkSame
  BY SemanticAdvances, SendsNothing DEF Unasked, DaemonOnly, IInv, LinkTyped

LEMMA CallOverKeeps == ASSUME IInv, CallOver PROVE IInv' /\ (Still \/ Ending)
  <1>1. CallRuns /\ ~call.busy /\ Unasked /\ Finish(Receipt, call.stage)
    BY DEF CallOver
  <1>2. /\ AdvancesSemantic /\ Kept(call.token) /\ typing # 0 /\ call.token = typing
        /\ Receipt.active /\ Fits(Receipt) /\ KindOf(typing) = "semantic" /\ typing \in Tokens
    BY <1>1, RunsIs, ReceiptIs
  <1>3. LinkSame
    BY <1>1, <1>2, UnaskedIs
  <1>4. /\ call.stage \in {"finished", "rejected", "cancelled", "outcome_unknown"}
        /\ call.stage = "finished" => typing \in accepted
        /\ call.stage = "rejected" => typing \notin inbox \cup accepted
    BY <1>1, <1>2 DEF IInv, CallInv, Kept
  <1>5. call.stage \in Finals
    BY <1>4 DEF Finals
  <1>6. ~Asked(typing) /\ typing \notin done /\ clip # typing
    BY <1>2, SizesAre DEF IInv, EffectInv, Asked, KindOf
  <1>7. call.stage = "rejected" => Void(typing)
    BY <1>4, <1>6 DEF Void
  <1> QED BY <1>1, <1>2, <1>3, <1>4, <1>5, <1>7, FinishStep

LEMMA CallInterruptedKeeps == ASSUME IInv, CallInterrupted PROVE IInv' /\ (Still \/ Ending)
  <1>1. CallRuns /\ Unasked /\ Finish(Receipt, "cancelled") /\ "cancelled" \in Finals
    BY DEF CallInterrupted, Finals
  <1>2. LinkSame
    BY <1>1, RunsIs, UnaskedIs
  <1> QED BY <1>1, <1>2, RunsIs, FinishStep

LEMMA CallStaleKeeps == ASSUME IInv, CallStale PROVE IInv' /\ (Still \/ Ending)
  <1>1. CallRuns /\ Unasked /\ call.ready /\ Finish(Receipt, "rejected") /\ "rejected" \in Finals
    BY DEF CallStale, CallReady, Finals
  <1>2. LinkSame
    BY <1>1, RunsIs, UnaskedIs
  <1>3. ~call.sent
    BY <1>1 DEF IInv, CallInv
  <1>4. Void(typing)
    BY <1>1, <1>3, RunsIs, NeverBegun
  <1> QED BY <1>1, <1>2, <1>4, RunsIs, FinishStep

LEMMA AuthorityRefusedKeeps == ASSUME IInv, AuthorityRefused PROVE IInv' /\ (Still \/ Ending)
  <1>1. CallRuns /\ Unasked /\ Finish(Receipt, "cancelled") /\ "cancelled" \in Finals
    BY DEF AuthorityRefused, CallReady, Finals
  <1>2. LinkSame
    BY <1>1, RunsIs, UnaskedIs
  <1> QED BY <1>1, <1>2, RunsIs, FinishStep

\* The receipt as brought up to date is written.
LEMMA ReceiptWritten ==
    ASSUME IInv, Kept(call.token), NEW o \in ReceiptType, Write(o), UNCHANGED semanticVars, LinkSame,
           \/ o = Receipt
           \/ o = [Receipt EXCEPT !.asked = TRUE]
    PROVE  IInv' /\ Still
  <1>1. PICK t \in Tokens : t = call.token
    BY ReceiptIs
  <1>2. PICK r \in ReceiptType : r = Receipt
    BY ReceiptIs
  <1>3. /\ o.token = r.token /\ o.kind = r.kind /\ o.active = r.active /\ o.submitted = r.submitted
        /\ o.replied = r.replied /\ o.succeeded = r.succeeded
    BY <1>2 DEF ReceiptType
  <1>4. /\ Kept(t) /\ o.token = t /\ o.kind = operations[Slot(t)].kind /\ o.kind = "semantic"
        /\ o.active = operations[Slot(t)].active
        /\ operations' = [operations EXCEPT ![Slot(t)] = o]
        /\ UNCHANGED <<nextOperation, typing, told>>
    BY <1>1, <1>2, <1>3, ReceiptIs DEF Write
  <1>5. Honest(o)
    BY <1>2, <1>3, ReceiptIs DEF Honest
  <1> QED BY <1>4, <1>5, WriteStep

LEMMA NoteLateReplyKeeps == ASSUME IInv, NoteLateReply PROVE IInv' /\ Still
  <1>1. AdvancesSemantic /\ Kept(call.token) /\ Unasked /\ Write(Receipt) /\ UNCHANGED semanticVars
    BY DEF NoteLateReply
  <1> QED BY <1>1, UnaskedIs, ReceiptIs, ReceiptWritten

LEMMA CallPreparesKeeps == ASSUME IInv, CallPrepares PROVE IInv' /\ Still
  <1>1. CallRuns /\ Unasked /\ Write(Receipt) /\ UNCHANGED semanticVars
    BY DEF CallPrepares
  <1> QED BY <1>1, RunsIs, UnaskedIs, ReceiptIs, ReceiptWritten

LEMMA AwaitAuthorityKeeps == ASSUME IInv, AwaitAuthority PROVE IInv' /\ Still
  <1>1. CallRuns /\ Unasked /\ Write(Receipt) /\ UNCHANGED semanticVars
    BY DEF AwaitAuthority, CallReady
  <1> QED BY <1>1, RunsIs, UnaskedIs, ReceiptIs, ReceiptWritten

LEMMA AskAuthorityKeeps == ASSUME IInv, AskAuthority PROVE IInv' /\ Still
  <1>1. PICK r \in ReceiptType : r = Receipt /\ r.token \in Tokens /\ r.epoch \in Nat
    BY RunsIs, ReceiptIs, ReceiptFields DEF AskAuthority, CallReady
  <1>2. PICK sync : sync = [kind |-> "sync", epoch |-> 0, token |-> r.token]
    OBVIOUS
  <1>3. /\ CallRuns /\ toComp' = toComp \o <<AcquireRequest(r.epoch), sync>>
        /\ seen' = [seen EXCEPT !.asked = r.token]
        /\ Write([r EXCEPT !.asked = TRUE]) /\ UNCHANGED semanticVars
    BY <1>1, <1>2 DEF AskAuthority, CallReady
  <1>4. sync \in Requests /\ sync.kind = "sync"
    BY <1>1, <1>2, SizesAre DEF Requests
  <1>5. AcquireRequest(r.epoch) \in Requests /\ AcquireRequest(r.epoch).kind = "acquire"
    BY <1>1, RequestsAre
  <1>6. toComp \in Seq(Requests) /\ seen \in Views /\ controlEpoch \in Nat
    BY DEF IInv, LinkTyped
  <1>7. /\ toComp' \in Seq(Requests) /\ SameAsks(toComp, toComp')
    <2>1. PICK q : q = Append(toComp, AcquireRequest(r.epoch))
      OBVIOUS
    <2>2. q \in Seq(Requests) /\ SameAsks(toComp, q)
      BY <1>5, <1>6, <2>1, SameAsksMore
    <2>3. toComp' = Append(q, sync)
      BY <1>3, <1>4, <1>5, <1>6, <2>1, TwoMore
    <2>4. toComp' \in Seq(Requests) /\ SameAsks(q, toComp')
      BY <1>4, <2>2, <2>3, SameAsksMore
    <2> QED BY <2>2, <2>4, SameAsksChain
  <1>8. /\ seen' \in Views
        /\ seen'.actionToken = seen.actionToken /\ seen'.actionOk = seen.actionOk
        /\ seen'.clipToken = seen.clipToken /\ seen'.clipOk = seen.clipOk
    <2>1. r.token \in 0..MaxAccepted
      BY <1>1, ReceiptFields
    <2> QED BY <1>3, <1>6, <2>1 DEF Views
  <1>9. DaemonOnly /\ controlEpoch' \in Nat
    BY <1>3, <1>6, RunsIs, SemanticAdvances
  <1>10. LinkSame
    BY <1>7, <1>8, <1>9, SendsLittle DEF DaemonOnly
  <1>11. PICK o \in ReceiptType : o = [r EXCEPT !.asked = TRUE]
    BY <1>1 DEF ReceiptType
  <1> QED BY <1>1, <1>3, <1>10, <1>11, RunsIs, ReceiptWritten

\* The one step in which the method leaves.
LEMMA SubmitCallKeeps == ASSUME IInv, SubmitCall PROVE IInv' /\ Still
  <1>1. CallRuns /\ call.ready /\ Unasked /\ Submit /\ Write(ReceiptAfterSubmit)
    BY DEF SubmitCall, CallReady
  <1>2. /\ AdvancesSemantic /\ Kept(call.token) /\ typing # 0 /\ call.token = typing
        /\ Receipt.active /\ Fits(Receipt) /\ KindOf(typing) = "semantic"
    BY <1>1, RunsIs
  <1>3. LinkSame
    BY <1>1, <1>2, UnaskedIs
  <1>4. PICK t \in Tokens : t = call.token /\ t = typing
    BY <1>2, ReceiptIs
  <1>5. /\ CallInv' /\ call'.token = t /\ accepted' = accepted
        /\ dispatched' = IF call'.sent THEN dispatched \cup {t} ELSE dispatched
        /\ inbox' \subseteq inbox \cup {t}
    BY <1>1, <1>4, SubmitKeeps DEF IInv
  <1>6. PICK r \in ReceiptType : r = Receipt
    BY <1>2, ReceiptIs
  <1>7. PICK n \in Nat : n = IF call'.sent THEN 1 ELSE 0
    OBVIOUS
  <1>8. PICK o : o = [r EXCEPT !.submitted = n]
    OBVIOUS
  <1>9. /\ o \in ReceiptType /\ o.token = r.token /\ o.kind = r.kind /\ o.active = r.active
        /\ o.submitted = n /\ o.replied = r.replied /\ o.succeeded = r.succeeded
    BY <1>8 DEF ReceiptType
  <1>10. /\ r.token = t /\ r.kind = "semantic" /\ r.active = operations[Slot(t)].active
         /\ r.kind = operations[Slot(t)].kind /\ Kept(t) /\ Honest(r) /\ r.active
    BY <1>2, <1>4, <1>6, ReceiptIs
  <1>11. /\ operations' = [operations EXCEPT ![Slot(t)] = o]
         /\ UNCHANGED <<nextOperation, typing, told>>
    BY <1>1, <1>4, <1>6, <1>7, <1>8 DEF Write, ReceiptAfterSubmit
  <1>12. t \in dispatched' <=> n = 1
    BY <1>4, <1>5, <1>7, SizesAre DEF CallInv
  <1>13. Honest(o)'
    <2>1. r.replied => t \in dispatched'
      BY <1>5, <1>10 DEF Honest
    <2>2. r.succeeded => t \in accepted'
      BY <1>5, <1>10 DEF Honest
    <2> QED BY <1>9, <1>10, <1>12, <2>1, <2>2 DEF Honest
  <1>14. /\ BookTyped' /\ BookInv'
         /\ \A u \in Tokens : told'[u].kind = told[u].kind
         /\ operations'[Slot(t)] = o
         /\ \A s \in 0..MaxOperations - 1 : s # Slot(t) => operations'[s] = operations[s]
    <2>1. "finished" \in Finals
      BY DEF Finals
    <2>2. o.active <=> (typing' # 0 /\ t = typing')
      BY <1>2, <1>4, <1>9, <1>10, <1>11
    <2>3. BookTyped /\ BookInv
      BY DEF IInv
    <2>4. o.token = t /\ o.kind = operations[Slot(t)].kind /\ ~(o.kind \in {"window", "paste"})
      BY <1>9, <1>10
    <2> QED BY <1>9, <1>10, <1>11, <2>1, <2>2, <2>3, <2>4, WriteKeeps
  <1>15. TieInv'
    <2>1. dispatched' \subseteq Tokens /\ call'.token = call.token /\ call.token \in 0..MaxAccepted
      BY <1>4, <1>5, SizesAre DEF CallInv
    <2>2. KindOf(t) = "semantic"
      BY <1>2, <1>4
    <2>3. \A u \in Tokens : u # t => (u \in dispatched' <=> u \in dispatched)
      BY <1>5
    <2>4. BookTyped /\ BookInv /\ TieInv
      BY DEF IInv
    <2> QED BY <1>5, <1>9, <1>10, <1>11, <1>13, <1>14, <2>1, <2>2, <2>3, <2>4, TieKept
  <1>16. EffectInv' /\ \A u \in Tokens : (Asked(u)' <=> Asked(u)) /\ (clip' = u => clip = u)
    BY <1>14, <1>3, EffectsKept DEF IInv
  <1>17. DeniedInv'
    <2>1. told[t].outcome = "running"
      BY <1>4 DEF IInv, BookInv
    <2>2. done' = done
      BY <1>3 DEF LinkSame
    <2>3. ASSUME NEW u \in Tokens, told'[u].outcome \in Denied PROVE Void(u)'
      <3>1. u # t /\ told[u].outcome \in Denied
        BY <1>11, <2>1, <2>3 DEF Denied
      <3>2. Void(u)
        BY <3>1 DEF IInv, DeniedInv, Denied
      <3> QED BY <1>5, <1>16, <2>2, <3>1, <3>2 DEF Void
    <2> QED BY <2>3 DEF DeniedInv, Denied
  <1>18. Still
    BY <1>3, <1>5, <1>11 DEF Still, LinkSame
  <1> QED BY <1>3, <1>5, <1>14, <1>15, <1>16, <1>17, <1>18 DEF IInv, LinkSame

----------------------------------------------------------------------------
(* The application.                                                        *)

LEMMA ApplicationMethodKeeps ==
    ASSUME IInv, ApplicationMethod
    PROVE  IInv' /\ UNCHANGED <<told, done>>
           /\ accepted \subseteq accepted' /\ accepted' \subseteq accepted \cup inbox
  <1>1. /\ UNCHANGED <<operations, nextOperation, typing, told, seen, controlEpoch, toComp, toDaemon>>
        /\ UNCHANGED <<epoch, allowed, human, clip, takeovers, done>>
    BY DEF ApplicationMethod, compVars, linkVars, daemonVars, operationVars, ghostVars
  <1>2. /\ CallInv' /\ call' = call /\ dispatched' = dispatched /\ inbox' \subseteq inbox
        /\ accepted \subseteq accepted' /\ accepted' \subseteq accepted \cup inbox
    BY ApplicationKeeps DEF ApplicationMethod, IInv
  <1>3. CompTyped' /\ LinkTyped' /\ BookTyped'
    BY <1>1 DEF IInv, CompTyped, LinkTyped, BookTyped
  <1>4. BookInv'
    BY <1>1 DEF IInv, BookInv, Kept, KindOf
  <1>5. TieInv'
    BY <1>1, <1>2 DEF IInv, TieInv, KindOf, Honest
  <1>6. EffectInv'
    BY <1>1 DEF IInv, EffectInv, KindOf, Asked, Refused, Granted
  <1>7. DeniedInv'
    <2>1. ASSUME NEW u \in Tokens, Void(u) PROVE Void(u)'
      BY <1>1, <1>2, <2>1 DEF Void, Asked
    <2> QED BY <1>1, <2>1 DEF IInv, DeniedInv
  <1> QED BY <1>1, <1>2, <1>3, <1>4, <1>5, <1>6, <1>7 DEF IInv

----------------------------------------------------------------------------
(* A new operation.                                                        *)

Beginning ==
    /\ typing = 0 /\ NewToken \in Tokens /\ told[NewToken].outcome = "none"
    /\ accepted' = accepted /\ done' = done
    /\ \E kind \in Kinds, out \in {"running", "finished"} :
        /\ out = "finished" => kind = "type"
        /\ told' = [told EXCEPT ![NewToken] = [kind |-> kind, outcome |-> out]]

LEMMA AcceptKeeps ==
    ASSUME BookTyped, BookInv, typing = 0, nextOperation < MaxAccepted, controlEpoch \in Nat,
           seen \in Views, NEW kind \in Kinds, NEW submitted \in Nat, NEW count \in Nat,
           NEW active \in BOOLEAN, kind \in {"window", "paste"} => submitted > 0,
           Accept(kind, submitted, count, active)
    PROVE  /\ BookTyped' /\ BookInv'
           /\ NewToken \in Tokens /\ nextOperation' = NewToken
           /\ typing' = IF active THEN NewToken ELSE 0
           /\ \A u \in Tokens : u # NewToken => told'[u] = told[u]
           /\ told[NewToken].kind = "none" /\ told[NewToken].outcome = "none"
           /\ told'[NewToken].kind = kind
           /\ told'[NewToken].outcome = (IF active THEN "running" ELSE "finished")
           /\ \A s \in 0..MaxOperations - 1 :
               \/ operations'[s] = operations[s] /\ operations[s].token # NewToken
               \/ /\ s = Slot(NewToken) /\ operations'[s].token = NewToken
                  /\ operations'[s].kind = kind /\ operations'[s].submitted = submitted
                  /\ ~operations'[s].replied /\ ~operations'[s].succeeded
  <1>1. PICK t \in Tokens : t = NewToken
    BY SizesAre DEF BookTyped, NewToken
  <1>2. nextOperation \in Nat /\ t = nextOperation + 1 /\ t # 0 /\ t \in Nat /\ t \in 0..MaxAccepted
    BY <1>1, SizesAre DEF BookTyped, NewToken
  <1>3. PICK z \in 0..MaxOperations - 1 : z = Slot(t)
    BY <1>2, SlotIs
  <1>4. PICK out \in {"running", "finished"} : out = IF active THEN "running" ELSE "finished"
    OBVIOUS
  <1>5. PICK ep \in Nat, kn \in Nat : ep = controlEpoch /\ kn = seen.known
    BY DEF Views
  <1>6. PICK o : o = [NoReceipt EXCEPT !.token = t, !.kind = kind, !.epoch = ep,
                               !.active = active, !.submitted = submitted, !.count = count,
                               !.outcome = out, !.known = kn]
    OBVIOUS
  <1>a. PICK none \in ReceiptType : none = NoReceipt /\ ~none.replied /\ ~none.succeeded
    <2>1. 0 \in 0..MaxAccepted /\ 0 \in Nat
      BY SizesAre
    <2>2. "none" \in Outcomes /\ "none" \in Kinds \cup {"none"}
      BY DEF Outcomes
    <2>3. NoReceipt \in ReceiptType
      BY <2>1, <2>2 DEF NoReceipt, ReceiptType
    <2>4. ~NoReceipt.replied /\ ~NoReceipt.succeeded
      BY DEF NoReceipt
    <2> QED BY <2>3, <2>4
  <1>7. /\ o \in ReceiptType /\ o.token = t /\ o.kind = kind /\ o.active = active /\ o.outcome = out
        /\ o.submitted = submitted /\ ~o.replied /\ ~o.succeeded
    <2>1. out \in Outcomes
      BY DEF Outcomes
    <2>2. o = [none EXCEPT !.token = t, !.kind = kind, !.epoch = ep,
                           !.active = active, !.submitted = submitted, !.count = count,
                           !.outcome = out, !.known = kn]
      BY <1>6, <1>a
    <2> QED BY <1>2, <1>a, <2>1, <2>2 DEF ReceiptType
  <1>8. /\ nextOperation' = t /\ typing' = IF active THEN t ELSE 0
        /\ operations' = [operations EXCEPT ![z] = o]
        /\ told' = [told EXCEPT ![t] = [kind |-> kind, outcome |-> out]]
    BY <1>1, <1>3, <1>4, <1>5, <1>6, <1>7 DEF Accept
  <1>9. /\ operations' \in [0..MaxOperations - 1 -> ReceiptType] /\ operations'[z] = o
        /\ \A s \in 0..MaxOperations - 1 : s # z => operations'[s] = operations[s]
    BY <1>7, <1>8 DEF BookTyped
  <1>10. /\ told' \in [Tokens -> [kind : Kinds \cup {"none"}, outcome : Outcomes]]
         /\ \A u \in Tokens : u # t => told'[u] = told[u]
         /\ told'[t].kind = kind /\ told'[t].outcome = out
    BY <1>8 DEF BookTyped, Outcomes
  <1>11. BookTyped'
    BY <1>2, <1>8, <1>9, <1>10 DEF BookTyped
  <1>12. \A s \in 0..MaxOperations - 1 : operations[s].token <= nextOperation /\ operations[s].token # t
    <2>1. ASSUME NEW s \in 0..MaxOperations - 1
          PROVE  operations[s].token <= nextOperation /\ operations[s].token # t
      <3>1. operations[s].token \in Nat
        BY SizesAre, ReceiptFields DEF BookTyped
      <3>2. operations[s].token <= nextOperation
        BY DEF BookInv
      <3> QED BY <1>2, <3>1, <3>2
    <2> QED BY <2>1
  <1>13. ASSUME NEW s \in 0..MaxOperations - 1
         PROVE  /\ operations'[s].token <= nextOperation'
                /\ operations'[s].token # 0 =>
                    /\ Slot(operations'[s].token) = s
                    /\ operations'[s].kind = told'[operations'[s].token].kind
                /\ operations'[s].token = 0 => operations'[s].kind = "none"
                /\ operations'[s].active <=> (typing' # 0 /\ operations'[s].token = typing')
                /\ operations'[s].kind \in {"window", "paste"} => operations'[s].submitted > 0
    <2>1. CASE s = z
      <3>1. operations'[s] = o
        BY <1>9, <2>1
      <3> QED BY <1>2, <1>3, <1>7, <1>8, <1>10, <2>1, <3>1
    <2>2. CASE s # z
      <3>1. operations'[s] = operations[s] /\ operations[s].token # t
            /\ operations[s].token <= nextOperation /\ operations[s].token \in Nat
        BY <1>9, <1>12, <2>2, SizesAre, ReceiptFields DEF BookTyped
      <3>2. operations[s].token # 0 => operations[s].token \in Tokens
        BY <3>1, SizesAre, ReceiptFields DEF BookTyped
      <3>3. /\ operations[s].token # 0 =>
                    /\ Slot(operations[s].token) = s
                    /\ operations[s].kind = told[operations[s].token].kind
            /\ operations[s].token = 0 => operations[s].kind = "none"
            /\ ~operations[s].active
            /\ operations[s].kind \in {"window", "paste"} => operations[s].submitted > 0
        BY DEF BookInv, KindOf
      <3>4. operations[s].token # 0 => told'[operations[s].token] = told[operations[s].token]
        BY <1>10, <3>1, <3>2
      <3>5. ~(typing' # 0 /\ operations[s].token = typing')
        BY <1>8, <3>1
      <3>6. operations[s].token <= nextOperation'
        BY <1>2, <1>8, <3>1
      <3> QED BY <3>1, <3>3, <3>4, <3>5, <3>6
    <2> QED BY <2>1, <2>2
  <1>14. Kept(nextOperation)'
    <2>1. operations'[Slot(t)].token = t /\ nextOperation' # 0
      BY <1>2, <1>3, <1>7, <1>8, <1>9
    <2> QED BY <1>8, <2>1 DEF Kept, Slot
  <1>15. ASSUME NEW u \in Tokens
         PROVE  /\ told'[u].kind = "none" <=> u > nextOperation'
                /\ told'[u].outcome = "none" <=> u > nextOperation'
                /\ told'[u].outcome = "running" <=> u = typing'
    <2>1. /\ told[u].kind = "none" <=> u > nextOperation
          /\ told[u].outcome = "none" <=> u > nextOperation
          /\ told[u].outcome = "running" <=> u = 0
      BY DEF BookInv
    <2>2. u \in Nat /\ u # 0
      BY SizesAre
    <2>3. CASE u = t
      <3>1. kind # "none"
        BY SizesAre
      <3>2. /\ told'[u].kind = kind /\ told'[u].outcome = out /\ nextOperation' = u
            /\ typing' = IF active THEN u ELSE 0
        BY <1>8, <1>10, <2>3
      <3>3. out = "running" <=> active
        BY <1>4
      <3> QED BY <1>4, <2>2, <3>1, <3>2, <3>3
    <2>4. CASE u # t
      <3>1. u > nextOperation <=> u > t
        BY <1>2, <2>2, <2>4
      <3>2. told'[u] = told[u] /\ nextOperation' = t /\ u # typing'
        BY <1>8, <1>10, <2>2, <2>4
      <3> QED BY <2>1, <2>2, <3>1, <3>2
    <2> QED BY <2>3, <2>4
  <1>16. BookInv'
    BY <1>13, <1>14, <1>15 DEF BookInv, KindOf, Slot
  <1>17. told[t].kind = "none" /\ told[t].outcome = "none"
    BY <1>2 DEF BookInv
  <1>18. \A s \in 0..MaxOperations - 1 :
               \/ operations'[s] = operations[s] /\ operations[s].token # t
               \/ /\ s = Slot(t) /\ operations'[s].token = t
                  /\ operations'[s].kind = kind /\ operations'[s].submitted = submitted
                  /\ ~operations'[s].replied /\ ~operations'[s].succeeded
    BY <1>3, <1>7, <1>9, <1>12
  <1> QED BY <1>1, <1>4, <1>8, <1>10, <1>11, <1>16, <1>17, <1>18

LEMMA BeginStep ==
    ASSUME IInv, typing = 0, nextOperation < MaxAccepted,
           NEW kind \in Kinds, NEW submitted \in Nat, NEW count \in Nat,
           NEW active \in BOOLEAN, kind \in {"window", "paste"} => submitted > 0,
           ~active => kind = "type",
           kind = "semantic" => submitted = 0,
           Accept(kind, submitted, count, active),
           CallInv', UNCHANGED <<dispatched, inbox, accepted>>,
           call'.token = IF kind = "semantic" THEN NewToken ELSE call.token,
           CompTyped', LinkTyped', EffectInv', clip' = clip, done' = done,
           \A u \in Tokens : u # NewToken => (Asked(u)' => Asked(u))
    PROVE  IInv' /\ Beginning
  <1>1. /\ BookTyped' /\ BookInv'
        /\ NewToken \in Tokens /\ nextOperation' = NewToken
        /\ typing' = IF active THEN NewToken ELSE 0
        /\ \A u \in Tokens : u # NewToken => told'[u] = told[u]
        /\ told[NewToken].kind = "none" /\ told[NewToken].outcome = "none"
        /\ told'[NewToken].kind = kind
        /\ told'[NewToken].outcome = (IF active THEN "running" ELSE "finished")
        /\ \A s \in 0..MaxOperations - 1 :
               \/ operations'[s] = operations[s] /\ operations[s].token # NewToken
               \/ /\ s = Slot(NewToken) /\ operations'[s].token = NewToken
                  /\ operations'[s].kind = kind /\ operations'[s].submitted = submitted
                  /\ ~operations'[s].replied /\ ~operations'[s].succeeded
    <2>1. controlEpoch \in Nat /\ seen \in Views /\ BookTyped /\ BookInv
      BY DEF IInv, LinkTyped
    <2> QED BY <2>1, AcceptKeeps
  <1>2. PICK t \in Tokens : t = NewToken
    BY <1>1
  <1>3. nextOperation \in Nat /\ t = nextOperation + 1 /\ t # 0
    BY <1>2, SizesAre DEF NewToken, IInv, BookTyped
  <1>4. t \notin dispatched /\ t \notin accepted
    BY <1>1, <1>2 DEF IInv, TieInv, KindOf, CallInv
  <1>5. TieInv'
    <2>1. \A u \in dispatched' : told'[u].kind = "semantic"
      BY <1>1, <1>2, <1>4 DEF IInv, TieInv, CallInv, KindOf
    <2>2. /\ call'.token <= nextOperation'
          /\ call'.token # 0 => told'[call'.token].kind = "semantic"
          /\ typing' # 0 /\ told'[typing'].kind = "semantic" => call'.token = typing'
      <3>1. CASE kind = "semantic"
        BY <1>1, <1>2, <1>3, <3>1
      <3>2. CASE kind # "semantic"
        <4>1. call'.token = call.token /\ call.token <= nextOperation /\ call.token \in 0..MaxAccepted
          BY <3>2 DEF IInv, TieInv, CallInv, CallType
        <4>2. call.token \in Nat /\ call.token # t
          BY <1>3, <4>1, SizesAre
        <4>3. call.token # 0 => told[call.token].kind = "semantic" /\ call.token \in Tokens
          BY <4>1, SizesAre DEF IInv, TieInv, KindOf
        <4>4. call.token # 0 => told'[call.token].kind = "semantic"
          BY <1>1, <1>2, <4>2, <4>3
        <4>5. typing' # 0 => told'[typing'].kind = kind
          BY <1>1
        <4>6. call.token <= nextOperation'
          BY <1>1, <1>2, <1>3, <4>1, <4>2
        <4> QED BY <3>2, <4>1, <4>4, <4>5, <4>6
      <3> QED BY <3>1, <3>2
    <2>3. ASSUME NEW s \in 0..MaxOperations - 1 PROVE Honest(operations'[s])
      <3>1. CASE operations'[s] = operations[s]
        BY <3>1 DEF IInv, TieInv
      <3>2. CASE /\ operations'[s].token = t
                 /\ operations'[s].kind = kind /\ operations'[s].submitted = submitted
                 /\ ~operations'[s].replied /\ ~operations'[s].succeeded
        BY <1>4, <3>2 DEF Honest
      <3> QED BY <1>1, <1>2, <3>1, <3>2
    <2>4. \A s \in 0..MaxOperations - 1 : Honest(operations[s])'
      BY <2>3 DEF Honest
    <2> QED BY <2>1, <2>2, <2>4 DEF TieInv, KindOf
  <1>6. DeniedInv'
    <2>1. ASSUME NEW u \in Tokens, told'[u].outcome \in Denied PROVE Void(u)'
      <3>1. u # t
        BY <1>1, <1>2, <2>1 DEF Denied
      <3>2. Void(u)
        BY <1>1, <1>2, <2>1, <3>1 DEF IInv, DeniedInv, Denied
      <3> QED BY <1>2, <3>1, <3>2 DEF Void
    <2> QED BY <2>1 DEF DeniedInv, Denied
  <1>7. Beginning
    <2>1. PICK out \in {"running", "finished"} : out = IF active THEN "running" ELSE "finished"
      OBVIOUS
    <2>2. told' = [told EXCEPT ![NewToken] = [kind |-> kind, outcome |-> out]]
      <3>1. told' \in [Tokens -> [kind : Kinds \cup {"none"}, outcome : Outcomes]]
            /\ told \in [Tokens -> [kind : Kinds \cup {"none"}, outcome : Outcomes]]
        BY <1>1 DEF IInv, BookTyped
      <3>2. told'[t] = [kind |-> kind, outcome |-> out]
        BY <1>1, <1>2, <2>1, <3>1
      <3> QED BY <1>1, <1>2, <3>1, <3>2
    <2>3. out = "finished" => kind = "type"
      BY <2>1
    <2> QED BY <1>1, <2>2, <2>3 DEF Beginning
  <1> QED BY <1>1, <1>5, <1>6, <1>7 DEF IInv

LEMMA AdmittedIs ==
    ASSUME NEW kind, Admitted(kind)
    PROVE  /\ kind \in Kinds /\ typing = 0 /\ nextOperation < MaxAccepted /\ DaemonOnly
  BY DEF Admitted, Serving, compVars, DaemonOnly

\* An operation that sends nothing when it begins.
LEMMA BeginSilently ==
    ASSUME IInv, NEW kind \in Kinds, Admitted(kind), NEW n \in Nat, NEW active \in BOOLEAN,
           kind \in {"type", "semantic"}, ~active => kind = "type",
           Accept(kind, 0, n, active), UNCHANGED <<toComp, seen>>,
           CallInv', UNCHANGED <<dispatched, inbox, accepted>>,
           call'.token = IF kind = "semantic" THEN NewToken ELSE call.token
    PROVE  IInv' /\ Beginning
  <1>1. controlEpoch' = controlEpoch
    BY DEF Accept
  <1>2. typing = 0 /\ nextOperation < MaxAccepted /\ DaemonOnly
    BY AdmittedIs
  <1>3. LinkSame
    BY <1>1, <1>2, SendsNothing DEF DaemonOnly, IInv, LinkTyped
  <1>4. \A t \in Tokens : told'[t].kind = told[t].kind \/ told[t].kind = "none"
    <2>1. controlEpoch \in Nat /\ seen \in Views /\ BookTyped /\ BookInv
      BY DEF IInv, LinkTyped
    <2>2. 0 \in Nat /\ (kind \in {"window", "paste"} => 0 > 0)
      OBVIOUS
    <2>3. /\ \A u \in Tokens : u # NewToken => told'[u] = told[u]
          /\ told[NewToken].kind = "none"
      BY <1>2, <2>1, <2>2, AcceptKeeps
    <2> QED BY <2>3
  <1>5. EffectInv' /\ \A t \in Tokens : (Asked(t)' <=> Asked(t)) /\ (clip' = t => clip = t)
    BY <1>3, <1>4, EffectsKept DEF IInv
  <1>6. CompTyped' /\ LinkTyped' /\ clip' = clip /\ done' = done
    BY <1>2, <1>3 DEF LinkSame, DaemonOnly
  <1>7. 0 \in Nat /\ (kind \in {"window", "paste"} => 0 > 0)
    OBVIOUS
  <1> QED BY <1>2, <1>5, <1>6, <1>7, BeginStep

LEMMA StartTypeKeeps == ASSUME IInv, StartType PROVE IInv' /\ Beginning
  <1>1. Admitted("type") /\ UNCHANGED semanticVars /\ UNCHANGED <<toComp, seen>> /\ "type" \in Kinds
    BY AdmittedIs DEF StartType
  <1>2. PICK n \in 0..MaxText : Accept("type", 0, n, n > 0)
    BY DEF StartType
  <1>3. CallInv' /\ call' = call /\ UNCHANGED <<dispatched, inbox, accepted>>
    BY <1>1, CallIdle DEF IInv
  <1>4. n \in Nat
    BY SizesAre
  <1>5. CASE n > 0
    <2>1. Accept("type", 0, n, TRUE)
      BY <1>2, <1>5 DEF Accept
    <2>2. IInv' /\ Beginning
      BY <1>1, <1>3, <1>4, <2>1, BeginSilently
    <2> QED BY <2>2
  <1>6. CASE ~(n > 0)
    <2>0. FALSE = (n > 0)
      BY <1>6
    <2>1. Accept("type", 0, n, FALSE)
      BY <1>2, <2>0, Zenon
    <2>2. IInv' /\ Beginning
      BY <1>1, <1>3, <1>4, <2>1, BeginSilently
    <2> QED BY <2>2
  <1> QED BY <1>5, <1>6

LEMMA StartSemanticKeeps == ASSUME IInv, StartSemantic PROVE IInv' /\ Beginning
  <1>1. /\ Admitted("semantic") /\ UNCHANGED <<toComp, seen>> /\ "semantic" \in Kinds
        /\ Accept("semantic", 0, 1, TRUE) /\ StartCall(NewToken)
    BY AdmittedIs DEF StartSemantic
  <1>2. PICK t \in Tokens : t = NewToken
    BY <1>1, AdmittedIs, SizesAre DEF IInv, BookTyped, NewToken
  <1>3. t \notin dispatched
    <2>1. t > nextOperation
      BY <1>2, SizesAre DEF NewToken, IInv, BookTyped
    <2>2. KindOf(t) = "none"
      BY <2>1 DEF IInv, BookInv, KindOf
    <2> QED BY <2>2 DEF IInv, TieInv
  <1>4. CallInv' /\ call'.token = t /\ UNCHANGED <<dispatched, inbox, accepted>>
    <2>1. StartCall(t)
      BY <1>1, <1>2
    <2> QED BY <1>3, <2>1, StartCallKeeps DEF IInv
  <1> QED BY <1>1, <1>2, <1>4, BeginSilently

\* A request for the operation that begins goes out behind one for the gate.
LEMMA RequestSent ==
    ASSUME IInv, NEW kind \in {"window", "offer"}, NEW t \in Tokens, told[t].kind = "none",
           NEW m \in Requests, m.kind = kind, m.token = t,
           toComp' = toComp \o <<AcquireRequest(controlEpoch), m>>
    PROVE  /\ toComp' \in Seq(Requests) /\ Once(toComp', "window") /\ Once(toComp', "offer")
           /\ \A u \in Tokens :
               /\ In(toComp', "window", u) <=> In(toComp, "window", u) \/ (kind = "window" /\ u = t)
               /\ In(toComp', "offer", u) <=> In(toComp, "offer", u) \/ (kind = "offer" /\ u = t)
  <1>1. PICK q : q = Append(toComp, AcquireRequest(controlEpoch))
    OBVIOUS
  <1>2. toComp \in Seq(Requests) /\ controlEpoch \in Nat
    BY DEF IInv, LinkTyped
  <1>3. AcquireRequest(controlEpoch) \in Requests /\ AcquireRequest(controlEpoch).kind = "acquire"
    BY <1>2, RequestsAre
  <1>4. q \in Seq(Requests) /\ SameAsks(toComp, q)
    BY <1>1, <1>2, <1>3, SameAsksMore
  <1>5. toComp' = Append(q, m)
    BY <1>1, <1>2, <1>3, TwoMore
  <1>6. ~In(toComp, kind, t)
    BY DEF IInv, EffectInv, KindOf
  <1>7. Once(q, "window") /\ Once(q, "offer") /\ ~In(q, kind, t)
    BY <1>4, <1>6 DEF SameAsks, IInv, EffectInv
  <1>a. /\ m.kind # "window" \/ ~In(q, "window", m.token)
        /\ m.kind # "offer" \/ ~In(q, "offer", m.token)
    BY <1>7
  <1>b. Once(Append(q, m), "window") /\ Once(Append(q, m), "offer")
        /\ Append(q, m) \in Seq(Requests)
    BY <1>4, <1>7, <1>a, OnceAppend, AppendIs
  <1>8. Once(toComp', "window") /\ Once(toComp', "offer") /\ toComp' \in Seq(Requests)
    BY <1>5, <1>b
  <1>9. ASSUME NEW u \in Tokens
        PROVE  /\ In(toComp', "window", u) <=> In(toComp, "window", u) \/ (kind = "window" /\ u = t)
               /\ In(toComp', "offer", u) <=> In(toComp, "offer", u) \/ (kind = "offer" /\ u = t)
    <2>0. /\ In(Append(q, m), "window", u) <=> In(q, "window", u) \/ (m.kind = "window" /\ m.token = u)
          /\ In(Append(q, m), "offer", u) <=> In(q, "offer", u) \/ (m.kind = "offer" /\ m.token = u)
      BY <1>4, InAppend
    <2>1. /\ In(toComp', "window", u) <=> In(q, "window", u) \/ (m.kind = "window" /\ m.token = u)
          /\ In(toComp', "offer", u) <=> In(q, "offer", u) \/ (m.kind = "offer" /\ m.token = u)
      BY <1>5, <2>0
    <2> QED BY <1>4, <2>1 DEF SameAsks
  <1> QED BY <1>8, <1>9

LEMMA BeginAsking ==
    ASSUME IInv, NEW kind \in Kinds, Admitted(kind), kind \in {"window", "paste"},
           Accept(kind, 1, 1, TRUE), UNCHANGED semanticVars,
           NEW m \in Requests, m.token = NewToken,
           m.kind = IF kind = "window" THEN "window" ELSE "offer",
           toComp' = toComp \o <<AcquireRequest(controlEpoch), m>>,
           seen' \in Views,
           seen'.actionToken = seen.actionToken /\ seen'.actionOk = seen.actionOk,
           \/ seen'.clipToken = seen.clipToken /\ seen'.clipOk = seen.clipOk
           \/ seen'.clipToken = 0 /\ seen'.clipOk
    PROVE  IInv' /\ Beginning
  <1>1. controlEpoch' = controlEpoch
    BY DEF Accept
  <1>2. typing = 0 /\ nextOperation < MaxAccepted
        /\ UNCHANGED <<epoch, allowed, human, clip, takeovers, done, toDaemon>>
    BY AdmittedIs DEF DaemonOnly
  <1>3. 1 \in Nat /\ (kind \in {"window", "paste"} => 1 > 0) /\ TRUE \in BOOLEAN
    OBVIOUS
  <1>4. /\ \A u \in Tokens : u # NewToken => told'[u] = told[u]
        /\ NewToken \in Tokens /\ told[NewToken].kind = "none" /\ told'[NewToken].kind = kind
    <2>1. controlEpoch \in Nat /\ seen \in Views /\ BookTyped /\ BookInv
      BY DEF IInv, LinkTyped
    <2> QED BY <1>2, <1>3, <2>1, AcceptKeeps
  <1>5. PICK t \in Tokens : t = NewToken
    BY <1>4
  <1>6. PICK k \in {"window", "offer"} : k = m.kind
    OBVIOUS
  <1>7. /\ toComp' \in Seq(Requests) /\ Once(toComp', "window") /\ Once(toComp', "offer")
        /\ \A u \in Tokens :
               /\ In(toComp', "window", u) <=> In(toComp, "window", u) \/ (k = "window" /\ u = t)
               /\ In(toComp', "offer", u) <=> In(toComp, "offer", u) \/ (k = "offer" /\ u = t)
    BY <1>4, <1>5, <1>6, RequestSent
  <1>8. CompTyped' /\ LinkTyped'
    BY <1>1, <1>2, <1>7 DEF IInv, CompTyped, LinkTyped
  <1>9. ASSUME NEW u \in Tokens PROVE (Refused(u)' => Refused(u)) /\ (Granted(u)' <=> Granted(u))
    <2>1. u # 0
      BY SizesAre
    <2> QED BY <1>2, <2>1 DEF Refused, Granted, NoIn, YesIn
  <1>10. EffectInv'
    <2>1. clip' # 0 => told'[clip'].kind = "paste"
      <3>1. clip # 0 => clip \in Tokens /\ told[clip].kind = "paste"
        BY SizesAre DEF IInv, CompTyped, EffectInv, KindOf
      <3> QED BY <1>2, <1>4, <3>1
    <2>2. ASSUME NEW u \in Tokens
          PROVE  /\ In(toComp', "window", u) => told'[u].kind = "window"
                 /\ In(toComp', "offer", u) => told'[u].kind = "paste"
                 /\ u \in done' => told'[u].kind \in {"window", "paste"}
                 /\ Granted(u)' => u \in done'
                 /\ Asked(u)' => u \notin done' /\ clip' # u /\ ~Refused(u)'
                 /\ Refused(u)' => u \notin done' /\ clip' # u
                                   /\ told'[u].kind \in {"window", "paste"}
      <3>1. /\ In(toComp, "window", u) => told[u].kind = "window"
            /\ In(toComp, "offer", u) => told[u].kind = "paste"
            /\ u \in done => told[u].kind \in {"window", "paste"}
            /\ Granted(u) => u \in done
            /\ Asked(u) => u \notin done /\ clip # u /\ ~Refused(u)
            /\ Refused(u) => u \notin done /\ clip # u /\ told[u].kind \in {"window", "paste"}
            /\ clip = u => told[u].kind = "paste"
        BY SizesAre DEF IInv, EffectInv, KindOf
      <3>2. CASE u = t
        <4>1. told[u].kind = "none" /\ told'[u].kind = kind
          BY <1>4, <1>5, <3>2
        <4>2. u \notin done /\ clip # u /\ ~Refused(u) /\ ~In(toComp, "window", u) /\ ~In(toComp, "offer", u)
          BY <3>1, <4>1
        <4> QED BY <1>2, <1>6, <1>7, <1>9, <3>1, <4>1, <4>2
      <3>3. CASE u # t
        <4>1. told'[u] = told[u] /\ (Asked(u)' <=> Asked(u))
          BY <1>4, <1>5, <1>7, <3>3 DEF Asked
        <4> QED BY <1>2, <1>7, <1>9, <3>1, <3>3, <4>1
      <3> QED BY <3>2, <3>3
    <2> QED BY <1>7, <2>1, <2>2 DEF EffectInv, KindOf
  <1>11. \A u \in Tokens : u # NewToken => (Asked(u)' => Asked(u))
    BY <1>5, <1>7 DEF Asked
  <1>12. CallInv' /\ call' = call /\ UNCHANGED <<dispatched, inbox, accepted>>
    BY CallIdle DEF IInv
  <1>13. kind # "semantic" /\ call'.token = IF kind = "semantic" THEN NewToken ELSE call.token
    BY <1>12
  <1> QED BY <1>2, <1>3, <1>8, <1>10, <1>11, <1>12, <1>13, BeginStep

LEMMA StartWindowKeeps == ASSUME IInv, StartWindow PROVE IInv' /\ Beginning
  <1>1. PICK m : m = [kind |-> "window", epoch |-> controlEpoch, token |-> NewToken]
    OBVIOUS
  <1>2. /\ Admitted("window") /\ Accept("window", 1, 1, TRUE) /\ UNCHANGED semanticVars
        /\ seen' = seen /\ "window" \in Kinds
        /\ toComp' = toComp \o <<AcquireRequest(controlEpoch), m>>
    BY <1>1, AdmittedIs DEF StartWindow
  <1>3. NewToken \in Tokens /\ controlEpoch \in Nat /\ seen' \in Views
    BY <1>2, AdmittedIs, SizesAre DEF IInv, BookTyped, LinkTyped, NewToken
  <1>4. m \in Requests /\ m.token = NewToken /\ m.kind = "window"
    BY <1>1, <1>3 DEF Requests
  <1> QED BY <1>2, <1>3, <1>4, BeginAsking

LEMMA StartPasteKeeps == ASSUME IInv, StartPaste PROVE IInv' /\ Beginning
  <1>1. PICK m : m = [kind |-> "offer", epoch |-> controlEpoch, token |-> NewToken]
    OBVIOUS
  <1>2. /\ Admitted("paste") /\ Accept("paste", 1, 1, TRUE) /\ UNCHANGED semanticVars
        /\ seen' = [seen EXCEPT !.clipToken = 0, !.clipOk = TRUE, !.transferred = FALSE]
        /\ "paste" \in Kinds
        /\ toComp' = toComp \o <<AcquireRequest(controlEpoch), m>>
    BY <1>1, AdmittedIs DEF StartPaste
  <1>3. NewToken \in Tokens /\ controlEpoch \in Nat /\ seen \in Views /\ 0 \in 0..MaxAccepted
    BY <1>2, AdmittedIs, SizesAre DEF IInv, BookTyped, LinkTyped, NewToken
  <1>4. m \in Requests /\ m.token = NewToken /\ m.kind = "offer"
    BY <1>1, <1>3 DEF Requests
  <1>5. /\ seen' \in Views /\ seen'.actionToken = seen.actionToken /\ seen'.actionOk = seen.actionOk
        /\ seen'.clipToken = 0 /\ seen'.clipOk
    BY <1>2, <1>3 DEF Views
  <1> QED BY <1>2, <1>4, <1>5, BeginAsking

----------------------------------------------------------------------------
(* The invariant.                                                          *)

LEMMA ServeKeeps == ASSUME IInv, Serve PROVE IInv' /\ (Still \/ Ending \/ Beginning)
  BY AcquireControlKeeps, InterruptKeeps, ResumeKeeps, ScopeChangesKeeps, StartTypeKeeps,
     StartWindowKeeps, StartPasteKeeps, StartSemanticKeeps
  DEF Serve

LEMMA AdvanceTypingKeeps == ASSUME IInv, AdvanceTyping PROVE IInv' /\ (Still \/ Ending)
  BY AdvanceIdleKeeps, AdvanceCancelledKeeps, TypeCodepointKeeps, PasteRefusedKeeps,
     PasteProceedsKeeps, PasteKeysFailKeeps
  DEF AdvanceTyping

LEMMA AdvanceSemanticKeeps == ASSUME IInv, AdvanceSemantic PROVE IInv' /\ (Still \/ Ending)
  BY NoReceiptKeptKeeps, NoteLateReplyKeeps, CallOverKeeps, CallInterruptedKeeps,
     CallPreparesKeeps, CallStaleKeeps, AskAuthorityKeeps, AwaitAuthorityKeeps,
     AuthorityRefusedKeeps, SubmitCallKeeps
  DEF AdvanceSemantic

LEMMA DaemonKeeps ==
    ASSUME IInv, Daemon \/ Time
    PROVE  IInv' /\ (Still \/ Ending \/ Beginning)
  BY ExpireWriterKeeps, PreparePollKeeps, ReadEventKeeps, SyncTakeoverKeeps, SyncControlStateKeeps,
     RunCallbackKeeps, NoCallbackKeeps, ServeKeeps, AdvanceTypingKeeps, AdvanceSemanticKeeps,
     LeaseRunsOutKeeps, OperationLateKeeps, PreparationLateKeeps, DaemonQuietElapsesKeeps
  DEF Daemon, Time

LEMMA NothingHappens ==
    ASSUME IInv, UNCHANGED vars
    PROVE  IInv' /\ Still
  <1>1. /\ UNCHANGED semanticVars /\ UNCHANGED <<operations, nextOperation, typing, told>>
        /\ DaemonOnly /\ UNCHANGED <<toComp, seen, controlEpoch>>
    BY DEF vars, compVars, linkVars, daemonVars, operationVars, ghostVars, DaemonOnly
  <1> QED BY <1>1, NothingKeeps

LEMMA InitIsIInv == Init => IInv
  <1> SUFFICES ASSUME Init PROVE IInv
    OBVIOUS
  <1>1. CompTyped /\ LinkTyped
    <2>1. 0 \in 0..MaxAccepted /\ 0 \in Nat /\ 1 \in Nat
      BY SizesAre
    <2>2. seen \in Views
      BY <2>1 DEF Init, Views
    <2>3. toComp \in Seq(Requests) /\ toDaemon \in Seq(Events)
      BY DEF Init
    <2> QED BY <2>1, <2>2, <2>3 DEF Init, CompTyped, LinkTyped
  <1>2. /\ call \in CallType /\ answer = "none" /\ pending = "none"
        /\ call.token = 0 /\ call.stage = "idle"
        /\ ~call.busy /\ ~call.ready /\ ~call.sent /\ ~call.replied /\ ~call.succeeded
        /\ dispatched = {} /\ inbox = {} /\ accepted = {}
    BY SizesAre DEF Init, InitSemantic, Idle, CallType, Stages
  <1>3. CallInv
    BY <1>2 DEF CallInv
  <1>4. ASSUME NEW s \in 0..MaxOperations - 1
        PROVE  /\ operations[s] = NoReceipt
               /\ operations[s].token = 0 /\ operations[s].kind = "none" /\ ~operations[s].active
    BY DEF Init, NoReceipt
  <1>5. ASSUME NEW t \in Tokens
        PROVE  told[t].kind = "none" /\ told[t].outcome = "none" /\ t > 0 /\ t # 0
    BY SizesAre DEF Init
  <1>6. nextOperation = 0 /\ typing = 0
    BY DEF Init
  <1>7. BookTyped
    <2>1. NoReceipt \in ReceiptType
      <3>1. 0 \in 0..MaxAccepted /\ 0 \in Nat
        BY SizesAre
      <3>2. "none" \in Outcomes /\ "none" \in Kinds \cup {"none"}
        BY DEF Outcomes
      <3> QED BY <3>1, <3>2 DEF NoReceipt, ReceiptType
    <2>2. operations \in [0..MaxOperations - 1 -> ReceiptType]
      BY <2>1 DEF Init
    <2>3. told \in [Tokens -> [kind : Kinds \cup {"none"}, outcome : Outcomes]]
      BY DEF Init, Outcomes
    <2>4. 0 \in 0..MaxAccepted
      BY SizesAre
    <2> QED BY <1>6, <2>2, <2>3, <2>4 DEF BookTyped
  <1>8. BookInv
    <2>1. /\ \A t \in Tokens :
              /\ told[t].kind = "none" <=> t > nextOperation
              /\ told[t].outcome = "none" <=> t > nextOperation
              /\ told[t].outcome = "running" <=> t = typing
      BY <1>5, <1>6
    <2>2. \A s \in 0..MaxOperations - 1 :
              /\ operations[s].token <= nextOperation
              /\ operations[s].token # 0 =>
                  /\ Slot(operations[s].token) = s
                  /\ operations[s].kind = KindOf(operations[s].token)
              /\ operations[s].token = 0 => operations[s].kind = "none"
              /\ operations[s].active <=> (typing # 0 /\ operations[s].token = typing)
              /\ operations[s].kind \in {"window", "paste"} => operations[s].submitted > 0
      BY <1>4, <1>6
    <2> QED BY <1>6, <2>1, <2>2 DEF BookInv
  <1>9. TieInv
    BY <1>2, <1>4, <1>6 DEF TieInv, Honest
  <1>10. EffectInv
    <2>1. Len(toComp) = 0 /\ Len(toDaemon) = 0 /\ 1..0 = {}
      BY DEF Init
    <2>2. \A kind, t : ~In(toComp, kind, t) /\ Once(toComp, kind)
      BY <2>1 DEF In, Once
    <2>3. clip = 0 /\ done = {} /\ seen.actionToken = 0 /\ seen.clipToken = 0
      BY DEF Init
    <2>4. ASSUME NEW t \in Tokens PROVE ~Asked(t) /\ ~Refused(t) /\ ~Granted(t)
      BY <1>5, <2>1, <2>2, <2>3 DEF Asked, Refused, Granted, NoIn, YesIn
    <2> QED BY <2>2, <2>3, <2>4 DEF EffectInv
  <1>11. DeniedInv
    BY <1>5 DEF DeniedInv
  <1> QED BY <1>1, <1>3, <1>7, <1>8, <1>9, <1>10, <1>11 DEF IInv

LEMMA NextKeeps == ASSUME IInv, [Next]_vars PROVE IInv'
  <1>1. CASE Compositor
    BY <1>1, CompositorKeeps
  <1>2. CASE Daemon \/ Time
    BY <1>2, DaemonKeeps
  <1>3. CASE ApplicationMethod
    BY <1>3, ApplicationMethodKeeps
  <1>4. CASE UNCHANGED vars
    BY <1>4, NothingHappens
  <1> QED BY <1>1, <1>2, <1>3, <1>4 DEF Next

\* The inductive invariant: types; the call and its method; which receipts
\* there are; what is under way, and what was denied.
THEOREM OperationsInvariant == Spec => []IInv
  BY InitIsIInv, NextKeeps, PTL DEF Spec

\* A callback is due exactly while a call is being prepared or answered, and
\* the active operation's call is the last one: no second method is ever
\* waited for (as_semantic_start refuses while the slot is taken).
THEOREM OneCall == Spec => []OneCallAtATime
  <1>1. IInv => OneCallAtATime
    <2> SUFFICES ASSUME IInv PROVE OneCallAtATime
      OBVIOUS
    <2>1. pending # "none" <=> (call.busy /\ ~call.ready)
      BY DEF IInv, CallInv
    <2>2. ASSUME Active(call.token) PROVE call.token = typing
      <3>1. Kept(call.token)
        BY <2>2 DEF Active
      <3>2. Receipt.active
        BY <2>2, <3>1, ReceiptIs DEF Active
      <3> QED BY <3>1, <3>2, ReceiptIs
    <2> QED BY <2>1, <2>2 DEF OneCallAtATime
  <1> QED BY <1>1, OperationsInvariant, PTL

\* The receipt of a semantic call says submitted exactly if the method left
\* the daemon, and reports an answer only to its own method, whatever ended
\* the operation and however late the answer came.
THEOREM HonestReceipts == Spec => []ReceiptsAreHonest
  <1>1. IInv => ReceiptsAreHonest
    <2> SUFFICES ASSUME IInv PROVE ReceiptsAreHonest
      OBVIOUS
    <2>1. DOMAIN operations = 0..MaxOperations - 1
      BY DEF IInv, BookTyped
    <2>2. TypeOK
      <3>1. operations \in [0..MaxOperations - 1 -> ReceiptType] /\ call \in CallType
        BY DEF IInv, BookTyped, CallInv
      <3>2. typing \in 0..nextOperation
        BY SizesAre DEF IInv, BookTyped
      <3>3. \A s \in DOMAIN operations :
                operations[s].active <=> (typing # 0 /\ operations[s].token = typing)
        BY <2>1 DEF IInv, BookInv
      <3> QED BY <3>1, <3>2, <3>3 DEF TypeOK
    <2>3. \A s \in DOMAIN operations : Honest(operations[s])
      BY <2>1 DEF IInv, TieInv
    <2> QED BY <2>2, <2>3 DEF ReceiptsAreHonest, Honest
  <1> QED BY <1>1, OperationsInvariant, PTL

----------------------------------------------------------------------------
(* What was typed.                                                         *)

\* Keys under way or let through are those of a text that counts some, or
\* that ended when it could not be known.
Hinted(t) == counted[t] > 0 \/ told[t].outcome = "outcome_unknown"

TextInv ==
    /\ typed \in [Tokens -> Nat] /\ counted \in [Tokens -> Nat]
    /\ \A t \in Tokens :
        In(toComp, "key", t) \/ typed[t] > 0 => KindOf(t) = "type" /\ Hinted(t)

\* No key is sent.
NoKeySent == \A t \in Tokens : In(toComp', "key", t) => In(toComp, "key", t)

SameText == typed' = typed /\ counted' = counted

LEMMA TextKept ==
    ASSUME IInv, TextInv, NoKeySent, SameText, Still \/ told' = told \/ Ending \/ Beginning
    PROVE  TextInv'
  <1>1. ASSUME NEW t \in Tokens, In(toComp', "key", t) \/ typed'[t] > 0
        PROVE  KindOf(t)' = "type" /\ Hinted(t)'
    <2>1. KindOf(t) = "type" /\ Hinted(t)
      BY <1>1 DEF TextInv, NoKeySent, SameText
    <2>2. told \in [Tokens -> [kind : Kinds \cup {"none"}, outcome : Outcomes]]
      BY DEF IInv, BookTyped
    <2>3. CASE told' = told
      BY <2>1, <2>3 DEF KindOf, Hinted, SameText
    <2>4. CASE Ending
      <3>1. PICK out \in Finals : told' = [told EXCEPT ![typing].outcome = out]
        BY <2>4 DEF Ending, Ends
      <3>2. CASE t = typing
        <4>1. told[t].outcome = "running"
          BY <3>2 DEF IInv, BookInv
        <4>2. counted'[t] > 0
          BY <2>1, <4>1 DEF Hinted, SameText
        <4>3. told'[t].kind = told[t].kind
          BY <2>2, <3>1, <3>2
        <4> QED BY <2>1, <4>2, <4>3 DEF KindOf, Hinted
      <3>3. CASE t # typing
        <4>1. told'[t] = told[t]
          BY <2>2, <3>1, <3>3
        <4> QED BY <2>1, <4>1 DEF KindOf, Hinted, SameText
      <3> QED BY <3>2, <3>3
    <2>5. CASE Beginning
      <3>1. PICK o : told' = [told EXCEPT ![NewToken] = o]
        BY <2>5 DEF Beginning
      <3>2. told[t].outcome # "none"
        BY <2>1 DEF KindOf, IInv, BookInv
      <3>3. t # NewToken
        BY <2>5, <3>2 DEF Beginning
      <3>4. told'[t] = told[t]
        BY <2>2, <3>1, <3>3
      <3> QED BY <2>1, <3>4 DEF KindOf, Hinted, SameText
    <2> QED BY <2>3, <2>4, <2>5 DEF Still
  <1> QED BY <1>1 DEF TextInv, SameText

LEMMA NothingSent == ASSUME toComp' = toComp PROVE NoKeySent
  BY DEF NoKeySent

LEMMA NoKeyAmong ==
    ASSUME IInv, NEW a \in Requests, NEW m \in Requests, a.kind # "key", m.kind # "key",
           toComp' = Append(toComp, a) \/ toComp' = toComp \o <<a, m>>
    PROVE  NoKeySent
  <1>1. toComp \in Seq(Requests)
    BY DEF IInv, LinkTyped
  <1>2. PICK q : q = Append(toComp, a)
    OBVIOUS
  <1>3. q \in Seq(Requests) /\ \A t : In(q, "key", t) => In(toComp, "key", t)
    BY <1>1, <1>2, AppendIs, InAppend
  <1>4. CASE toComp' = q
    BY <1>3, <1>4 DEF NoKeySent
  <1>5. CASE toComp' = Append(q, m)
    BY <1>3, <1>5, InAppend DEF NoKeySent
  <1> QED BY <1>1, <1>2, <1>4, <1>5, TwoMore

LEMMA TakenIsNoKey ==
    ASSUME IInv, toComp # <<>>, toComp' = Tail(toComp)
    PROVE  NoKeySent
  <1>1. toComp \in Seq(Requests)
    BY DEF IInv, LinkTyped
  <1>2. \A t : In(Tail(toComp), "key", t) => In(toComp, "key", t)
    BY <1>1, TailIs DEF In
  <1> QED BY <1>2 DEF NoKeySent

\* The daemon, but for advance_typing.
LEMMA RequestsHoldNoKey ==
    ASSUME IInv, Daemon, ~AdvanceTyping
    PROVE  NoKeySent /\ SameText
  <1>1. CASE PreparePoll \/ ReadEvent \/ SyncTakeover \/ SyncControlState \/ RunCallback \/ NoCallback
    <2>1. toComp' = toComp
      BY <1>1 DEF PreparePoll, ReadEvent, SyncTakeover, SyncControlState, RunCallback, NoCallback, linkVars
    <2>2. SameText
      BY <1>1 DEF PreparePoll, ReadEvent, SyncTakeover, SyncControlState, RunCallback, NoCallback,
                  TurnTo, ghostVars, textVars, SameText
    <2> QED BY <2>1, <2>2, NothingSent
  <1>2. CASE ExpireWriter \/ Interrupt
    <2>1. toComp' = Append(toComp, RevokeRequest)
      BY <1>2 DEF ExpireWriter, Interrupt, RevokeInput
    <2>2. SameText
      BY <1>2 DEF ExpireWriter, Interrupt, Serving, textVars, SameText
    <2>3. RevokeRequest \in Requests /\ RevokeRequest.kind # "key"
      BY RequestsAre
    <2> QED BY <2>1, <2>2, <2>3, NoKeyAmong
  <1>3. CASE AcquireControl \/ Resume \/ ScopeChanges \/ StartType \/ StartSemantic
    <2>1. toComp' = toComp
      BY <1>3 DEF AcquireControl, Resume, ScopeChanges, StartType, StartSemantic
    <2>2. SameText
      BY <1>3 DEF AcquireControl, Resume, ScopeChanges, StartType, StartSemantic, Admitted, Serving,
                  textVars, SameText
    <2> QED BY <2>1, <2>2, NothingSent
  <1>4. CASE StartWindow \/ StartPaste
    <2>1. PICK kind \in {"window", "offer"} :
              toComp' = toComp \o <<AcquireRequest(controlEpoch),
                                    [kind |-> kind, epoch |-> controlEpoch, token |-> NewToken]>>
      BY <1>4 DEF StartWindow, StartPaste
    <2>2. PICK m : m = [kind |-> kind, epoch |-> controlEpoch, token |-> NewToken]
      OBVIOUS
    <2>3. NewToken \in Tokens /\ controlEpoch \in Nat
      <3>1. nextOperation < MaxAccepted
        BY <1>4, AdmittedIs DEF StartWindow, StartPaste
      <3>2. nextOperation \in Nat /\ controlEpoch \in Nat
        BY SizesAre DEF IInv, LinkTyped, BookTyped
      <3> QED BY <3>1, <3>2, SizesAre DEF NewToken
    <2>4. m \in Requests /\ m.kind # "key"
      BY <2>2, <2>3 DEF Requests
    <2>5. /\ AcquireRequest(controlEpoch) \in Requests
          /\ AcquireRequest(controlEpoch).kind # "key"
      BY <2>3, RequestsAre
    <2>6. SameText
      BY <1>4 DEF StartWindow, StartPaste, Admitted, Serving, textVars, SameText
    <2> QED BY <2>1, <2>2, <2>4, <2>5, <2>6, NoKeyAmong
  <1>5. CASE AskAuthority
    <2>1. PICK m : m = [kind |-> "sync", epoch |-> 0, token |-> Receipt.token]
      OBVIOUS
    <2>2. toComp' = toComp \o <<AcquireRequest(Receipt.epoch), m>>
      BY <1>5, <2>1 DEF AskAuthority
    <2>3. Receipt \in ReceiptType
      BY <1>5, RunsIs DEF AskAuthority, CallReady, Fits
    <2>4. m \in Requests /\ m.kind # "key"
      BY <2>1, <2>3, ReceiptFields DEF Requests
    <2>5. /\ AcquireRequest(Receipt.epoch) \in Requests
          /\ AcquireRequest(Receipt.epoch).kind # "key"
      BY <2>3, ReceiptFields, RequestsAre
    <2>6. SameText
      BY <1>5 DEF AskAuthority, CallReady, CallRuns, AdvancesSemantic, TurnTo, SameText
    <2> QED BY <2>2, <2>4, <2>5, <2>6, NoKeyAmong
  <1>6. CASE AdvanceSemantic /\ ~AskAuthority
    <2>1. AdvancesSemantic /\ toComp' = toComp
      BY <1>6 DEF AdvanceSemantic, NoReceiptKept, NoteLateReply, CallOver, CallInterrupted,
                  CallPrepares, CallStale, AwaitAuthority, AuthorityRefused, SubmitCall,
                  CallReady, CallRuns, Unasked
    <2> QED BY <2>1, NothingSent DEF AdvancesSemantic, TurnTo, SameText
  <1> QED BY <1>1, <1>2, <1>3, <1>4, <1>5, <1>6 DEF Daemon, Serve

LEMMA TypingHoldsNoKey ==
    ASSUME IInv, AdvanceTyping, ~TypeCodepoint
    PROVE  NoKeySent /\ SameText
  <1>1. AdvanceOnly /\ counted' = counted
    BY DEF AdvanceTyping, AdvanceIdle, AdvanceCancelled, PasteRefused, PasteProceeds, PasteKeysFail,
           Proceeds
  <1>2. SameText
    BY <1>1 DEF AdvanceOnly, TurnTo, SameText
  <1>3. CASE toComp' = toComp
    BY <1>2, <1>3, NothingSent
  <1>4. CASE /\ typing # 0
             /\ \/ toComp' = Append(toComp, AcquireRequest(Current.epoch))
                \/ toComp' = toComp \o <<AcquireRequest(Current.epoch), RevokeRequest>>
    <2>1. Current.epoch \in Nat
      BY <1>4, CurrentIs, ReceiptFields DEF IInv
    <2>2. /\ AcquireRequest(Current.epoch) \in Requests /\ RevokeRequest \in Requests
          /\ AcquireRequest(Current.epoch).kind # "key" /\ RevokeRequest.kind # "key"
      BY <2>1, RequestsAre
    <2> QED BY <1>2, <1>4, <2>2, NoKeyAmong
  <1>5. \/ toComp' = toComp
        \/ /\ typing # 0
           /\ \/ toComp' = Append(toComp, AcquireRequest(Current.epoch))
              \/ toComp' = toComp \o <<AcquireRequest(Current.epoch), RevokeRequest>>
    BY DEF AdvanceTyping, AdvanceIdle, AdvanceCancelled, PasteRefused, PasteProceeds, PasteKeysFail,
           Proceeds
  <1> QED BY <1>3, <1>4, <1>5

\* A codepoint is sent, and counted or the operation over with an outcome
\* that is not known.
LEMMA TypeCodepointText ==
    ASSUME IInv, TextInv, TypeCodepoint
    PROVE  /\ TextInv' /\ typed' = typed
           /\ \A u \in Tokens : u = typing \/ counted'[u] = counted[u]
  <1>1. typing # 0 /\ Current.kind = "type" /\ AdvanceOnly
    BY DEF TypeCodepoint, Proceeds
  <1>2. PICK t \in Tokens : t = typing /\ KindOf(t) = "type" /\ Kept(t)
    BY <1>1, CurrentIs DEF IInv
  <1>3. Current \in ReceiptType /\ Current.token = t /\ Current.submitted \in Nat
        /\ Slot(t) \in 0..MaxOperations - 1
    BY <1>1, <1>2, CurrentIs, ReceiptFields DEF IInv
  <1>4. PICK o : o = [Current EXCEPT !.submitted = @ + 1]
    OBVIOUS
  <1>5. o.submitted = Current.submitted + 1 /\ o.token = t /\ o \in ReceiptType /\ o.kind = "type"
    BY <1>1, <1>3, <1>4 DEF ReceiptType
  <1>6. \/ Finish(o, "finished")
        \/ operations' = [operations EXCEPT ![Slot(t)] = o] /\ told' = told
        \/ Finish(Current, "outcome_unknown")
    BY <1>2, <1>4 DEF TypeCodepoint
  <1>7. operations \in [0..MaxOperations - 1 -> ReceiptType]
        /\ told \in [Tokens -> [kind : Kinds \cup {"none"}, outcome : Outcomes]]
    BY DEF IInv, BookTyped
  <1>8. typed' = typed /\ counted' = [counted EXCEPT ![t] = operations'[Slot(t)].submitted]
    BY <1>1, <1>2 DEF TypeCodepoint, CountSent, AdvanceOnly, TurnTo
  <1>9. /\ operations'[Slot(t)].submitted \in Nat
        /\ operations'[Slot(t)].submitted > 0 \/ told'[t].outcome = "outcome_unknown"
        /\ told'[t].kind = told[t].kind
        /\ \A u \in Tokens : u # t => told'[u] = told[u]
    <2>1. CASE operations' = [operations EXCEPT ![Slot(t)] = o] /\ told' = told
      BY <1>3, <1>5, <1>7, <2>1
    <2>2. ASSUME NEW x \in {o, Current}, NEW outcome, Finish(x, outcome)
          PROVE  /\ operations'[Slot(t)].submitted = x.submitted
                 /\ told' = [told EXCEPT ![t].outcome = Outcome(x, outcome)]
      <3>1. x.token = t /\ x \in ReceiptType
        BY <1>3, <1>5
      <3>2. PICK e : e = [x EXCEPT !.active = FALSE, !.outcome = Outcome(x, outcome),
                                  !.cancelRequested = @ \/ Abandons(x)]
        OBVIOUS
      <3>3. operations' = [operations EXCEPT ![Slot(t)] = e]
            /\ told' = [told EXCEPT ![t].outcome = e.outcome]
        BY <2>2, <3>1, <3>2 DEF Finish
      <3>4. e.submitted = x.submitted /\ e.outcome = Outcome(x, outcome)
        BY <3>1, <3>2 DEF ReceiptType
      <3> QED BY <1>3, <1>7, <3>3, <3>4
    <2>3. CASE Finish(o, "finished")
      BY <1>3, <1>5, <1>7, <2>2, <2>3
    <2>4. CASE Finish(Current, "outcome_unknown")
      <3>1. Outcome(Current, "outcome_unknown") = "outcome_unknown"
        BY DEF Outcome
      <3> QED BY <1>3, <1>7, <2>2, <2>4, <3>1
    <2> QED BY <1>6, <2>1, <2>3, <2>4
  <1>10. /\ counted' \in [Tokens -> Nat] /\ counted'[t] = operations'[Slot(t)].submitted
         /\ \A u \in Tokens : u # t => counted'[u] = counted[u]
    BY <1>8, <1>9 DEF TextInv
  <1>11. ASSUME NEW u \in Tokens, u # t, In(toComp', "key", u)
         PROVE  In(toComp, "key", u)
    <2>1. PICK a, m, q : a = AcquireRequest(Current.epoch) /\ m = KeyRequest(t) /\ q = Append(toComp, a)
      OBVIOUS
    <2>2. a \in Requests /\ a.kind # "key"
      BY <1>3, <2>1, ReceiptFields, RequestsAre
    <2>3. m \in Requests /\ m.token = t
      BY <2>1 DEF KeyRequest, Requests
    <2>4. toComp \in Seq(Requests)
      BY DEF IInv, LinkTyped
    <2>5. q \in Seq(Requests) /\ (In(q, "key", u) => In(toComp, "key", u))
      BY <2>1, <2>2, <2>4, AppendIs, InAppend
    <2>6. toComp' = q \/ toComp' = Append(q, m)
      <3>1. CodepointSent \/ toComp' = Append(toComp, AcquireRequest(Current.epoch))
        BY DEF TypeCodepoint
      <3>2. toComp' = q \/ toComp' = toComp \o <<a, m>>
        BY <1>2, <2>1, <3>1 DEF CodepointSent
      <3> QED BY <2>1, <2>2, <2>3, <2>4, <3>2, TwoMore
    <2>7. In(Append(q, m), "key", u) <=> In(q, "key", u) \/ (m.kind = "key" /\ m.token = u)
      BY <2>3, <2>5, InAppend
    <2> QED BY <1>11, <2>3, <2>5, <2>6, <2>7
  <1>12. ASSUME NEW u \in Tokens, In(toComp', "key", u) \/ typed'[u] > 0
         PROVE  KindOf(u)' = "type" /\ Hinted(u)'
    <2>1. CASE u = t
      BY <1>2, <1>9, <1>10, <2>1 DEF KindOf, Hinted
    <2>2. CASE u # t
      BY <1>8, <1>9, <1>10, <1>11, <1>12, <2>2 DEF TextInv, KindOf, Hinted
    <2> QED BY <2>1, <2>2
  <1> QED BY <1>2, <1>8, <1>10, <1>12 DEF TextInv

\* The keys that are let through were under way.
LEMMA ProcessKeyText ==
    ASSUME IInv, TextInv, ProcessKey
    PROVE  /\ TextInv' /\ counted' = counted /\ told' = told
           /\ \E t \in Tokens :
               /\ KindOf(t) = "type" /\ Hinted(t)
               /\ \/ typed' = typed
                  \/ \A u \in Tokens : typed'[u] > 0 <=> u = t \/ typed[u] > 0
  <1>1. PICK t : t = Head(toComp).token
    OBVIOUS
  <1>2. /\ toComp # <<>> /\ toComp \in Seq(Requests) /\ toComp' = Tail(toComp)
        /\ Head(toComp) \in Requests /\ Head(toComp).kind = "key"
    BY TakesIs DEF ProcessKey
  <1>3. t \in Tokens /\ In(toComp, "key", t)
    <2>1. Head(toComp) = toComp[1] /\ 1 \in 1..Len(toComp)
      BY <1>2, TailIs
    <2> QED BY <1>1, <1>2, <2>1, RequestFields DEF In
  <1>4. KindOf(t) = "type" /\ Hinted(t)
    BY <1>3 DEF TextInv
  <1>5. counted' = counted /\ told' = told
    BY DEF ProcessKey
  <1>6. typed' = typed \/ typed' = [typed EXCEPT ![t] = @ + 1]
    BY <1>1 DEF ProcessKey
  <1>7. /\ typed' \in [Tokens -> Nat]
        /\ typed' = typed \/ \A u \in Tokens : typed'[u] > 0 <=> u = t \/ typed[u] > 0
    <2>1. typed \in [Tokens -> Nat]
      BY DEF TextInv
    <2>2. CASE typed' = [typed EXCEPT ![t] = @ + 1]
      <3>1. typed'[t] = typed[t] + 1 /\ typed[t] \in Nat
        BY <1>3, <2>1, <2>2
      <3>2. \A u \in Tokens : u # t => typed'[u] = typed[u]
        BY <1>3, <2>1, <2>2
      <3>3. typed' \in [Tokens -> Nat]
        BY <1>3, <2>1, <2>2, <3>1
      <3> QED BY <1>3, <3>1, <3>2, <3>3
    <2> QED BY <1>6, <2>1, <2>2
  <1>8. NoKeySent
    BY <1>2, TakenIsNoKey
  <1>9. ASSUME NEW u \in Tokens, In(toComp', "key", u) \/ typed'[u] > 0
        PROVE  KindOf(u)' = "type" /\ Hinted(u)'
    <2>1. u = t \/ In(toComp, "key", u) \/ typed[u] > 0
      BY <1>7, <1>8, <1>9 DEF NoKeySent
    <2>2. KindOf(u) = "type" /\ Hinted(u)
      BY <1>4, <2>1 DEF TextInv
    <2> QED BY <1>5, <2>2 DEF KindOf, Hinted
  <1>10. TextInv'
    BY <1>5, <1>7, <1>9 DEF TextInv
  <1> QED BY <1>3, <1>4, <1>5, <1>7, <1>10

LEMMA CompositorHoldsNoKey ==
    ASSUME IInv, Compositor, ~ProcessKey
    PROVE  NoKeySent /\ SameText /\ told' = told
  <1>1. SameText /\ told' = told
    BY DEF Compositor, ProcessRequest, ProcessAcquire, ProcessStaleAcquire, ProcessRevoke, ProcessSync,
           WindowAction, ClipboardOffer, ClipboardTransfer, ClipboardGone, HumanActs, HumanRests,
           ghostVars, textVars, SameText
  <1>2. toComp' = toComp \/ (toComp # <<>> /\ toComp' = Tail(toComp))
    BY DEF Compositor, ProcessRequest, ProcessAcquire, ProcessStaleAcquire, ProcessRevoke, ProcessSync,
           WindowAction, ClipboardOffer, ClipboardTransfer, ClipboardGone, HumanActs, HumanRests,
           Takes, linkVars
  <1> QED BY <1>1, <1>2, NothingSent, TakenIsNoKey

LEMMA OthersHoldNoKey ==
    ASSUME Time \/ ApplicationMethod \/ UNCHANGED vars
    PROVE  NoKeySent /\ SameText /\ told' = told
  <1>1. toComp' = toComp
    BY DEF Time, LeaseRunsOut, OperationLate, PreparationLate, DaemonQuietElapses, ApplicationMethod,
           vars, linkVars
  <1>2. SameText /\ told' = told
    BY DEF Time, LeaseRunsOut, OperationLate, PreparationLate, DaemonQuietElapses, ApplicationMethod,
           vars, ghostVars, textVars, SameText
  <1> QED BY <1>1, <1>2, NothingSent

LEMMA TextNext == ASSUME IInv, TextInv, [Next]_vars PROVE TextInv'
  <1>1. CASE Daemon /\ ~TypeCodepoint
    <2>1. NoKeySent /\ SameText
      BY <1>1, RequestsHoldNoKey, TypingHoldsNoKey
    <2> QED BY <1>1, <2>1, DaemonKeeps, TextKept
  <1>2. CASE TypeCodepoint
    BY <1>2, TypeCodepointText
  <1>3. CASE Compositor /\ ~ProcessKey
    BY <1>3, CompositorHoldsNoKey, TextKept
  <1>4. CASE ProcessKey
    BY <1>4, ProcessKeyText
  <1>5. CASE Time \/ ApplicationMethod \/ UNCHANGED vars
    BY <1>5, OthersHoldNoKey, TextKept
  <1> QED BY <1>1, <1>2, <1>3, <1>4, <1>5 DEF Next

LEMMA InitText == Init => TextInv
  <1> SUFFICES ASSUME Init PROVE TextInv
    OBVIOUS
  <1>1. Len(toComp) = 0 /\ 1..0 = {}
    BY DEF Init
  <1>2. \A t : ~In(toComp, "key", t)
    BY <1>1 DEF In
  <1>3. /\ typed \in [Tokens -> Nat] /\ counted \in [Tokens -> Nat]
        /\ \A t \in Tokens : ~(typed[t] > 0)
    BY DEF Init
  <1> QED BY <1>2, <1>3 DEF TextInv

\* Keys of a text are under way, or were let through, only if its receipt
\* counts some of it or says that the outcome is not known.
THEOREM TextIsHinted == Spec => [](IInv /\ TextInv)
  <1>1. Init => IInv /\ TextInv
    BY InitIsIInv, InitText
  <1>2. IInv /\ TextInv /\ [Next]_vars => (IInv /\ TextInv)'
    BY NextKeeps, TextNext
  <1> QED BY <1>1, <1>2, PTL DEF Spec

----------------------------------------------------------------------------
(* OperationPromise is implemented.                                        *)

Claims == [t \in Tokens |-> Claim(t)]

\* What Claim makes of an outcome, when n codepoints were counted.
Shown(kind, n, outcome) ==
    IF \/ kind \in {"type", "paste"} /\ outcome = "finished"
       \/ n > 0 /\ outcome \in {"cancelled", "rejected"}
    THEN "outcome_unknown"
    ELSE outcome

LEMMA ClaimIs ==
    ASSUME NEW t \in Tokens
    PROVE  Claims[t] = Shown(told[t].kind, counted[t], told[t].outcome)
  BY DEF Claims, Claim, Shown

\* Only of the active operation a codepoint is counted.
CountKept == typed' = typed /\ \A u \in Tokens : u = typing \/ counted'[u] = counted[u]

LEMMA StillStutters ==
    ASSUME IInv, Still, CountKept
    PROVE  Claims' = Claims /\ Effects' = Effects
  <1>1. ASSUME NEW u \in Tokens PROVE Claim(u)' = Claim(u)
    <2>1. CASE u = typing
      <3>1. told[u].outcome = "running"
        BY <2>1 DEF IInv, BookInv
      <3> QED BY <3>1 DEF Still, Claim
    <2>2. CASE u # typing
      BY <2>2 DEF Still, CountKept, Claim
    <2> QED BY <2>1, <2>2
  <1>2. Claims' = Claims
    BY <1>1 DEF Claims
  <1> QED BY <1>2 DEF Still, CountKept, Effects

\* One more operation has taken effect.
LEMMA EffectTaken ==
    ASSUME IInv, told' = told, counted' = counted, NEW t \in Tokens,
           Effects' = Effects \cup {t},
           told[t].kind # "none", ~Void(t) \/ Hinted(t)
    PROVE  Promise!TakeEffect(t) \/ (Claims' = Claims /\ Effects' = Effects)
  <1>1. Claims' = Claims
    BY DEF Claims, Claim
  <1>2. Claims[t] = Shown(told[t].kind, counted[t], told[t].outcome)
    BY ClaimIs
  <1>3. told[t].outcome # "none" /\ (told[t].outcome \notin Denied \/ counted[t] > 0)
    BY DEF IInv, BookInv, DeniedInv, Denied, Hinted
  <1>4. Claims[t] # "none" /\ Claims[t] \notin {"cancelled", "rejected"}
    BY <1>2, <1>3 DEF Shown, Denied
  <1>5. CASE t \in Effects
    BY <1>1, <1>5
  <1>6. CASE t \notin Effects
    BY <1>1, <1>4, <1>6 DEF Promise!TakeEffect, Promise!Denied, Claims, Effects
  <1> QED BY <1>5, <1>6

LEMMA EndingEnds ==
    ASSUME IInv, TextInv', Ending, CountKept
    PROVE  Promise!End(typing) /\ typing \in Tokens
  <1>1. typing # 0 /\ typing \in Tokens /\ Effects' = Effects
    BY CurrentIs DEF IInv, Ending, CountKept, Effects
  <1>2. PICK out \in Finals :
            /\ Ends(typing, out)
            /\ out \in Denied => Void(typing)
            /\ out = "finished" =>
                KindOf(typing) \in {"type", "paste"} \/ typing \in accepted \cup done
    BY DEF Ending
  <1>3. PICK t \in Tokens : t = typing
    BY <1>1
  <1>4. told' = [told EXCEPT ![t].outcome = out] /\ t \in DOMAIN told
    BY <1>2, <1>3 DEF Ends, IInv, BookTyped
  <1>5. /\ told'[t].outcome = out /\ told'[t].kind = told[t].kind
        /\ \A u \in Tokens : u # t => told'[u] = told[u]
    BY <1>4 DEF IInv, BookTyped
  <1>6. PICK o : o = Shown(told[t].kind, counted'[t], out)
    OBVIOUS
  <1>7. Claims' = [Claims EXCEPT ![t] = o]
    <2>1. \A u \in Tokens : Claim(u)' = IF u = t THEN o ELSE Claim(u)
      BY <1>3, <1>5, <1>6 DEF CountKept, Claim, Shown
    <2> QED BY <2>1 DEF Claims
  <1>8. Claims[t] = "running"
    <2>1. told[t].outcome = "running"
      BY <1>3 DEF IInv, BookInv
    <2> QED BY <2>1, ClaimIs DEF Shown
  <1>9. /\ o \in {"finished", "cancelled", "rejected", "deadline_exceeded", "outcome_unknown"}
        /\ o = "finished" => t \in Effects
        /\ o \in {"cancelled", "rejected"} => t \notin Effects
    <2>1. o \in Finals /\ (o = "finished" => out = "finished" /\ told[t].kind \notin {"type", "paste"})
          /\ (o \in Denied => out = o /\ ~(counted'[t] > 0))
      BY <1>6 DEF Shown, Finals, Denied
    <2>2. o \in Denied => ~(typed[t] > 0)
      BY <1>5, <2>1 DEF TextInv, Hinted, Denied, CountKept
    <2>3. o \in Denied => t \notin Effects
      BY <1>2, <1>3, <2>1, <2>2 DEF Effects, Void
    <2> QED BY <1>2, <1>3, <2>1, <2>3 DEF Finals, Denied, KindOf, Effects
  <1>10. Promise!End(t)
    BY <1>1, <1>7, <1>8, <1>9
    DEF Promise!End, Promise!Final, Promise!Denied, Claims, Effects
  <1> QED BY <1>1, <1>3, <1>10

LEMMA BeginningAccepts ==
    ASSUME IInv, Beginning, CountKept
    PROVE  Promise!Accept(NewToken) /\ NewToken \in Tokens
  <1>1. PICK t \in Tokens : t = NewToken
    BY DEF Beginning
  <1>2. PICK kind \in Kinds, out \in {"running", "finished"} :
            /\ out = "finished" => kind = "type"
            /\ told' = [told EXCEPT ![t] = [kind |-> kind, outcome |-> out]]
    BY <1>1 DEF Beginning
  <1>3. /\ told'[t] = [kind |-> kind, outcome |-> out]
        /\ \A u \in Tokens : u # t => told'[u] = told[u]
    BY <1>2 DEF IInv, BookTyped
  <1>4. PICK o \in {"running", "outcome_unknown"} : o = Shown(kind, counted'[t], out)
    BY <1>2 DEF Shown
  <1>5. Claims' = [Claims EXCEPT ![t] = o]
    <2>1. \A u \in Tokens : counted'[u] = counted[u]
      BY SizesAre DEF Beginning, CountKept
    <2>2. \A u \in Tokens : Claim(u)' = IF u = t THEN o ELSE Claim(u)
      BY <1>3, <1>4, <2>1 DEF Claim, Shown
    <2> QED BY <2>2 DEF Claims
  <1>6. Claims[t] = "none"
    <2>1. told[t].outcome = "none"
      BY <1>1 DEF Beginning
    <2> QED BY <2>1, ClaimIs DEF Shown
  <1>7. ASSUME NEW u \in Tokens PROVE Claims[u] # "running"
    <2>1. told[u].outcome # "running"
      BY SizesAre DEF IInv, BookInv, Beginning
    <2> QED BY <2>1, ClaimIs DEF Shown
  <1>8. Effects' = Effects
    BY DEF Beginning, CountKept, Effects
  <1>9. Promise!Accept(t)
    BY <1>5, <1>6, <1>7, <1>8 DEF Promise!Accept, Claims, Effects
  <1> QED BY <1>1, <1>9

\* What the compositor does to what was promised.
LEMMA CompositorTakes ==
    ASSUME IInv, TextInv, Compositor
    PROVE  (\E t \in Tokens : Promise!TakeEffect(t)) \/ (Claims' = Claims /\ Effects' = Effects)
  <1>1. accepted' = accepted
    BY DEF Compositor, ProcessRequest, ProcessAcquire, ProcessStaleAcquire, ProcessRevoke, ProcessSync,
           ProcessKey, WindowAction, ClipboardOffer, ClipboardTransfer, ClipboardGone, HumanActs,
           HumanRests, CompositorOnly, semanticVars, appVars, ghostVars
  <1>2. ~ProcessKey => SameText /\ told' = told
    BY CompositorHoldsNoKey
  <1>3. CASE done' = done /\ ~ProcessKey
    BY <1>1, <1>2, <1>3, StillStutters DEF Still, SameText, CountKept
  <1>4. CASE ProcessKey
    <2>1. /\ counted' = counted /\ told' = told /\ done' = done
          /\ \E t \in Tokens :
              /\ KindOf(t) = "type" /\ Hinted(t)
              /\ \/ typed' = typed
                 \/ \A u \in Tokens : typed'[u] > 0 <=> u = t \/ typed[u] > 0
      BY <1>4, ProcessKeyText DEF ProcessKey
    <2>2. CASE typed' = typed
      BY <1>1, <2>1, <2>2, StillStutters DEF Still, CountKept
    <2>3. ASSUME NEW t \in Tokens, KindOf(t) = "type", Hinted(t),
                 \A u \in Tokens : typed'[u] > 0 <=> u = t \/ typed[u] > 0
          PROVE  Promise!TakeEffect(t) \/ (Claims' = Claims /\ Effects' = Effects)
      <3>1. Effects' = Effects \cup {t}
        BY <1>1, <2>1, <2>3 DEF Effects
      <3>2. told[t].kind # "none"
        BY <2>3 DEF KindOf
      <3> QED BY <2>1, <2>3, <3>1, <3>2, EffectTaken
    <2> QED BY <2>1, <2>2, <2>3
  <1>5. CASE WindowAction /\ ~ProcessKey
    <2>1. PICK t : t = Head(toComp).token
      OBVIOUS
    <2>2. t \in Tokens /\ Asked(t) /\ KindOf(t) = "window"
      BY <1>5, <2>1, OnlyOne DEF WindowAction
    <2>3. done' = done \/ done' = done \cup {t}
      BY <1>5, <2>1 DEF WindowAction
    <2>4. CASE done' = done \cup {t}
      <3>1. Effects' = Effects \cup {t}
        BY <1>1, <1>2, <1>5, <2>4 DEF Effects, SameText
      <3>2. ~Void(t) /\ told[t].kind # "none"
        BY <2>2 DEF Void, KindOf
      <3> QED BY <1>2, <1>5, <2>2, <3>1, <3>2, EffectTaken DEF SameText
    <2> QED BY <1>3, <1>5, <2>3, <2>4
  <1>6. CASE ClipboardTransfer /\ ~ProcessKey
    <2>1. PICK t : t = clip
      OBVIOUS
    <2>2. done' = done \cup {t} /\ t # 0
      BY <1>6, <2>1 DEF ClipboardTransfer
    <2>3. t \in Tokens /\ told[t].kind = "paste"
      BY <2>1, <2>2, SizesAre DEF IInv, CompTyped, EffectInv, KindOf
    <2>4. Effects' = Effects \cup {t} /\ ~Void(t)
      BY <1>1, <1>2, <1>6, <2>1, <2>2 DEF Effects, SameText, Void
    <2> QED BY <1>2, <1>6, <2>3, <2>4, EffectTaken DEF SameText
  <1>7. CASE /\ ~ProcessKey
             /\ \/ ProcessAcquire \/ ProcessStaleAcquire \/ ProcessRevoke \/ ProcessSync
                \/ ClipboardOffer \/ ClipboardGone \/ HumanActs \/ HumanRests
    <2>1. done' = done
      BY <1>7 DEF ProcessAcquire, ProcessStaleAcquire, ProcessRevoke, ProcessSync, ClipboardOffer,
                  ClipboardGone, HumanActs, HumanRests, ghostVars
    <2> QED BY <1>3, <1>7, <2>1
  <1> QED BY <1>4, <1>5, <1>6, <1>7 DEF Compositor, ProcessRequest

\* What the application does to it.
LEMMA ApplicationTakes ==
    ASSUME IInv, ApplicationMethod
    PROVE  (\E t \in Tokens : Promise!TakeEffect(t)) \/ (Claims' = Claims /\ Effects' = Effects)
  <1>1. told' = told /\ done' = done /\ SameText
    BY DEF ApplicationMethod, ghostVars, textVars, SameText
  <1>2. PICK t \in inbox : accepted' = accepted \/ accepted' = accepted \cup {t}
    BY DEF ApplicationMethod, Application, ApplicationActs, ApplicationActsAndFails
  <1>3. t \in Tokens /\ told[t].kind = "semantic" /\ ~Void(t)
    BY DEF IInv, CallInv, TieInv, KindOf, Void
  <1>4. CASE accepted' = accepted
    BY <1>1, <1>4, StillStutters DEF Still, SameText, CountKept
  <1>5. CASE accepted' = accepted \cup {t}
    <2>1. Effects' = Effects \cup {t}
      BY <1>1, <1>5 DEF Effects, SameText
    <2> QED BY <1>1, <1>3, <2>1, EffectTaken DEF SameText
  <1> QED BY <1>2, <1>4, <1>5

\* The receipts mean what OperationPromise says: operations run one at a
\* time; finished only if done; cancelled or rejected only if not done and
\* never to be, with requests and keys still queued and methods still in the
\* application's inbox; no outcome is revised.
THEOREM PromiseKept == Spec => PromiseSpec
  <1>1. Init => Promise!Init
    <2> SUFFICES ASSUME Init PROVE Promise!Init
      OBVIOUS
    <2>1. accepted = {} /\ done = {} /\ \A t \in Tokens : ~(typed[t] > 0)
      BY DEF Init, InitSemantic
    <2>2. \A t \in Tokens : Claim(t) = "none"
      BY DEF Init, Claim
    <2> QED BY <2>1, <2>2 DEF Promise!Init, Effects
  <1>2. IInv /\ TextInv /\ [Next]_vars => [Promise!Next]_(Promise!vars)
    <2> SUFFICES ASSUME IInv, TextInv, [Next]_vars PROVE [Promise!Next]_(Promise!vars)
      OBVIOUS
    <2>1. CASE Claims' = Claims /\ Effects' = Effects
      BY <2>1 DEF Promise!vars, Claims, Effects
    <2>2. CASE \E t \in Tokens : Promise!TakeEffect(t)
      BY <2>2 DEF Promise!Next
    <2>3. CASE Ending /\ CountKept
      BY <2>3, TextNext, EndingEnds DEF Promise!Next
    <2>4. CASE Beginning /\ CountKept
      BY <2>4, BeginningAccepts DEF Promise!Next
    <2>5. CASE Compositor
      BY <2>1, <2>2, <2>5, CompositorTakes
    <2>6. CASE Daemon \/ Time
      <3>1. CountKept
        <4>1. CASE TypeCodepoint
          BY <4>1, TypeCodepointText DEF CountKept
        <4>2. CASE ~TypeCodepoint
          BY <2>6, <4>2, RequestsHoldNoKey, TypingHoldsNoKey, OthersHoldNoKey DEF SameText, CountKept
        <4> QED BY <4>1, <4>2
      <3> QED BY <2>1, <2>3, <2>4, <2>6, <3>1, DaemonKeeps, StillStutters
    <2>7. CASE ApplicationMethod
      BY <2>1, <2>2, <2>7, ApplicationTakes
    <2>8. CASE UNCHANGED vars
      BY <2>1, <2>8, NothingHappens, OthersHoldNoKey, StillStutters DEF SameText, CountKept
    <2> QED BY <2>5, <2>6, <2>7, <2>8 DEF Next
  <1> QED BY <1>1, <1>2, TextIsHinted, PTL DEF Spec, PromiseSpec, Promise!Spec

----------------------------------------------------------------------------
(* What the daemon knows of takeovers.                                     *)

\* The revocations the daemon asked for and the compositor carried out.
Now == epoch - takeovers
Rank(x) == x.epoch - x.known

\* The revocations it asked for that are under way.
RevokesIn(q) == {n \in 1..Len(q) : q[n].kind = "revoke"}
Revs(q) == Cardinality(RevokesIn(q))
Quiet == RevokesIn(toComp) = {}

\* Of events q, with x what was read before: the last state before event n
\* tells of k takeovers and r other revocations.
Last(q, x, n, k, r) ==
    \/ /\ \A j \in 1..n - 1 : q[j].kind # "state"
       /\ x.known = k /\ Rank(x) = r
    \/ \E m \in 1..n - 1 :
        /\ q[m].kind = "state" /\ q[m].known = k /\ Rank(q[m]) = r
        /\ \A j \in 1..n - 1 : m < j => q[j].kind # "state"

\* Of takeovers the daemon learns in order, and of revocations never before
\* they happened.
InOrder(q, x, k, r) ==
    /\ x.known <= k /\ Rank(x) <= r
    /\ \A n \in 1..Len(q) : q[n].kind = "state" =>
        x.known <= q[n].known /\ q[n].known <= k /\ Rank(q[n]) <= r
    /\ \A n, m \in 1..Len(q) : n < m /\ q[n].kind = "state" /\ q[m].kind = "state" =>
        q[n].known <= q[m].known

KnowInv ==
    /\ InOrder(toDaemon, seen, takeovers, Now)
    /\ Last(toDaemon, seen, Len(toDaemon) + 1, takeovers, Now)
    /\ controlEpoch <= Now + Revs(toComp) + seen.known
    /\ typing # 0 =>
        /\ Current.epoch <= Now + Revs(toComp) + Current.known
        /\ Current.known <= seen.known

\* No revocation is behind the request for an answer.
SyncQuiet(q, t) ==
    \A n, m \in 1..Len(q) :
        q[n].kind = "sync" /\ q[n].token = t /\ n < m => q[m].kind # "revoke"

\* From event n on the daemon is told of no revocation.
Steady(q, n, r) == \A m \in 1..Len(q) : n < m /\ q[m].kind = "state" => Rank(q[m]) = r

\* The answer under way, and the answer that was read.
AnswerQuiet(t, k) ==
    \A n \in 1..Len(toDaemon) : toDaemon[n].kind = "synced" /\ toDaemon[n].token = t =>
        /\ Quiet /\ k <= toDaemon[n].known
        /\ Last(toDaemon, seen, n, toDaemon[n].known, Now)
        /\ Steady(toDaemon, n, Now)

ReadQuiet(t, k) ==
    seen.authToken = t =>
        /\ Quiet /\ k <= seen.authKnown
        /\ Rank(seen) = Now /\ seen.authEpoch - seen.authKnown = Now
        /\ Steady(toDaemon, 0, Now)

\* Nobody asked yet on behalf of an operation that is still to come.
AsksPast ==
    /\ \A n \in 1..Len(toComp) : toComp[n].kind = "sync" => toComp[n].token <= nextOperation
    /\ \A n \in 1..Len(toDaemon) : toDaemon[n].kind = "synced" => toDaemon[n].token <= nextOperation
    /\ seen.authToken <= nextOperation

AskInv ==
    /\ AsksPast
    /\ typing # 0 =>
        /\ SyncQuiet(toComp, typing)
        /\ AnswerQuiet(typing, Current.known)
        /\ ReadQuiet(typing, Current.known)

LEMMA RanksAre ==
    /\ CompTyped => Now \in Int
    /\ \A m \in Events : m.kind = "state" => m.known \in Nat /\ Rank(m) \in Int
    /\ \A x \in Views : x.known \in Nat /\ x.epoch \in Nat /\ Rank(x) \in Int
                        /\ x.authKnown \in Nat /\ x.authEpoch \in Nat /\ x.authToken \in 0..MaxAccepted
  <1>1. CompTyped => Now \in Int
    BY DEF CompTyped, Now
  <1>2. \A m \in Events : m.kind = "state" => m.known \in Nat /\ Rank(m) \in Int
    BY EventFields DEF Rank
  <1>3. \A x \in Views : x.known \in Nat /\ x.epoch \in Nat /\ x.authKnown \in Nat /\ x.authEpoch \in Nat
                         /\ x.authToken \in 0..MaxAccepted
    BY DEF Views
  <1>4. \A x \in Views : Rank(x) \in Int
    BY <1>3 DEF Rank
  <1> QED BY <1>1, <1>2, <1>3, <1>4

LEMMA RevokesFinite ==
    ASSUME NEW q \in Seq(Requests)
    PROVE  /\ IsFiniteSet(RevokesIn(q)) /\ Revs(q) \in Nat
           /\ RevokesIn(q) = {} => Revs(q) = 0
  <1>1. Len(q) \in Int /\ 1 \in Int
    OBVIOUS
  <1>2. IsFiniteSet(RevokesIn(q))
    <2>1. IsFiniteSet(1..Len(q))
      BY <1>1, FS_Interval
    <2>2. RevokesIn(q) \subseteq 1..Len(q)
      BY DEF RevokesIn
    <2> QED BY <2>1, <2>2, FS_Subset
  <1> QED BY <1>2, FS_CardinalityType, FS_EmptySet DEF Revs

LEMMA RevokesAppend ==
    ASSUME NEW q \in Seq(Requests), NEW m \in Requests
    PROVE  /\ m.kind = "revoke" => Revs(Append(q, m)) = Revs(q) + 1
           /\ m.kind # "revoke" => RevokesIn(Append(q, m)) = RevokesIn(q)
  <1> DEFINE r == Append(q, m)
  <1>1. /\ Len(q) \in Nat /\ Len(r) = Len(q) + 1 /\ r[Len(q) + 1] = m
        /\ \A n \in 1..Len(q) : r[n] = q[n] /\ n \in 1..Len(r)
        /\ \A n \in 1..Len(r) : n \in 1..Len(q) \/ n = Len(q) + 1
        /\ Len(q) + 1 \in 1..Len(r) /\ Len(q) + 1 \notin 1..Len(q)
    BY AppendIs
  <1> HIDE DEF r
  <1>2. m.kind # "revoke" => RevokesIn(r) = RevokesIn(q)
    BY <1>1 DEF RevokesIn
  <1>3. m.kind = "revoke" => RevokesIn(r) = RevokesIn(q) \cup {Len(q) + 1}
    BY <1>1 DEF RevokesIn
  <1>4. Len(q) + 1 \notin RevokesIn(q)
    BY <1>1 DEF RevokesIn
  <1>5. m.kind = "revoke" => Revs(r) = Revs(q) + 1
    BY <1>3, <1>4, RevokesFinite, FS_AddElement DEF Revs
  <1> QED BY <1>2, <1>5 DEF r

LEMMA RevokesTail ==
    ASSUME NEW q \in Seq(Requests), q # <<>>
    PROVE  /\ Head(q).kind = "revoke" => Revs(q) = Revs(Tail(q)) + 1 /\ RevokesIn(q) # {}
           /\ Head(q).kind # "revoke" => Revs(Tail(q)) = Revs(q)
           /\ RevokesIn(q) = {} => RevokesIn(Tail(q)) = {}
  <1> DEFINE r == Tail(q)
             A == RevokesIn(r)
             B == RevokesIn(q) \ {1}
             f == [n \in A |-> n + 1]
  <1>1. /\ Head(q) = q[1] /\ 1 \in 1..Len(q) /\ Len(q) \in Nat /\ Len(r) = Len(q) - 1
        /\ r \in Seq(Requests)
        /\ \A n \in 1..Len(r) : n + 1 \in 1..Len(q) /\ r[n] = q[n + 1]
    BY TailIs
  <1> HIDE DEF r
  <1>2. \A n \in A : n \in Nat /\ n + 1 \in B
    BY <1>1 DEF RevokesIn
  <1>3. \A n \in B : n - 1 \in A /\ (n - 1) + 1 = n
    <2> SUFFICES ASSUME NEW n \in B PROVE n - 1 \in A /\ (n - 1) + 1 = n
      OBVIOUS
    <2>1. n \in 1..Len(q) /\ n # 1 /\ q[n].kind = "revoke"
      BY DEF RevokesIn
    <2>2. n - 1 \in 1..Len(r) /\ (n - 1) + 1 = n
      BY <1>1, <2>1
    <2> QED BY <1>1, <2>1, <2>2 DEF RevokesIn
  <1>4. IsFiniteSet(A) /\ IsFiniteSet(RevokesIn(q))
    BY <1>1, RevokesFinite
  <1>5. ExistsBijection(A, B)
    <2>1. f \in [A -> B]
      BY <1>2
    <2>2. \A n, m \in A : f[n] = f[m] => n = m
      BY <1>2
    <2>3. \A b \in B : \E n \in A : f[n] = b
      BY <1>3
    <2>4. f \in Bijection(A, B)
      BY <2>1, <2>2, <2>3 DEF Bijection, Injection, Surjection, IsInjective
    <2> QED BY <2>4 DEF ExistsBijection
  <1>6. Cardinality(B) = Cardinality(A)
    BY <1>4, <1>5, FS_Bijection
  <1>7. 1 \in RevokesIn(q) <=> Head(q).kind = "revoke"
    BY <1>1 DEF RevokesIn
  <1>8. /\ Cardinality(RevokesIn(q)) \in Nat
        /\ Cardinality(B) = IF 1 \in RevokesIn(q) THEN Cardinality(RevokesIn(q)) - 1
                                                  ELSE Cardinality(RevokesIn(q))
    BY <1>4, FS_RemoveElement, FS_CardinalityType
  <1>9. RevokesIn(q) = {} => A = {}
    BY <1>2
  <1> QED BY <1>6, <1>7, <1>8, <1>9 DEF Revs, r

LEMMA LastMore ==
    ASSUME NEW q \in Seq(Events), NEW m \in Events, NEW x, NEW k, NEW r
    PROVE  /\ \A n \in 1..Len(q) : Last(q, x, n, k, r) => Last(Append(q, m), x, n, k, r)
           /\ m.kind # "state" /\ Last(q, x, Len(q) + 1, k, r) =>
                  Last(Append(q, m), x, Len(q) + 2, k, r)
           /\ Last(q, x, Len(q) + 1, k, r) => Last(Append(q, m), x, Len(q) + 1, k, r)
           /\ m.kind = "state" /\ m.known = k /\ Rank(m) = r =>
                  Last(Append(q, m), x, Len(q) + 2, k, r)
  <1> DEFINE s == Append(q, m)
  <1>1. /\ Len(q) \in Nat /\ s[Len(q) + 1] = m
        /\ \A n \in 1..Len(q) : s[n] = q[n]
    BY AppendIs
  <1> HIDE DEF s
  <1>2. \A n \in 1..Len(q) : \A j \in 1..n - 1 : j \in 1..Len(q)
    BY <1>1
  <1>3. \A n \in 1..Len(q) : Last(q, x, n, k, r) => Last(s, x, n, k, r)
    BY <1>1, <1>2 DEF Last
  <1>4. (Len(q) + 1) - 1 = Len(q) /\ (Len(q) + 2) - 1 = Len(q) + 1
    BY <1>1
  <1>5. Last(q, x, Len(q) + 1, k, r) => Last(s, x, Len(q) + 1, k, r)
    BY <1>1, <1>4 DEF Last
  <1>6. \A j \in 1..Len(q) + 1 : j \in 1..Len(q) \/ j = Len(q) + 1
    BY <1>1
  <1>7. \A j \in 1..Len(q) : j \in 1..Len(q) + 1
    BY <1>1
  <1>8. m.kind # "state" /\ Last(q, x, Len(q) + 1, k, r) => Last(s, x, Len(q) + 2, k, r)
    BY <1>1, <1>4, <1>6, <1>7 DEF Last
  <1>9. Len(q) + 1 \in 1..Len(q) + 1 /\ \A j \in 1..Len(q) + 1 : ~(Len(q) + 1 < j)
    BY <1>1
  <1>10. m.kind = "state" /\ m.known = k /\ Rank(m) = r => Last(s, x, Len(q) + 2, k, r)
    BY <1>1, <1>4, <1>9 DEF Last
  <1> QED BY <1>3, <1>5, <1>8, <1>10 DEF s

\* Reading an event: y is what x becomes.
ReadAs(x, y, m) ==
    IF m.kind = "state" THEN y.known = m.known /\ Rank(y) = Rank(m)
                        ELSE y.known = x.known /\ Rank(y) = Rank(x)

LEMMA LastRead ==
    ASSUME NEW q \in Seq(Events), q # <<>>, NEW x, NEW y, ReadAs(x, y, Head(q)), NEW k, NEW r
    PROVE  \A n \in 1..Len(q) : Last(q, x, n + 1, k, r) => Last(Tail(q), y, n, k, r)
  <1> DEFINE s == Tail(q)
  <1>1. /\ Head(q) = q[1] /\ Len(q) \in Nat /\ Len(s) = Len(q) - 1
        /\ \A n \in 1..Len(s) : n + 1 \in 1..Len(q) /\ s[n] = q[n + 1]
    BY TailIs
  <1> HIDE DEF s
  <1> SUFFICES ASSUME NEW n \in 1..Len(q), Last(q, x, n + 1, k, r) PROVE Last(s, y, n, k, r)
    BY DEF s
  <1>2. (n + 1) - 1 = n /\ 1 \in 1..n /\ n \in Nat
    BY <1>1
  <1>3. \A j \in 1..n - 1 : j + 1 \in 1..n /\ s[j] = q[j + 1]
    BY <1>1, <1>2
  <1>4. CASE (\A j \in 1..n : q[j].kind # "state") /\ x.known = k /\ Rank(x) = r
    <2>1. \A j \in 1..n - 1 : s[j].kind # "state"
      BY <1>3, <1>4
    <2>2. y.known = k /\ Rank(y) = r
      BY <1>1, <1>2, <1>4 DEF ReadAs
    <2> QED BY <2>1, <2>2 DEF Last
  <1>5. ASSUME NEW m \in 1..n, q[m].kind = "state" /\ q[m].known = k /\ Rank(q[m]) = r,
               \A j \in 1..n : m < j => q[j].kind # "state"
        PROVE  Last(s, y, n, k, r)
    <2>1. CASE m = 1
      <3>1. \A j \in 1..n - 1 : 1 < j + 1
        BY <1>2
      <3>2. \A j \in 1..n - 1 : s[j].kind # "state"
        BY <1>3, <1>5, <2>1, <3>1
      <3>3. y.known = k /\ Rank(y) = r
        BY <1>1, <1>5, <2>1 DEF ReadAs
      <3> QED BY <3>2, <3>3 DEF Last
    <2>2. CASE m # 1
      <3>1. m - 1 \in 1..n - 1 /\ (m - 1) + 1 = m
        BY <1>2, <2>2
      <3>2. s[m - 1] = q[m]
        BY <1>3, <3>1
      <3>3. \A j \in 1..n - 1 : m - 1 < j => m < j + 1
        BY <1>2, <2>2
      <3>4. \A j \in 1..n - 1 : m - 1 < j => s[j].kind # "state"
        BY <1>3, <1>5, <3>3
      <3> QED BY <1>5, <3>1, <3>2, <3>4 DEF Last
    <2> QED BY <2>1, <2>2
  <1> QED BY <1>2, <1>4, <1>5 DEF Last

LEMMA InOrderMore ==
    ASSUME NEW q \in Seq(Events), NEW x \in Views, NEW k \in Nat, NEW r \in Int,
           InOrder(q, x, k, r), NEW K \in Nat, k <= K, NEW R \in Int, r <= R
    PROVE  /\ InOrder(q, x, K, R)
           /\ \A m \in Events : (m.kind = "state" => m.known = K /\ Rank(m) <= R)
                                    => InOrder(Append(q, m), x, K, R)
  <1>1. x.known \in Nat /\ Rank(x) \in Int
    BY RanksAre
  <1>2. \A n \in 1..Len(q) : q[n].kind = "state" =>
            q[n].known \in Nat /\ Rank(q[n]) \in Int /\ q[n].known <= K /\ Rank(q[n]) <= R
    <2> SUFFICES ASSUME NEW n \in 1..Len(q), q[n].kind = "state"
                 PROVE  q[n].known \in Nat /\ Rank(q[n]) \in Int /\ q[n].known <= K /\ Rank(q[n]) <= R
      OBVIOUS
    <2>1. q[n] \in Events
      OBVIOUS
    <2>2. q[n].known \in Nat /\ Rank(q[n]) \in Int
      BY <2>1, RanksAre
    <2>3. q[n].known <= k /\ Rank(q[n]) <= r
      BY DEF InOrder
    <2> QED BY <2>2, <2>3
  <1>3. x.known <= K /\ Rank(x) <= R
    BY <1>1 DEF InOrder
  <1>4. InOrder(q, x, K, R)
    BY <1>2, <1>3 DEF InOrder
  <1>5. ASSUME NEW m \in Events, m.kind = "state" => m.known = K /\ Rank(m) <= R
        PROVE  InOrder(Append(q, m), x, K, R)
    <2> DEFINE s == Append(q, m)
    <2>1. /\ Len(q) \in Nat /\ s[Len(q) + 1] = m
          /\ \A n \in 1..Len(q) : s[n] = q[n]
          /\ \A n \in 1..Len(s) : n \in 1..Len(q) \/ n = Len(q) + 1
      BY AppendIs
    <2> HIDE DEF s
    <2>2. \A n \in 1..Len(s) : s[n].kind = "state" =>
              x.known <= s[n].known /\ s[n].known <= K /\ Rank(s[n]) <= R
      <3> SUFFICES ASSUME NEW n \in 1..Len(s), s[n].kind = "state"
                   PROVE  x.known <= s[n].known /\ s[n].known <= K /\ Rank(s[n]) <= R
        OBVIOUS
      <3>1. CASE n \in 1..Len(q)
        BY <2>1, <3>1, <1>4 DEF InOrder
      <3>2. CASE n = Len(q) + 1
        BY <1>3, <1>5, <2>1, <3>2
      <3> QED BY <2>1, <3>1, <3>2
    <2>3. ASSUME NEW n \in 1..Len(s), NEW o \in 1..Len(s), n < o,
                 s[n].kind = "state" /\ s[o].kind = "state"
          PROVE  s[n].known <= s[o].known
      <3>1. n \in 1..Len(q)
        BY <2>1, <2>3
      <3>2. CASE o \in 1..Len(q)
        BY <2>1, <2>3, <3>1, <3>2 DEF InOrder
      <3>3. CASE o = Len(q) + 1
        BY <1>2, <1>5, <2>1, <2>3, <3>1, <3>3
      <3> QED BY <2>1, <3>2, <3>3
    <2>4. InOrder(s, x, K, R)
      BY <1>3, <2>2, <2>3 DEF InOrder
    <2> QED BY <2>4 DEF s
  <1> QED BY <1>4, <1>5

LEMMA InOrderRead ==
    ASSUME NEW q \in Seq(Events), q # <<>>, NEW x \in Views, NEW y \in Views,
           ReadAs(x, y, Head(q)), NEW k \in Nat, NEW r \in Int, InOrder(q, x, k, r)
    PROVE  InOrder(Tail(q), y, k, r) /\ x.known <= y.known
  <1> DEFINE s == Tail(q)
  <1>1. /\ Head(q) = q[1] /\ 1 \in 1..Len(q) /\ Len(q) \in Nat
        /\ \A n \in 1..Len(s) : n + 1 \in 1..Len(q) /\ s[n] = q[n + 1] /\ 1 < n + 1
    BY TailIs
  <1> HIDE DEF s
  <1>2. x.known \in Nat
    BY RanksAre
  <1>3. y.known <= k /\ Rank(y) <= r /\ x.known <= y.known
    BY <1>1, <1>2 DEF InOrder, ReadAs
  <1>4. \A n \in 1..Len(s) : s[n].kind = "state" =>
            y.known <= s[n].known /\ s[n].known <= k /\ Rank(s[n]) <= r
    BY <1>1 DEF InOrder, ReadAs
  <1>5. \A n, m \in 1..Len(s) : n < m /\ s[n].kind = "state" /\ s[m].kind = "state" =>
            s[n].known <= s[m].known
    <2> SUFFICES ASSUME NEW n \in 1..Len(s), NEW m \in 1..Len(s), n < m,
                        s[n].kind = "state" /\ s[m].kind = "state"
                 PROVE  s[n].known <= s[m].known
      OBVIOUS
    <2>1. n + 1 < m + 1
      OBVIOUS
    <2> QED BY <1>1, <2>1 DEF InOrder
  <1> QED BY <1>3, <1>4, <1>5 DEF InOrder, s

LEMMA SteadyMore ==
    ASSUME NEW q \in Seq(Events), NEW n \in Nat, NEW r, Steady(q, n, r)
    PROVE  /\ \A m \in Events : (m.kind = "state" => Rank(m) = r) => Steady(Append(q, m), n, r)
           /\ q # <<>> => /\ Steady(Tail(q), n, r)
                          /\ n > 0 => Steady(Tail(q), n - 1, r)
                          /\ n = 0 /\ Head(q).kind = "state" => Rank(Head(q)) = r
  <1>1. ASSUME NEW m \in Events, m.kind = "state" => Rank(m) = r
        PROVE  Steady(Append(q, m), n, r)
    BY <1>1, AppendIs DEF Steady
  <1>2. ASSUME q # <<>>
        PROVE  /\ Steady(Tail(q), n, r)
               /\ n > 0 => Steady(Tail(q), n - 1, r)
               /\ n = 0 /\ Head(q).kind = "state" => Rank(Head(q)) = r
    <2> DEFINE s == Tail(q)
    <2>1. /\ Head(q) = q[1] /\ 1 \in 1..Len(q)
          /\ \A j \in 1..Len(s) : j + 1 \in 1..Len(q) /\ s[j] = q[j + 1]
      BY <1>2, TailIs
    <2> HIDE DEF s
    <2>2. \A j \in 1..Len(s) : (n < j => n < j + 1) /\ (n - 1 < j => n < j + 1)
      OBVIOUS
    <2>3. Steady(s, n, r) /\ (n > 0 => Steady(s, n - 1, r))
      BY <2>1, <2>2 DEF Steady
    <2> QED BY <2>1, <2>3 DEF Steady, s
  <1> QED BY <1>1, <1>2


----------------------------------------------------------------------------
(* The kinds of steps, and what each does to KnowInv and AskInv.           *)

Aware == KnowInv /\ AskInv

SyncsPast(q, b) == \A n \in 1..Len(q) : q[n].kind = "sync" => q[n].token <= b

\* Requests q become r, and no revocation is among the new ones.
Calm(q, r, b) ==
    /\ RevokesIn(r) = RevokesIn(q)
    /\ \A t : SyncQuiet(q, t) => SyncQuiet(r, t)
    /\ SyncsPast(q, b) => SyncsPast(r, b)

LEMMA CalmMore ==
    ASSUME NEW q \in Seq(Requests), NEW m \in Requests, NEW b, NEW p
    PROVE  /\ m.kind # "revoke" /\ (m.kind = "sync" => m.token <= b) /\ Calm(p, q, b)
                => Calm(p, Append(q, m), b)
           /\ m.kind # "sync" /\ SyncsPast(q, b) => SyncsPast(Append(q, m), b)
  <1> DEFINE r == Append(q, m)
  <1>1. /\ Len(q) \in Nat /\ r[Len(q) + 1] = m
        /\ \A n \in 1..Len(q) : r[n] = q[n]
        /\ \A n \in 1..Len(r) : n \in 1..Len(q) \/ n = Len(q) + 1
    BY AppendIs
  <1>2. m.kind # "revoke" => RevokesIn(r) = RevokesIn(q)
    BY RevokesAppend
  <1> HIDE DEF r
  <1>3. (m.kind = "sync" => m.token <= b) /\ SyncsPast(q, b) => SyncsPast(r, b)
    BY <1>1 DEF SyncsPast
  <1>4. ASSUME m.kind # "revoke", NEW t, SyncQuiet(q, t) PROVE SyncQuiet(r, t)
    <2>1. ASSUME NEW n \in 1..Len(r), NEW o \in 1..Len(r), n < o,
                 r[n].kind = "sync" /\ r[n].token = t
          PROVE  r[o].kind # "revoke"
      <3>1. CASE o = Len(q) + 1
        BY <1>1, <1>4, <3>1
      <3>2. CASE o \in 1..Len(q)
        <4>1. n \in 1..Len(q)
          BY <1>1, <2>1, <3>2
        <4> QED BY <1>1, <1>4, <2>1, <3>2, <4>1 DEF SyncQuiet
      <3> QED BY <1>1, <3>1, <3>2
    <2> QED BY <2>1 DEF SyncQuiet
  <1> QED BY <1>2, <1>3, <1>4 DEF Calm, r

LEMMA CalmItself ==
    ASSUME NEW q, NEW b
    PROVE  Calm(q, q, b)
  BY DEF Calm

LEMMA SyncTail ==
    ASSUME NEW q \in Seq(Requests), q # <<>>, NEW b
    PROVE  /\ \A t : SyncQuiet(q, t) => SyncQuiet(Tail(q), t)
           /\ SyncsPast(q, b) => SyncsPast(Tail(q), b)
           /\ \A t : SyncQuiet(q, t) /\ Head(q).kind = "sync" /\ Head(q).token = t
                => RevokesIn(Tail(q)) = {}
           /\ SyncsPast(q, b) /\ Head(q).kind = "sync" => Head(q).token <= b
  <1> DEFINE r == Tail(q)
  <1>1. /\ Head(q) = q[1] /\ 1 \in 1..Len(q) /\ Len(q) \in Nat
        /\ \A n \in 1..Len(r) : n + 1 \in 1..Len(q) /\ r[n] = q[n + 1] /\ 1 < n + 1
    BY TailIs
  <1> HIDE DEF r
  <1>2. \A n, m \in 1..Len(r) : n < m => n + 1 < m + 1
    OBVIOUS
  <1>3. \A t : SyncQuiet(q, t) => SyncQuiet(r, t)
    BY <1>1, <1>2 DEF SyncQuiet
  <1>4. SyncsPast(q, b) => SyncsPast(r, b)
    BY <1>1 DEF SyncsPast
  <1>5. \A t : SyncQuiet(q, t) /\ q[1].kind = "sync" /\ q[1].token = t => RevokesIn(r) = {}
    BY <1>1 DEF SyncQuiet, RevokesIn
  <1>6. SyncsPast(q, b) /\ Head(q).kind = "sync" => Head(q).token <= b
    BY <1>1 DEF SyncsPast
  <1> QED BY <1>1, <1>3, <1>4, <1>5, <1>6 DEF r

SameView ==
    /\ seen'.known = seen.known /\ seen'.epoch = seen.epoch
    /\ seen'.authToken = seen.authToken /\ seen'.authEpoch = seen.authEpoch
    /\ seen'.authKnown = seen.authKnown

SameCurrent ==
    \/ typing' = 0
    \/ typing' = typing /\ Current'.epoch = Current.epoch /\ Current'.known = Current.known

SameComp == UNCHANGED <<epoch, takeovers, toDaemon>>

\* The numbers involved.
LEMMA NumbersAre ==
    ASSUME IInv
    PROVE  /\ Now \in Int /\ Revs(toComp) \in Nat /\ controlEpoch \in Nat /\ takeovers \in Nat
           /\ seen \in Views /\ seen.known \in Nat /\ seen.epoch \in Nat /\ Rank(seen) \in Int
           /\ seen.epoch = Rank(seen) + seen.known
           /\ seen.authKnown \in Nat /\ seen.authEpoch \in Nat /\ seen.authToken \in Nat
           /\ toComp \in Seq(Requests) /\ toDaemon \in Seq(Events) /\ Len(toDaemon) \in Nat
           /\ nextOperation \in Nat /\ typing \in {0, nextOperation}
           /\ typing # 0 => Current.epoch \in Nat /\ Current.known \in Nat
  <1>1. /\ CompTyped /\ seen \in Views /\ controlEpoch \in Nat /\ takeovers \in Nat
        /\ toComp \in Seq(Requests) /\ toDaemon \in Seq(Events)
    BY DEF IInv, CompTyped, LinkTyped
  <1>2. seen.known \in Nat /\ seen.epoch \in Nat
        /\ seen.authKnown \in Nat /\ seen.authEpoch \in Nat /\ seen.authToken \in 0..MaxAccepted
    BY <1>1, RanksAre
  <1>3. seen.authToken \in Nat
    BY <1>2, SizesAre
  <1>4. nextOperation \in Nat /\ typing \in {0, nextOperation}
    BY SizesAre DEF IInv, BookTyped
  <1>5. typing # 0 => Current.epoch \in Nat /\ Current.known \in Nat
    BY CurrentIs, ReceiptFields DEF IInv
  <1>6. Rank(seen) \in Int /\ seen.epoch = Rank(seen) + seen.known
    BY <1>2 DEF Rank
  <1>7. Revs(toComp) \in Nat
    BY <1>1, RevokesFinite
  <1> QED BY <1>1, <1>2, <1>3, <1>4, <1>5, <1>6, <1>7, RanksAre

\* The daemon does something but does not read what the compositor said.
LEMMA KnowDaemon ==
    ASSUME IInv, IInv', KnowInv, SameComp, SameView, SameCurrent,
           Revs(toComp) <= Revs(toComp)',
           controlEpoch' <= Now + Revs(toComp)' + seen.known
    PROVE  KnowInv'
  <1>1. Now' = Now /\ toDaemon' = toDaemon /\ takeovers' = takeovers
    BY DEF SameComp, Now
  <1>2. Rank(seen)' = Rank(seen) /\ seen'.known = seen.known
    BY DEF SameView, Rank
  <1>3. InOrder(toDaemon, seen, takeovers, Now)'
    BY <1>1, <1>2 DEF KnowInv, InOrder, Rank
  <1>4. Last(toDaemon, seen, Len(toDaemon) + 1, takeovers, Now)'
    <2>1. Last(toDaemon, seen', Len(toDaemon) + 1, takeovers, Now)
      BY <1>2 DEF KnowInv, Last, Rank
    <2> QED BY <1>1, <2>1
  <1>5. controlEpoch' <= Now' + Revs(toComp)' + seen'.known
    BY <1>1, <1>2
  <1>6. ASSUME typing' # 0
        PROVE  Current'.epoch <= Now' + Revs(toComp)' + Current'.known /\ Current'.known <= seen'.known
    <2>1. typing # 0 /\ Current'.epoch = Current.epoch /\ Current'.known = Current.known
      BY <1>6 DEF SameCurrent
    <2>2. Current.epoch <= Now + Revs(toComp) + Current.known /\ Current.known <= seen.known
      BY <2>1 DEF KnowInv
    <2>3. Now \in Int /\ Revs(toComp) \in Nat /\ Current.epoch \in Nat /\ Current.known \in Nat
      BY <2>1, NumbersAre
    <2>4. toComp' \in Seq(Requests) /\ Revs(toComp)' \in Nat
      BY RevokesFinite DEF IInv, LinkTyped
    <2> QED BY <1>1, <1>2, <2>1, <2>2, <2>3, <2>4
  <1> QED BY <1>3, <1>4, <1>5, <1>6 DEF KnowInv

LEMMA AskDaemon ==
    ASSUME IInv, IInv', AskInv, SameComp, nextOperation' = nextOperation, SameView, SameCurrent,
           SyncsPast(toComp, nextOperation) => SyncsPast(toComp', nextOperation),
           typing' # 0 => Calm(toComp, toComp', nextOperation)
    PROVE  AskInv'
  <1>1. Now' = Now /\ toDaemon' = toDaemon
    BY DEF SameComp, Now
  <1>2. Rank(seen)' = Rank(seen)
    BY DEF SameView, Rank
  <1>3. AsksPast'
    BY <1>1 DEF AskInv, AsksPast, SyncsPast, SameView
  <1>4. ASSUME typing' # 0
        PROVE  /\ SyncQuiet(toComp, typing)'
               /\ AnswerQuiet(typing, Current.known)'
               /\ ReadQuiet(typing, Current.known)'
    <2>1. typing # 0 /\ typing' = typing /\ Current'.known = Current.known
      BY <1>4 DEF SameCurrent
    <2>2. Calm(toComp, toComp', nextOperation)
      BY <1>4
    <2>3. Quiet' = Quiet
      BY <2>2 DEF Quiet, Calm
    <2>4. SyncQuiet(toComp, typing)'
      BY <2>1, <2>2 DEF AskInv, Calm
    <2>5. \A n, k : Last(toDaemon, seen, n, k, Now) => Last(toDaemon, seen', n, k, Now)
      BY <1>2 DEF Last, SameView, Rank
    <2>6. AnswerQuiet(typing, Current.known)'
      BY <1>1, <2>1, <2>3, <2>5 DEF AskInv, AnswerQuiet
    <2>7. ReadQuiet(typing, Current.known)'
      BY <1>1, <1>2, <2>1, <2>3 DEF AskInv, ReadQuiet, SameView
    <2> QED BY <2>4, <2>6, <2>7
  <1> QED BY <1>3, <1>4 DEF AskInv

LEMMA CalmStep ==
    ASSUME IInv, IInv', Aware, SameComp, UNCHANGED <<nextOperation, controlEpoch>>,
           SameView, SameCurrent, Calm(toComp, toComp', nextOperation)
    PROVE  Aware'
  <1>1. Revs(toComp)' = Revs(toComp)
    BY DEF Calm, Revs
  <1>2. Revs(toComp) <= Revs(toComp)' /\ controlEpoch' <= Now + Revs(toComp)' + seen.known
    BY <1>1, NumbersAre DEF Aware, KnowInv
  <1>3. KnowInv'
    BY <1>2, KnowDaemon DEF Aware
  <1>4. AskInv'
    BY AskDaemon DEF Aware, Calm
  <1> QED BY <1>3, <1>4 DEF Aware

LEMMA RevokeStep ==
    ASSUME IInv, IInv', Aware, SameComp, nextOperation' = nextOperation,
           SameView, typing' = 0, controlEpoch' = controlEpoch + 1,
           NEW q \in Seq(Requests), Calm(toComp, q, nextOperation),
           toComp' = Append(q, RevokeRequest)
    PROVE  Aware'
  <1>1. Revs(toComp)' = Revs(toComp) + 1
    BY RequestsAre, RevokesAppend DEF Calm, Revs
  <1>a. /\ Now \in Int /\ Revs(toComp) \in Nat /\ controlEpoch \in Nat /\ seen.known \in Nat
        /\ controlEpoch <= Now + Revs(toComp) + seen.known
    BY NumbersAre DEF Aware, KnowInv
  <1>b. PICK n \in Nat : n = Revs(toComp)
    BY <1>a
  <1>2. Revs(toComp) <= Revs(toComp)' /\ controlEpoch' <= Now + Revs(toComp)' + seen.known
    <2>1. n <= n + 1 /\ controlEpoch + 1 <= Now + (n + 1) + seen.known
      BY <1>a, <1>b
    <2> QED BY <1>1, <1>b, <2>1
  <1>3. KnowInv'
    BY <1>2, KnowDaemon DEF Aware, SameCurrent
  <1>4. SyncsPast(toComp, nextOperation) => SyncsPast(toComp', nextOperation)
    BY RequestsAre, CalmMore DEF Calm
  <1>5. AskInv'
    BY <1>4, AskDaemon DEF Aware, SameCurrent
  <1> QED BY <1>3, <1>5 DEF Aware


\* sync_control_state: the daemon takes over the epoch it was told.
LEMMA TakeoverStep ==
    ASSUME IInv, IInv', Aware, SameComp, UNCHANGED <<nextOperation, toComp>>,
           SameView, typing' = 0, controlEpoch' = seen.epoch
    PROVE  Aware'
  <1>1. seen.epoch <= Now + Revs(toComp) + seen.known
    <2>1. Rank(seen) <= Now
      BY DEF Aware, KnowInv, InOrder
    <2> QED BY <2>1, NumbersAre
  <1>2. Revs(toComp)' = Revs(toComp) /\ Revs(toComp) <= Revs(toComp)'
    BY NumbersAre DEF Revs
  <1>3. KnowInv'
    BY <1>1, <1>2, KnowDaemon DEF Aware, SameCurrent
  <1>4. AskInv'
    BY AskDaemon DEF Aware, SameCurrent
  <1> QED BY <1>3, <1>4 DEF Aware

\* An operation begins.
LEMMA FreshStep ==
    ASSUME IInv, IInv', Aware, SameComp, SameView, controlEpoch' = controlEpoch,
           nextOperation' = nextOperation + 1, Calm(toComp, toComp', nextOperation),
           \/ typing' = 0
           \/ /\ typing' = nextOperation'
              /\ Current'.epoch = controlEpoch /\ Current'.known = seen.known
    PROVE  Aware'
  <1>1. Now' = Now /\ toDaemon' = toDaemon /\ takeovers' = takeovers
    BY DEF SameComp, Now
  <1>2. Rank(seen)' = Rank(seen) /\ seen'.known = seen.known
    BY DEF SameView, Rank
  <1>3. Revs(toComp)' = Revs(toComp)
    BY DEF Calm, Revs
  <1>4. InOrder(toDaemon, seen, takeovers, Now)'
    BY <1>1, <1>2 DEF Aware, KnowInv, InOrder, Rank
  <1>5. Last(toDaemon, seen, Len(toDaemon) + 1, takeovers, Now)'
    <2>1. Last(toDaemon, seen', Len(toDaemon) + 1, takeovers, Now)
      BY <1>2 DEF Aware, KnowInv, Last, Rank
    <2> QED BY <1>1, <2>1
  <1>6. controlEpoch <= Now + Revs(toComp) + seen.known
    BY DEF Aware, KnowInv
  <1>7. controlEpoch' <= Now' + Revs(toComp)' + seen'.known
    BY <1>1, <1>2, <1>3, <1>6
  <1>8. typing' # 0 =>
            Current'.epoch <= Now' + Revs(toComp)' + Current'.known /\ Current'.known <= seen'.known
    <2>1. typing' # 0 => Current'.epoch = controlEpoch /\ Current'.known = seen.known
      OBVIOUS
    <2>2. seen'.known = seen.known /\ seen.known <= seen.known
      BY <1>2, NumbersAre
    <2>3. controlEpoch <= Now' + Revs(toComp)' + seen.known
      BY <1>2, <1>7
    <2> QED BY <2>1, <2>2, <2>3
  <1>9. KnowInv'
    BY <1>4, <1>5, <1>7, <1>8 DEF KnowInv
  <1>10. nextOperation \in Nat /\ nextOperation < nextOperation + 1
    BY NumbersAre
  <1>11. SyncsPast(toComp', nextOperation)
    BY DEF Aware, AskInv, AsksPast, Calm, SyncsPast
  <1>12. \A n \in 1..Len(toDaemon) : toDaemon[n].kind = "synced" => toDaemon[n].token <= nextOperation
    BY DEF Aware, AskInv, AsksPast
  <1>13. seen'.authToken <= nextOperation /\ seen'.authToken \in Nat
    BY NumbersAre DEF Aware, AskInv, AsksPast, SameView
  <1>14. /\ toComp' \in Seq(Requests) /\ toDaemon \in Seq(Events)
         /\ \A m \in Requests : m.kind = "sync" => m.token \in Nat
         /\ \A m \in Events : m.kind = "synced" => m.token \in Nat
    <2>1. \A m \in Requests : m.kind = "sync" => m.token \in 0..MaxAccepted
      BY DEF Requests
    <2>2. \A m \in Events : m.kind = "synced" => m.token \in 0..MaxAccepted
      BY EventFields
    <2>3. \A n \in 0..MaxAccepted : n \in Nat
      BY SizesAre
    <2> QED BY <2>1, <2>2, <2>3, NumbersAre DEF IInv, LinkTyped
  <1>15. \A n \in 1..Len(toComp') : toComp'[n].kind = "sync" =>
            toComp'[n].token <= nextOperation + 1 /\ toComp'[n].token # nextOperation + 1
    <2> SUFFICES ASSUME NEW n \in 1..Len(toComp'), toComp'[n].kind = "sync"
                 PROVE  toComp'[n].token <= nextOperation + 1 /\ toComp'[n].token # nextOperation + 1
      OBVIOUS
    <2>1. toComp'[n] \in Requests
      BY <1>14
    <2>2. toComp'[n].token \in Nat /\ toComp'[n].token <= nextOperation
      BY <1>11, <1>14, <2>1 DEF SyncsPast
    <2> QED BY <1>10, <2>2
  <1>16. \A n \in 1..Len(toDaemon) : toDaemon[n].kind = "synced" =>
            toDaemon[n].token <= nextOperation + 1 /\ toDaemon[n].token # nextOperation + 1
    <2> SUFFICES ASSUME NEW n \in 1..Len(toDaemon), toDaemon[n].kind = "synced"
                 PROVE  toDaemon[n].token <= nextOperation + 1 /\ toDaemon[n].token # nextOperation + 1
      OBVIOUS
    <2>1. toDaemon[n] \in Events
      BY <1>14
    <2>2. toDaemon[n].token \in Nat /\ toDaemon[n].token <= nextOperation
      BY <1>12, <1>14, <2>1
    <2> QED BY <1>10, <2>2
  <1>17. seen'.authToken <= nextOperation + 1 /\ seen'.authToken # nextOperation + 1
    BY <1>10, <1>13
  <1>18. AsksPast'
    BY <1>1, <1>15, <1>16, <1>17 DEF AsksPast
  <1>19. ASSUME typing' # 0
         PROVE  /\ SyncQuiet(toComp, typing)' /\ AnswerQuiet(typing, Current.known)'
                /\ ReadQuiet(typing, Current.known)'
    <2>1. typing' = nextOperation + 1
      BY <1>19
    <2>2. SyncQuiet(toComp, typing)'
      BY <1>15, <2>1 DEF SyncQuiet
    <2>3. AnswerQuiet(typing, Current.known)'
      BY <1>1, <1>16, <2>1 DEF AnswerQuiet
    <2>4. ReadQuiet(typing, Current.known)'
      BY <1>17, <2>1 DEF ReadQuiet
    <2> QED BY <2>2, <2>3, <2>4
  <1>20. AskInv'
    BY <1>18, <1>19 DEF AskInv
  <1> QED BY <1>9, <1>20 DEF Aware

\* The compositor takes a request and says something, or either.
Spoke(m) ==
    /\ m \in Events /\ toDaemon' = Append(toDaemon, m)
    /\ m.kind = "state" => m.known = takeovers' /\ Rank(m) = Now'
    /\ m.kind # "state" => Now' = Now /\ takeovers' = takeovers

Silent == toDaemon' = toDaemon /\ Now' = Now /\ takeovers' = takeovers

SameDaemon == UNCHANGED <<seen, controlEpoch, operations, typing, nextOperation>>

LEMMA KnowComp ==
    ASSUME IInv, IInv', KnowInv, SameDaemon, Now <= Now', takeovers <= takeovers',
           Now' + Revs(toComp)' = Now + Revs(toComp),
           Silent \/ \E m \in Events : Spoke(m)
    PROVE  KnowInv'
  <1>1. /\ Now \in Int /\ takeovers \in Nat /\ seen \in Views /\ toDaemon \in Seq(Events)
        /\ Len(toDaemon) \in Nat
    BY NumbersAre
  <1>2. Now' \in Int /\ takeovers' \in Nat
    BY DEF IInv, CompTyped, Now
  <1>3. seen' = seen /\ controlEpoch' = controlEpoch /\ typing' = typing /\ Current' = Current
    BY DEF SameDaemon, Current
  <1>4. InOrder(toDaemon', seen, takeovers', Now')
    <2>1. /\ InOrder(toDaemon, seen, takeovers', Now')
          /\ \A m \in Events : (m.kind = "state" => m.known = takeovers' /\ Rank(m) <= Now')
                                  => InOrder(Append(toDaemon, m), seen, takeovers', Now')
      BY <1>1, <1>2, InOrderMore DEF KnowInv
    <2>2. CASE Silent
      BY <2>1, <2>2 DEF Silent
    <2>3. ASSUME NEW m \in Events, Spoke(m) PROVE InOrder(toDaemon', seen, takeovers', Now')
      <3>1. toDaemon' = Append(toDaemon, m) /\ (m.kind = "state" => m.known = takeovers' /\ Rank(m) = Now')
        BY <2>3 DEF Spoke
      <3>2. m.kind = "state" => m.known = takeovers' /\ Rank(m) <= Now'
        BY <1>2, <3>1
      <3> QED BY <2>1, <3>1, <3>2
    <2> QED BY <2>2, <2>3
  <1>5. Last(toDaemon', seen, Len(toDaemon') + 1, takeovers', Now')
    <2>1. CASE Silent
      BY <2>1 DEF Silent, KnowInv
    <2>2. ASSUME NEW m \in Events, Spoke(m)
          PROVE  Last(toDaemon', seen, Len(toDaemon') + 1, takeovers', Now')
      <3>1. Len(toDaemon') + 1 = Len(toDaemon) + 2 /\ toDaemon' = Append(toDaemon, m)
        BY <1>1, <2>2, AppendIs DEF Spoke
      <3>2. Last(Append(toDaemon, m), seen, Len(toDaemon) + 2, takeovers', Now')
        <4>1. CASE m.kind = "state"
          BY <1>1, <2>2, <4>1, LastMore DEF Spoke
        <4>2. CASE m.kind # "state"
          <5>1. Last(toDaemon, seen, Len(toDaemon) + 1, takeovers', Now')
            BY <2>2, <4>2 DEF Spoke, KnowInv
          <5> QED BY <1>1, <4>2, <5>1, LastMore
        <4> QED BY <4>1, <4>2
      <3> QED BY <3>1, <3>2
    <2> QED BY <2>1, <2>2
  <1>6. PICK s \in Int : s = Now + Revs(toComp) /\ s = Now' + Revs(toComp)'
    BY NumbersAre
  <1>7. controlEpoch' <= Now' + Revs(toComp)' + seen'.known
    BY <1>3, <1>6 DEF KnowInv
  <1>8. typing' # 0 =>
            Current'.epoch <= Now' + Revs(toComp)' + Current'.known /\ Current'.known <= seen'.known
    BY <1>3, <1>6 DEF KnowInv
  <1> QED BY <1>3, <1>4, <1>5, <1>7, <1>8 DEF KnowInv

LEMMA AskComp ==
    ASSUME IInv, IInv', KnowInv, AskInv, SameDaemon,
           Quiet => Quiet' /\ Now' = Now,
           \A t : SyncQuiet(toComp, t) => SyncQuiet(toComp', t),
           SyncsPast(toComp, nextOperation) => SyncsPast(toComp', nextOperation),
           \/ Silent
           \/ \E m \in Events :
                /\ Spoke(m)
                /\ m.kind = "synced" =>
                    /\ m.known = takeovers /\ m.token <= nextOperation
                    /\ typing # 0 /\ m.token = typing => Quiet'
    PROVE  AskInv'
  <1>1. /\ Now \in Int /\ takeovers \in Nat /\ seen \in Views /\ toDaemon \in Seq(Events)
        /\ Len(toDaemon) \in Nat
    BY NumbersAre
  <1>2. seen' = seen /\ typing' = typing /\ Current' = Current /\ nextOperation' = nextOperation
    BY DEF SameDaemon, Current
  <1>3. CASE Silent
    <2>1. AsksPast'
      BY <1>2, <1>3 DEF Silent, AskInv, AsksPast, SyncsPast
    <2>2. ASSUME typing # 0
          PROVE  /\ SyncQuiet(toComp, typing)' /\ AnswerQuiet(typing, Current.known)'
                 /\ ReadQuiet(typing, Current.known)'
      <3>1. SyncQuiet(toComp, typing)'
        BY <1>2, <2>2 DEF AskInv
      <3>2. AnswerQuiet(typing, Current.known)'
        BY <1>2, <1>3, <2>2 DEF AskInv, AnswerQuiet, Silent
      <3>3. ReadQuiet(typing, Current.known)'
        BY <1>2, <1>3, <2>2 DEF AskInv, ReadQuiet, Silent
      <3> QED BY <3>1, <3>2, <3>3
    <2> QED BY <1>2, <2>1, <2>2 DEF AskInv
  <1>4. ASSUME NEW m \in Events, Spoke(m),
               m.kind = "synced" =>
                   /\ m.known = takeovers /\ m.token <= nextOperation
                   /\ typing # 0 /\ m.token = typing => Quiet'
        PROVE  AskInv'
    <2> DEFINE s == Append(toDaemon, m)
    <2>1. /\ Len(s) = Len(toDaemon) + 1 /\ s[Len(toDaemon) + 1] = m
          /\ \A n \in 1..Len(toDaemon) : s[n] = toDaemon[n] /\ n \in Nat
          /\ \A n \in 1..Len(s) : n \in 1..Len(toDaemon) \/ n = Len(toDaemon) + 1
      BY <1>1, AppendIs
    <2>2. toDaemon' = s
      BY <1>4 DEF Spoke
    <2> HIDE DEF s
    <2>3. AsksPast'
      BY <1>2, <1>4, <2>1, <2>2 DEF AskInv, AsksPast, SyncsPast
    <2>4. ASSUME typing # 0
          PROVE  /\ SyncQuiet(toComp, typing)' /\ AnswerQuiet(typing, Current.known)'
                 /\ ReadQuiet(typing, Current.known)'
      <3>1. SyncQuiet(toComp, typing)'
        BY <1>2, <2>4 DEF AskInv
      <3>2. Quiet => (m.kind = "state" => Rank(m) = Now)
        BY <1>4 DEF Spoke
      <3>3. ASSUME NEW n \in 1..Len(s), s[n].kind = "synced" /\ s[n].token = typing
            PROVE  /\ Quiet' /\ Current.known <= s[n].known
                   /\ Last(s, seen, n, s[n].known, Now')
                   /\ Steady(s, n, Now')
        <4>1. CASE n \in 1..Len(toDaemon)
          <5>1. /\ Quiet /\ Current.known <= s[n].known
                /\ Last(toDaemon, seen, n, s[n].known, Now)
                /\ Steady(toDaemon, n, Now)
            BY <2>1, <2>4, <3>3, <4>1 DEF AskInv, AnswerQuiet
          <5>2. Last(s, seen, n, s[n].known, Now)
            BY <1>1, <4>1, <5>1, LastMore DEF s
          <5>3. Steady(s, n, Now)
            BY <1>1, <2>1, <3>2, <4>1, <5>1, SteadyMore DEF s
          <5> QED BY <5>1, <5>2, <5>3
        <4>2. CASE n = Len(toDaemon) + 1
          <5>1. s[n] = m /\ m.known = takeovers /\ Quiet' /\ Now' = Now
            BY <1>4, <2>1, <2>4, <3>3, <4>2 DEF Spoke
          <5>2. Last(s, seen, n, takeovers, Now)
            BY <1>1, <4>2, LastMore DEF s, KnowInv
          <5>3. Steady(s, n, Now)
            BY <1>1, <2>1, <4>2 DEF Steady
          <5>4. Current.known <= takeovers
            <6>1. Current.known <= seen.known /\ seen.known <= takeovers
              BY <2>4 DEF KnowInv, InOrder
            <6> QED BY <2>4, <6>1, NumbersAre
          <5> QED BY <5>1, <5>2, <5>3, <5>4
        <4> QED BY <2>1, <4>1, <4>2
      <3>4. AnswerQuiet(typing, Current.known)'
        BY <1>2, <2>2, <3>3 DEF AnswerQuiet
      <3>5. ASSUME seen.authToken = typing
            PROVE  /\ Quiet' /\ Current.known <= seen.authKnown
                   /\ Rank(seen) = Now' /\ seen.authEpoch - seen.authKnown = Now'
                   /\ Steady(s, 0, Now')
        <4>1. /\ Quiet /\ Current.known <= seen.authKnown
              /\ Rank(seen) = Now /\ seen.authEpoch - seen.authKnown = Now
              /\ Steady(toDaemon, 0, Now)
          BY <2>4, <3>5 DEF AskInv, ReadQuiet
        <4>2. Steady(s, 0, Now)
          BY <1>1, <3>2, <4>1, SteadyMore DEF s
        <4> QED BY <4>1, <4>2
      <3>6. ReadQuiet(typing, Current.known)'
        BY <1>2, <2>2, <3>5 DEF ReadQuiet, Rank
      <3> QED BY <3>1, <3>4, <3>6
    <2> QED BY <1>2, <2>3, <2>4 DEF AskInv
  <1> QED BY <1>3, <1>4


\* The compositor takes a request that revokes nothing, or none, and Now stays.
LEMMA CompAware ==
    ASSUME IInv, IInv', Aware, SameDaemon, Now' = Now, takeovers <= takeovers',
           \/ toComp' = toComp
           \/ toComp # <<>> /\ toComp' = Tail(toComp) /\ Head(toComp).kind # "revoke",
           Silent \/ \E m \in Events : Spoke(m) /\ m.kind # "synced"
    PROVE  Aware'
  <1>1. toComp \in Seq(Requests) /\ Now \in Int /\ Revs(toComp) \in Nat
    BY NumbersAre
  <1>2. Revs(toComp)' = Revs(toComp) /\ (Quiet => Quiet')
    BY <1>1, RevokesTail DEF Quiet
  <1>3. /\ \A t : SyncQuiet(toComp, t) => SyncQuiet(toComp', t)
        /\ SyncsPast(toComp, nextOperation) => SyncsPast(toComp', nextOperation)
    BY <1>1, SyncTail
  <1>4. KnowInv'
    <2>1. Now <= Now' /\ Now' + Revs(toComp)' = Now + Revs(toComp)
      BY <1>1, <1>2
    <2>2. Silent \/ \E m \in Events : Spoke(m)
      OBVIOUS
    <2> QED BY <2>1, <2>2, KnowComp DEF Aware
  <1>5. AskInv'
    BY <1>2, <1>3, AskComp DEF Aware
  <1> QED BY <1>4, <1>5 DEF Aware

LEMMA SpokenState ==
    ASSUME IInv', toDaemon' = Append(toDaemon, StateEvent)
    PROVE  /\ StateEvent \in Events /\ Spoke(StateEvent) /\ StateEvent.kind = "state"
  <1>1. epoch' \in Nat /\ allowed' \in BOOLEAN /\ human' \in BOOLEAN /\ takeovers' \in Nat
    BY DEF IInv, CompTyped
  <1>2. StateEvent \in Events /\ StateEvent.kind = "state"
        /\ StateEvent.epoch = epoch' /\ StateEvent.known = takeovers'
    BY <1>1, StateEventIs
  <1>3. Rank(StateEvent) = Now'
    BY <1>2 DEF Rank, Now
  <1> QED BY <1>2, <1>3 DEF Spoke

LEMMA CompOnly ==
    ASSUME CompositorOnly
    PROVE  SameDaemon
  BY DEF CompositorOnly, daemonVars, operationVars, SameDaemon

LEMMA ProcessAcquireAware == ASSUME IInv, IInv', Aware, ProcessAcquire PROVE Aware'
  <1>1. /\ toComp # <<>> /\ toComp' = Tail(toComp) /\ Head(toComp).kind = "acquire"
        /\ epoch' = epoch /\ takeovers' = takeovers /\ SameDaemon
        /\ toDaemon' = toDaemon \/ toDaemon' = Append(toDaemon, StateEvent)
    BY CompOnly DEF ProcessAcquire, Takes, ghostVars, Bumped
  <1>2. Now' = Now /\ takeovers <= takeovers'
    BY <1>1, NumbersAre DEF Now
  <1>3. Silent \/ \E m \in Events : Spoke(m) /\ m.kind # "synced"
    BY <1>1, <1>2, SpokenState DEF Silent
  <1> QED BY <1>1, <1>2, <1>3, CompAware

\* A revocation by the compositor itself is a takeover.
LEMMA TakeoverAware ==
    ASSUME IInv, IInv', Aware, SameDaemon, ControlRevoke, takeovers' = takeovers + 1,
           toDaemon' = Append(toDaemon, StateEvent),
           \/ toComp' = toComp
           \/ toComp # <<>> /\ toComp' = Tail(toComp) /\ Head(toComp).kind # "revoke"
    PROVE  Aware'
  <1>1. Now' = Now /\ takeovers <= takeovers'
    BY DEF ControlRevoke, Now, IInv, CompTyped
  <1>2. \E m \in Events : Spoke(m) /\ m.kind # "synced"
    BY SpokenState
  <1> QED BY <1>1, <1>2, CompAware

LEMMA ProcessStaleAcquireAware == ASSUME IInv, IInv', Aware, ProcessStaleAcquire PROVE Aware'
  BY TakeoverAware, CompOnly DEF ProcessStaleAcquire, Takes, Bumped

LEMMA HumanActsAware == ASSUME IInv, IInv', Aware, HumanActs PROVE Aware'
  BY TakeoverAware, CompOnly DEF HumanActs, Bumped

LEMMA HumanRestsAware == ASSUME IInv, IInv', Aware, HumanRests PROVE Aware'
  <1>1. /\ toComp' = toComp /\ epoch' = epoch /\ takeovers' = takeovers /\ SameDaemon
        /\ toDaemon' = Append(toDaemon, StateEvent)
    BY CompOnly DEF HumanRests, ghostVars, Bumped
  <1>2. Now' = Now /\ takeovers <= takeovers'
    BY <1>1, NumbersAre DEF Now
  <1>3. \E m \in Events : Spoke(m) /\ m.kind # "synced"
    BY <1>1, SpokenState
  <1> QED BY <1>1, <1>2, <1>3, CompAware

LEMMA ClipboardGoneAware == ASSUME IInv, IInv', Aware, ClipboardGone PROVE Aware'
  <1>1. /\ toComp' = toComp /\ epoch' = epoch /\ takeovers' = takeovers /\ SameDaemon
        /\ toDaemon' = toDaemon
    BY CompOnly DEF ClipboardGone, ghostVars, linkVars
  <1>2. Now' = Now /\ takeovers <= takeovers'
    BY <1>1, NumbersAre DEF Now
  <1> QED BY <1>1, <1>2, CompAware DEF Silent

\* The compositor answers, and its state stays.
LEMMA AnswerAware ==
    ASSUME IInv, IInv', Aware, SameDaemon, epoch' = epoch, takeovers' = takeovers,
           NEW m, m.kind \notin {"state", "synced"}, toDaemon' = Append(toDaemon, m),
           \/ toComp' = toComp
           \/ toComp # <<>> /\ toComp' = Tail(toComp) /\ Head(toComp).kind # "revoke"
    PROVE  Aware'
  <1>1. toDaemon \in Seq(Events) /\ toDaemon' \in Seq(Events)
    BY DEF IInv, LinkTyped
  <1>2. m \in Events
    <2>1. Append(toDaemon, m) \in Seq(Events) /\ Len(toDaemon) + 1 \in 1..Len(Append(toDaemon, m))
          /\ Append(toDaemon, m)[Len(toDaemon) + 1] = m
      BY <1>1
    <2> QED BY <2>1
  <1>3. Now' = Now /\ takeovers <= takeovers'
    BY NumbersAre DEF Now
  <1>4. Spoke(m) /\ m.kind # "synced"
    BY <1>2, <1>3 DEF Spoke
  <1> QED BY <1>2, <1>3, <1>4, CompAware

LEMMA WindowActionAware == ASSUME IInv, IInv', Aware, WindowAction PROVE Aware'
  <1>1. /\ toComp # <<>> /\ toComp' = Tail(toComp) /\ Head(toComp).kind = "window"
        /\ epoch' = epoch /\ takeovers' = takeovers /\ SameDaemon
        /\ \E ok \in BOOLEAN : toDaemon' = Append(toDaemon, [kind |-> "action_done",
                                                token |-> Head(toComp).token, ok |-> ok])
    BY CompOnly DEF WindowAction, Takes, compVars
  <1>2. PICK m : m.kind = "action_done" /\ toDaemon' = Append(toDaemon, m)
    BY <1>1
  <1> QED BY <1>1, <1>2, AnswerAware

LEMMA ClipboardOfferAware == ASSUME IInv, IInv', Aware, ClipboardOffer PROVE Aware'
  <1>1. /\ toComp # <<>> /\ toComp' = Tail(toComp) /\ Head(toComp).kind = "offer"
        /\ epoch' = epoch /\ takeovers' = takeovers /\ SameDaemon
        /\ \E ok \in BOOLEAN : toDaemon' = Append(toDaemon, [kind |-> "offered",
                                                token |-> Head(toComp).token, ok |-> ok])
    BY CompOnly DEF ClipboardOffer, Takes, ghostVars
  <1>2. PICK m : m.kind = "offered" /\ toDaemon' = Append(toDaemon, m)
    BY <1>1
  <1> QED BY <1>1, <1>2, AnswerAware

LEMMA ClipboardTransferAware == ASSUME IInv, IInv', Aware, ClipboardTransfer PROVE Aware'
  <1>1. /\ toComp' = toComp /\ epoch' = epoch /\ takeovers' = takeovers /\ SameDaemon
        /\ toDaemon' = Append(toDaemon, [kind |-> "transfer", token |-> clip])
    BY CompOnly DEF ClipboardTransfer
  <1>2. PICK m : m.kind = "transfer" /\ toDaemon' = Append(toDaemon, m)
    BY <1>1
  <1> QED BY <1>1, <1>2, AnswerAware

\* A revocation the daemon asked for: one less is under way, one more was
\* carried out.
\* The keys of a codepoint are not answered.
LEMMA ProcessKeyAware == ASSUME IInv, IInv', Aware, ProcessKey PROVE Aware'
  <1>1. /\ toComp # <<>> /\ toComp' = Tail(toComp) /\ Head(toComp).kind = "key"
        /\ epoch' = epoch /\ takeovers' = takeovers /\ SameDaemon /\ toDaemon' = toDaemon
    BY CompOnly DEF ProcessKey, Takes, compVars
  <1>2. Now' = Now /\ takeovers <= takeovers'
    BY <1>1, NumbersAre DEF Now
  <1> QED BY <1>1, <1>2, CompAware DEF Silent

LEMMA ProcessRevokeAware == ASSUME IInv, IInv', Aware, ProcessRevoke PROVE Aware'
  <1>1. /\ toComp # <<>> /\ toComp' = Tail(toComp) /\ Head(toComp).kind = "revoke"
        /\ epoch' = epoch + 1 /\ takeovers' = takeovers /\ SameDaemon
        /\ toDaemon' = Append(toDaemon, StateEvent)
    BY CompOnly DEF ProcessRevoke, Takes, ghostVars, Bumped, ControlRevoke
  <1>2. toComp \in Seq(Requests) /\ Now \in Int /\ takeovers \in Nat /\ epoch \in Nat
    BY NumbersAre DEF IInv, CompTyped
  <1>3. Now' = Now + 1 /\ takeovers <= takeovers'
    BY <1>1, <1>2 DEF Now
  <1>4. Revs(toComp) = Revs(toComp)' + 1 /\ ~Quiet /\ Revs(toComp)' \in Nat
    <2>1. toComp' \in Seq(Requests)
      BY <1>1, <1>2, TailIs
    <2> QED BY <1>1, <1>2, <2>1, RevokesTail, RevokesFinite DEF Quiet
  <1>5. StateEvent \in Events /\ Spoke(StateEvent) /\ StateEvent.kind = "state"
    BY <1>1, SpokenState
  <1>6. KnowInv'
    <2>1. Now <= Now' /\ Now' + Revs(toComp)' = Now + Revs(toComp)
      BY <1>2, <1>3, <1>4
    <2> QED BY <1>1, <1>3, <1>5, <2>1, KnowComp DEF Aware
  <1>7. AskInv'
    <2>1. /\ \A t : SyncQuiet(toComp, t) => SyncQuiet(toComp', t)
          /\ SyncsPast(toComp, nextOperation) => SyncsPast(toComp', nextOperation)
      BY <1>1, <1>2, SyncTail
    <2>2. \E m \in Events : Spoke(m) /\ m.kind # "synced"
      BY <1>5
    <2> QED BY <1>1, <1>4, <2>1, <2>2, AskComp DEF Aware
  <1> QED BY <1>6, <1>7 DEF Aware

LEMMA ProcessSyncAware == ASSUME IInv, IInv', Aware, ProcessSync PROVE Aware'
  <1>1. /\ toComp # <<>> /\ toComp' = Tail(toComp) /\ Head(toComp).kind = "sync"
        /\ epoch' = epoch /\ takeovers' = takeovers /\ SameDaemon
        /\ toDaemon' = Append(toDaemon, [kind |-> "synced", token |-> Head(toComp).token,
                                         known |-> takeovers])
    BY CompOnly DEF ProcessSync, Takes, compVars, ghostVars
  <1>2. PICK m : /\ m = [kind |-> "synced", token |-> Head(toComp).token, known |-> takeovers]
                 /\ m.kind = "synced" /\ m.token = Head(toComp).token /\ m.known = takeovers
                 /\ toDaemon' = Append(toDaemon, m)
    BY <1>1
  <1>3. /\ toComp \in Seq(Requests) /\ Now \in Int /\ takeovers \in Nat /\ Head(toComp) \in Requests
        /\ Revs(toComp) \in Nat
    BY <1>1, NumbersAre, TailIs
  <1>4. m \in Events
    <2>1. Head(toComp).token \in 0..MaxAccepted
      BY <1>1, <1>3 DEF Requests
    <2> QED BY <1>2, <1>3, <2>1 DEF Events
  <1>5. Now' = Now /\ takeovers <= takeovers'
    BY <1>1, <1>3 DEF Now
  <1>6. Spoke(m)
    BY <1>1, <1>2, <1>4, <1>5 DEF Spoke
  <1>7. Revs(toComp)' = Revs(toComp) /\ (Quiet => Quiet')
    BY <1>1, <1>3, RevokesTail DEF Quiet
  <1>8. KnowInv'
    <2>1. Now <= Now' /\ Now' + Revs(toComp)' = Now + Revs(toComp)
      BY <1>3, <1>5, <1>7
    <2> QED BY <1>1, <1>4, <1>5, <1>6, <2>1, KnowComp DEF Aware
  <1>9. SyncsPast(toComp, nextOperation)
    BY DEF Aware, AskInv, AsksPast, SyncsPast
  <1>10. /\ \A t : SyncQuiet(toComp, t) => SyncQuiet(toComp', t)
         /\ SyncsPast(toComp', nextOperation) /\ m.token <= nextOperation
    BY <1>1, <1>2, <1>3, <1>9, SyncTail
  <1>11. typing # 0 /\ m.token = typing => Quiet'
    BY <1>1, <1>2, <1>3, SyncTail DEF Aware, AskInv, Quiet
  <1>12. AskInv'
    BY <1>1, <1>2, <1>4, <1>5, <1>6, <1>7, <1>10, <1>11, AskComp DEF Aware
  <1> QED BY <1>8, <1>12 DEF Aware

LEMMA CompositorAware == ASSUME IInv, IInv', Aware, Compositor PROVE Aware'
  BY ProcessAcquireAware, ProcessStaleAcquireAware, ProcessRevokeAware, ProcessSyncAware,
     ProcessKeyAware, WindowActionAware, ClipboardOfferAware, ClipboardTransferAware, ClipboardGoneAware,
     HumanActsAware, HumanRestsAware
  DEF Compositor, ProcessRequest


----------------------------------------------------------------------------
(* The daemon's steps, seen that way.                                      *)

\* Nothing that matters here changes.
LEMMA IdleAware ==
    ASSUME IInv, IInv', Aware, SameComp, UNCHANGED <<toComp, nextOperation, controlEpoch>>,
           UNCHANGED <<operations, typing>>, SameView
    PROVE  Aware'
  <1>1. SameCurrent
    BY DEF SameCurrent, Current
  <1> QED BY <1>1, CalmItself, CalmStep

LEMMA EndsOperation ==
    ASSUME NEW o, NEW outcome, Finish(o, outcome)
    PROVE  typing' = 0 /\ nextOperation' = nextOperation
  BY DEF Finish

LEMMA FinishAware ==
    ASSUME IInv, IInv', Aware, SameComp, UNCHANGED controlEpoch, SameView,
           NEW o, NEW outcome, Finish(o, outcome), Calm(toComp, toComp', nextOperation)
    PROVE  Aware'
  BY EndsOperation, CalmStep DEF SameCurrent

\* A receipt is written that says of its operation's lease what it said.
LEMMA WriteAware ==
    ASSUME IInv, IInv', Aware, SameComp, UNCHANGED <<controlEpoch, nextOperation, typing>>,
           SameView, Calm(toComp, toComp', nextOperation),
           NEW s \in 0..MaxOperations - 1, NEW o, operations' = [operations EXCEPT ![s] = o],
           o.epoch = operations[s].epoch, o.known = operations[s].known
    PROVE  Aware'
  <1>1. ASSUME typing # 0
        PROVE  Current'.epoch = Current.epoch /\ Current'.known = Current.known
    <2>1. PICK u \in 0..MaxOperations - 1 : u = Slot(typing)
      BY <1>1, CurrentIs DEF IInv
    <2>2. Current = operations[u] /\ Current' = operations'[u]
      BY <2>1 DEF Current
    <2>3. operations \in [0..MaxOperations - 1 -> ReceiptType]
      BY DEF IInv, BookTyped
    <2>4. CASE u = s
      <3>1. operations'[u] = o
        BY <2>3, <2>4
      <3> QED BY <2>2, <2>4, <3>1
    <2>5. CASE u # s
      <3>1. operations'[u] = operations[u]
        BY <2>3, <2>5
      <3> QED BY <2>2, <3>1
    <2> QED BY <2>4, <2>5
  <1>2. SameCurrent
    BY <1>1 DEF SameCurrent
  <1> QED BY <1>2, CalmStep

LEMMA RevokeInputAware ==
    ASSUME IInv, IInv', Aware, SameComp, seen' = seen, RevokeInput
    PROVE  Aware'
  <1>1. toComp \in Seq(Requests) /\ toComp' = Append(toComp, RevokeRequest)
        /\ controlEpoch' = controlEpoch + 1
    BY DEF RevokeInput, IInv, LinkTyped
  <1>2. typing' = 0 /\ nextOperation' = nextOperation
    BY EndsOperation DEF RevokeInput, FinishTyping, NothingEnds, operationVars
  <1> QED BY <1>1, <1>2, CalmItself, RevokeStep DEF SameView

LEMMA ExpireWriterAware == ASSUME IInv, IInv', Aware, ExpireWriter PROVE Aware'
  BY RevokeInputAware DEF ExpireWriter, SameComp, compVars

LEMMA InterruptAware == ASSUME IInv, IInv', Aware, Interrupt PROVE Aware'
  BY RevokeInputAware DEF Interrupt, Serving, SameComp, compVars

LEMMA PreparePollAware == ASSUME IInv, IInv', Aware, PreparePoll PROVE Aware'
  BY IdleAware DEF PreparePoll, TurnTo, compVars, linkVars, operationVars, SameComp, SameView

LEMMA RunCallbackAware == ASSUME IInv, IInv', Aware, RunCallback PROVE Aware'
  BY IdleAware DEF RunCallback, TurnTo, compVars, linkVars, operationVars, SameComp, SameView

LEMMA NoCallbackAware == ASSUME IInv, IInv', Aware, NoCallback PROVE Aware'
  BY IdleAware DEF NoCallback, TurnTo, compVars, linkVars, operationVars, SameComp, SameView

LEMMA AcquireControlAware == ASSUME IInv, IInv', Aware, AcquireControl PROVE Aware'
  BY IdleAware DEF AcquireControl, Serving, compVars, operationVars, SameComp, SameView

LEMMA ResumeAware == ASSUME IInv, IInv', Aware, Resume PROVE Aware'
  BY IdleAware DEF Resume, Serving, compVars, operationVars, SameComp, SameView

LEMMA ScopeChangesAware == ASSUME IInv, IInv', Aware, ScopeChanges PROVE Aware'
  BY IdleAware DEF ScopeChanges, Serving, compVars, operationVars, SameComp, SameView

LEMMA TimeAware == ASSUME IInv, IInv', Aware, Time PROVE Aware'
  <1>1. CASE LeaseRunsOut
    BY <1>1, IdleAware DEF LeaseRunsOut, compVars, linkVars, operationVars, SameComp, SameView
  <1>2. CASE OperationLate
    BY <1>2, IdleAware DEF OperationLate, compVars, linkVars, ghostVars, SameComp, SameView
  <1>3. CASE PreparationLate
    BY <1>3, IdleAware
    DEF PreparationLate, compVars, linkVars, daemonVars, operationVars, ghostVars, SameComp, SameView
  <1>4. CASE DaemonQuietElapses
    <2>1. SameView
      BY <1>4 DEF DaemonQuietElapses, SameView, IInv, LinkTyped, Views
    <2> QED BY <1>4, <2>1, IdleAware
        DEF DaemonQuietElapses, compVars, linkVars, operationVars, ghostVars, SameComp
  <1> QED BY <1>1, <1>2, <1>3, <1>4 DEF Time

LEMMA ApplicationMethodAware == ASSUME IInv, IInv', Aware, ApplicationMethod PROVE Aware'
  BY IdleAware DEF ApplicationMethod, compVars, linkVars, daemonVars, operationVars, ghostVars,
                   SameComp, SameView

LEMMA SyncTakeoverAware == ASSUME IInv, IInv', Aware, SyncTakeover PROVE Aware'
  <1>1. /\ SameComp /\ seen' = seen /\ toComp' = toComp /\ controlEpoch' = seen.epoch
        /\ FinishTyping("cancelled")
    BY DEF SyncTakeover, TurnTo, compVars, linkVars, SameComp
  <1>2. typing' = 0 /\ nextOperation' = nextOperation
    BY <1>1, EndsOperation DEF FinishTyping, NothingEnds, operationVars
  <1> QED BY <1>1, <1>2, TakeoverStep DEF SameView

LEMMA SyncControlStateAware == ASSUME IInv, IInv', Aware, SyncControlState PROVE Aware'
  <1>1. /\ SameComp /\ seen' = seen /\ toComp' = toComp /\ controlEpoch' = controlEpoch
        /\ NothingEnds \/ \E outcome : Finish(Current, outcome)
    BY DEF SyncControlState, TurnTo, compVars, linkVars, SameComp
  <1>2. SameView /\ Calm(toComp, toComp', nextOperation)
    BY <1>1, CalmItself DEF SameView
  <1>3. CASE NothingEnds
    BY <1>1, <1>2, <1>3, IdleAware DEF NothingEnds, operationVars
  <1>4. CASE \E outcome : Finish(Current, outcome)
    BY <1>1, <1>2, <1>4, FinishAware
  <1> QED BY <1>1, <1>3, <1>4

\* What an event leaves in input_state.
LEMMA NotedIs ==
    ASSUME seen \in Views, NEW m \in Events, seen' = Noted(m)
    PROVE  /\ ReadAs(seen, seen', m)
           /\ \/ /\ seen'.authToken = seen.authToken /\ seen'.authEpoch = seen.authEpoch
                 /\ seen'.authKnown = seen.authKnown
              \/ /\ m.kind = "synced" /\ seen'.authToken = m.token
                 /\ seen'.authEpoch = seen.epoch /\ seen'.authKnown = m.known
                 /\ Rank(seen') = Rank(seen)
  <1>1. m.kind \in {"state", "synced", "action_done", "offered", "transfer"}
    BY EventFields
  <1>2. CASE m.kind = "state"
    <2>1. seen' = [seen EXCEPT !.epoch = m.epoch, !.allowed = m.allowed,
                               !.human = m.human, !.known = m.known]
      BY <1>2 DEF Noted
    <2>2. /\ seen'.epoch = m.epoch /\ seen'.known = m.known
          /\ seen'.authToken = seen.authToken /\ seen'.authEpoch = seen.authEpoch
          /\ seen'.authKnown = seen.authKnown
      BY <2>1 DEF Views
    <2> QED BY <1>2, <2>2 DEF ReadAs, Rank
  <1>3. CASE m.kind = "synced"
    <2>1. seen' = seen \/ seen' = [seen EXCEPT !.asked = 0, !.authToken = m.token,
                !.authEpoch = seen.epoch, !.authAllowed = seen.allowed, !.authKnown = m.known]
      BY <1>3 DEF Noted
    <2>2. /\ seen'.epoch = seen.epoch /\ seen'.known = seen.known
          /\ \/ seen' = seen
             \/ /\ seen'.authToken = m.token /\ seen'.authEpoch = seen.epoch
                /\ seen'.authKnown = m.known
      BY <2>1 DEF Views
    <2> QED BY <1>3, <2>2 DEF ReadAs, Rank
  <1>4. CASE m.kind \in {"action_done", "offered", "transfer"}
    <2>1. \/ seen' = [seen EXCEPT !.actionToken = m.token, !.actionOk = m.ok]
          \/ seen' = [seen EXCEPT !.clipToken = m.token, !.clipOk = m.ok]
          \/ seen' = seen \/ seen' = [seen EXCEPT !.transferred = TRUE]
      BY <1>4 DEF Noted
    <2>2. /\ seen'.epoch = seen.epoch /\ seen'.known = seen.known
          /\ seen'.authToken = seen.authToken /\ seen'.authEpoch = seen.authEpoch
          /\ seen'.authKnown = seen.authKnown
      BY <2>1 DEF Views
    <2> QED BY <1>4, <2>2 DEF ReadAs, Rank
  <1> QED BY <1>1, <1>2, <1>3, <1>4

LEMMA ReadEventAware == ASSUME IInv, IInv', Aware, ReadEvent PROVE Aware'
  <1>1. /\ toDaemon # <<>> /\ seen' = Noted(Head(toDaemon)) /\ toDaemon' = Tail(toDaemon)
        /\ UNCHANGED <<epoch, takeovers, toComp, controlEpoch, operations, nextOperation, typing>>
    BY DEF ReadEvent, compVars, operationVars, ghostVars
  <1>2. /\ Now \in Int /\ takeovers \in Nat /\ seen \in Views /\ seen' \in Views
        /\ toDaemon \in Seq(Events) /\ controlEpoch \in Nat /\ Revs(toComp) \in Nat
    BY NumbersAre DEF IInv, LinkTyped
  <1>3. PICK m \in Events : m = Head(toDaemon) /\ m = toDaemon[1]
    BY <1>1, <1>2, TailIs
  <1>4. /\ ReadAs(seen, seen', m)
        /\ \/ /\ seen'.authToken = seen.authToken /\ seen'.authEpoch = seen.authEpoch
              /\ seen'.authKnown = seen.authKnown
           \/ /\ m.kind = "synced" /\ seen'.authToken = m.token
              /\ seen'.authEpoch = seen.epoch /\ seen'.authKnown = m.known
              /\ Rank(seen') = Rank(seen)
    BY <1>1, <1>2, <1>3, NotedIs
  <1>5. Now' = Now /\ Current' = Current /\ takeovers' = takeovers
    BY <1>1 DEF Now, Current
  <1>6. /\ Len(toDaemon) \in Nat /\ Len(toDaemon') = Len(toDaemon) - 1 /\ 1 \in 1..Len(toDaemon)
        /\ \A n \in 1..Len(toDaemon') : n + 1 \in 1..Len(toDaemon) /\ toDaemon'[n] = toDaemon[n + 1]
    BY <1>1, <1>2, TailIs
  <1>7. \A n \in 1..Len(toDaemon) : \A k, r :
            Last(toDaemon, seen, n + 1, k, r) => Last(toDaemon', seen', n, k, r)
    BY <1>1, <1>2, <1>3, <1>4, LastRead
  <1>8. KnowInv'
    <2>1. InOrder(toDaemon', seen', takeovers, Now) /\ seen.known <= seen'.known
      BY <1>1, <1>2, <1>3, <1>4, InOrderRead DEF Aware, KnowInv
    <2>2. Last(toDaemon', seen', Len(toDaemon') + 1, takeovers, Now)
      <3>1. Len(toDaemon') + 1 \in 1..Len(toDaemon) /\ (Len(toDaemon') + 1) + 1 = Len(toDaemon) + 1
        BY <1>6
      <3> QED BY <1>7, <3>1 DEF Aware, KnowInv
    <2>3. seen.known \in Nat /\ seen'.known \in Nat
      BY <1>2, RanksAre
    <2>4. controlEpoch <= Now + Revs(toComp) + seen'.known
      <3>1. controlEpoch <= Now + Revs(toComp) + seen.known
        BY DEF Aware, KnowInv
      <3> QED BY <1>2, <2>1, <2>3, <3>1
    <2>5. typing # 0 =>
            Current.epoch <= Now + Revs(toComp) + Current.known /\ Current.known <= seen'.known
      <3> SUFFICES ASSUME typing # 0
                   PROVE  Current.epoch <= Now + Revs(toComp) + Current.known
                          /\ Current.known <= seen'.known
        OBVIOUS
      <3>1. Current.epoch <= Now + Revs(toComp) + Current.known /\ Current.known <= seen.known
            /\ Current.known \in Nat
        BY NumbersAre DEF Aware, KnowInv
      <3> QED BY <2>1, <2>3, <3>1
    <2> QED BY <1>1, <1>5, <2>1, <2>2, <2>4, <2>5 DEF KnowInv
  <1>9. AskInv'
    <2>1. /\ SyncsPast(toComp, nextOperation) /\ seen.authToken <= nextOperation
          /\ \A n \in 1..Len(toDaemon) : toDaemon[n].kind = "synced" => toDaemon[n].token <= nextOperation
      BY DEF Aware, AskInv, AsksPast, SyncsPast
    <2>2. \A n \in 1..Len(toDaemon') : toDaemon'[n].kind = "synced" => toDaemon'[n].token <= nextOperation
      BY <1>6, <2>1
    <2>3. seen'.authToken <= nextOperation
      BY <1>3, <1>4, <1>6, <2>1
    <2>4. AsksPast'
      BY <1>1, <2>1, <2>2, <2>3 DEF AsksPast, SyncsPast
    <2>5. ASSUME typing # 0
          PROVE  /\ SyncQuiet(toComp, typing)' /\ AnswerQuiet(typing, Current.known)'
                 /\ ReadQuiet(typing, Current.known)'
      <3>1. SyncQuiet(toComp, typing)'
        BY <1>1, <2>5 DEF Aware, AskInv
      <3>2. \A n \in 1..Len(toDaemon) :
                toDaemon[n].kind = "synced" /\ toDaemon[n].token = typing =>
                    /\ Quiet /\ Current.known <= toDaemon[n].known
                    /\ Last(toDaemon, seen, n, toDaemon[n].known, Now)
                    /\ Steady(toDaemon, n, Now)
        BY <2>5 DEF Aware, AskInv, AnswerQuiet
      <3>3. ASSUME NEW n \in 1..Len(toDaemon'),
                   toDaemon'[n].kind = "synced" /\ toDaemon'[n].token = typing
            PROVE  /\ Quiet /\ Current.known <= toDaemon'[n].known
                   /\ Last(toDaemon', seen', n, toDaemon'[n].known, Now)
                   /\ Steady(toDaemon', n, Now)
        <4>1. /\ Quiet /\ Current.known <= toDaemon'[n].known
              /\ Last(toDaemon, seen, n + 1, toDaemon'[n].known, Now)
              /\ Steady(toDaemon, n + 1, Now)
          BY <1>6, <3>2, <3>3
        <4>2. n \in 1..Len(toDaemon) /\ n + 1 \in Nat /\ n + 1 > 0 /\ (n + 1) - 1 = n
          BY <1>6
        <4>3. Steady(toDaemon', n, Now)
          BY <1>1, <1>2, <4>1, <4>2, SteadyMore
        <4> QED BY <1>7, <4>1, <4>2, <4>3
      <3>4. AnswerQuiet(typing, Current.known)'
        BY <1>1, <1>5, <3>3 DEF AnswerQuiet, Quiet
      <3>5. ASSUME seen'.authToken = typing
            PROVE  /\ Quiet /\ Current.known <= seen'.authKnown
                   /\ Rank(seen') = Now /\ seen'.authEpoch - seen'.authKnown = Now
                   /\ Steady(toDaemon', 0, Now)
        <4>1. CASE m.kind = "synced" /\ seen'.authToken = m.token
                   /\ seen'.authEpoch = seen.epoch /\ seen'.authKnown = m.known
                   /\ Rank(seen') = Rank(seen)
          <5>1. /\ Quiet /\ Current.known <= m.known /\ Last(toDaemon, seen, 1, m.known, Now)
                /\ Steady(toDaemon, 1, Now)
            BY <1>3, <1>6, <3>2, <3>5, <4>1
          <5>2. seen.known = m.known /\ Rank(seen) = Now
            <6>1. 1..1 - 1 = {}
              OBVIOUS
            <6> QED BY <5>1, <6>1 DEF Last
          <5>3. seen.epoch - m.known = Now
            BY <5>2 DEF Rank
          <5>4. Steady(toDaemon', 0, Now)
            BY <1>1, <1>2, <5>1, SteadyMore
          <5> QED BY <4>1, <5>1, <5>2, <5>3, <5>4
        <4>2. CASE seen'.authToken = seen.authToken /\ seen'.authEpoch = seen.authEpoch
                   /\ seen'.authKnown = seen.authKnown
          <5>1. /\ Quiet /\ Current.known <= seen.authKnown
                /\ Rank(seen) = Now /\ seen.authEpoch - seen.authKnown = Now
                /\ Steady(toDaemon, 0, Now)
            BY <2>5, <3>5, <4>2 DEF Aware, AskInv, ReadQuiet
          <5>2. Steady(toDaemon', 0, Now) /\ (m.kind = "state" => Rank(m) = Now)
            BY <1>1, <1>2, <1>3, <5>1, SteadyMore
          <5>3. Rank(seen') = Now
            BY <1>4, <5>1, <5>2 DEF ReadAs
          <5> QED BY <4>2, <5>1, <5>2, <5>3
        <4> QED BY <1>4, <4>1, <4>2
      <3>6. ReadQuiet(typing, Current.known)'
        BY <1>1, <1>5, <3>5 DEF ReadQuiet, Quiet, Rank
      <3> QED BY <3>1, <3>4, <3>6
    <2> QED BY <1>1, <2>4, <2>5 DEF AskInv
  <1> QED BY <1>8, <1>9 DEF Aware


LEMMA NewTokenIs ==
    ASSUME IInv, NEW kind, Admitted(kind)
    PROVE  NewToken \in Tokens /\ NewToken \in Nat /\ Slot(NewToken) \in 0..MaxOperations - 1
  <1>1. nextOperation \in Nat /\ nextOperation < MaxAccepted
    BY AdmittedIs, NumbersAre
  <1>2. NewToken \in Nat /\ NewToken \in Tokens
    BY <1>1, SizesAre DEF NewToken
  <1> QED BY <1>2, SlotIs

\* An operation begins: its receipt has the epoch of the lease and what was
\* known of takeovers.
LEMMA AcceptAware ==
    ASSUME IInv, IInv', Aware, NEW kind, Admitted(kind), NEW submitted, NEW count, NEW active,
           Accept(kind, submitted, count, active), SameView, Calm(toComp, toComp', nextOperation)
    PROVE  Aware'
  <1>1. PICK o : /\ o = [NoReceipt EXCEPT !.token = NewToken, !.kind = kind, !.epoch = controlEpoch,
                               !.active = active, !.submitted = submitted, !.count = count,
                               !.outcome = IF active THEN "running" ELSE "finished",
                               !.known = seen.known]
                 /\ operations' = [operations EXCEPT ![Slot(NewToken)] = o]
    BY DEF Accept
  <1>2. o.epoch = controlEpoch /\ o.known = seen.known
    BY <1>1 DEF NoReceipt
  <1>3. /\ nextOperation' = nextOperation + 1 /\ typing' \in {0, nextOperation'}
        /\ controlEpoch' = controlEpoch
    BY DEF Accept, NewToken
  <1>4. SameComp
    BY AdmittedIs DEF DaemonOnly, SameComp
  <1>5. typing' = nextOperation' => Current' = o
    <2>1. Slot(NewToken) \in 0..MaxOperations - 1
      BY NewTokenIs
    <2>2. operations'[Slot(NewToken)] = o
      BY <1>1, <2>1 DEF IInv, BookTyped
    <2> QED BY <1>3, <2>2 DEF Current, NewToken
  <1> QED BY <1>2, <1>3, <1>4, <1>5, FreshStep

LEMMA StartTypeAware == ASSUME IInv, IInv', Aware, StartType PROVE Aware'
  <1>1. PICK n : Accept("type", 0, n, n > 0)
    BY DEF StartType
  <1> QED BY <1>1, AcceptAware, CalmItself DEF StartType, SameView

LEMMA StartSemanticAware == ASSUME IInv, IInv', Aware, StartSemantic PROVE Aware'
  BY AcceptAware, CalmItself DEF StartSemantic, SameView

\* The request for the gate and what is asked for behind it.
LEMMA CalmTwo ==
    ASSUME IInv, NEW a \in Requests, NEW m \in Requests, a.kind = "acquire", m.kind # "revoke",
           m.kind = "sync" => m.token <= nextOperation, toComp' = toComp \o <<a, m>>
    PROVE  Calm(toComp, toComp', nextOperation)
  <1>1. PICK q : q = Append(toComp, a)
    OBVIOUS
  <1>2. toComp \in Seq(Requests)
    BY NumbersAre
  <1>3. q \in Seq(Requests) /\ toComp' = Append(q, m)
    BY <1>1, <1>2, TwoMore
  <1>4. Calm(toComp, q, nextOperation)
    BY <1>1, <1>2, CalmItself, CalmMore
  <1> QED BY <1>3, <1>4, CalmMore

LEMMA StartWindowAware == ASSUME IInv, IInv', Aware, StartWindow PROVE Aware'
  <1>1. PICK m : m = [kind |-> "window", epoch |-> controlEpoch, token |-> NewToken]
    OBVIOUS
  <1>2. /\ Admitted("window") /\ Accept("window", 1, 1, TRUE) /\ seen' = seen
        /\ toComp' = toComp \o <<AcquireRequest(controlEpoch), m>>
    BY <1>1 DEF StartWindow
  <1>3. /\ AcquireRequest(controlEpoch) \in Requests
        /\ AcquireRequest(controlEpoch).kind = "acquire"
    BY NumbersAre, RequestsAre
  <1>4. NewToken \in Tokens /\ controlEpoch \in Nat
    BY <1>2, NewTokenIs, NumbersAre
  <1>5. m \in Requests /\ m.kind = "window"
    BY <1>1, <1>4 DEF Requests
  <1>6. Calm(toComp, toComp', nextOperation)
    BY <1>2, <1>3, <1>5, CalmTwo
  <1> QED BY <1>2, <1>6, AcceptAware DEF SameView

LEMMA StartPasteAware == ASSUME IInv, IInv', Aware, StartPaste PROVE Aware'
  <1>1. PICK m : m = [kind |-> "offer", epoch |-> controlEpoch, token |-> NewToken]
    OBVIOUS
  <1>2. /\ Admitted("paste") /\ Accept("paste", 1, 1, TRUE)
        /\ seen' = [seen EXCEPT !.clipToken = 0, !.clipOk = TRUE, !.transferred = FALSE]
        /\ toComp' = toComp \o <<AcquireRequest(controlEpoch), m>>
    BY <1>1 DEF StartPaste
  <1>3. /\ AcquireRequest(controlEpoch) \in Requests
        /\ AcquireRequest(controlEpoch).kind = "acquire"
    BY NumbersAre, RequestsAre
  <1>4. NewToken \in Tokens /\ controlEpoch \in Nat
    BY <1>2, NewTokenIs, NumbersAre
  <1>5. m \in Requests /\ m.kind = "offer"
    BY <1>1, <1>4 DEF Requests
  <1>6. Calm(toComp, toComp', nextOperation)
    BY <1>2, <1>3, <1>5, CalmTwo
  <1>7. SameView
    BY <1>2, NumbersAre DEF SameView, Views
  <1> QED BY <1>2, <1>6, <1>7, AcceptAware

LEMMA ServeAware == ASSUME IInv, IInv', Aware, Serve PROVE Aware'
  BY AcquireControlAware, InterruptAware, ResumeAware, ScopeChangesAware, StartTypeAware,
     StartWindowAware, StartPasteAware, StartSemanticAware
  DEF Serve

\* advance_typing sends at most keys, after a request for the gate.
LEMMA KeysCalm ==
    ASSUME IInv, AdvanceOnly, typing # 0,
           \/ toComp' = toComp
           \/ toComp' = Append(toComp, AcquireRequest(Current.epoch))
           \/ CodepointSent
    PROVE  Calm(toComp, toComp', nextOperation) /\ SameComp /\ SameView
  <1>1. toComp \in Seq(Requests)
    BY NumbersAre
  <1>2. AcquireRequest(Current.epoch) \in Requests /\ AcquireRequest(Current.epoch).kind = "acquire"
    BY NumbersAre, RequestsAre
  <1>3. ASSUME CodepointSent PROVE Calm(toComp, toComp', nextOperation)
    <2>1. PICK m : m = KeyRequest(typing)
      OBVIOUS
    <2>2. m \in Requests /\ m.kind = "key"
      BY <2>1, CurrentIs DEF KeyRequest, Requests, IInv
    <2> QED BY <1>2, <1>3, <2>1, <2>2, CalmTwo DEF CodepointSent
  <1>4. Calm(toComp, toComp', nextOperation)
    BY <1>1, <1>2, <1>3, CalmItself, CalmMore
  <1>5. SameComp /\ SameView
    BY AdvanceIs DEF DaemonOnly, SameComp, SameView
  <1> QED BY <1>4, <1>5

\* The operation goes on, with its receipt changed to o.
LEMMA GoesOnAware ==
    ASSUME IInv, IInv', Aware, SameComp, UNCHANGED <<controlEpoch, nextOperation, typing>>,
           SameView, Calm(toComp, toComp', nextOperation), typing # 0,
           NEW o, operations' = [operations EXCEPT ![Slot(typing)] = o],
           o.epoch = Current.epoch, o.known = Current.known
    PROVE  Aware'
  <1>1. PICK s \in 0..MaxOperations - 1 : s = Slot(typing)
    BY CurrentIs DEF IInv
  <1> QED BY <1>1, WriteAware DEF Current

LEMMA AdvanceIdleAware == ASSUME IInv, IInv', Aware, AdvanceIdle PROVE Aware'
  BY AdvanceIs, IdleAware DEF AdvanceIdle, SameLease, NothingEnds, operationVars, DaemonOnly,
                              SameComp, SameView

LEMMA AdvanceCancelledAware == ASSUME IInv, IInv', Aware, AdvanceCancelled PROVE Aware'
  <1>1. PICK outcome : Finish(Current, outcome)
    BY DEF AdvanceCancelled
  <1>2. AdvanceOnly /\ typing # 0 /\ UNCHANGED <<toComp, controlEpoch>>
    BY DEF AdvanceCancelled, SameLease
  <1> QED BY <1>1, <1>2, KeysCalm, FinishAware

LEMMA TypeCodepointAware == ASSUME IInv, IInv', Aware, TypeCodepoint PROVE Aware'
  <1>1. PICK o : o = [Current EXCEPT !.submitted = @ + 1]
    OBVIOUS
  <1>2. /\ typing # 0 /\ AdvanceOnly /\ controlEpoch' = controlEpoch
        /\ toComp' = Append(toComp, AcquireRequest(Current.epoch)) \/ CodepointSent
        /\ \/ Finish(o, "finished")
           \/ operations' = [operations EXCEPT ![Slot(typing)] = o]
              /\ UNCHANGED <<nextOperation, typing>>
           \/ Finish(Current, "outcome_unknown")
    BY <1>1 DEF TypeCodepoint, Proceeds, SameLease
  <1>3. Calm(toComp, toComp', nextOperation) /\ SameComp /\ SameView
    BY <1>2, KeysCalm
  <1>4. o.epoch = Current.epoch /\ o.known = Current.known
    BY <1>1, <1>2, CurrentIs DEF IInv, ReceiptType
  <1>5. CASE Finish(o, "finished")
    BY <1>2, <1>3, <1>5, FinishAware
  <1>6. CASE Finish(Current, "outcome_unknown")
    BY <1>2, <1>3, <1>6, FinishAware
  <1>7. CASE operations' = [operations EXCEPT ![Slot(typing)] = o]
             /\ UNCHANGED <<nextOperation, typing>>
    BY <1>2, <1>3, <1>4, <1>7, GoesOnAware
  <1> QED BY <1>2, <1>5, <1>6, <1>7

LEMMA PasteRefusedAware == ASSUME IInv, IInv', Aware, PasteRefused PROVE Aware'
  <1>1. /\ Finish(Current, "rejected") /\ AdvanceOnly /\ typing # 0
        /\ UNCHANGED <<toComp, controlEpoch>>
    BY DEF PasteRefused, Proceeds, SameLease
  <1> QED BY <1>1, KeysCalm, FinishAware

LEMMA PasteProceedsAware == ASSUME IInv, IInv', Aware, PasteProceeds PROVE Aware'
  <1>1. PICK o : o = [Current EXCEPT !.keysSent = TRUE]
    OBVIOUS
  <1>2. /\ typing # 0 /\ AdvanceOnly /\ controlEpoch' = controlEpoch
        /\ toComp' = toComp \/ toComp' = Append(toComp, AcquireRequest(Current.epoch))
        /\ \/ Finish(o, "finished")
           \/ operations' = [operations EXCEPT ![Slot(typing)] = o]
              /\ UNCHANGED <<nextOperation, typing>>
    BY <1>1 DEF PasteProceeds, Proceeds, SameLease
  <1>3. Calm(toComp, toComp', nextOperation) /\ SameComp /\ SameView
    BY <1>2, KeysCalm
  <1>4. o.epoch = Current.epoch /\ o.known = Current.known
    BY <1>1, <1>2, CurrentIs DEF IInv, ReceiptType
  <1>5. CASE Finish(o, "finished")
    BY <1>2, <1>3, <1>5, FinishAware
  <1>6. CASE operations' = [operations EXCEPT ![Slot(typing)] = o]
             /\ UNCHANGED <<nextOperation, typing>>
    BY <1>2, <1>3, <1>4, <1>6, GoesOnAware
  <1> QED BY <1>2, <1>5, <1>6

LEMMA PasteKeysFailAware == ASSUME IInv, IInv', Aware, PasteKeysFail PROVE Aware'
  <1>1. PICK o : Finish(o, "cancelled")
    BY DEF PasteKeysFail
  <1>2. PICK q : q = Append(toComp, AcquireRequest(Current.epoch))
    OBVIOUS
  <1>3. /\ typing # 0 /\ AdvanceOnly /\ controlEpoch' = controlEpoch + 1
        /\ toComp' = toComp \o <<AcquireRequest(Current.epoch), RevokeRequest>>
    BY DEF PasteKeysFail, Proceeds
  <1>4. toComp \in Seq(Requests) /\ AcquireRequest(Current.epoch) \in Requests
        /\ AcquireRequest(Current.epoch).kind = "acquire"
    BY <1>3, NumbersAre, RequestsAre
  <1>5. toComp' = Append(q, RevokeRequest) /\ q \in Seq(Requests)
    BY <1>2, <1>3, <1>4, RequestsAre, TwoMore
  <1>6. Calm(toComp, q, nextOperation)
    BY <1>2, <1>4, CalmItself, CalmMore
  <1>7. SameComp /\ SameView /\ typing' = 0 /\ nextOperation' = nextOperation
    BY <1>1, <1>3, AdvanceIs, EndsOperation DEF DaemonOnly, SameComp, SameView
  <1> QED BY <1>3, <1>5, <1>6, <1>7, RevokeStep

LEMMA AdvanceTypingAware == ASSUME IInv, IInv', Aware, AdvanceTyping PROVE Aware'
  BY AdvanceIdleAware, AdvanceCancelledAware, TypeCodepointAware, PasteRefusedAware,
     PasteProceedsAware, PasteKeysFailAware
  DEF AdvanceTyping

\* advance_semantic.
LEMMA UnaskedCalm ==
    ASSUME AdvancesSemantic, Unasked
    PROVE  /\ Calm(toComp, toComp', nextOperation) /\ SameComp /\ SameView
           /\ toComp' = toComp /\ controlEpoch' = controlEpoch
  BY SemanticAdvances, CalmItself DEF Unasked, DaemonOnly, SameComp, SameView

\* The receipt that advance_semantic writes keeps the lease of its operation.
LEMMA ReceiptLease ==
    ASSUME IInv, Kept(call.token)
    PROVE  /\ Receipt.epoch = operations[Slot(call.token)].epoch
           /\ Receipt.known = operations[Slot(call.token)].known
           /\ Slot(call.token) \in 0..MaxOperations - 1
  <1>1. call.token \in Nat
    BY ReceiptIs, SizesAre
  <1>2. PICK s \in 0..MaxOperations - 1 : s = Slot(call.token)
    BY <1>1, SlotIs
  <1>3. operations[s] \in ReceiptType
    BY DEF IInv, BookTyped
  <1> QED BY <1>2, <1>3 DEF Receipt, ReceiptType

LEMMA SemanticWriteAware ==
    ASSUME IInv, IInv', Aware, Kept(call.token), NEW o, Write(o), SameComp, SameView,
           controlEpoch' = controlEpoch, Calm(toComp, toComp', nextOperation),
           o.epoch = Receipt.epoch, o.known = Receipt.known
    PROVE  Aware'
  <1>1. PICK s \in 0..MaxOperations - 1 :
            /\ s = Slot(call.token) /\ o.epoch = operations[s].epoch /\ o.known = operations[s].known
    BY ReceiptLease
  <1>2. /\ operations' = [operations EXCEPT ![s] = o]
        /\ UNCHANGED <<controlEpoch, nextOperation, typing>>
    BY <1>1 DEF Write
  <1> QED BY <1>1, <1>2, WriteAware

LEMMA SemanticEndAware ==
    ASSUME IInv, IInv', Aware, AdvancesSemantic, Unasked, NEW outcome, Finish(Receipt, outcome)
    PROVE  Aware'
  BY UnaskedCalm, FinishAware

LEMMA SemanticNoteAware ==
    ASSUME IInv, IInv', Aware, AdvancesSemantic, Unasked, Kept(call.token), Write(Receipt)
    PROVE  Aware'
  BY UnaskedCalm, SemanticWriteAware

LEMMA AskAuthorityAware == ASSUME IInv, IInv', Aware, AskAuthority PROVE Aware'
  <1>1. PICK r \in ReceiptType : r = Receipt /\ r.token \in Tokens /\ r.epoch \in Nat
    BY RunsIs, ReceiptIs, ReceiptFields DEF AskAuthority, CallReady
  <1>2. PICK sync : sync = [kind |-> "sync", epoch |-> 0, token |-> r.token]
    OBVIOUS
  <1>3. /\ CallRuns /\ toComp' = toComp \o <<AcquireRequest(r.epoch), sync>>
        /\ seen' = [seen EXCEPT !.asked = r.token]
        /\ Write([r EXCEPT !.asked = TRUE])
    BY <1>1, <1>2 DEF AskAuthority, CallReady
  <1>4. /\ AdvancesSemantic /\ Kept(call.token) /\ r.token = typing /\ typing = nextOperation
        /\ nextOperation \in Nat
    BY <1>1, <1>3, RunsIs, ReceiptIs, NumbersAre
  <1>5. sync \in Requests /\ sync.kind = "sync" /\ sync.token <= nextOperation
    BY <1>1, <1>2, <1>4, SizesAre DEF Requests
  <1>6. AcquireRequest(r.epoch) \in Requests /\ AcquireRequest(r.epoch).kind = "acquire"
    BY <1>1, RequestsAre
  <1>7. Calm(toComp, toComp', nextOperation)
    BY <1>3, <1>5, <1>6, CalmTwo
  <1>8. SameView
    BY <1>3, NumbersAre DEF SameView, Views
  <1>9. SameComp /\ controlEpoch' = controlEpoch
    BY <1>4, SemanticAdvances DEF DaemonOnly, SameComp
  <1>10. PICK o : o = [r EXCEPT !.asked = TRUE]
    OBVIOUS
  <1>11. o.epoch = r.epoch /\ o.known = r.known
    BY <1>10 DEF ReceiptType
  <1> QED BY <1>1, <1>3, <1>4, <1>7, <1>8, <1>9, <1>10, <1>11, SemanticWriteAware

LEMMA SubmitCallAware == ASSUME IInv, IInv', Aware, SubmitCall PROVE Aware'
  <1>1. CallRuns /\ Unasked /\ Write(ReceiptAfterSubmit)
    BY DEF SubmitCall, CallReady
  <1>2. AdvancesSemantic /\ Kept(call.token) /\ Receipt \in ReceiptType
    BY <1>1, RunsIs, ReceiptIs
  <1>3. PICK n : n = IF call'.sent THEN 1 ELSE 0
    OBVIOUS
  <1>4. PICK o : o = [Receipt EXCEPT !.submitted = n] /\ o = ReceiptAfterSubmit
    BY <1>3 DEF ReceiptAfterSubmit
  <1>5. o.epoch = Receipt.epoch /\ o.known = Receipt.known
    BY <1>2, <1>4 DEF ReceiptType
  <1> QED BY <1>1, <1>2, <1>4, <1>5, UnaskedCalm, SemanticWriteAware

LEMMA AdvanceSemanticAware == ASSUME IInv, IInv', Aware, AdvanceSemantic PROVE Aware'
  <1>1. CASE NoReceiptKept
    BY <1>1, UnaskedCalm, IdleAware DEF NoReceiptKept, NothingEnds, operationVars
  <1>2. CASE NoteLateReply
    BY <1>2, SemanticNoteAware DEF NoteLateReply
  <1>3. CASE CallOver \/ CallInterrupted \/ CallStale \/ AuthorityRefused
    BY <1>3, RunsIs, SemanticEndAware
    DEF CallOver, CallInterrupted, CallStale, AuthorityRefused, CallReady
  <1>4. CASE CallPrepares \/ AwaitAuthority
    BY <1>4, RunsIs, SemanticNoteAware DEF CallPrepares, AwaitAuthority, CallReady
  <1> QED BY <1>1, <1>2, <1>3, <1>4, AskAuthorityAware, SubmitCallAware DEF AdvanceSemantic

LEMMA NextAware == ASSUME IInv, IInv', Aware, [Next]_vars PROVE Aware'
  <1>1. CASE UNCHANGED vars
    BY <1>1, IdleAware DEF vars, compVars, linkVars, daemonVars, operationVars, ghostVars,
                           SameComp, SameView
  <1>2. CASE Daemon
    BY <1>2, ExpireWriterAware, PreparePollAware, ReadEventAware, SyncTakeoverAware,
       SyncControlStateAware, RunCallbackAware, NoCallbackAware, ServeAware, AdvanceTypingAware,
       AdvanceSemanticAware
    DEF Daemon
  <1> QED BY <1>1, <1>2, CompositorAware, TimeAware, ApplicationMethodAware DEF Next

LEMMA InitAware == Init => Aware
  <1> SUFFICES ASSUME Init PROVE Aware
    OBVIOUS
  <1>1. /\ toComp = <<>> /\ toDaemon = <<>> /\ epoch = 1 /\ takeovers = 0 /\ controlEpoch = 1
        /\ typing = 0 /\ nextOperation = 0
        /\ seen.known = 0 /\ seen.epoch = 1 /\ seen.authToken = 0
    BY DEF Init
  <1>2. Now = 1 /\ Rank(seen) = 1
    BY <1>1 DEF Now, Rank
  <1>3. Len(toComp) = 0 /\ Len(toDaemon) = 0 /\ 1..0 = {} /\ 1..(0 + 1) - 1 = {}
    BY <1>1
  <1>4. Revs(toComp) \in Nat
    BY InitIsIInv, NumbersAre
  <1>5. KnowInv
    BY <1>1, <1>2, <1>3, <1>4 DEF KnowInv, InOrder, Last
  <1>6. AskInv
    BY <1>1, <1>3 DEF AskInv, AsksPast
  <1> QED BY <1>5, <1>6 DEF Aware

\* The inductive invariant with what the daemon knows of takeovers and of the
\* answer behind its last request for the gate.
THEOREM AwareAlways == Spec => [](IInv /\ Aware)
  <1>1. Init => IInv /\ Aware
    BY InitIsIInv, InitAware
  <1>2. IInv /\ Aware /\ [Next]_vars => (IInv /\ Aware)'
    BY NextKeeps, NextAware
  <1> QED BY <1>1, <1>2, PTL DEF Spec


\* Only advance_semantic's last step submits.
LEMMA FinishCall ==
    ASSUME IInv, NEW o, NEW outcome, Finish(o, outcome)
    PROVE  dispatched' = dispatched /\ call'.token = call.token
  <1>1. /\ dispatched' = dispatched
        /\ call' = call \/ call' = CancelledCall(call)
    BY DEF Finish, CancelCall, callVars
  <1>2. call \in CallType
    BY DEF IInv, CallInv
  <1>3. CancelledCall(call).token = call.token
    BY <1>2 DEF CancelledCall, Failed, CallType
  <1> QED BY <1>1, <1>3

SameMethod ==
    /\ dispatched' = dispatched
    /\ \/ call'.token = call.token
       \/ call'.token = NewToken /\ NewToken \in Tokens /\ told[NewToken].kind = "none"

LEMMA QuietMethod ==
    ASSUME UNCHANGED semanticVars
    PROVE  SameMethod
  BY DEF semanticVars, callVars, SameMethod

LEMMA FinishMethod ==
    ASSUME IInv, NothingEnds \/ \E o, outcome : Finish(o, outcome)
    PROVE  SameMethod
  BY FinishCall, QuietMethod DEF NothingEnds, SameMethod

LEMMA OnlySubmitCall ==
    ASSUME IInv, IInv', Next, ~SubmitCall
    PROVE  SameMethod
  <1>1. CASE Compositor
    BY <1>1, QuietMethod DEF Compositor, ProcessRequest, ProcessAcquire, ProcessStaleAcquire,
       ProcessRevoke, ProcessSync, ProcessKey, WindowAction, ClipboardOffer, ClipboardTransfer, ClipboardGone,
       HumanActs, HumanRests, CompositorOnly
  <1>2. CASE ApplicationMethod
    BY <1>2 DEF ApplicationMethod, Application, ApplicationActs, ApplicationActsAndFails, callVars, SameMethod
  <1>3. CASE Time
    BY <1>3, QuietMethod DEF Time, LeaseRunsOut, OperationLate, PreparationLate,
       DaemonQuietElapses, SameMethod, semanticVars, callVars
  <1>4. CASE ExpireWriter \/ Interrupt \/ SyncTakeover \/ SyncControlState
    BY <1>4, FinishMethod DEF ExpireWriter, Interrupt, SyncTakeover, SyncControlState, RevokeInput,
       FinishTyping
  <1>5. CASE PreparePoll
    <2>1. PreparationExpired /\ UNCHANGED <<pending, dispatched, appVars>>
      BY <1>5 DEF PreparePoll
    <2> QED BY <2>1, PreparationKeeps DEF IInv, appVars, SameMethod
  <1>6. CASE RunCallback
    BY <1>6, CallbackKeeps DEF RunCallback, IInv, SameMethod
  <1>7. CASE ReadEvent \/ NoCallback \/ AcquireControl \/ Resume \/ ScopeChanges
             \/ StartWindow \/ StartPaste
    BY <1>7, QuietMethod DEF ReadEvent, NoCallback, AcquireControl, Resume, ScopeChanges,
       StartWindow, StartPaste
  <1>8. CASE StartType
    BY <1>8, QuietMethod DEF StartType
  <1>9. CASE StartSemantic
    <2>1. dispatched' = dispatched /\ call'.token = NewToken
      BY <1>9 DEF StartSemantic, StartCall, Idle, Failed
    <2>2. NewToken \in Tokens /\ NewToken > nextOperation
      BY <1>9, NewTokenIs, NumbersAre DEF StartSemantic, NewToken
    <2>3. told[NewToken].kind = "none"
      BY <2>2 DEF IInv, BookInv, KindOf
    <2> QED BY <2>1, <2>2, <2>3 DEF SameMethod
  <1>10. CASE AdvanceTyping
    BY <1>10, FinishMethod, QuietMethod DEF AdvanceTyping, AdvanceIdle, AdvanceCancelled,
       TypeCodepoint, PasteRefused, PasteProceeds, PasteKeysFail
  <1>11. CASE NoReceiptKept \/ CallOver \/ CallInterrupted \/ CallStale \/ AuthorityRefused
    BY <1>11, FinishMethod DEF NoReceiptKept, CallOver, CallInterrupted, CallStale, AuthorityRefused
  <1>12. CASE NoteLateReply \/ CallPrepares \/ AskAuthority \/ AwaitAuthority
    BY <1>12, QuietMethod DEF NoteLateReply, CallPrepares, AskAuthority, AwaitAuthority
  <1>13. Daemon => \/ ExpireWriter \/ PreparePoll \/ ReadEvent \/ SyncTakeover \/ SyncControlState
                   \/ RunCallback \/ NoCallback \/ AcquireControl \/ Interrupt \/ Resume
                   \/ ScopeChanges \/ StartType \/ StartWindow \/ StartPaste \/ StartSemantic
                   \/ AdvanceTyping \/ NoReceiptKept \/ NoteLateReply \/ CallOver \/ CallInterrupted
                   \/ CallPrepares \/ CallStale \/ AskAuthority \/ AwaitAuthority \/ AuthorityRefused
    BY DEF Daemon, Serve, AdvanceSemantic
  <1> QED BY <1>1, <1>2, <1>3, <1>4, <1>5, <1>6, <1>7, <1>8, <1>9, <1>10, <1>11, <1>12, <1>13
      DEF Next

\* What the step that submits knows.
LEMMA SubmitsUnderPermission ==
    ASSUME IInv, Aware, SubmitCall
    PROVE  LET o == operations[Slot(call.token)] IN
           /\ o.token = typing
           /\ seen.authToken = o.token
           /\ seen.authKnown = o.known
           /\ seen.known = o.known
  <1>1. CallRuns /\ Answered /\ Authorized
    BY DEF SubmitCall, CallReady
  <1>2. Kept(call.token) /\ typing # 0 /\ call.token = typing /\ Receipt.token = typing
        /\ Receipt.epoch = Current.epoch /\ Receipt.known = Current.known /\ Current.token = typing
    BY <1>1, RunsIs, ReceiptIs, ReceiptLease, CurrentIs DEF Current, IInv
  <1>3. /\ seen.authToken = typing /\ seen.authEpoch = Current.epoch /\ seen.epoch = Current.epoch
    BY <1>1, <1>2 DEF Answered, Authorized
  <1>4. /\ Quiet /\ Current.known <= seen.authKnown
        /\ Rank(seen) = Now /\ seen.authEpoch - seen.authKnown = Now
    BY <1>2, <1>3 DEF Aware, AskInv, ReadQuiet
  <1>5. Revs(toComp) = 0
    BY <1>4, NumbersAre, RevokesFinite DEF Quiet
  <1>6. Current.epoch <= Now + Revs(toComp) + Current.known
    BY <1>2 DEF Aware, KnowInv
  <1>7. /\ Now \in Int /\ Current.epoch \in Nat /\ Current.known \in Nat /\ seen.known \in Nat
        /\ seen.authKnown \in Nat /\ seen.epoch = Rank(seen) + seen.known
    BY <1>2, NumbersAre
  <1>8. seen.authKnown = Current.known /\ seen.known = Current.known
    <2>1. PICK e \in Nat, k \in Nat, n \in Int, a \in Nat, x \in Nat :
              /\ e = Current.epoch /\ k = Current.known /\ n = Now
              /\ a = seen.authKnown /\ x = seen.known
      BY <1>7
    <2>2. e <= n + k /\ k <= a /\ e - a = n /\ e = n + x
      <3>1. e <= n + 0 + k
        BY <1>5, <1>6, <2>1
      <3>2. e - a = n
        BY <1>3, <1>4, <2>1
      <3>3. e = n + x
        BY <1>3, <1>4, <1>7, <2>1
      <3> QED BY <1>4, <2>1, <3>1, <3>2, <3>3
    <2>3. a = k /\ x = k
      BY <2>2
    <2> QED BY <2>1, <2>3
  <1> QED BY <1>2, <1>3, <1>8 DEF Current

\* A semantic method leaves only if the compositor, asked after the call was
\* prepared, had the gate open for it, and no takeover came between the
\* acceptance of the operation and that answer, nor is one known since
\* (agentseat_input_check_authority and advance_semantic).
THEOREM PermissionIsFresh == Spec => SubmittedUnderPermission
  <1> DEFINE o == operations[Slot(call.token)]
             Fresh == /\ o.token = typing
                      /\ seen.authToken = o.token
                      /\ seen.authKnown = o.known
                      /\ seen.known = o.known
  <1>1. IInv /\ Aware /\ IInv' /\ [Next]_vars => [(call'.sent /\ ~call.sent) => Fresh]_vars
    <2> SUFFICES ASSUME IInv, Aware, IInv', Next, call'.sent, ~call.sent
                 PROVE  Fresh
      OBVIOUS
    <2>1. CASE SubmitCall
      BY <2>1, SubmitsUnderPermission
    <2>2. CASE ~SubmitCall
      <3>1. SameMethod
        BY <2>2, OnlySubmitCall
      <3>2. /\ call'.token # 0 => (call'.sent <=> call'.token \in dispatched')
            /\ call'.token = 0 => ~call'.sent
        BY DEF IInv, CallInv
      <3>3. call'.token # 0 /\ call'.token \in dispatched
        BY <3>1, <3>2 DEF SameMethod
      <3>4. call'.token # call.token
        BY <3>3 DEF IInv, CallInv
      <3>5. told[call'.token].kind = "none"
        BY <3>1, <3>4 DEF SameMethod
      <3>6. told[call'.token].kind = "semantic"
        BY <3>3 DEF IInv, TieInv, KindOf
      <3> QED BY <3>5, <3>6
    <2> QED BY <2>1, <2>2
  <1> QED BY <1>1, AwareAlways, PTL DEF Spec, SubmittedUnderPermission

=============================================================================
