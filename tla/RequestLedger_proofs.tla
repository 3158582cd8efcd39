------------------------ MODULE RequestLedger_proofs ------------------------
(***************************************************************************)
(* Proofs about RequestLedger, for any number of controllers, requests and *)
(* daemons and any limits of the ledger: it implements OnceOnly, so that a *)
(* request is carried out at most once and answered in one way.            *)
(*                                                                         *)
(* The receipts do not matter to the first half: what keeps a request from *)
(* being carried out again is its controller's high-water mark in its own  *)
(* session (Marks) and the session_id afterwards.  They matter to the      *)
(* second: every receipt is an answer that was given (Faithful).           *)
(*                                                                         *)
(* Then what the ring keeps.  The slots are named by their age, from next  *)
(* on (Place, At), the bytes are a sum over them (Books), and what they    *)
(* hold is the end of what was stored (Numbered, Window).                  *)
(***************************************************************************)
EXTENDS RequestLedger, FiniteSetTheorems, NaturalsInduction, WellFoundedInduction, TLAPS

\* What was carried out is at or below a mark, or belongs to an earlier daemon.
Marks ==
    \A k \in Keys : executions[k] # 0 =>
        \/ k.session < session
        \/ /\ k.session = session
           /\ k.owner \in DOMAIN highest
           /\ k.sequence <= highest[k.owner]

\* The request being served holds its controller's mark, has not been answered,
\* and has been carried out if and only if there is an outcome.
Serving ==
    /\ Idle => outcome = NoOutcome
    /\ ~Idle =>
        /\ current.session = session
        /\ current.owner \in DOMAIN highest
        /\ current.sequence = highest[current.owner]
        /\ outcome = NoOutcome => executions[Key(current)] = 0
        /\ outcome # NoOutcome => executions[Key(current)] = 1
        /\ \A a \in answered : a.key # Key(current)

\* Answers are about requests that were carried out.
Grounded == \A a \in answered : executions[a.key] = 1

\* Every receipt in the ring repeats an answer.
Faithful == \A i \in Slots : records[i] # NoRecord => AnswerOf(records[i]) \in answered

OnceInv ==
    /\ RequestTypes
    /\ Marks
    /\ Serving
    /\ Grounded
    /\ Faithful
    /\ AtMostOnce
    /\ OneAnswer

----------------------------------------------------------------------------
(* Requests and their keys.                                                *)

LEMMA KeyType ==
    ASSUME NEW r \in Requests
    PROVE  /\ Key(r) \in Keys
           /\ Key(r).session = r.session
           /\ Key(r).owner = r.owner
           /\ Key(r).sequence = r.sequence
  BY DEF Key, Keys, Requests

LEMMA CurrentIsRequest ==
    ASSUME RequestTypes, ~Idle
    PROVE  current \in Requests /\ Key(current) \in Keys
  BY KeyType DEF RequestTypes, Idle

LEMMA RequestIsSomething == \A r \in Requests : r # NoRequest
  BY NothingAssumption DEF Requests, Sessions

\* What a receipt says is one of the answers.
LEMMA ReceiptAnswer ==
    ASSUME OnceInv, NEW i \in Slots, records[i] # NoRecord
    PROVE  AnswerOf(records[i]) \in answered
  BY DEF OnceInv, Faithful

\* A replayed receipt and one that is fetched repeat an answer already given.
LEMMA ReplayRepeats ==
    ASSUME OnceInv, NEW r \in Requests, Replay(r)
    PROVE  answered' = answered
  <1>1. PICK i \in Found(r.owner, r.sequence) :
            /\ SameRequest(records[i], r)
            /\ answered' = answered \cup {[AnswerOf(records[i]) EXCEPT !.body = r.body]}
    BY DEF Replay
  <1>2. i \in Slots /\ records[i] # NoRecord
    BY DEF Found, Kept
  <1>3. AnswerOf(records[i]) \in answered
    BY <1>2, ReceiptAnswer
  <1>4. [AnswerOf(records[i]) EXCEPT !.body = r.body] = AnswerOf(records[i])
    BY <1>1 DEF SameRequest, AnswerOf
  <1> QED
    BY <1>1, <1>3, <1>4

LEMMA FetchRepeats ==
    ASSUME OnceInv, NEW c \in Controllers, NEW n \in 1..MaxSequence, RequestGet(c, n)
    PROVE  answered' = answered
  <1>1. PICK i \in Found(c, n) : answered' = answered \cup {AnswerOf(records[i])}
    BY DEF RequestGet
  <1>2. i \in Slots /\ records[i] # NoRecord
    BY DEF Found, Kept
  <1> QED
    BY <1>1, <1>2, ReceiptAnswer

----------------------------------------------------------------------------
(* The invariant holds at first and is kept by every action.               *)

LEMMA OnceInit == Init => OnceInv
  <1> SUFFICES ASSUME Init PROVE OnceInv
    OBVIOUS
  <1>1. RequestTypes
    BY LimitsAssumption DEF Init, RequestTypes
  <1>2. Marks /\ Grounded /\ Faithful /\ AtMostOnce /\ OneAnswer
    BY DEF Init, Marks, Grounded, Faithful, AtMostOnce, OneAnswer, Promise!AtMostOnce,
           Promise!OneAnswer, Promise!Keys, Keys, Sessions
  <1>3. Serving
    BY DEF Init, Serving, Idle
  <1> QED
    BY <1>1, <1>2, <1>3 DEF OnceInv

\* Nothing of what the invariant is about changes.
LEMMA OnceUnchanged ==
    ASSUME OnceInv, answered' = answered,
           UNCHANGED <<session, highest, records, current, outcome, executions>>
    PROVE  OnceInv'
  <1>1. RequestTypes'
    BY DEF OnceInv, RequestTypes
  <1>2. Marks' /\ Grounded' /\ AtMostOnce' /\ OneAnswer'
    BY DEF OnceInv, Marks, Grounded, AtMostOnce, OneAnswer, Promise!AtMostOnce, Promise!OneAnswer
  <1>3. Serving'
    BY DEF OnceInv, Serving, Idle
  <1>4. Faithful'
    BY DEF OnceInv, Faithful, AnswerOf
  <1> QED
    BY <1>1, <1>2, <1>3, <1>4 DEF OnceInv

\* A request is admitted: it is above every request of its controller that was
\* carried out in this session, so it has neither been carried out nor answered.
LEMMA OnceAdmit ==
    ASSUME OnceInv, NEW r \in Requests, Admit(r)
    PROVE  OnceInv'
  <1> USE DEF OnceInv
  <1>0. /\ current' = r
        /\ r # NoRequest
        /\ r.session = session
        /\ r.owner \in Controllers
        /\ r.sequence \in 1..MaxSequence
        /\ outcome = NoOutcome
        /\ UNCHANGED <<session, records, outcome, executions, answered>>
    BY RequestIsSomething DEF Admit, Serving, Idle, Requests
  <1>1. /\ DOMAIN highest' = DOMAIN highest \cup {r.owner}
        /\ highest'[r.owner] = r.sequence
        /\ \A c \in DOMAIN highest : c # r.owner => highest'[c] = highest[c]
        /\ highest' \in [DOMAIN highest' -> 1..MaxSequence]
    BY <1>0 DEF Admit, RequestTypes
  <1>2. r.owner \in DOMAIN highest => r.sequence > highest[r.owner]
    BY <1>0, LimitsAssumption DEF Admit, Overdue, Registered, RequestTypes
  <1>3. executions[Key(r)] = 0
    BY <1>0, <1>2, KeyType, LimitsAssumption DEF Marks, RequestTypes
  <1>4. \A a \in answered : a.key # Key(r)
    BY <1>3 DEF Grounded
  <1>5. RequestTypes'
    BY <1>0, <1>1 DEF RequestTypes
  <1>6. Marks'
    <2> SUFFICES ASSUME NEW k \in Keys, executions[k] # 0, k.session = session
                 PROVE  k.owner \in DOMAIN highest' /\ k.sequence <= highest'[k.owner]
      BY <1>0, LimitsAssumption DEF Marks, RequestTypes, Keys, Sessions
    <2>1. k.owner \in DOMAIN highest /\ k.sequence <= highest[k.owner]
      BY LimitsAssumption DEF Marks, RequestTypes, Keys, Sessions
    <2>2. CASE k.owner = r.owner
      <3>1. highest[r.owner] \in Nat /\ r.sequence \in Nat /\ k.sequence \in Nat
        BY <1>0, <2>1, <2>2, LimitsAssumption DEF RequestTypes, Keys
      <3> QED
        BY <3>1, <2>1, <2>2, <1>1, <1>2
    <2>3. CASE k.owner # r.owner
      BY <2>1, <2>3, <1>1
    <2> QED
      BY <2>2, <2>3
  <1>7. Serving'
    BY <1>0, <1>1, <1>3, <1>4 DEF Serving, Idle, Key
  <1>8. Grounded' /\ AtMostOnce' /\ OneAnswer'
    BY <1>0 DEF Grounded, AtMostOnce, OneAnswer, Promise!AtMostOnce, Promise!OneAnswer
  <1>9. Faithful'
    BY <1>0 DEF Faithful, AnswerOf
  <1> QED
    BY <1>5, <1>6, <1>7, <1>8, <1>9

\* The request being served is carried out, for the first time.
LEMMA OnceDispatch ==
    ASSUME OnceInv, Dispatch
    PROVE  OnceInv'
  <1> USE DEF OnceInv
  <1>0. /\ current \in Requests
        /\ Key(current) \in Keys
        /\ executions[Key(current)] = 0
        /\ outcome' \in Outcomes
        /\ outcome' # NoOutcome
        /\ UNCHANGED <<session, highest, records, current, answered>>
    BY CurrentIsRequest, NothingAssumption DEF Dispatch, ledgerVars, Serving
  <1>1. /\ executions' \in [Keys -> Nat]
        /\ executions'[Key(current)] = 1
        /\ \A k \in Keys : k # Key(current) => executions'[k] = executions[k]
    BY <1>0 DEF Dispatch, RequestTypes
  <1>2. RequestTypes'
    BY <1>0, <1>1 DEF RequestTypes
  <1>3. Serving' /\ ~Idle
    BY <1>0, <1>1 DEF Serving, Idle, Dispatch, Key
  <1>4. Marks'
    <2> SUFFICES ASSUME NEW k \in Keys, executions'[k] # 0
                 PROVE  \/ k.session < session
                        \/ /\ k.session = session
                           /\ k.owner \in DOMAIN highest
                           /\ k.sequence <= highest[k.owner]
      BY <1>0 DEF Marks
    <2>1. CASE k = Key(current)
      <3>1. /\ k.session = session
            /\ k.owner \in DOMAIN highest
            /\ k.sequence = highest[k.owner]
        BY <1>0, <1>3, <2>1, KeyType DEF Serving
      <3>2. k.sequence \in Nat
        BY LimitsAssumption DEF Keys
      <3> QED
        BY <3>1, <3>2
    <2>2. CASE k # Key(current)
      BY <1>1, <2>2 DEF Marks
    <2> QED
      BY <2>1, <2>2
  <1>5. Grounded'
    <2>1. \A a \in answered : a.key \in Keys
      BY DEF RequestTypes, Answers
    <2> QED
      BY <2>1, <1>0, <1>1 DEF Grounded
  <1>6. AtMostOnce'
    BY <1>1 DEF AtMostOnce, Promise!AtMostOnce, Promise!Keys, Keys
  <1>7. OneAnswer'
    BY <1>0 DEF OneAnswer, Promise!OneAnswer
  <1>8. Faithful'
    BY <1>0 DEF Faithful, AnswerOf
  <1> QED
    BY <1>2, <1>3, <1>4, <1>5, <1>6, <1>7, <1>8

\* The answer Finish gives.
Given == [key |-> Key(current), body |-> current.body, outcome |-> outcome]

\* The request being served is answered, and the answer kept or not.
LEMMA OnceFinish ==
    ASSUME OnceInv, NEW size \in Sizes, Finish(size)
    PROVE  OnceInv'
  <1> USE DEF OnceInv
  <1>0. /\ current \in Requests
        /\ Key(current) \in Keys
        /\ executions[Key(current)] = 1
        /\ current.session = session
        /\ outcome \in Outcomes
        /\ \A a \in answered : a.key # Key(current)
    BY CurrentIsRequest DEF Finish, Serving, RequestTypes
  <1>1. /\ current' = NoRequest
        /\ outcome' = NoOutcome
        /\ answered' = answered \cup {Given}
        /\ UNCHANGED <<session, highest, executions>>
    BY DEF Finish, Given
  <1>2. Given \in Answers /\ Given.key = Key(current)
    BY <1>0 DEF Given, Answers, Requests
  <1> DEFINE Receipt ==
        [owner |-> current.owner, sequence |-> current.sequence,
         body |-> current.body, outcome |-> outcome, bytes |-> size]
  <1>3. Receipt \in Receipts
    BY <1>0 DEF Receipts, Requests
  <1>4. AnswerOf(Receipt) = Given
    BY <1>0 DEF AnswerOf, Given, Key
  <1> HIDE DEF Receipt
  <1>5. /\ records' \in [Slots -> Receipts \cup {NoRecord}]
        /\ \A i \in Slots : records'[i] = records[i] \/ records'[i] = NoRecord
                             \/ records'[i] = Receipt
    <2>1. CASE UNCHANGED records
      BY <2>1 DEF RequestTypes
    <2>2. CASE Store(size)
      <3>1. records' = [i \in Slots |->
                IF i = SlotFor(Evictions(size)) THEN Receipt
                ELSE IF i \in Oldest(Evictions(size)) THEN NoRecord ELSE records[i]]
        BY <2>2 DEF Store, Receipt
      <3> QED
        BY <3>1, <1>3 DEF RequestTypes
    <2> QED
      BY <2>1, <2>2 DEF Finish
  <1>6. RequestTypes'
    BY <1>0, <1>1, <1>2, <1>5 DEF RequestTypes
  <1>7. Marks' /\ AtMostOnce'
    BY <1>1 DEF Marks, AtMostOnce, Promise!AtMostOnce
  <1>8. Serving'
    BY <1>1 DEF Serving, Idle
  <1>9. Grounded'
    BY <1>0, <1>1, <1>2 DEF Grounded
  <1>10. OneAnswer'
    BY <1>0, <1>1, <1>2 DEF OneAnswer, Promise!OneAnswer
  <1>11. Faithful'
    <2> SUFFICES ASSUME NEW i \in Slots, records'[i] # NoRecord
                 PROVE  AnswerOf(records'[i]) \in answered'
      BY <1>1 DEF Faithful, AnswerOf
    <2>1. CASE records'[i] = records[i]
      BY <2>1, <1>1 DEF Faithful
    <2>2. CASE records'[i] = Receipt
      BY <2>2, <1>1, <1>4
    <2> QED
      BY <2>1, <2>2, <1>5
  <1> QED
    BY <1>6, <1>7, <1>8, <1>9, <1>10, <1>11

\* A new daemon begins: what was carried out belongs to an earlier one.
LEMMA OnceRestart ==
    ASSUME OnceInv, Restart
    PROVE  OnceInv'
  <1> USE DEF OnceInv
  <1>1. /\ session' = session + 1
        /\ highest' = [c \in {} |-> 0]
        /\ records' = [i \in Slots |-> NoRecord]
        /\ current' = NoRequest
        /\ outcome' = NoOutcome
        /\ UNCHANGED <<executions, answered>>
    BY DEF Restart
  <1>2. RequestTypes'
    BY <1>1 DEF RequestTypes
  <1>3. Marks'
    <2>1. \A k \in Keys : k.session \in Nat
      BY LimitsAssumption DEF Keys, Sessions
    <2> QED
      BY <1>1, <2>1 DEF Marks, RequestTypes
  <1>4. Serving'
    BY <1>1 DEF Serving, Idle
  <1>5. Grounded' /\ AtMostOnce' /\ OneAnswer'
    BY <1>1 DEF Grounded, AtMostOnce, OneAnswer, Promise!AtMostOnce, Promise!OneAnswer
  <1>6. Faithful'
    BY <1>1 DEF Faithful
  <1> QED
    BY <1>2, <1>3, <1>4, <1>5, <1>6

LEMMA OnceNext == OnceInv /\ [Next]_vars => OnceInv'
  <1> SUFFICES ASSUME OnceInv, [Next]_vars PROVE OnceInv'
    OBVIOUS
  <1>1. CASE \E r \in Requests : Receive(r)
    <2>1. PICK r \in Requests : Receive(r)
      BY <1>1
    <2>2. CASE Refusal
      BY <2>2, OnceUnchanged DEF Refusal, vars, ledgerVars
    <2>3. CASE Replay(r)
      BY <2>3, ReplayRepeats, OnceUnchanged DEF Replay, ledgerVars
    <2>4. CASE Admit(r)
      BY <2>4, OnceAdmit
    <2> QED
      BY <2>1, <2>2, <2>3, <2>4
      DEF Receive, RefuseSession, RefuseController, RefuseConflict, RefuseExpired
  <1>2. CASE Dispatch
    BY <1>2, OnceDispatch
  <1>3. CASE \E size \in Sizes : Finish(size)
    BY <1>3, OnceFinish
  <1>4. CASE \E c \in Controllers, n \in 1..MaxSequence : RequestGet(c, n)
    <2>1. PICK c \in Controllers, n \in 1..MaxSequence : RequestGet(c, n)
      BY <1>4
    <2> QED
      BY <2>1, FetchRepeats, OnceUnchanged DEF RequestGet, ledgerVars
  <1>5. CASE Restart
    BY <1>5, OnceRestart
  <1>6. CASE UNCHANGED vars
    BY <1>6, OnceUnchanged DEF vars, ledgerVars
  <1> QED
    BY <1>1, <1>2, <1>3, <1>4, <1>5, <1>6 DEF Next

LEMMA OnceAlways == Spec => []OnceInv
  BY OnceInit, OnceNext, PTL DEF Spec

\* Nothing is carried out twice, whatever is resent, evicted or restarted:
\* as_request_begin moves the mark before response_for does anything, and only
\* a new session_id ever forgets a mark.
THEOREM CarriedOutOnce == Spec => []AtMostOnce
  <1>1. OnceInv => AtMostOnce
    BY DEF OnceInv
  <1> QED
    BY <1>1, OnceAlways, PTL

\* A repeated request and request.get tell what the first answer told.
THEOREM AnsweredAlike == Spec => []OneAnswer
  <1>1. OnceInv => OneAnswer
    BY DEF OnceInv
  <1> QED
    BY <1>1, OnceAlways, PTL

----------------------------------------------------------------------------
(* The ledger implements OnceOnly.                                         *)

LEMMA PromiseInit == Init => Promise!Init
  BY DEF Init, Promise!Init, Keys, Promise!Keys, Sessions

LEMMA DispatchExecutes ==
    ASSUME OnceInv, Dispatch
    PROVE  Promise!Next
  <1>1. /\ Key(current) \in Keys
        /\ current.session = session
        /\ current.owner \in DOMAIN highest
        /\ current.sequence = highest[current.owner]
        /\ executions[Key(current)] = 0
    BY CurrentIsRequest DEF OnceInv, Serving, Dispatch
  <1>2. Key(current).sequence = highest[current.owner] /\ Key(current).owner = current.owner
        /\ Key(current).session = session
    BY <1>1 DEF Key
  <1>3. ASSUME NEW j \in Keys, Promise!Later(j, Key(current))
        PROVE  executions[j] = 0
    <2>1. j.session = session /\ j.owner = current.owner /\ j.sequence > highest[current.owner]
      BY <1>2, <1>3 DEF Promise!Later
    <2>2. session \in Nat /\ j.sequence \in Nat /\ highest[current.owner] \in Nat
      BY <1>1, LimitsAssumption DEF OnceInv, RequestTypes, Keys
    <2>3. ~(j.session < session) /\ ~(j.sequence <= highest[j.owner])
      BY <2>1, <2>2
    <2> QED
      BY <2>3 DEF OnceInv, Marks
  <1>4. executions' = [executions EXCEPT ![Key(current)] = 1] /\ UNCHANGED answered
    BY <1>1 DEF Dispatch, OnceInv, RequestTypes
  <1>5. Promise!Execute(Key(current))
    BY <1>1, <1>3, <1>4 DEF Promise!Execute, Promise!Keys, Keys, Sessions
  <1> QED
    BY <1>1, <1>5 DEF Promise!Next, Promise!Keys, Keys, Sessions

LEMMA FinishAnswers ==
    ASSUME OnceInv, NEW size \in Sizes, Finish(size)
    PROVE  Promise!Next
  <1>1. /\ Key(current) \in Keys
        /\ current \in Requests
        /\ outcome \in Outcomes
        /\ executions[Key(current)] = 1
        /\ \A a \in answered : a.key # Key(current)
    BY CurrentIsRequest DEF Finish, OnceInv, Serving, RequestTypes
  <1>2. Given \in Promise!Answers /\ Given.key = Key(current)
    BY <1>1 DEF Given, Promise!Answers, Promise!Keys, Keys, Sessions, Requests
  <1>3. answered' = answered \cup {Given} /\ UNCHANGED executions
    BY DEF Finish, Given
  <1>4. Promise!Answer(Given)
    BY <1>1, <1>2, <1>3 DEF Promise!Answer
  <1> QED
    BY <1>2, <1>4 DEF Promise!Next

LEMMA PromiseNext == OnceInv /\ [Next]_vars => [Promise!Next]_(Promise!vars)
  <1> SUFFICES ASSUME OnceInv, [Next]_vars, ~UNCHANGED <<executions, answered>>
               PROVE  Promise!Next
    BY DEF Promise!vars
  <1>1. CASE \E r \in Requests : Receive(r)
    <2>1. PICK r \in Requests : Receive(r)
      BY <1>1
    <2>2. CASE Refusal
      BY <2>2 DEF Refusal, vars
    <2>3. CASE Replay(r)
      BY <2>3, ReplayRepeats DEF Replay
    <2>4. CASE Admit(r)
      BY <2>4 DEF Admit
    <2> QED
      BY <2>1, <2>2, <2>3, <2>4
      DEF Receive, RefuseSession, RefuseController, RefuseConflict, RefuseExpired
  <1>2. CASE Dispatch
    BY <1>2, DispatchExecutes
  <1>3. CASE \E size \in Sizes : Finish(size)
    BY <1>3, FinishAnswers
  <1>4. CASE \E c \in Controllers, n \in 1..MaxSequence : RequestGet(c, n)
    BY <1>4, FetchRepeats DEF RequestGet
  <1>5. CASE Restart
    BY <1>5 DEF Restart
  <1>6. CASE UNCHANGED vars
    BY <1>6 DEF vars
  <1> QED
    BY <1>1, <1>2, <1>3, <1>4, <1>5, <1>6 DEF Next

\* Every behaviour of the ledger, seen through what was carried out and what
\* was answered, is one that OnceOnly allows: requests of a controller are
\* carried out in the order of their numbers, each once, and answered once.
THEOREM LedgerImplementsPromise == Spec => OnceOnlySpec
  BY PromiseInit, PromiseNext, OnceAlways, PTL DEF Spec, OnceOnlySpec, Promise!Spec

----------------------------------------------------------------------------
(* Sums over finite sets.                                                  *)

Pick(s) == CHOOSE x \in s : TRUE

\* f is how MapThenSumSet adds up g over the subsets of S.
IsSum(f, g, S) ==
    f = [s \in SUBSET S |-> IF s = {} THEN 0 ELSE g[Pick(s)] + f[s \ {Pick(s)}]]

Sum(g, S) == (CHOOSE k : IsSum(k, g, S))[S]

LEMMA PickIsOne ==
    ASSUME NEW s, s # {}
    PROVE  Pick(s) \in s
  BY DEF Pick

LEMMA Smallest ==
    ASSUME NEW U, IsFiniteSet(U), NEW T \in SUBSET SUBSET U, T # {}
    PROVE  \E s \in T : \A t \in T : t \subseteq s => t = s
  <1>1. IsWellFoundedOn(StrictSubsetOrdering(U), SUBSET U)
    BY FS_StrictSubsetOrderingWellFounded, FS_FiniteSubsetsOfFinite
  <1>2. PICK s \in T : \A t \in T : <<t, s>> \notin StrictSubsetOrdering(U)
    BY <1>1, WFMin
  <1>3. ASSUME NEW t \in T, t \subseteq s PROVE t = s
    BY <1>2, <1>3 DEF StrictSubsetOrdering
  <1> QED BY <1>3

LEMMA SumIsUnique ==
    ASSUME NEW S, IsFiniteSet(S), NEW g, NEW f, NEW h, IsSum(f, g, S), IsSum(h, g, S)
    PROVE  f = h
  <1> DEFINE T == {s \in SUBSET S : f[s] # h[s]}
  <1>1. CASE T # {}
    <2>1. PICK s \in T : \A t \in T : t \subseteq s => t = s
      <3>1. T \in SUBSET SUBSET S
        OBVIOUS
      <3> HIDE DEF T
      <3> QED BY <1>1, <3>1, Smallest
    <2>2. s # {}
      BY <2>1 DEF IsSum
    <2>3. Pick(s) \in s
      BY <2>2, PickIsOne
    <2>4. s \ {Pick(s)} \in SUBSET S /\ f[s \ {Pick(s)}] = h[s \ {Pick(s)}]
      BY <2>1, <2>3
    <2> QED BY <2>1, <2>2, <2>4 DEF IsSum
  <1>2. CASE T = {}
    <2>1. \A s \in SUBSET S : f[s] = h[s]
      BY <1>2
    <2>2. DOMAIN f = SUBSET S /\ DOMAIN h = SUBSET S
      BY DEF IsSum
    <2>3. f = [s \in SUBSET S |-> f[s]] /\ h = [s \in SUBSET S |-> h[s]]
      BY DEF IsSum
    <2> QED BY <2>1, <2>3
  <1> QED BY <1>1, <1>2

LEMMA SumRestricts ==
    ASSUME NEW S, NEW g, NEW f, IsSum(f, g, S), NEW T \in SUBSET S
    PROVE  IsSum([s \in SUBSET T |-> f[s]], g, T)
  <1> DEFINE h == [s \in SUBSET T |-> f[s]]
  <1>1. ASSUME NEW s \in SUBSET T
        PROVE  h[s] = IF s = {} THEN 0 ELSE g[Pick(s)] + h[s \ {Pick(s)}]
    <2>1. s \in SUBSET S /\ s \ {Pick(s)} \in SUBSET T
      OBVIOUS
    <2>2. f[s] = IF s = {} THEN 0 ELSE g[Pick(s)] + f[s \ {Pick(s)}]
      BY <2>1 DEF IsSum
    <2> QED BY <2>1, <2>2
  <1>2. h = [s \in SUBSET T |-> h[s]]
    OBVIOUS
  <1> HIDE DEF h
  <1>3. h = [s \in SUBSET T |-> IF s = {} THEN 0 ELSE g[Pick(s)] + h[s \ {Pick(s)}]]
    BY <1>1, <1>2
  <1> QED BY <1>3 DEF IsSum, h

LEMMA SumSteps ==
    ASSUME NEW t, IsFiniteSet(t), t # {}, NEW g, \E k : IsSum(k, g, t)
    PROVE  Sum(g, t) = g[Pick(t)] + Sum(g, t \ {Pick(t)})
  <1> DEFINE f == CHOOSE k : IsSum(k, g, t)
             u == t \ {Pick(t)}
             h == CHOOSE k : IsSum(k, g, u)
  <1>1. IsSum(f, g, t)
    OBVIOUS
  <1>2. u \in SUBSET t
    OBVIOUS
  <1> HIDE DEF f, u
  <1>3. IsSum([s \in SUBSET u |-> f[s]], g, u)
    BY <1>1, <1>2, SumRestricts
  <1>4. IsSum(h, g, u)
    BY <1>3
  <1>5. IsFiniteSet(u)
    BY <1>2, FS_Subset
  <1> HIDE DEF h
  <1>6. h = [s \in SUBSET u |-> f[s]]
    BY <1>3, <1>4, <1>5, SumIsUnique
  <1>7. h[u] = f[u]
    BY <1>6
  <1>8. f[t] = g[Pick(t)] + f[t \ {Pick(t)}]
    BY <1>1 DEF IsSum
  <1>9. Sum(g, t) = f[t] /\ Sum(g, t \ {Pick(t)}) = h[u]
    BY DEF Sum, f, h, u
  <1> QED BY <1>7, <1>8, <1>9 DEF u

LEMMA SumExists ==
    ASSUME NEW U, IsFiniteSet(U), NEW g
    PROVE  \E f : IsSum(f, g, U)
  <1> DEFINE T == {S \in SUBSET U : ~\E k : IsSum(k, g, S)}
  <1>1. SUFFICES ASSUME T # {} PROVE FALSE
    <2>1. U \in SUBSET U
      OBVIOUS
    <2> QED BY <2>1
  <1>2. PICK S \in T : \A t \in T : t \subseteq S => t = S
    <2>1. T \in SUBSET SUBSET U
      OBVIOUS
    <2> HIDE DEF T
    <2> QED BY <1>1, <2>1, Smallest
  <1>3. \A t \in SUBSET S : t # S => \E k : IsSum(k, g, t)
    BY <1>2
  <1>4. IsFiniteSet(S) /\ \A t \in SUBSET S : IsFiniteSet(t)
    BY <1>2, FS_Subset
  <1>5. \A t \in SUBSET S : t # S => IsSum(CHOOSE k : IsSum(k, g, t), g, t)
    BY <1>3
  <1>6. ASSUME NEW t \in SUBSET S, t # S, t # {}
        PROVE  Sum(g, t) = g[Pick(t)] + Sum(g, t \ {Pick(t)})
    BY <1>3, <1>4, <1>6, SumSteps
  <1>7. Sum(g, {}) = 0 \/ S = {}
    <2>1. CASE S # {}
      <3>1. IsSum(CHOOSE k : IsSum(k, g, {}), g, {})
        BY <1>5, <2>1
      <3> QED BY <3>1 DEF Sum, IsSum
    <2> QED BY <2>1
  <1> DEFINE f == [s \in SUBSET S |-> IF s = {} THEN 0 ELSE g[Pick(s)] + Sum(g, s \ {Pick(s)})]
  <1>8. \A s \in SUBSET S : s # S => f[s] = Sum(g, s)
    BY <1>6, <1>7
  <1>9. \A s \in SUBSET S : s # {} => s \ {Pick(s)} \in SUBSET S /\ s \ {Pick(s)} # S
    BY PickIsOne
  <1>10. \A s \in SUBSET S : f[s] = IF s = {} THEN 0 ELSE g[Pick(s)] + f[s \ {Pick(s)}]
    BY <1>8, <1>9
  <1>11. f = [s \in SUBSET S |-> f[s]]
    OBVIOUS
  <1> HIDE DEF f
  <1>12. f = [s \in SUBSET S |-> IF s = {} THEN 0 ELSE g[Pick(s)] + f[s \ {Pick(s)}]]
    BY <1>10, <1>11
  <1> QED BY <1>2, <1>12 DEF IsSum

LEMMA SumOfNone == \A g : Sum(g, {}) = 0
  <1> SUFFICES ASSUME NEW g PROVE Sum(g, {}) = 0
    OBVIOUS
  <1>1. \E k : IsSum(k, g, {})
    BY SumExists, FS_EmptySet
  <1>2. IsSum(CHOOSE k : IsSum(k, g, {}), g, {})
    BY <1>1
  <1> QED BY <1>2 DEF Sum, IsSum

LEMMA SumOfOne ==
    ASSUME NEW U, IsFiniteSet(U), NEW g, \A x \in U : g[x] \in Nat
    PROVE  \A S \in SUBSET U :
               /\ Sum(g, S) \in Nat
               /\ \A x \in S : Sum(g, S) = g[x] + Sum(g, S \ {x})
  <1> DEFINE Good(S) == /\ Sum(g, S) \in Nat
                        /\ \A x \in S : Sum(g, S) = g[x] + Sum(g, S \ {x})
             T == {S \in SUBSET U : ~Good(S)}
  <1>1. SUFFICES ASSUME T # {} PROVE FALSE
    OBVIOUS
  <1>2. PICK S \in T : \A t \in T : t \subseteq S => t = S
    <2>1. T \in SUBSET SUBSET U
      OBVIOUS
    <2> HIDE DEF T
    <2> QED BY <1>1, <2>1, Smallest
  <1>3. S \in SUBSET U /\ ~Good(S) /\ IsFiniteSet(S)
    BY <1>2, FS_Subset
  <1>4. \A t \in SUBSET S : t # S => Good(t)
    BY <1>2
  <1> HIDE DEF T
  <1>5. S # {}
    BY <1>3, SumOfNone
  <1> DEFINE p == Pick(S)
  <1>6. p \in S /\ Sum(g, S) = g[p] + Sum(g, S \ {p})
    BY <1>3, <1>5, PickIsOne, SumExists, SumSteps
  <1> HIDE DEF p
  <1>7. Good(S \ {p})
    BY <1>4, <1>6
  <1>8. Sum(g, S) \in Nat
    BY <1>3, <1>6, <1>7
  <1>9. ASSUME NEW x \in S PROVE Sum(g, S) = g[x] + Sum(g, S \ {x})
    <2>1. CASE x = p
      BY <1>6, <2>1
    <2>2. CASE x # p
      <3>1. Sum(g, S \ {p}) = g[x] + Sum(g, (S \ {p}) \ {x})
        BY <1>7, <2>2
      <3>2. Good(S \ {x})
        BY <1>4
      <3>3. Sum(g, S \ {x}) = g[p] + Sum(g, (S \ {x}) \ {p})
        BY <1>6, <2>2, <3>2
      <3>4. (S \ {p}) \ {x} = (S \ {x}) \ {p} /\ Good((S \ {x}) \ {p})
        BY <1>4
      <3>5. Sum(g, (S \ {x}) \ {p}) \in Nat /\ g[x] \in Nat /\ g[p] \in Nat
        BY <1>3, <1>6, <3>4
      <3>6. Sum(g, S) = g[p] + (g[x] + Sum(g, (S \ {x}) \ {p}))
        BY <1>6, <3>1, <3>4
      <3> HIDE DEF Good
      <3> QED BY <3>3, <3>5, <3>6
    <2> QED BY <2>1, <2>2
  <1> QED BY <1>3, <1>8, <1>9

Splits(g, U) ==
    \A S \in SUBSET U : /\ Sum(g, S) \in Nat
                         /\ \A x \in S : Sum(g, S) = g[x] + Sum(g, S \ {x})

LEMMA SumSplits ==
    ASSUME NEW U, IsFiniteSet(U), NEW g, \A x \in U : g[x] \in Nat
    PROVE  Splits(g, U)
  <1>1. \A S \in SUBSET U : /\ Sum(g, S) \in Nat
                             /\ \A x \in S : Sum(g, S) = g[x] + Sum(g, S \ {x})
    BY SumOfOne
  <1> QED BY <1>1 DEF Splits

LEMMA SumOfParts ==
    ASSUME NEW U, IsFiniteSet(U), NEW g, \A x \in U : g[x] \in Nat
    PROVE  \A S \in SUBSET U : Sum(g, U) = Sum(g, S) + Sum(g, U \ S)
  <1> DEFINE Good(S) == Sum(g, U) = Sum(g, S) + Sum(g, U \ S)
             T == {S \in SUBSET U : ~Good(S)}
  <1>0. \A S \in SUBSET U : /\ Sum(g, S) \in Nat
                             /\ \A x \in S : Sum(g, S) = g[x] + Sum(g, S \ {x})
    BY SumOfOne
  <1>1. SUFFICES ASSUME T # {} PROVE FALSE
    OBVIOUS
  <1>2. PICK S \in T : \A t \in T : t \subseteq S => t = S
    <2>1. T \in SUBSET SUBSET U
      OBVIOUS
    <2> HIDE DEF T
    <2> QED BY <1>1, <2>1, Smallest
  <1>3. S \in SUBSET U /\ ~Good(S)
    BY <1>2
  <1>4. \A t \in SUBSET S : t # S => Good(t)
    BY <1>2
  <1> HIDE DEF T
  <1>5. S # {}
    <2>1. U \ {} = U /\ Sum(g, U) \in Nat
      BY <1>0
    <2> QED BY <1>3, <2>1, SumOfNone
  <1>6. PICK x \in S : TRUE
    BY <1>5
  <1>7. Good(S \ {x})
    BY <1>4
  <1>8. Sum(g, S) = g[x] + Sum(g, S \ {x})
    BY <1>0, <1>3
  <1>9. U \ (S \ {x}) \in SUBSET U /\ x \in U \ (S \ {x}) /\ (U \ (S \ {x})) \ {x} = U \ S
    BY <1>3
  <1>10. Sum(g, U \ (S \ {x})) = g[x] + Sum(g, U \ S)
    BY <1>0, <1>9
  <1>11. Sum(g, U \ S) \in Nat /\ Sum(g, S \ {x}) \in Nat /\ g[x] \in Nat
    BY <1>0, <1>3
  <1> QED BY <1>3, <1>7, <1>8, <1>10, <1>11

\* The same values in other places add up to the same.
LEMMA SumMoves ==
    ASSUME NEW U, IsFiniteSet(U), NEW V, IsFiniteSet(V), NEW g, NEW k, NEW h,
           \A x \in U : h[x] \in V /\ g[x] = k[h[x]],
           \A x, y \in U : h[x] = h[y] => x = y,
           \A z \in V : k[z] \in Nat
    PROVE  Sum(g, U) = Sum(k, {h[x] : x \in U})
  <1> DEFINE Good(S) == Sum(g, S) = Sum(k, {h[x] : x \in S})
             T == {S \in SUBSET U : ~Good(S)}
  <1>0. /\ \A S \in SUBSET U : \A x \in S : Sum(g, S) = g[x] + Sum(g, S \ {x})
        /\ \A S \in SUBSET V : \A x \in S : Sum(k, S) = k[x] + Sum(k, S \ {x})
    <2>1. \A x \in U : g[x] \in Nat
      OBVIOUS
    <2> QED BY <2>1, SumOfOne
  <1>1. SUFFICES ASSUME T # {} PROVE FALSE
    <2>1. U \in SUBSET U
      OBVIOUS
    <2> QED BY <2>1
  <1>2. PICK S \in T : \A t \in T : t \subseteq S => t = S
    <2>1. T \in SUBSET SUBSET U
      OBVIOUS
    <2> HIDE DEF T
    <2> QED BY <1>1, <2>1, Smallest
  <1>3. S \in SUBSET U /\ ~Good(S)
    BY <1>2
  <1>4. \A t \in SUBSET S : t # S => Good(t)
    BY <1>2
  <1> HIDE DEF T
  <1>5. S # {}
    <2>1. {h[x] : x \in {}} = {}
      OBVIOUS
    <2> QED BY <1>3, <2>1, SumOfNone
  <1>6. PICK x \in S : TRUE
    BY <1>5
  <1>7. Good(S \ {x})
    BY <1>4
  <1>8. Sum(g, S) = g[x] + Sum(g, S \ {x})
    BY <1>0, <1>3
  <1> DEFINE W == {h[y] : y \in S}
  <1>9. W \in SUBSET V /\ h[x] \in W /\ W \ {h[x]} = {h[y] : y \in S \ {x}}
    BY <1>3
  <1>10. Sum(k, W) = k[h[x]] + Sum(k, W \ {h[x]})
    BY <1>0, <1>9
  <1> QED BY <1>3, <1>7, <1>8, <1>9, <1>10

LEMMA SumAlike ==
    ASSUME NEW U, IsFiniteSet(U), NEW g, NEW k, \A x \in U : k[x] \in Nat /\ g[x] = k[x]
    PROVE  Sum(g, U) = Sum(k, U)
  <1> DEFINE h == [x \in U |-> x]
  <1>1. {h[x] : x \in U} = U
    OBVIOUS
  <1>2. \A x \in U : h[x] = x
    OBVIOUS
  <1> HIDE DEF h
  <1> QED BY <1>1, <1>2, SumMoves

LEMMA SumOfZeros ==
    ASSUME NEW U, IsFiniteSet(U), NEW g, \A x \in U : g[x] \in Nat, \A x \in U : g[x] = 0
    PROVE  Sum(g, U) = 0
  <1>0. \A S \in SUBSET U : \A x \in S : Sum(g, S) = g[x] + Sum(g, S \ {x})
    <2>1. \A S \in SUBSET U :
               /\ Sum(g, S) \in Nat
               /\ \A x \in S : Sum(g, S) = g[x] + Sum(g, S \ {x})
      BY SumOfOne
    <2> QED BY <2>1
  <1> DEFINE T == {S \in SUBSET U : Sum(g, S) # 0}
  <1>1. SUFFICES ASSUME T # {} PROVE FALSE
    <2>1. U \in SUBSET U
      OBVIOUS
    <2> QED BY <2>1
  <1>2. PICK S \in T : \A t \in T : t \subseteq S => t = S
    <2>1. T \in SUBSET SUBSET U
      OBVIOUS
    <2> HIDE DEF T
    <2> QED BY <1>1, <2>1, Smallest
  <1>3. S \in SUBSET U /\ S # {} /\ Sum(g, S) # 0
    BY <1>2, SumOfNone
  <1>4. PICK x \in S : TRUE
    BY <1>3
  <1>5. Sum(g, S \ {x}) = 0
    BY <1>2
  <1> QED BY <1>0, <1>3, <1>4, <1>5

LEMMA FoldIsSum ==
    ASSUME NEW S, IsFiniteSet(S), NEW g, \A x \in S : g[x] = Size(x)
    PROVE  MapThenSumSet(Size, S) = Sum(g, S)
  <1>1. \A s \in SUBSET S : s # {} => Pick(s) \in S
    BY PickIsOne
  <1>2. \A k : k = [s \in SUBSET S |-> IF s = {} THEN 0 ELSE Size(Pick(s)) + k[s \ {Pick(s)}]]
               <=> IsSum(k, g, S)
    BY <1>1 DEF IsSum
  <1>3. \E k : IsSum(k, g, S)
    BY SumExists
  <1>4. PICK f : f = (CHOOSE k : IsSum(k, g, S))
    OBVIOUS
  <1>5. PICK h : h = (CHOOSE iter : iter = [s \in SUBSET S |->
                          IF s = {} THEN 0 ELSE Size(Pick(s)) + iter[s \ {Pick(s)}]])
    OBVIOUS
  <1>6. IsSum(f, g, S) /\ IsSum(h, g, S)
    BY <1>2, <1>3, <1>4, <1>5
  <1>7. h = f
    BY <1>6, SumIsUnique
  <1>8. MapThenSumSet(Size, S) = h[S]
    BY <1>5, Zenon DEF MapThenSumSet, MapThenFoldSet, Pick
  <1> QED BY <1>4, <1>7, <1>8 DEF Sum

LEMMA FoldOfStored ==
    ASSUME NEW S, IsFiniteSet(S), NEW g, \A x \in S : g[x] = StoredBytes(x)
    PROVE  MapThenSumSet(StoredBytes, S) = Sum(g, S)
  <1>1. \A s \in SUBSET S : s # {} => Pick(s) \in S
    BY PickIsOne
  <1>2. \A k : k = [s \in SUBSET S |-> IF s = {} THEN 0 ELSE StoredBytes(Pick(s)) + k[s \ {Pick(s)}]]
               <=> IsSum(k, g, S)
    BY <1>1 DEF IsSum
  <1>3. \E k : IsSum(k, g, S)
    BY SumExists
  <1>4. PICK f : f = (CHOOSE k : IsSum(k, g, S))
    OBVIOUS
  <1>5. PICK h : h = (CHOOSE iter : iter = [s \in SUBSET S |->
                          IF s = {} THEN 0 ELSE StoredBytes(Pick(s)) + iter[s \ {Pick(s)}]])
    OBVIOUS
  <1>6. IsSum(f, g, S) /\ IsSum(h, g, S)
    BY <1>2, <1>3, <1>4, <1>5
  <1>7. h = f
    BY <1>6, SumIsUnique
  <1>8. MapThenSumSet(StoredBytes, S) = h[S]
    BY <1>5, Zenon DEF MapThenSumSet, MapThenFoldSet, Pick
  <1> QED BY <1>4, <1>7, <1>8 DEF Sum

----------------------------------------------------------------------------
(* Division and remainders. *)

LEMMA Division ==
    ASSUME NEW n \in Nat \ {0}, NEW x \in Int
    PROVE  x \div n \in Int /\ x % n \in 0..(n - 1) /\ x = n * (x \div n) + (x % n)
  OBVIOUS

LEMMA TimesAtLeast ==
    ASSUME NEW n \in Nat \ {0}, NEW d \in Nat \ {0}
    PROVE  n * d >= n /\ n * d \in Nat
  OBVIOUS

LEMMA TimesMinus ==
    ASSUME NEW n \in Nat \ {0}, NEW p \in Int, NEW q \in Int
    PROVE  n * (p - q) = n * p - n * q /\ n * (p + q) = n * p + n * q
  OBVIOUS

\* Multiples of n that differ do so by n at least.
LEMMA Multiples ==
    ASSUME NEW n \in Nat \ {0}, NEW p \in Int, NEW q \in Int, p < q
    PROVE  n * p + n <= n * q
  <1>1. q - p \in Nat \ {0}
    OBVIOUS
  <1>2. n * (q - p) >= n /\ n * (q - p) = n * q - n * p
    BY <1>1, TimesAtLeast, TimesMinus
  <1>3. n * q \in Int /\ n * p \in Int
    OBVIOUS
  <1> QED BY <1>2, <1>3

LEMMA SameRemainder ==
    ASSUME NEW n \in Nat \ {0}, NEW a \in Int, NEW b \in Int, NEW k \in Int, a = b + n * k
    PROVE  a % n = b % n
  <1> DEFINE p == a \div n
             q == (b \div n) + k
  <1>1. p \in Int /\ q \in Int /\ a % n \in 0..(n - 1) /\ b % n \in 0..(n - 1)
    BY Division
  <1>2. a = n * p + (a % n) /\ b = n * (b \div n) + (b % n)
    BY Division
  <1>3. n * q = n * (b \div n) + n * k
    BY Division, TimesMinus
  <1>4. n * p + (a % n) = n * q + (b % n)
    <2>1. n * p \in Int /\ n * q \in Int /\ n * k \in Int /\ n * (b \div n) \in Int
      BY <1>1, Division
    <2> QED BY <1>1, <1>2, <1>3, <2>1
  <1> HIDE DEF p, q
  <1>5. p = q
    <2>1. n * p \in Int /\ n * q \in Int
      BY <1>1
    <2>2. ~(p < q)
      BY <1>1, <1>4, <2>1, Multiples
    <2>3. ~(q < p)
      BY <1>1, <1>4, <2>1, Multiples
    <2> QED BY <1>1, <2>2, <2>3
  <1> QED BY <1>1, <1>4, <1>5

LEMMA SmallRemainder ==
    ASSUME NEW n \in Nat \ {0}, NEW x \in 0..(n - 1)
    PROVE  x % n = x
  OBVIOUS

\* Numbers closer than n with the same remainder are equal.
LEMMA NearRemainder ==
    ASSUME NEW n \in Nat \ {0}, NEW a \in Int, NEW b \in Int, a % n = b % n, b < a
    PROVE  b + n <= a
  <1>1. /\ a \div n \in Int /\ b \div n \in Int /\ n * (a \div n) \in Int /\ n * (b \div n) \in Int
        /\ a % n \in Int
    BY Division
  <1>2. a = n * (a \div n) + (a % n) /\ b = n * (b \div n) + (a % n)
    BY Division
  <1>3. n * (b \div n) < n * (a \div n)
    BY <1>1, <1>2
  <1>4. ~(a \div n < b \div n) /\ a \div n # b \div n
    BY <1>1, <1>3, Multiples
  <1>5. n * (b \div n) + n <= n * (a \div n)
    BY <1>1, <1>4, Multiples
  <1> QED BY <1>1, <1>2, <1>5

LEMMA TurnOfTurn ==
    ASSUME NEW n \in Nat \ {0}, NEW a \in Int, NEW b \in Int
    PROVE  ((a % n) + b) % n = (a + b) % n
  <1>1. a \div n \in Int /\ a % n \in Int /\ n * (a \div n) \in Int /\ a = n * (a \div n) + (a % n)
    BY Division
  <1>2. (a % n) + b \in Int /\ a + b = ((a % n) + b) + n * (a \div n) /\ a + b \in Int
    BY <1>1
  <1> QED BY <1>1, <1>2, SameRemainder

LEMMA WholeTurn ==
    ASSUME NEW n \in Nat \ {0}, NEW a \in Int
    PROVE  (a + n) % n = a % n
  <1>1. PICK k \in Int : k = 1
    OBVIOUS
  <1>2. a + n \in Int /\ a + n = a + n * k
    BY <1>1
  <1> QED BY <1>2, SameRemainder

----------------------------------------------------------------------------
(* The ring, from the oldest slot to the latest.                           *)

Place(k) == (next + k) % History
At(k) == records[Place(k)]

Weight(x) == IF x = NoRecord THEN 0 ELSE x.bytes
Weights == [k \in Slots |-> Weight(At(k))]

LEMMA Limits == History \in Nat \ {0} /\ ByteLimit \in Nat
  BY LimitsAssumption

LEMMA PlaceIsSlot ==
    ASSUME next \in Slots
    PROVE  \A k \in Int : Place(k) \in Slots
  <1> SUFFICES ASSUME NEW k \in Int PROVE Place(k) \in Slots
    OBVIOUS
  <1>1. next + k \in Int
    BY Limits DEF Slots
  <1> QED BY <1>1, Limits, Division DEF Place, Slots

LEMMA PlacesDiffer ==
    ASSUME next \in Slots
    PROVE  \A j, k \in Slots : Place(j) = Place(k) => j = k
  <1> SUFFICES ASSUME NEW j \in Slots, NEW k \in Slots, j < k, Place(j) = Place(k) PROVE FALSE
    BY Limits DEF Slots
  <1>1. next + j \in Int /\ next + k \in Int /\ next + j < next + k /\ next + k < next + j + History
    BY Limits DEF Slots
  <1>2. next + j + History <= next + k
    BY <1>1, Limits, NearRemainder DEF Place
  <1> QED BY <1>1, <1>2, Limits

LEMMA PlacesAreAll ==
    ASSUME next \in Slots, NEW i \in Slots
    PROVE  \E k \in Slots : Place(k) = i
  <1>1. CASE i >= next
    <2>1. i - next \in Slots /\ next + (i - next) = i
      BY <1>1, Limits DEF Slots
    <2>2. Place(i - next) = i
      BY <2>1, Limits, SmallRemainder DEF Place, Slots
    <2> QED BY <2>1, <2>2
  <1>2. CASE i < next
    <2>1. i - next + History \in Slots /\ next + (i - next + History) = i + History /\ i \in Int
      BY <1>2, Limits DEF Slots
    <2>2. i % History = i
      BY Limits, SmallRemainder DEF Slots
    <2>3. (i + History) % History = i
      BY <2>1, <2>2, Limits, WholeTurn
    <2>4. Place(i - next + History) = i
      BY <2>1, <2>3 DEF Place
    <2> QED BY <2>1, <2>4
  <1> QED BY <1>1, <1>2, Limits DEF Slots

LEMMA SlotsFinite == IsFiniteSet(Slots)
  BY Limits, FS_Interval DEF Slots

LEMMA WeightsAreNat ==
    ASSUME RequestTypes, next \in Slots
    PROVE  /\ \A k \in Slots : Weights[k] \in Nat
           /\ \A S \in SUBSET Slots : IsFiniteSet(S) /\ Sum(Weights, S) \in Nat
  <1>1. \A k \in Slots : Weights[k] \in Nat
    <2> SUFFICES ASSUME NEW k \in Slots PROVE Weight(At(k)) \in Nat
      BY DEF Weights
    <2>1. At(k) \in Receipts \cup {NoRecord}
      BY PlaceIsSlot, Limits DEF At, RequestTypes, Slots
    <2> QED BY <2>1, LimitsAssumption DEF Weight, Receipts
  <1>2. \A S \in SUBSET Slots : IsFiniteSet(S)
    BY SlotsFinite, FS_Subset
  <1>3. \A S \in SUBSET Slots : /\ Sum(Weights, S) \in Nat
                                /\ \A x \in S : Sum(Weights, S) = Weights[x] + Sum(Weights, S \ {x})
    BY <1>1, SlotsFinite, SumOfOne
  <1> QED BY <1>1, <1>2, <1>3

\* What a part of the ring weighs, by places and by age.
LEMMA WeighsTheSame ==
    ASSUME RequestTypes, next \in Slots, NEW S \in SUBSET Slots
    PROVE  MapThenSumSet(Size, {Place(k) : k \in S}) = Sum(Weights, S)
  <1> DEFINE T == {Place(k) : k \in S}
             g == [i \in Slots |-> Size(i)]
             h == [k \in Slots |-> Place(k)]
  <1>0. \A k \in Slots : k \in Int
    BY Limits DEF Slots
  <1>1. T \in SUBSET Slots /\ IsFiniteSet(T) /\ IsFiniteSet(S)
    <2>1. T \in SUBSET Slots
      BY <1>0, PlaceIsSlot
    <2> QED BY <2>1, SlotsFinite, FS_Subset
  <1>2. \A i \in T : g[i] = Size(i)
    BY <1>1
  <1>3. MapThenSumSet(Size, T) = Sum(g, T)
    <2> HIDE DEF g, T
    <2> QED BY <1>1, <1>2, FoldIsSum
  <1>4. \A k \in S : h[k] \in Slots /\ Weights[k] = g[h[k]]
    BY <1>0, PlaceIsSlot DEF Weights, Weight, At, Size
  <1>5. \A j, k \in S : h[j] = h[k] => j = k
    BY PlacesDiffer
  <1>6. \A i \in Slots : g[i] \in Nat
    BY LimitsAssumption DEF Size, RequestTypes, Receipts
  <1>7. Sum(Weights, S) = Sum(g, {h[k] : k \in S})
    <2> HIDE DEF g, h
    <2> QED BY <1>1, <1>4, <1>5, <1>6, SlotsFinite, SumMoves
  <1>8. {h[k] : k \in S} = T
    OBVIOUS
  <1> QED BY <1>3, <1>7, <1>8

LEMMA OldestAre ==
    ASSUME RequestTypes, next \in Slots, NEW n \in 1..History
    PROVE  /\ Freed(n) = Sum(Weights, 0..(n - 1))
           /\ 0..(n - 1) \in SUBSET Slots
           /\ Oldest(n) = {Place(k) : k \in 0..(n - 1)}
  <1>1. 0..(n - 1) \in SUBSET Slots
    BY Limits DEF Slots
  <1>2. Oldest(n) = {Place(k) : k \in 0..(n - 1)}
    BY DEF Oldest, Place
  <1>3. MapThenSumSet(Size, {Place(k) : k \in 0..(n - 1)}) = Sum(Weights, 0..(n - 1))
    BY <1>1, WeighsTheSame
  <1> QED BY <1>1, <1>2, <1>3 DEF Freed

----------------------------------------------------------------------------
(* Making room.                                                            *)

LEMMA LeastOf ==
    ASSUME NEW S \in SUBSET Nat, S # {}
    PROVE  Min(S) \in S /\ \A k \in S : Min(S) <= k
  <1> DEFINE Less == {p \in Nat \X Nat : p[1] < p[2]}
  <1>1. IsWellFoundedOn(Less, Nat)
    BY NatLessThanWellFounded DEF OpToRel
  <1> HIDE DEF Less
  <1>2. PICK m \in S : \A k \in S : <<k, m>> \notin Less
    BY <1>1, WFMin
  <1>3. ASSUME NEW k \in S PROVE m <= k
    <2>1. <<k, m>> \in Nat \X Nat /\ <<k, m>>[1] = k /\ <<k, m>>[2] = m
      OBVIOUS
    <2>2. ~(k < m)
      BY <1>2, <2>1 DEF Less
    <2> QED BY <2>2
  <1> QED BY <1>2, <1>3 DEF Min

\* The loop ends, at the latest when the ring is empty, and stops as soon as
\* it can.
LEMMA RoomIsFound ==
    ASSUME RequestTypes, next \in Slots, bytes = Sum(Weights, Slots), NEW size \in Nat, size <= ByteLimit
    PROVE  /\ Evictions(size) \in 1..History
           /\ bytes - Freed(Evictions(size)) + size <= ByteLimit
           /\ \A n \in 1..History : bytes - Freed(n) + size <= ByteLimit => Evictions(size) <= n
  <1> DEFINE S == {n \in 1..History : bytes - Freed(n) + size <= ByteLimit}
  <1>1. History \in 1..History /\ History \in Nat
    BY Limits
  <1>2. Freed(History) = Sum(Weights, 0..(History - 1))
    BY <1>1, OldestAre
  <1>3. bytes - Freed(History) + size = size
    <2>1. bytes \in Nat /\ Freed(History) = bytes
      BY <1>2, WeightsAreNat DEF Slots
    <2> QED BY <2>1
  <1>4. S \in SUBSET Nat /\ S # {}
    BY <1>1, <1>3
  <1>5. Min(S) \in S /\ \A k \in S : Min(S) <= k
    <2> HIDE DEF S
    <2> QED BY <1>4, LeastOf
  <1>6. Evictions(size) = Min(S)
    BY DEF Evictions
  <1> QED BY <1>5, <1>6

\* How the ring turns: what is left of it grows older, its latest is the new
\* receipt, between them it is empty.
LEMMA RingTurns ==
    ASSUME next \in Slots, NEW n \in 1..History, NEW receipt,
           next' = (next + n) % History,
           records' = [i \in Slots |-> IF i = SlotFor(n) THEN receipt
                                       ELSE IF i \in Oldest(n) THEN NoRecord ELSE records[i]]
    PROVE  /\ next' \in Slots
           /\ \A k \in Slots :
                At(k)' = IF k = History - 1 THEN receipt
                         ELSE IF k < History - n THEN At(k + n) ELSE NoRecord
  <1>0. History \in Nat \ {0} /\ next \in Int /\ n \in Int /\ next + n \in Int
    BY Limits DEF Slots
  <1>1. next' \in Slots
    BY <1>0, Division DEF Slots
  <1>2. SlotFor(n) = Place(n - 1)
    <2>1. next + n - 1 = next + (n - 1)
      BY <1>0
    <2> QED BY <2>1 DEF SlotFor, Place
  <1>3. Oldest(n) = {Place(k) : k \in 0..(n - 1)}
    BY DEF Oldest, Place
  <1>4. ASSUME NEW k \in Slots
        PROVE  At(k)' = IF k = History - 1 THEN receipt
                        ELSE IF k < History - n THEN At(k + n) ELSE NoRecord
    <2>0. k \in Int /\ k >= 0 /\ k < History /\ n >= 1 /\ n <= History
      BY <1>0 DEF Slots
    <2>1. Place(k)' = Place(n + k)
      <3>1. (((next + n) % History) + k) % History = (next + n + k) % History
        BY <1>0, <2>0, TurnOfTurn
      <3>2. next + n + k = next + (n + k)
        BY <1>0, <2>0
      <3> QED BY <3>1, <3>2 DEF Place
    <2>2. \A j \in Int : Place(j + History) = Place(j)
      <3> SUFFICES ASSUME NEW j \in Int PROVE Place(j + History) = Place(j)
        OBVIOUS
      <3>1. next + (j + History) = (next + j) + History /\ next + j \in Int
        BY <1>0
      <3> QED BY <1>0, <3>1, WholeTurn DEF Place
    <2>3. Place(n + k) \in Slots
      BY <1>0, <2>0, PlaceIsSlot
    <2>4. At(k)' = IF Place(n + k) = SlotFor(n) THEN receipt
                   ELSE IF Place(n + k) \in Oldest(n) THEN NoRecord ELSE records[Place(n + k)]
      BY <2>1, <2>3 DEF At
    <2>5. CASE k = History - 1
      <3>1. n + k = (n - 1) + History /\ n - 1 \in Int
        BY <1>0, <2>0, <2>5
      <3>2. Place(n + k) = SlotFor(n)
        BY <1>2, <2>2, <3>1
      <3> QED BY <2>4, <2>5, <3>2
    <2>6. CASE k < History - n
      <3>1. n + k \in Slots /\ k # History - 1 /\ n + k = k + n
        BY <1>0, <2>0, <2>6 DEF Slots
      <3>2. ASSUME NEW j \in 0..(n - 1) PROVE Place(n + k) # Place(j)
        <4>1. j \in Slots /\ j # n + k
          BY <1>0, <2>0, <3>1 DEF Slots
        <4> QED BY <3>1, <4>1, PlacesDiffer
      <3>3. Place(n + k) \notin Oldest(n) /\ Place(n + k) # SlotFor(n)
        <4>1. n - 1 \in 0..(n - 1)
          BY <1>0, <2>0
        <4> QED BY <1>2, <1>3, <3>2, <4>1
      <3> QED BY <2>4, <2>6, <3>1, <3>3 DEF At
    <2>7. CASE k # History - 1 /\ ~(k < History - n)
      <3> DEFINE j == n + k - History
      <3>1. j \in 0..(n - 1) /\ j + History = n + k /\ j # n - 1 /\ j \in Slots /\ n - 1 \in Slots /\ j \in Int
        BY <1>0, <2>0, <2>7 DEF Slots
      <3>2. Place(n + k) = Place(j)
        BY <2>2, <3>1
      <3>3. Place(n + k) \in Oldest(n)
        BY <1>3, <3>1, <3>2
      <3>4. Place(n + k) # SlotFor(n)
        BY <1>2, <3>1, <3>2, PlacesDiffer
      <3> QED BY <2>4, <2>7, <3>3, <3>4
    <2> QED BY <2>5, <2>6, <2>7
  <1> QED BY <1>1, <1>4

Books ==
    /\ next \in Slots
    /\ bytes \in Nat /\ bytes <= ByteLimit
    /\ bytes = Sum(Weights, Slots)

LEMMA BooksStored ==
    ASSUME RequestTypes, RequestTypes', Books, NEW size \in Sizes, size <= ByteLimit, Store(size),
           [owner |-> current.owner, sequence |-> current.sequence,
            body |-> current.body, outcome |-> outcome, bytes |-> size] # NoRecord
    PROVE  Books'
  <1> DEFINE n == Evictions(size)
             receipt == [owner |-> current.owner, sequence |-> current.sequence,
                         body |-> current.body, outcome |-> outcome, bytes |-> size]
  <1>0. size \in Nat /\ next \in Slots /\ bytes = Sum(Weights, Slots)
    BY LimitsAssumption DEF Books
  <1>1. n \in 1..History /\ bytes - Freed(n) + size <= ByteLimit
    BY <1>0, RoomIsFound
  <1>2. /\ records' = [i \in Slots |-> IF i = SlotFor(n) THEN receipt
                                       ELSE IF i \in Oldest(n) THEN NoRecord ELSE records[i]]
        /\ next' = (next + n) % History
        /\ bytes' = bytes - Freed(n) + size
    BY DEF Store, BytesAfter
  <1>3. receipt # NoRecord /\ receipt.bytes = size
    OBVIOUS
  <1> HIDE DEF receipt, n
  <1>4. /\ next' \in Slots
        /\ \A k \in Slots :
                At(k)' = IF k = History - 1 THEN receipt
                         ELSE IF k < History - n THEN At(k + n) ELSE NoRecord
    BY <1>0, <1>1, <1>2, RingTurns
  \* The weights before and after.
  <1> DEFINE g == Weights
             k == Weights'
             Old == 0..(n - 1)
             Rest == n..(History - 1)
             Moved == 0..(History - n - 1)
             Gap == (History - n)..(History - 2)
             Last == {History - 1}
  <1>5. History \in Nat /\ n \in Nat /\ n >= 1 /\ n <= History
    BY <1>1, Limits
  <1>6. /\ \A i \in Slots : g[i] \in Nat
        /\ \A S \in SUBSET Slots : IsFiniteSet(S) /\ Sum(g, S) \in Nat
    BY <1>0, WeightsAreNat
  <1>7. \A i \in Slots : k[i] = IF i = History - 1 THEN size
                                ELSE IF i < History - n THEN g[i + n] ELSE 0
    <2> SUFFICES ASSUME NEW i \in Slots
                 PROVE  Weight(At(i))' = IF i = History - 1 THEN size
                                         ELSE IF i < History - n THEN g[i + n] ELSE 0
      BY DEF Weights
    <2>1. i < History - n => i + n \in Slots
      BY <1>5 DEF Slots
    <2> QED BY <1>3, <1>4, <2>1 DEF Weight, Weights
  <1>8. \A i \in Slots : k[i] \in Nat
    BY <1>0, <1>5, <1>6, <1>7 DEF Slots
  <1> HIDE DEF g, k
  <1>9. /\ Rest \in SUBSET Slots /\ Slots \ Old = Rest /\ Old \in SUBSET Slots
        /\ Moved \in SUBSET Slots /\ Slots \ Moved = Gap \cup Last /\ Gap \in SUBSET Slots
        /\ (Gap \cup Last) \ {History - 1} = Gap /\ History - 1 \in Slots /\ Gap \cup Last \in SUBSET Slots
    BY <1>5 DEF Slots
  <1>10. Sum(g, Slots) = Sum(g, Old) + Sum(g, Rest)
    <2> HIDE DEF Old, Rest
    <2>1. \A S \in SUBSET Slots : Sum(g, Slots) = Sum(g, S) + Sum(g, Slots \ S)
      BY <1>6, SlotsFinite, SumOfParts
    <2> QED BY <1>9, <2>1
  <1>11. Sum(k, Slots) = Sum(k, Moved) + Sum(k, Gap \cup Last)
    <2> HIDE DEF Moved, Gap, Last
    <2>1. \A S \in SUBSET Slots : Sum(k, Slots) = Sum(k, S) + Sum(k, Slots \ S)
      BY <1>8, SlotsFinite, SumOfParts
    <2> QED BY <1>9, <2>1
  <1>12. Sum(k, Gap \cup Last) = size + Sum(k, Gap)
    <2>1. \A S \in SUBSET Slots :
               /\ Sum(k, S) \in Nat
               /\ \A x \in S : Sum(k, S) = k[x] + Sum(k, S \ {x})
      BY <1>8, SlotsFinite, SumOfOne
    <2>2. Sum(k, Gap \cup Last) = k[History - 1] + Sum(k, (Gap \cup Last) \ {History - 1})
      BY <1>9, <2>1
    <2> QED BY <1>7, <1>9, <2>2
  <1>13. Sum(k, Gap) = 0
    <2>1. IsFiniteSet(Gap)
      BY <1>6, <1>9
    <2>2. \A i \in Gap : k[i] \in Nat /\ k[i] = 0
      BY <1>5, <1>7, <1>9
    <2> HIDE DEF Gap
    <2> QED BY <2>1, <2>2, SumOfZeros
  <1>14. Sum(k, Moved) = Sum(g, Rest)
    <2> DEFINE h == [i \in Moved |-> i + n]
    <2>1. \A i \in Moved : h[i] \in Slots /\ k[i] = g[h[i]]
      BY <1>5, <1>7, <1>9 DEF Slots
    <2>2. \A i, j \in Moved : h[i] = h[j] => i = j
      BY <1>5
    <2>3. {h[i] : i \in Moved} = Rest
      <3>1. \A i \in Moved : h[i] \in Rest
        BY <1>5
      <3>2. \A j \in Rest : j - n \in Moved /\ h[j - n] = j
        BY <1>5
      <3> QED BY <3>1, <3>2
    <2>4. IsFiniteSet(Moved)
      BY <1>6, <1>9
    <2> HIDE DEF h, Moved, Rest
    <2>5. Sum(k, Moved) = Sum(g, {h[i] : i \in Moved})
      BY <1>6, <2>1, <2>2, <2>4, SlotsFinite, SumMoves
    <2> QED BY <2>3, <2>5
  <1>15. Freed(n) = Sum(g, Old)
    BY <1>0, <1>1, OldestAre DEF g
  <1>16. Sum(g, Old) \in Nat /\ Sum(g, Rest) \in Nat
    BY <1>6, <1>9
  <1>17. bytes = Sum(g, Slots)
    BY <1>0 DEF g
  <1> HIDE DEF Old, Rest, Moved, Gap, Last
  <1>18. bytes' = Sum(k, Slots) /\ bytes' \in Nat
    BY <1>0, <1>2, <1>10, <1>11, <1>12, <1>13, <1>14, <1>15, <1>16, <1>17
  <1>19. bytes' <= ByteLimit
    BY <1>1, <1>2
  <1> QED BY <1>4, <1>18, <1>19 DEF Books, k

\* Nothing in the ring changes.
LEMMA BooksUnchanged ==
    ASSUME Books, UNCHANGED <<records, next, bytes>>
    PROVE  Books'
  BY DEF Books, Weights, Weight, At, Place

\* An empty ring weighs nothing.
LEMMA BooksEmpty ==
    ASSUME next = 0, bytes = 0, records = [i \in Slots |-> NoRecord]
    PROVE  Books
  <1>1. next \in Slots
    BY Limits DEF Slots
  <1>2. \A k \in Slots : Weights[k] = 0
    <2> SUFFICES ASSUME NEW k \in Slots PROVE Weight(At(k)) = 0
      BY DEF Weights
    <2>1. k \in Int
      BY Limits DEF Slots
    <2> QED BY <1>1, <2>1, PlaceIsSlot DEF Weight, At
  <1>3. Sum(Weights, Slots) = 0
    BY <1>2, SlotsFinite, SumOfZeros
  <1> QED BY <1>1, <1>3, Limits DEF Books

LEMMA BooksEmptied ==
    ASSUME next' = 0, bytes' = 0, records' = [i \in Slots |-> NoRecord]
    PROVE  Books'
  <1>1. next' \in Slots
    BY Limits DEF Slots
  <1>2. \A k \in Slots : Weights'[k] = 0
    <2> SUFFICES ASSUME NEW k \in Slots PROVE Weight(At(k))' = 0
      BY DEF Weights
    <2>1. Place(k)' \in Slots
      BY Limits, Division DEF Place, Slots
    <2> QED BY <2>1 DEF Weight, At
  <1>3. Sum(Weights', Slots) = 0
    <2> DEFINE g == Weights'
    <2>1. \A k \in Slots : g[k] = 0
      BY <1>2
    <2> HIDE DEF g
    <2>2. Sum(g, Slots) = 0
      BY <2>1, SlotsFinite, SumOfZeros
    <2> QED BY <2>2 DEF g
  <1> QED BY <1>1, <1>3, Limits DEF Books

LEMMA BooksNext ==
    ASSUME OnceInv, Books, [Next]_vars
    PROVE  Books'
  <1>0. RequestTypes /\ RequestTypes'
    BY OnceNext DEF OnceInv
  <1>1. CASE \E r \in Requests : Receive(r)
    BY <1>1, BooksUnchanged
    DEF Receive, RefuseSession, RefuseController, RefuseConflict, RefuseExpired, Refusal,
        Replay, Admit, vars, ledgerVars
  <1>2. CASE Dispatch
    BY <1>2, BooksUnchanged DEF Dispatch, ledgerVars
  <1>3. CASE \E size \in Sizes : Finish(size)
    <2>1. PICK size \in Sizes : Finish(size)
      BY <1>3
    <2>2. CASE size > ByteLimit
      BY <2>1, <2>2, BooksUnchanged DEF Finish
    <2>3. CASE ~(size > ByteLimit)
      <3>1. Store(size) /\ ~Idle /\ outcome # NoOutcome
        BY <2>1, <2>3 DEF Finish
      <3>2. size <= ByteLimit
        BY <2>3, LimitsAssumption
      <3>3. current \in Requests /\ outcome \in Outcomes
        BY <1>0, <3>1, CurrentIsRequest DEF RequestTypes
      <3>4. [owner |-> current.owner, sequence |-> current.sequence,
             body |-> current.body, outcome |-> outcome, bytes |-> size] # NoRecord
        BY <3>3, NothingAssumption DEF Requests
      <3> QED BY <1>0, <3>1, <3>2, <3>4, BooksStored
    <2> QED BY <2>2, <2>3
  <1>4. CASE \E c \in Controllers, m \in 1..MaxSequence : RequestGet(c, m)
    BY <1>4, BooksUnchanged DEF RequestGet, ledgerVars
  <1>5. CASE Restart
    BY <1>5, BooksEmptied DEF Restart
  <1>6. CASE UNCHANGED vars
    BY <1>6, BooksUnchanged DEF vars, ledgerVars
  <1> QED
    BY <1>1, <1>2, <1>3, <1>4, <1>5, <1>6 DEF Next

LEMMA BooksAlways == Spec => [](OnceInv /\ Books)
  <1>1. Init => OnceInv /\ Books
    BY OnceInit, BooksEmpty DEF Init
  <1>2. OnceInv /\ Books /\ [Next]_vars => (OnceInv /\ Books)'
    BY OnceNext, BooksNext
  <1> QED BY <1>1, <1>2, PTL DEF Spec

\* as_request_finish counts every receipt it keeps and every one it forgets:
\* the bytes on the books are those of the ring, and the limit holds.
THEOREM BooksAreRight == Spec => []BooksBalance
  <1>1. ASSUME OnceInv, Books PROVE BooksBalance
    <2>1. TypeOK
      BY <1>1 DEF OnceInv, Books, TypeOK
    <2>2. {Place(k) : k \in Slots} = Slots
      <3>1. \A k \in Slots : k \in Int
        BY Limits DEF Slots
      <3> QED BY <1>1, <3>1, PlaceIsSlot, PlacesAreAll DEF Books
    <2>3. MapThenSumSet(Size, {Place(k) : k \in Slots}) = Sum(Weights, Slots)
      BY <1>1, WeighsTheSame DEF Books, OnceInv
    <2> QED BY <1>1, <2>1, <2>2, <2>3 DEF Books, BooksBalance
  <1> QED BY <1>1, BooksAlways, PTL

----------------------------------------------------------------------------
(* What has been stored, and what of it is kept.                           *)

\* Each controller's receipts were stored in the order of their numbers.
Numbered ==
    /\ stored \in Seq([key : Keys, bytes : Sizes])
    /\ \A i \in DOMAIN stored :
         /\ stored[i].key.owner \in DOMAIN highest
         /\ stored[i].key.sequence <= highest[stored[i].key.owner]
         /\ ~Idle /\ stored[i].key.owner = current.owner => stored[i].key.sequence < current.sequence
    /\ \A i, j \in DOMAIN stored :
         i < j /\ stored[i].key.owner = stored[j].key.owner => stored[i].key.sequence < stored[j].key.sequence

\* The slot of age k has the i-th receipt.
Holds(k, i) ==
    /\ At(k) # NoRecord
    /\ At(k).owner = stored[i].key.owner
    /\ At(k).sequence = stored[i].key.sequence
    /\ At(k).bytes = stored[i].bytes

StoredWeights == [i \in DOMAIN stored |-> stored[i].bytes]
Following(i) == {j \in DOMAIN stored : j >= i /\ j < i + History}
Ample == \A i \in DOMAIN stored : Sum(StoredWeights, Following(i)) <= ByteLimit

\* The receipts kept are the last ones stored, in their order; and as long as
\* bytes played no part, there is no gap between them.
Window ==
    /\ \A k \in Slots : At(k) # NoRecord => \E i \in DOMAIN stored : Holds(k, i)
    /\ \A k, l \in Slots, i, j \in DOMAIN stored : Holds(k, i) /\ Holds(l, j) /\ k < l => i < j
    /\ \A k \in Slots, i, j \in DOMAIN stored : Holds(k, i) /\ i < j => \E l \in Slots : Holds(l, j)
    /\ stored # <<>> => Holds(History - 1, Len(stored))
    /\ Ample => \A i \in DOMAIN stored :
                    i > Len(stored) - History => Holds(History - 1 - (Len(stored) - i), i)

LEMMA ElementsOf ==
    ASSUME NEW R, NEW s \in Seq(R)
    PROVE  Len(s) \in Nat /\ DOMAIN s = 1..Len(s) /\ \A i \in DOMAIN s : s[i] \in R
  OBVIOUS

LEMMA NumbersAreUnique ==
    ASSUME Numbered
    PROVE  /\ DOMAIN stored = 1..Len(stored) /\ Len(stored) \in Nat
           /\ \A i, j \in DOMAIN stored :
                stored[i].key.owner = stored[j].key.owner /\ stored[i].key.sequence = stored[j].key.sequence
                => i = j
           /\ \A i \in DOMAIN stored : stored[i].key \in Keys /\ stored[i].bytes \in Nat
  <1> DEFINE R == [key : Keys, bytes : Sizes]
  <1>0. stored \in Seq(R)
    BY DEF Numbered
  <1>1. DOMAIN stored = 1..Len(stored) /\ Len(stored) \in Nat
    BY <1>0, ElementsOf
  <1>2. \A i \in DOMAIN stored : stored[i] \in R
    <2> HIDE DEF R
    <2> QED BY <1>0, ElementsOf
  <1>3. \A i \in DOMAIN stored : stored[i].key \in Keys /\ stored[i].bytes \in Nat
    BY <1>2, LimitsAssumption
  <1>4. \A i \in DOMAIN stored : stored[i].key.sequence \in Nat
    BY <1>3, LimitsAssumption DEF Keys
  <1> QED BY <1>1, <1>3, <1>4 DEF Numbered

LEMMA StoredWeightsAreNat ==
    ASSUME Numbered
    PROVE  /\ IsFiniteSet(DOMAIN stored)
           /\ \A i \in DOMAIN stored : StoredWeights[i] \in Nat
           /\ \A S \in SUBSET DOMAIN stored :
                /\ IsFiniteSet(S)
                /\ Sum(StoredWeights, S) \in Nat
                /\ \A x \in S : Sum(StoredWeights, S) = StoredWeights[x] + Sum(StoredWeights, S \ {x})
  <1>1. IsFiniteSet(DOMAIN stored)
    BY NumbersAreUnique, FS_Interval
  <1>2. \A i \in DOMAIN stored : StoredWeights[i] \in Nat
    BY NumbersAreUnique DEF StoredWeights
  <1>3. \A S \in SUBSET DOMAIN stored :
                /\ Sum(StoredWeights, S) \in Nat
                /\ \A x \in S : Sum(StoredWeights, S) = StoredWeights[x] + Sum(StoredWeights, S \ {x})
    BY <1>1, <1>2, SumOfOne
  <1> QED BY <1>1, <1>2, <1>3, FS_Subset

\* A receipt is stored behind the others.
LEMMA StoredIsLast ==
    ASSUME RequestTypes, Serving, Numbered, ~Idle, NEW size \in Sizes,
           stored' = Append(stored, [key |-> Key(current), bytes |-> size]),
           current' = NoRequest, highest' = highest
    PROVE  /\ Numbered'
           /\ Len(stored') = Len(stored) + 1
           /\ \A i \in DOMAIN stored : stored'[i] = stored[i]
           /\ stored'[Len(stored) + 1].key = Key(current) /\ stored'[Len(stored) + 1].bytes = size
           /\ DOMAIN stored' = DOMAIN stored \cup {Len(stored) + 1}
  <1>1. current \in Requests /\ Key(current) \in Keys
    BY CurrentIsRequest
  <1>2. Key(current).owner = current.owner /\ Key(current).sequence = current.sequence
    BY <1>1 DEF Key
  <1>3. Len(stored) \in Nat /\ DOMAIN stored = 1..Len(stored)
    BY NumbersAreUnique
  <1>4. /\ stored' \in Seq([key : Keys, bytes : Sizes])
        /\ Len(stored') = Len(stored) + 1
        /\ \A i \in DOMAIN stored : stored'[i] = stored[i]
        /\ stored'[Len(stored) + 1] = [key |-> Key(current), bytes |-> size]
    BY <1>1, <1>3 DEF Numbered
  <1>5. DOMAIN stored' = DOMAIN stored \cup {Len(stored) + 1}
    BY <1>3, <1>4
  <1>6. current.owner \in DOMAIN highest /\ current.sequence = highest[current.owner] /\ current.sequence \in Nat
    BY <1>1, LimitsAssumption DEF Serving, Requests
  <1>7. Idle'
    BY DEF Idle
  <1>8. \A i \in DOMAIN stored' :
         /\ stored'[i].key.owner \in DOMAIN highest'
         /\ stored'[i].key.sequence <= highest'[stored'[i].key.owner]
    BY <1>2, <1>4, <1>5, <1>6 DEF Numbered
  <1>9. \A i, j \in DOMAIN stored' :
         i < j /\ stored'[i].key.owner = stored'[j].key.owner => stored'[i].key.sequence < stored'[j].key.sequence
    <2> SUFFICES ASSUME NEW i \in DOMAIN stored', NEW j \in DOMAIN stored', i < j,
                        stored'[i].key.owner = stored'[j].key.owner
                 PROVE  stored'[i].key.sequence < stored'[j].key.sequence
      OBVIOUS
    <2>1. i \in DOMAIN stored
      BY <1>3, <1>5
    <2>2. CASE j \in DOMAIN stored
      BY <1>4, <2>1, <2>2 DEF Numbered
    <2>3. CASE j = Len(stored) + 1
      BY <1>2, <1>4, <2>1, <2>3 DEF Numbered
    <2> QED BY <1>5, <2>2, <2>3
  <1> QED BY <1>4, <1>5, <1>7, <1>8, <1>9 DEF Numbered

\* What was enough for more was enough for less.
LEMMA AmpleBefore ==
    ASSUME Numbered, Numbered', Len(stored') = Len(stored) + 1,
           \A i \in DOMAIN stored : stored'[i] = stored[i],
           DOMAIN stored' = DOMAIN stored \cup {Len(stored) + 1}, Ample'
    PROVE  Ample
  <1> SUFFICES ASSUME NEW i \in DOMAIN stored PROVE Sum(StoredWeights, Following(i)) <= ByteLimit
    BY DEF Ample
  <1> DEFINE g == StoredWeights
             k == StoredWeights'
             S == Following(i)
             T == {j \in DOMAIN stored' : j >= i /\ j < i + History}
  <1>1. Sum(k, T) <= ByteLimit
    BY DEF Ample, Following
  <1>2. S \in SUBSET T /\ S \in SUBSET DOMAIN stored /\ T \in SUBSET DOMAIN stored'
    BY DEF Following
  <1>3. /\ \A j \in DOMAIN stored : g[j] \in Nat /\ k[j] = g[j]
        /\ \A j \in DOMAIN stored' : k[j] \in Nat
        /\ IsFiniteSet(DOMAIN stored) /\ IsFiniteSet(DOMAIN stored')
    <2>1. IsFiniteSet(DOMAIN stored) /\ \A j \in DOMAIN stored : g[j] \in Nat
      BY StoredWeightsAreNat
    <2>2. \A j \in DOMAIN stored' : k[j] \in Nat
      <3> DEFINE R == [key : Keys, bytes : Sizes]
      <3>0. stored' \in Seq(R)
        BY DEF Numbered, Keys
      <3>1. \A j \in DOMAIN stored' : stored'[j] \in R
        <4> HIDE DEF R
        <4> QED BY <3>0, ElementsOf
      <3> QED BY <3>1, LimitsAssumption DEF StoredWeights
    <2>3. \A j \in DOMAIN stored : k[j] = g[j]
      BY DEF StoredWeights
    <2>4. IsFiniteSet(DOMAIN stored')
      <3>1. DOMAIN stored' = 1..Len(stored') /\ Len(stored') \in Nat
        BY DEF Numbered
      <3> QED BY <3>1, FS_Interval
    <2> QED BY <2>1, <2>2, <2>3, <2>4
  <1> HIDE DEF g, k, S, T
  <1>4. IsFiniteSet(S) /\ IsFiniteSet(T)
    BY <1>2, <1>3, FS_Subset
  <1>5. \A j \in T : k[j] \in Nat
    BY <1>2, <1>3
  <1>6. \A R \in SUBSET T : Sum(k, T) = Sum(k, R) + Sum(k, T \ R)
    BY <1>4, <1>5, SumOfParts
  <1>7. \A R \in SUBSET T : /\ Sum(k, R) \in Nat
                           /\ \A x \in R : Sum(k, R) = k[x] + Sum(k, R \ {x})
    BY <1>4, <1>5, SumOfOne
  <1>8. Sum(g, S) = Sum(k, S)
    <2>1. \A j \in S : k[j] \in Nat /\ g[j] = k[j]
      BY <1>2, <1>3
    <2> QED BY <1>4, <2>1, SumAlike
  <1>9. Sum(k, T) = Sum(k, S) + Sum(k, T \ S) /\ Sum(k, S) \in Nat /\ Sum(k, T \ S) \in Nat /\ Sum(k, T) \in Nat
    BY <1>2, <1>6, <1>7
  <1>10. Sum(g, S) <= ByteLimit
    BY <1>1, <1>8, <1>9, Limits
  <1> QED BY <1>10 DEF g, S

\* What is true of a ledger's keys is true of the next one's.
Unique ==
    \A i, j \in DOMAIN stored :
        stored[i].key.owner = stored[j].key.owner /\ stored[i].key.sequence = stored[j].key.sequence => i = j

LEMMA UniqueStays == (Numbered => Unique) /\ (Numbered' => Unique')
  <1>1. Numbered => Unique
    BY NumbersAreUnique DEF Unique
  <1> QED BY <1>1, PTL

\* What the ring holds when a receipt has been stored.
LEMMA HoldsNext ==
    ASSUME RequestTypes, Serving, Numbered, Window, next \in Slots, ~Idle,
           NEW size \in Sizes, NEW n \in 1..History,
           [owner |-> current.owner, sequence |-> current.sequence,
            body |-> current.body, outcome |-> outcome, bytes |-> size] # NoRecord,
           next' = (next + n) % History,
           records' = [i \in Slots |-> IF i = SlotFor(n)
                THEN [owner |-> current.owner, sequence |-> current.sequence,
                      body |-> current.body, outcome |-> outcome, bytes |-> size]
                ELSE IF i \in Oldest(n) THEN NoRecord ELSE records[i]],
           stored' = Append(stored, [key |-> Key(current), bytes |-> size]),
           current' = NoRequest, highest' = highest
    PROVE  /\ \A k \in Slots, i \in DOMAIN stored : k < History - n /\ Holds(k + n, i) => Holds(k, i)'
           /\ Holds(History - 1, Len(stored))'
           /\ \A k \in Slots, i \in DOMAIN stored' : Holds(k, i)' =>
                 \/ k = History - 1 /\ i = Len(stored) + 1
                 \/ k < History - n /\ i \in DOMAIN stored /\ Holds(k + n, i)
           /\ \A k \in Slots : At(k)' # NoRecord =>
                 \/ k = History - 1
                 \/ k < History - n /\ At(k + n) # NoRecord
  <1> DEFINE receipt == [owner |-> current.owner, sequence |-> current.sequence,
                         body |-> current.body, outcome |-> outcome, bytes |-> size]
             last == Len(stored) + 1
  <1>0. History \in Nat /\ n \in Nat /\ n >= 1 /\ n <= History /\ Len(stored) \in Nat
    BY Limits, NumbersAreUnique
  <1>1. /\ receipt # NoRecord /\ receipt.bytes = size
        /\ receipt.owner = current.owner /\ receipt.sequence = current.sequence
    OBVIOUS
  <1>2. records' = [i \in Slots |-> IF i = SlotFor(n) THEN receipt
                                    ELSE IF i \in Oldest(n) THEN NoRecord ELSE records[i]]
    OBVIOUS
  <1> HIDE DEF receipt
  <1>3. \A k \in Slots : At(k)' = IF k = History - 1 THEN receipt
                                  ELSE IF k < History - n THEN At(k + n) ELSE NoRecord
    BY <1>2, RingTurns
  <1>4. /\ Numbered'
        /\ \A i \in DOMAIN stored : stored'[i] = stored[i]
        /\ stored'[last].key = Key(current) /\ stored'[last].bytes = size
        /\ DOMAIN stored' = DOMAIN stored \cup {last}
    BY StoredIsLast
  <1>5. Unique'
    BY <1>4, UniqueStays
  <1>6. Key(current).owner = current.owner /\ Key(current).sequence = current.sequence
    BY DEF Key
  <1>7. ASSUME NEW k \in Slots, NEW i \in DOMAIN stored, k < History - n, Holds(k + n, i)
        PROVE  Holds(k, i)'
    <2>1. At(k)' = At(k + n)
      BY <1>0, <1>3, <1>7 DEF Slots
    <2> QED BY <1>4, <1>7, <2>1 DEF Holds
  <1>8. Holds(History - 1, Len(stored))'
    <2>1. At(History - 1)' = receipt
      <3>1. History - 1 \in Slots
        BY <1>0 DEF Slots
      <3> QED BY <1>3, <3>1
    <2>2. Len(stored') = last
      BY StoredIsLast
    <2> QED BY <1>1, <1>4, <1>6, <2>1, <2>2 DEF Holds
  <1>9. ASSUME NEW k \in Slots, At(k)' # NoRecord
        PROVE  k = History - 1 \/ (k < History - n /\ At(k + n) # NoRecord)
    BY <1>3, <1>9
  <1>10. ASSUME NEW k \in Slots, NEW i \in DOMAIN stored', Holds(k, i)'
         PROVE  \/ k = History - 1 /\ i = last
                \/ k < History - n /\ i \in DOMAIN stored /\ Holds(k + n, i)
    <2>0. /\ At(k)' # NoRecord
          /\ At(k)'.owner = stored'[i].key.owner
          /\ At(k)'.sequence = stored'[i].key.sequence
      BY <1>10 DEF Holds
    <2>1. CASE k = History - 1
      <3>1. At(k)' = receipt
        BY <1>3, <2>1
      <3>2. last \in DOMAIN stored'
        BY <1>4
      <3>3. stored'[last].key.owner = stored'[i].key.owner /\ stored'[last].key.sequence = stored'[i].key.sequence
        BY <1>1, <1>4, <1>6, <2>0, <3>1
      <3> QED BY <1>5, <2>1, <3>2, <3>3 DEF Unique
    <2>2. CASE k # History - 1
      <3>1. k < History - n /\ At(k + n) # NoRecord
        BY <1>9, <2>0, <2>2
      <3>2. k + n \in Slots /\ At(k)' = At(k + n)
        BY <1>0, <1>3, <2>2, <3>1 DEF Slots
      <3>3. PICK j \in DOMAIN stored : Holds(k + n, j)
        BY <3>1, <3>2 DEF Window
      <3>4. stored'[j].key.owner = stored'[i].key.owner /\ stored'[j].key.sequence = stored'[i].key.sequence
        BY <1>4, <2>0, <3>2, <3>3 DEF Holds
      <3>5. i = j
        BY <1>4, <1>5, <3>4 DEF Unique
      <3> QED BY <3>1, <3>3, <3>5
    <2> QED BY <2>1, <2>2
  <1> QED BY <1>7, <1>8, <1>9, <1>10

\* As long as bytes played no part, one slot is room enough.
LEMMA OneIsEnough ==
    ASSUME RequestTypes, Books, Numbered, Window, Ample, NEW size \in Nat, size <= ByteLimit,
           NEW a \in 1..(Len(stored) + 1), a = Len(stored) + 2 - History \/ a = 1,
           a >= Len(stored) + 2 - History,
           Sum(StoredWeights, a..Len(stored)) + size <= ByteLimit
    PROVE  Evictions(size) = 1
  <1> DEFINE L == Len(stored)
             h == [i \in a..L |-> History - 1 - (L - i)]
             J == (History - 1 - (L - a))..(History - 1)
             Rest == 1..(History - 1)
             g == StoredWeights
             w == Weights
  <1>0. L \in Nat /\ History \in Nat \ {0} /\ a \in Nat /\ DOMAIN stored = 1..L /\ ByteLimit \in Nat
    BY Limits, NumbersAreUnique
  <1>1. a..L \in SUBSET DOMAIN stored /\ J \in SUBSET Rest /\ Rest \in SUBSET Slots /\ 0..0 \in SUBSET Slots
        /\ Slots \ (0..0) = Rest /\ J \in SUBSET Slots
    BY <1>0 DEF Slots
  <1>2. /\ \A i \in a..L : h[i] \in J /\ h[i] \in Slots /\ i > L - History
        /\ \A i, j \in a..L : h[i] = h[j] => i = j
        /\ \A k \in J : k - (History - 1 - L) \in a..L /\ h[k - (History - 1 - L)] = k
    BY <1>0 DEF Slots
  <1>3. \A i \in a..L : Holds(h[i], i)
    <2> SUFFICES ASSUME NEW i \in a..L PROVE Holds(h[i], i)
      OBVIOUS
    <2>1. i \in DOMAIN stored /\ i > L - History
      BY <1>1, <1>2
    <2>2. Holds(History - 1 - (L - i), i)
      BY <2>1 DEF Window
    <2> QED BY <2>2
  <1>4. \A i \in a..L : g[i] = w[h[i]]
    BY <1>1, <1>2, <1>3 DEF Holds, Weights, Weight, StoredWeights
  <1>5. {h[i] : i \in a..L} = J
    <2>1. \A k \in J : \E i \in a..L : h[i] = k
      BY <1>2
    <2>2. \A i \in a..L : h[i] \in J
      BY <1>2
    <2> HIDE DEF h, J, L
    <2> QED BY <2>1, <2>2
  <1>6. /\ \A k \in Slots : w[k] \in Nat
        /\ \A S \in SUBSET Slots : IsFiniteSet(S) /\ Sum(w, S) \in Nat
    BY WeightsAreNat DEF Books
  <1>7. IsFiniteSet(a..L)
    BY <1>0, FS_Interval
  <1> HIDE DEF g, w
  <1>8. Sum(g, a..L) = Sum(w, J)
    <2> DEFINE U == a..L
    <2>1. /\ \A i \in U : h[i] \in Slots /\ g[i] = w[h[i]]
          /\ \A i, j \in U : h[i] = h[j] => i = j
          /\ IsFiniteSet(U)
          /\ {h[i] : i \in U} = J
      BY <1>2, <1>4, <1>5, <1>7
    <2> HIDE DEF h, U, J
    <2>2. Sum(g, U) = Sum(w, {h[i] : i \in U})
      BY <1>6, <2>1, SlotsFinite, SumMoves
    <2> QED BY <2>1, <2>2 DEF U
  <1>9. \A k \in Rest \ J : w[k] = 0
    <2> SUFFICES ASSUME NEW k \in Rest \ J, w[k] # 0 PROVE FALSE
      OBVIOUS
    <2>1. k \in Slots /\ k \in Nat /\ k >= 1 /\ k < History - 1 - (L - a)
      BY <1>0, <1>1
    <2>2. At(k) # NoRecord
      BY <2>1 DEF w, Weights, Weight
    <2>3. PICK i \in DOMAIN stored : Holds(k, i)
      BY <2>1, <2>2 DEF Window
    <2>4. CASE i >= a
      <3>1. i \in a..L
        BY <1>0, <2>4
      <3>h. h[i] \in Slots /\ Holds(h[i], i)
        BY <1>2, <1>3, <3>1
      <3>k. k < h[i]
        <4>1. h[i] = History - 1 - (L - i) /\ i \in Nat
          BY <1>0, <3>1
        <4>2. History - 1 - (L - a) <= History - 1 - (L - i)
          BY <1>0, <2>4, <4>1
        <4> HIDE DEF h
        <4> QED BY <1>0, <2>1, <4>1, <4>2
      <3>2. h[i] \in Slots /\ Holds(h[i], i) /\ k < h[i]
        BY <3>h, <3>k
      <3>3. i < i
        <4>1. \A l \in Slots : Holds(l, i) /\ k < l => i < i
          BY <2>1, <2>3 DEF Window
        <4> HIDE DEF h
        <4> QED BY <3>2, <4>1
      <3> QED BY <1>0, <3>3
    <2>5. CASE i < a
      BY <1>0, <2>1, <2>5
    <2> QED BY <1>0, <2>4, <2>5
  <1>10. Sum(w, Rest) = Sum(w, J) + Sum(w, Rest \ J)
    <2> HIDE DEF Rest, J
    <2>1. IsFiniteSet(Rest) /\ \A k \in Rest : w[k] \in Nat
      BY <1>1, <1>6
    <2>2. \A S \in SUBSET Rest : Sum(w, Rest) = Sum(w, S) + Sum(w, Rest \ S)
      BY <2>1, SumOfParts
    <2> QED BY <1>1, <2>2
  <1>11. Sum(w, Rest \ J) = 0
    <2> DEFINE U == Rest \ J
    <2>1. U \in SUBSET Slots /\ \A k \in U : w[k] = 0
      BY <1>1, <1>9
    <2> HIDE DEF U
    <2>2. IsFiniteSet(U) /\ \A k \in U : w[k] \in Nat
      BY <1>6, <2>1
    <2>3. Sum(w, U) = 0
      BY <2>1, <2>2, SumOfZeros
    <2> QED BY <2>3 DEF U
  <1>12. Sum(w, Slots) = Sum(w, 0..0) + Sum(w, Rest)
    <2>1. \A S \in SUBSET Slots : Sum(w, Slots) = Sum(w, S) + Sum(w, Slots \ S)
      BY <1>6, SlotsFinite, SumOfParts
    <2> HIDE DEF Rest
    <2> QED BY <1>1, <2>1
  <1>13. Freed(1) = Sum(w, 0..0)
    <2>1. 1 \in 1..History /\ 1 - 1 = 0
      BY <1>0
    <2>2. Freed(1) = Sum(Weights, 0..(1 - 1))
      BY <2>1, OldestAre DEF Books
    <2> QED BY <2>1, <2>2 DEF w
  <1>14. bytes = Sum(w, Slots)
    BY DEF Books, w
  <1>15. Sum(w, 0..0) \in Nat /\ Sum(w, Rest) \in Nat /\ Sum(w, J) \in Nat
    BY <1>1, <1>6
  <1>16. Sum(w, J) + size <= ByteLimit
    BY <1>8 DEF g
  <1> HIDE DEF J, Rest, L, h
  <1>17. bytes - Freed(1) + size <= ByteLimit
    BY <1>10, <1>11, <1>12, <1>13, <1>14, <1>15, <1>16
  <1>18. /\ Evictions(size) \in 1..History
         /\ \A n \in 1..History : bytes - Freed(n) + size <= ByteLimit => Evictions(size) <= n
    BY RoomIsFound DEF Books
  <1> QED BY <1>0, <1>17, <1>18

LEMMA WindowStored ==
    ASSUME RequestTypes, Serving, Books, Numbered, Window, ~Idle,
           NEW size \in Sizes, size <= ByteLimit, Store(size),
           [owner |-> current.owner, sequence |-> current.sequence,
            body |-> current.body, outcome |-> outcome, bytes |-> size] # NoRecord,
           current' = NoRequest, highest' = highest
    PROVE  Numbered' /\ Window'
  <1> DEFINE n == Evictions(size)
             L == Len(stored)
  <1>0. size \in Nat /\ next \in Slots /\ bytes = Sum(Weights, Slots)
    BY LimitsAssumption DEF Books
  <1>1. n \in 1..History
    BY <1>0, RoomIsFound
  <1>2. /\ records' = [i \in Slots |-> IF i = SlotFor(n)
             THEN [owner |-> current.owner, sequence |-> current.sequence,
                   body |-> current.body, outcome |-> outcome, bytes |-> size]
             ELSE IF i \in Oldest(n) THEN NoRecord ELSE records[i]]
        /\ next' = (next + n) % History
        /\ stored' = Append(stored, [key |-> Key(current), bytes |-> size])
    BY DEF Store
  <1>3. /\ Numbered'
        /\ Len(stored') = L + 1
        /\ \A i \in DOMAIN stored : stored'[i] = stored[i]
        /\ stored'[L + 1].key = Key(current) /\ stored'[L + 1].bytes = size
        /\ DOMAIN stored' = DOMAIN stored \cup {L + 1}
    BY <1>2, StoredIsLast
  <1> HIDE DEF n
  <1>4. /\ \A k \in Slots, i \in DOMAIN stored : k < History - n /\ Holds(k + n, i) => Holds(k, i)'
        /\ Holds(History - 1, Len(stored))'
        /\ \A k \in Slots, i \in DOMAIN stored' : Holds(k, i)' =>
              \/ k = History - 1 /\ i = L + 1
              \/ k < History - n /\ i \in DOMAIN stored /\ Holds(k + n, i)
        /\ \A k \in Slots : At(k)' # NoRecord =>
              \/ k = History - 1
              \/ k < History - n /\ At(k + n) # NoRecord
    BY <1>0, <1>1, <1>2, HoldsNext
  <1>5. /\ L \in Nat /\ History \in Nat \ {0} /\ n \in Nat /\ n >= 1 /\ n <= History
        /\ DOMAIN stored = 1..L /\ DOMAIN stored' = 1..(L + 1)
        /\ Slots = 0..(History - 1)
    BY <1>1, <1>3, Limits, NumbersAreUnique DEF Slots
  <1>6. ASSUME NEW k \in Slots, At(k)' # NoRecord
        PROVE  \E i \in DOMAIN stored' : Holds(k, i)'
    <2>1. CASE k = History - 1
      <3>1. L + 1 \in DOMAIN stored'
        BY <1>3
      <3> QED BY <1>3, <1>4, <2>1, <3>1
    <2>2. CASE k < History - n /\ At(k + n) # NoRecord
      <3>1. k + n \in Slots
        BY <1>5, <2>2
      <3>2. PICK i \in DOMAIN stored : Holds(k + n, i)
        BY <2>2, <3>1 DEF Window
      <3>3. Holds(k, i)'
        BY <1>4, <2>2, <3>2
      <3> QED BY <1>3, <3>2, <3>3
    <2> QED BY <1>4, <1>6, <2>1, <2>2
  <1>7. ASSUME NEW k \in Slots, NEW l \in Slots, NEW i \in DOMAIN stored', NEW j \in DOMAIN stored',
               Holds(k, i)', Holds(l, j)', k < l
        PROVE  i < j
    <2>1. k < History - n /\ i \in DOMAIN stored /\ Holds(k + n, i)
      BY <1>4, <1>5, <1>7
    <2>2. CASE j = L + 1
      BY <1>5, <2>1, <2>2
    <2>3. CASE l < History - n /\ j \in DOMAIN stored /\ Holds(l + n, j)
      <3>1. k + n \in Slots /\ l + n \in Slots /\ k + n < l + n
        BY <1>5, <1>7, <2>1, <2>3
      <3> QED BY <2>1, <2>3, <3>1 DEF Window
    <2> QED BY <1>4, <1>7, <2>2, <2>3
  <1>8. ASSUME NEW k \in Slots, NEW i \in DOMAIN stored', NEW j \in DOMAIN stored', Holds(k, i)', i < j
        PROVE  \E l \in Slots : Holds(l, j)'
    <2>1. k < History - n /\ i \in DOMAIN stored /\ Holds(k + n, i)
      BY <1>4, <1>5, <1>8
    <2>2. CASE j = L + 1
      <3>1. History - 1 \in Slots
        BY <1>5
      <3> QED BY <1>3, <1>4, <2>2, <3>1
    <2>3. CASE j \in DOMAIN stored
      <3>1. k + n \in Slots
        BY <1>5, <2>1
      <3>2. PICK l \in Slots : Holds(l, j)
        BY <1>8, <2>1, <2>3, <3>1 DEF Window
      <3>3. ~(l < k + n)
        <4>1. l < k + n => j < i
          BY <2>1, <2>3, <3>1, <3>2 DEF Window
        <4> QED BY <1>5, <1>8, <4>1
      <3>4. l # k + n
        <4>1. SUFFICES ASSUME l = k + n PROVE FALSE
          OBVIOUS
        <4>2. stored[i].key.owner = stored[j].key.owner /\ stored[i].key.sequence = stored[j].key.sequence
          BY <2>1, <3>2, <4>1 DEF Holds
        <4>3. i = j
          BY <2>1, <2>3, <4>2, UniqueStays DEF Unique
        <4> QED BY <1>5, <1>8, <4>3
      <3>5. l - n \in Slots /\ l - n < History - n /\ (l - n) + n = l
        BY <1>5, <3>1, <3>3, <3>4
      <3>6. PICK m \in Slots : m = l - n
        BY <3>5
      <3>7. Holds(m + n, j)
        BY <3>2, <3>5, <3>6
      <3>8. Holds(m, j)'
        BY <1>4, <2>3, <3>5, <3>6, <3>7
      <3> QED BY <3>8
    <2> QED BY <1>3, <2>2, <2>3
  <1>9. ASSUME Ample', NEW i \in DOMAIN stored', i > Len(stored') - History
        PROVE  Holds(History - 1 - (Len(stored) - i), i)'
    <2>1. Ample
      BY <1>3, <1>9, AmpleBefore
    <2>2. n = 1
      <3>1. PICK a \in 1..(L + 1) : /\ a = L + 2 - History \/ a = 1
                                    /\ a >= L + 2 - History
        <4>1. CASE L + 2 - History >= 1
          <5>1. L + 2 - History \in 1..(L + 1) /\ L + 2 - History >= L + 2 - History
            BY <1>5, <4>1
          <5> QED BY <5>1
        <4>2. CASE L + 2 - History < 1
          <5>1. 1 \in 1..(L + 1) /\ 1 >= L + 2 - History
            BY <1>5, <4>2
          <5> QED BY <5>1
        <4> QED BY <1>5, <4>1, <4>2
      <3> DEFINE T == a..(L + 1)
                 U == a..L
                 g == StoredWeights
                 k == StoredWeights'
      <3>2. Sum(k, T) <= ByteLimit
        <4>1. {j \in DOMAIN stored' : j >= a /\ j < a + History} = T
          BY <1>5, <3>1
        <4>2. a \in DOMAIN stored'
          BY <1>5
        <4> QED BY <1>9, <4>1, <4>2 DEF Ample, Following
      <3>3. T \ {L + 1} = U /\ L + 1 \in T /\ U \in SUBSET DOMAIN stored /\ T \in SUBSET DOMAIN stored'
            /\ U \in SUBSET DOMAIN stored'
        BY <1>5
      <3>4. /\ \A j \in DOMAIN stored' : k[j] \in Nat
            /\ \A j \in DOMAIN stored : g[j] \in Nat
            /\ IsFiniteSet(DOMAIN stored) /\ IsFiniteSet(DOMAIN stored')
        <4>1. IsFiniteSet(DOMAIN stored) /\ \A j \in DOMAIN stored : g[j] \in Nat
          BY StoredWeightsAreNat
        <4>2. \A j \in DOMAIN stored : k[j] = g[j]
          BY <1>3 DEF StoredWeights
        <4>3. k[L + 1] = size
          BY <1>3 DEF StoredWeights
        <4>4. IsFiniteSet(DOMAIN stored')
          BY <1>5, FS_Interval
        <4> QED BY <1>0, <1>3, <4>1, <4>2, <4>3, <4>4
      <3>5. \A j \in DOMAIN stored : k[j] = g[j]
        BY <1>3 DEF StoredWeights
      <3>6. k[L + 1] = size
        BY <1>3 DEF StoredWeights
      <3> HIDE DEF g, k, T, U
      <3>7. Sum(k, T) = k[L + 1] + Sum(k, U)
        <4>1. \A S \in SUBSET DOMAIN stored' :
                 /\ Sum(k, S) \in Nat
                 /\ \A x \in S : Sum(k, S) = k[x] + Sum(k, S \ {x})
          <5>1. PICK D : D = DOMAIN stored'
            OBVIOUS
          <5>2. IsFiniteSet(D) /\ \A j \in D : k[j] \in Nat
            BY <3>4, <5>1
          <5>3. Splits(k, D)
            BY <5>2, SumSplits
          <5> QED BY <5>1, <5>3 DEF Splits
        <4>2. T \in SUBSET DOMAIN stored' /\ L + 1 \in T /\ T \ {L + 1} = U
          BY <3>3
        <4>3. \A x \in T : Sum(k, T) = k[x] + Sum(k, T \ {x})
          BY <4>1, <4>2
        <4>4. Sum(k, T) = k[L + 1] + Sum(k, T \ {L + 1})
          BY <4>2, <4>3
        <4> QED BY <4>2, <4>4
      <3>8. Sum(g, U) = Sum(k, U)
        <4>1. IsFiniteSet(U)
          BY <3>3, <3>4, FS_Subset
        <4>2. \A j \in U : k[j] \in Nat /\ g[j] = k[j]
          BY <3>3, <3>4, <3>5
        <4> QED BY <4>1, <4>2, SumAlike
      <3>9. Sum(g, U) \in Nat
        <4> DEFINE D == DOMAIN stored
        <4>1. IsFiniteSet(D) /\ (\A j \in D : g[j] \in Nat) /\ U \in SUBSET D
          BY <3>3, <3>4
        <4> HIDE DEF D
        <4>2. \A S \in SUBSET D :
                 /\ Sum(g, S) \in Nat
                 /\ \A x \in S : Sum(g, S) = g[x] + Sum(g, S \ {x})
          <5>1. Splits(g, D)
            BY <4>1, SumSplits
          <5> QED BY <5>1 DEF Splits
        <4> QED BY <4>1, <4>2
      <3>10. Sum(StoredWeights, a..L) + size <= ByteLimit
        <4>1. Sum(g, U) + size <= ByteLimit
          BY <1>0, <3>2, <3>6, <3>7, <3>8, <3>9
        <4> QED BY <4>1 DEF g, U
      <3> QED BY <1>0, <2>1, <3>1, <3>10, OneIsEnough DEF n
    <2>3. CASE i = L + 1
      <3>1. History - 1 - (Len(stored') - i) = History - 1 /\ i = Len(stored')
        BY <1>3, <1>5, <2>3
      <3> QED BY <1>4, <3>1 DEF Holds, At, Place
    <2>4. CASE i # L + 1
      <3>1. i \in DOMAIN stored /\ i > L - History
        BY <1>3, <1>5, <1>9, <2>4
      <3>2. Holds(History - 1 - (L - i), i)
        BY <2>1, <3>1 DEF Window
      <3>3. PICK m \in Slots : /\ m = History - 1 - (L + 1 - i)
                               /\ m < History - n /\ m + n = History - 1 - (L - i)
        <4>1. History - 1 - (L + 1 - i) \in Slots
          BY <1>3, <1>5, <1>9, <2>4, <3>1
        <4>2. History - 1 - (L + 1 - i) < History - n
              /\ History - 1 - (L + 1 - i) + n = History - 1 - (L - i)
          BY <1>3, <1>5, <1>9, <2>2, <2>4, <3>1
        <4> QED BY <4>1, <4>2
      <3>4. Len(stored') = L + 1
        BY <1>3
      <3>5. Holds(m + n, i)
        BY <3>2, <3>3
      <3>6. Holds(m, i)'
        BY <1>4, <3>1, <3>3, <3>5
      <3>7. History - 1 - (Len(stored') - i) = m
        BY <3>3, <3>4
      <3> QED BY <3>6, <3>7 DEF Holds, At, Place
    <2> QED BY <2>3, <2>4
  <1>10. stored' # <<>> => Holds(History - 1, Len(stored))'
    BY <1>4
  <1> QED BY <1>3, <1>6, <1>7, <1>8, <1>9, <1>10 DEF Window

\* An empty ring holds what was stored in a session that has stored nothing.
LEMMA WindowEmpty ==
    ASSUME next = 0, records = [i \in Slots |-> NoRecord], stored = <<>>
    PROVE  Numbered /\ Window
  <1>1. DOMAIN stored = {} /\ stored \in Seq([key : Keys, bytes : Sizes])
    BY DEF Keys
  <1>2. ASSUME NEW k \in Slots PROVE At(k) = NoRecord
    <2>1. next \in Slots /\ k \in Int
      BY Limits DEF Slots
    <2> QED BY <2>1, PlaceIsSlot DEF At
  <1> QED BY <1>1, <1>2 DEF Numbered, Window

LEMMA WindowEmptied ==
    ASSUME next' = 0, records' = [i \in Slots |-> NoRecord], stored' = <<>>
    PROVE  Numbered' /\ Window'
  <1>1. DOMAIN stored' = {} /\ stored' \in Seq([key : Keys, bytes : Sizes])
    BY DEF Keys
  <1>2. ASSUME NEW k \in Slots PROVE At(k)' = NoRecord
    <2>1. Place(k)' \in Slots
      BY Limits, Division DEF Place, Slots
    <2> QED BY <2>1 DEF At
  <1> QED BY <1>1, <1>2 DEF Numbered, Window, Keys

LEMMA WindowUnchanged ==
    ASSUME Window, UNCHANGED <<records, next, stored>>
    PROVE  Window'
  BY DEF Window, Holds, At, Place, Ample, StoredWeights, Following

\* Nothing is stored and no request begins.
LEMMA NumberedUnchanged ==
    ASSUME Numbered, UNCHANGED <<stored, highest>>, current' \in {current, NoRequest}
    PROVE  Numbered'
  BY DEF Numbered, Idle, Keys

\* A request begins, above everything its controller has stored.
LEMMA NumberedAdmit ==
    ASSUME RequestTypes, Numbered, NEW r \in Requests, Admit(r)
    PROVE  Numbered'
  <1>1. /\ stored' = stored /\ current' = r
        /\ highest' = [c \in DOMAIN highest \cup {r.owner} |->
                        IF c = r.owner THEN r.sequence ELSE highest[c]]
        /\ (r.owner \in DOMAIN highest => ~(r.sequence <= highest[r.owner]))
    BY DEF Admit, Overdue, Registered
  <1>2. \A c \in DOMAIN highest : highest[c] \in Nat
    BY LimitsAssumption DEF RequestTypes
  <1>3. r.sequence \in Nat
    BY LimitsAssumption DEF Requests
  <1>4. \A i \in DOMAIN stored : stored[i].key.sequence \in Nat
    BY NumbersAreUnique, LimitsAssumption DEF Keys
  <1>5. ASSUME NEW i \in DOMAIN stored
        PROVE  /\ stored[i].key.owner \in DOMAIN highest'
               /\ stored[i].key.sequence <= highest'[stored[i].key.owner]
               /\ stored[i].key.owner = r.owner => stored[i].key.sequence < r.sequence
    <2>1. stored[i].key.owner \in DOMAIN highest /\ stored[i].key.sequence <= highest[stored[i].key.owner]
      BY DEF Numbered
    <2>2. stored[i].key.owner = r.owner => stored[i].key.sequence < r.sequence
      BY <1>1, <1>2, <1>3, <1>4, <2>1
    <2>3. CASE stored[i].key.owner = r.owner
      BY <1>1, <1>3, <1>4, <2>1, <2>2, <2>3
    <2>4. CASE stored[i].key.owner # r.owner
      BY <1>1, <2>1, <2>4
    <2> QED BY <2>2, <2>3, <2>4
  <1>6. stored' \in Seq([key : Keys, bytes : Sizes])
    BY <1>1 DEF Numbered
  <1> QED BY <1>1, <1>5, <1>6 DEF Numbered, Keys

LEMMA WindowNext ==
    ASSUME OnceInv, Books, Numbered, Window, [Next]_vars
    PROVE  Numbered' /\ Window'
  <1>0. RequestTypes /\ Serving
    BY DEF OnceInv
  <1>1. CASE \E r \in Requests : Receive(r)
    <2>1. PICK r \in Requests : Receive(r)
      BY <1>1
    <2>2. CASE Refusal
      BY <2>2, NumberedUnchanged, WindowUnchanged DEF Refusal, vars, ledgerVars
    <2>3. CASE Replay(r)
      BY <2>3, NumberedUnchanged, WindowUnchanged DEF Replay, ledgerVars
    <2>4. CASE Admit(r)
      BY <1>0, <2>4, NumberedAdmit, WindowUnchanged DEF Admit
    <2> QED
      BY <2>1, <2>2, <2>3, <2>4
      DEF Receive, RefuseSession, RefuseController, RefuseConflict, RefuseExpired
  <1>2. CASE Dispatch
    BY <1>2, NumberedUnchanged, WindowUnchanged DEF Dispatch, ledgerVars
  <1>3. CASE \E size \in Sizes : Finish(size)
    <2>1. PICK size \in Sizes : Finish(size)
      BY <1>3
    <2>2. CASE size > ByteLimit
      BY <2>1, <2>2, NumberedUnchanged, WindowUnchanged DEF Finish
    <2>3. CASE ~(size > ByteLimit)
      <3>1. Store(size) /\ ~Idle /\ outcome # NoOutcome /\ current' = NoRequest /\ highest' = highest
        BY <2>1, <2>3 DEF Finish
      <3>2. size <= ByteLimit
        BY <2>3, LimitsAssumption
      <3>3. current \in Requests /\ outcome \in Outcomes
        BY <1>0, <3>1, CurrentIsRequest DEF RequestTypes
      <3>4. [owner |-> current.owner, sequence |-> current.sequence,
             body |-> current.body, outcome |-> outcome, bytes |-> size] # NoRecord
        BY <3>3, NothingAssumption DEF Requests
      <3> QED BY <1>0, <3>1, <3>2, <3>4, WindowStored
    <2> QED BY <2>2, <2>3
  <1>4. CASE \E c \in Controllers, m \in 1..MaxSequence : RequestGet(c, m)
    BY <1>4, NumberedUnchanged, WindowUnchanged DEF RequestGet, ledgerVars
  <1>5. CASE Restart
    BY <1>5, WindowEmptied DEF Restart
  <1>6. CASE UNCHANGED vars
    BY <1>6, NumberedUnchanged, WindowUnchanged DEF vars, ledgerVars
  <1> QED
    BY <1>1, <1>2, <1>3, <1>4, <1>5, <1>6 DEF Next

LEMMA WindowAlways == Spec => [](OnceInv /\ Books /\ Numbered /\ Window)
  <1>1. Init => Numbered /\ Window
    BY WindowEmpty DEF Init
  <1>2. OnceInv /\ Books /\ Numbered /\ Window /\ [Next]_vars => (Numbered /\ Window)'
    BY WindowNext
  <1> QED BY <1>1, <1>2, BooksAlways, PTL DEF Spec

\* What the ring holds is what a client finds again.
LEMMA HeldIsRetained ==
    ASSUME RequestTypes, next \in Slots, Numbered, Window, NEW i \in DOMAIN stored
    PROVE  Retained(i) <=> \E k \in Slots : Holds(k, i)
  <1>1. ASSUME NEW k \in Slots, Holds(k, i) PROVE Retained(i)
    <2>1. k \in Int
      BY Limits DEF Slots
    <2>2. Place(k) \in Slots /\ At(k) = records[Place(k)]
      BY <2>1, PlaceIsSlot DEF At
    <2>3. Place(k) \in Kept
      BY <1>1, <2>2 DEF Kept, Holds
    <2> QED BY <1>1, <2>2, <2>3 DEF Retained, Holds
  <1>2. ASSUME Retained(i) PROVE \E k \in Slots : Holds(k, i)
    <2>1. PICK slot \in Kept : /\ records[slot].owner = stored[i].key.owner
                               /\ records[slot].sequence = stored[i].key.sequence
      BY <1>2 DEF Retained
    <2>2. slot \in Slots /\ records[slot] # NoRecord
      BY DEF Kept
    <2>3. PICK k \in Slots : Place(k) = slot
      BY <2>2, PlacesAreAll
    <2>4. PICK j \in DOMAIN stored : Holds(k, j)
      BY <2>2, <2>3 DEF At, Window
    <2>5. i = j
      BY <2>1, <2>3, <2>4, NumbersAreUnique DEF Holds, At
    <2> QED BY <2>4, <2>5
  <1> QED BY <1>1, <1>2

\* as_request_finish evicts from the oldest on and stops at the first slot that
\* makes room: what it keeps is an unbroken end of what was stored, never
\* without the last receipt, and History long unless bytes ran out.
THEOREM WindowIsKept == Spec => []RetryWindow
  <1>1. ASSUME OnceInv, Books, Numbered, Window PROVE RetryWindow
    <2>0. RequestTypes /\ next \in Slots
      BY <1>1 DEF OnceInv, Books
    <2>1. \A i \in DOMAIN stored : Retained(i) <=> \E k \in Slots : Holds(k, i)
      BY <1>1, <2>0, HeldIsRetained
    <2>2. /\ DOMAIN stored = 1..Len(stored) /\ Len(stored) \in Nat
          /\ Slots = 0..(History - 1) /\ History \in Nat \ {0}
      BY <1>1, NumbersAreUnique, Limits DEF Slots
    <2>3. \A i, j \in DOMAIN stored : Retained(i) /\ i < j => Retained(j)
      BY <1>1, <2>1 DEF Window
    <2>4. stored # <<>> => Retained(Len(stored))
      <3>1. SUFFICES ASSUME stored # <<>> PROVE Retained(Len(stored))
        OBVIOUS
      <3>2. Len(stored) \in DOMAIN stored
        <4>1. stored \in Seq([key : Keys, bytes : Sizes])
          BY <1>1 DEF Numbered
        <4> QED BY <2>2, <3>1, <4>1
      <3>3. History - 1 \in Slots /\ Holds(History - 1, Len(stored))
        BY <1>1, <2>2, <3>1 DEF Window
      <3> QED BY <2>1, <3>2, <3>3
    <2>5. ASSUME EverRoom PROVE Ample
      <3> SUFFICES ASSUME NEW i \in DOMAIN stored PROVE Sum(StoredWeights, Following(i)) <= ByteLimit
        BY DEF Ample
      <3> DEFINE S == Following(i)
                 g == StoredWeights
      <3>1. S \in SUBSET DOMAIN stored
        BY DEF Following
      <3>2. IsFiniteSet(S)
        BY <1>1, <3>1, StoredWeightsAreNat
      <3>3. \A j \in S : g[j] = StoredBytes(j)
        BY <3>1 DEF StoredWeights, StoredBytes
      <3>4. MapThenSumSet(StoredBytes, S) <= ByteLimit
        BY <2>5 DEF EverRoom, Following
      <3> HIDE DEF S, g
      <3>5. MapThenSumSet(StoredBytes, S) = Sum(g, S)
        BY <3>2, <3>3, FoldOfStored
      <3>6. Sum(g, S) <= ByteLimit
        BY <3>4, <3>5
      <3> QED BY <3>6 DEF g, S
    <2>6. ASSUME Ample, NEW i \in DOMAIN stored, i > Len(stored) - History PROVE Retained(i)
      <3>1. Holds(History - 1 - (Len(stored) - i), i)
        BY <1>1, <2>6 DEF Window
      <3>2. History - 1 - (Len(stored) - i) \in Slots
        BY <2>2, <2>6
      <3> QED BY <2>1, <3>1, <3>2
    <2> QED BY <2>3, <2>4, <2>5, <2>6 DEF RetryWindow
  <1> QED BY <1>1, WindowAlways, PTL

=============================================================================
