--------------------------- MODULE RequestLedger ---------------------------
(***************************************************************************)
(* The daemon's in-memory ledger of write requests (native/request-ledger.c *)
(* as response_for in native/agentseatd.c uses it): a ring of receipts,    *)
(* limited in number and in bytes, and a high-water mark per controller    *)
(* that outlives the receipts.  Clients may send any request any number of *)
(* times and to any daemon; a daemon may end at any point and takes the    *)
(* ledger with it.                                                         *)
(*                                                                         *)
(* Definitions headed "Mistake" are not part of the specification: each is *)
(* the definition that follows it as a plausible slip would leave it.      *)
(***************************************************************************)
EXTENDS Integers, Sequences, FiniteSetsExt

CONSTANTS
    Controllers,     \* controller_id values
    Bodies,          \* method and parameters of a request
    Outcomes,        \* results and errors of dispatch
    NoRequest,       \* nothing is being served
    NoOutcome,       \* dispatch has not returned
    NoRecord,        \* an empty slot of the ring
    Sizes,           \* serialized sizes of a receipt
    MaxSequence,     \* bound: largest request_id
    MaxSessions,     \* bound: daemons started
    MaxControllers,  \* AS_MAX_CONTROLLERS
    History,         \* AS_REQUEST_HISTORY
    ByteLimit        \* AS_LEDGER_BYTES

ASSUME LimitsAssumption ==
    /\ MaxSequence \in Nat
    /\ MaxSessions \in Nat
    /\ MaxControllers \in Nat
    /\ History \in Nat \ {0}
    /\ ByteLimit \in Nat
    /\ Sizes \subseteq Nat \ {0}

ASSUME NothingAssumption ==
    /\ NoOutcome \notin Outcomes
    /\ NoRequest \notin [session : 1..MaxSessions, owner : Controllers,
                         sequence : 1..MaxSequence, body : Bodies]
    /\ NoRecord \notin [owner : Controllers, sequence : 1..MaxSequence, body : Bodies,
                        outcome : Outcomes, bytes : Sizes]

VARIABLES
    session,     \* state.session_id, counted
    highest,     \* controllers: high-water mark of each registered controller
    records,     \* the ring of receipts
    next,        \* next_record, modulo History
    bytes,       \* ledger bytes in use
    current,     \* the admitted request that response_for is serving
    outcome,     \* what dispatch returned for it
    executions,  \* ghost: how often each request reached dispatch
    answered,    \* ghost: answers given, first-hand or as a receipt
    stored       \* ghost: keys and sizes of the receipts stored in this session

ledgerVars == <<highest, records, next, bytes>>
vars == <<session, ledgerVars, current, outcome, executions, answered, stored>>

Sessions == 1..MaxSessions
Slots == 0..(History - 1)

Requests == [session : Sessions, owner : Controllers, sequence : 1..MaxSequence, body : Bodies]
Keys == [session : Sessions, owner : Controllers, sequence : 1..MaxSequence]
Receipts == [owner : Controllers, sequence : 1..MaxSequence, body : Bodies,
             outcome : Outcomes, bytes : Sizes]
Answers == [key : Keys, body : Bodies, outcome : Outcomes]

Key(r) == [session |-> r.session, owner |-> r.owner, sequence |-> r.sequence]

Idle == current = NoRequest

\* What the ring says of a record of this session.
AnswerOf(x) ==
    [key |-> [session |-> session, owner |-> x.owner, sequence |-> x.sequence],
     body |-> x.body, outcome |-> x.outcome]

----------------------------------------------------------------------------
(* as_request_begin.                                                       *)

Kept == {i \in Slots : records[i] # NoRecord}

Found(owner, sequence) ==
    {i \in Kept : records[i].owner = owner /\ records[i].sequence = sequence}

Registered(r) == r.owner \in DOMAIN highest

\* The sequence is not above the controller's high-water mark.
Overdue(r) == Registered(r) /\ r.sequence <= highest[r.owner]

\* Mistake: the parameters are not compared.
SameNumber(x, r) == x.owner = r.owner

\* The receipt answers this very request.
SameRequest(x, r) == x.body = r.body

Refusal ==
    /\ Idle
    /\ UNCHANGED vars

\* SESSION_MISMATCH, before the ledger is asked.
RefuseSession(r) == Refusal /\ r.session # session

\* RESOURCE_LIMIT: a new controller, and no room for its mark.
RefuseController(r) ==
    /\ Refusal
    /\ r.session = session
    /\ ~Registered(r)
    /\ Cardinality(DOMAIN highest) = MaxControllers

\* REQUEST_ID_CONFLICT.
RefuseConflict(r) ==
    /\ Refusal
    /\ r.session = session
    /\ \E i \in Found(r.owner, r.sequence) : ~SameRequest(records[i], r)

\* REQUEST_EXPIRED.
RefuseExpired(r) ==
    /\ Refusal
    /\ r.session = session
    /\ Found(r.owner, r.sequence) = {}
    /\ Overdue(r)

\* The receipt is copied, with the id of the repeated request.
Replay(r) ==
    /\ Idle
    /\ r.session = session
    /\ \E i \in Found(r.owner, r.sequence) :
        /\ SameRequest(records[i], r)
        /\ answered' = answered \cup {[AnswerOf(records[i]) EXCEPT !.body = r.body]}
    /\ UNCHANGED <<session, ledgerVars, current, outcome, executions, stored>>

\* A new request: the mark moves before anything is done.
Admit(r) ==
    /\ Idle
    /\ r.session = session
    /\ Registered(r) \/ Cardinality(DOMAIN highest) < MaxControllers
    /\ Found(r.owner, r.sequence) = {}
    /\ ~Overdue(r)
    /\ highest' = [c \in DOMAIN highest \cup {r.owner} |->
                    IF c = r.owner THEN r.sequence ELSE highest[c]]
    /\ current' = r
    /\ UNCHANGED <<session, records, next, bytes, outcome, executions, answered, stored>>

----------------------------------------------------------------------------
(* dispatch and as_request_finish.                                         *)

\* Whatever is done for an admitted request is done here, rejections by the
\* writer checks or by dispatch included.
Dispatch ==
    /\ ~Idle
    /\ outcome = NoOutcome
    /\ outcome' \in Outcomes
    /\ executions' = [executions EXCEPT ![Key(current)] = @ + 1]
    /\ UNCHANGED <<session, ledgerVars, current, answered, stored>>

Size(i) == IF records[i] = NoRecord THEN 0 ELSE records[i].bytes

\* The n slots from next on, in the order in which they are forgotten.
Oldest(n) == {(next + i) % History : i \in 0..(n - 1)}

Freed(n) == MapThenSumSet(Size, Oldest(n))

\* How many slots the do-while loop forgets to make room.
Evictions(size) == Min({n \in 1..History : bytes - Freed(n) + size <= ByteLimit})

\* Mistake: the receipt goes one past the slot that was forgotten last.
SlotForLate(n) == (next + n) % History

\* The receipt goes into the slot that was forgotten last.
SlotFor(n) == (next + n - 1) % History

\* Mistake: forgotten receipts stay on the books.
BytesWithLeak(n, size) == bytes + size

BytesAfter(n, size) == bytes - Freed(n) + size

Store(size) ==
    LET n == Evictions(size) IN
    /\ records' = [i \in Slots |->
                    IF i = SlotFor(n)
                    THEN [owner |-> current.owner, sequence |-> current.sequence,
                          body |-> current.body, outcome |-> outcome, bytes |-> size]
                    ELSE IF i \in Oldest(n) THEN NoRecord ELSE records[i]]
    /\ next' = (next + n) % History
    /\ bytes' = BytesAfter(n, size)
    /\ stored' = Append(stored, [key |-> Key(current), bytes |-> size])

\* A receipt too large for the whole ledger is not kept at all.
Finish(size) ==
    /\ ~Idle
    /\ outcome # NoOutcome
    /\ IF size > ByteLimit THEN UNCHANGED <<records, next, bytes, stored>> ELSE Store(size)
    /\ answered' = answered \cup
        {[key |-> Key(current), body |-> current.body, outcome |-> outcome]}
    /\ current' = NoRequest
    /\ outcome' = NoOutcome
    /\ UNCHANGED <<session, highest, executions>>

\* request.get: a read, and not asked for the session.
RequestGet(owner, sequence) ==
    /\ Idle
    /\ \E i \in Found(owner, sequence) : answered' = answered \cup {AnswerOf(records[i])}
    /\ UNCHANGED <<session, ledgerVars, current, outcome, executions, stored>>

\* Mistake: a restarted daemon keeps the name of its session.
RestartInPlace ==
    /\ session < MaxSessions
    /\ highest' = [c \in {} |-> 0]
    /\ records' = [i \in Slots |-> NoRecord]
    /\ next' = 0
    /\ bytes' = 0
    /\ current' = NoRequest
    /\ outcome' = NoOutcome
    /\ stored' = <<>>
    /\ UNCHANGED <<session, executions, answered>>

\* The daemon ends, at any point, and another begins under a new session_id.
Restart ==
    /\ session < MaxSessions
    /\ session' = session + 1
    /\ highest' = [c \in {} |-> 0]
    /\ records' = [i \in Slots |-> NoRecord]
    /\ next' = 0
    /\ bytes' = 0
    /\ current' = NoRequest
    /\ outcome' = NoOutcome
    /\ stored' = <<>>
    /\ UNCHANGED <<executions, answered>>

Init ==
    /\ session = 1
    /\ highest = [c \in {} |-> 0]
    /\ records = [i \in Slots |-> NoRecord]
    /\ next = 0
    /\ bytes = 0
    /\ current = NoRequest
    /\ outcome = NoOutcome
    /\ executions = [k \in Keys |-> 0]
    /\ answered = {}
    /\ stored = <<>>

Receive(r) ==
    \/ RefuseSession(r)
    \/ RefuseController(r)
    \/ RefuseConflict(r)
    \/ RefuseExpired(r)
    \/ Replay(r)
    \/ Admit(r)

Next ==
    \/ \E r \in Requests : Receive(r)
    \/ Dispatch
    \/ \E size \in Sizes : Finish(size)
    \/ \E c \in Controllers, n \in 1..MaxSequence : RequestGet(c, n)
    \/ Restart

Spec == Init /\ [][Next]_vars

----------------------------------------------------------------------------
(* What the ledger promises.                                               *)

RequestTypes ==
    /\ session \in Nat \ {0}
    /\ DOMAIN highest \subseteq Controllers
    /\ highest \in [DOMAIN highest -> 1..MaxSequence]
    /\ records \in [Slots -> Receipts \cup {NoRecord}]
    /\ current \in Requests \cup {NoRequest}
    /\ outcome \in Outcomes \cup {NoOutcome}
    /\ executions \in [Keys -> Nat]
    /\ answered \subseteq Answers

TypeOK ==
    /\ RequestTypes
    /\ next \in Slots
    /\ bytes \in Nat

\* The books are right: the bytes counted are those of the receipts kept, and
\* they never exceed the limit, so that the eviction loop always ends.
BooksBalance ==
    /\ TypeOK
    /\ bytes = MapThenSumSet(Size, Slots)
    /\ bytes <= ByteLimit

\* The i-th receipt stored in this session is still in the ring.
Retained(i) ==
    \E slot \in Kept :
        /\ records[slot].owner = stored[i].key.owner
        /\ records[slot].sequence = stored[i].key.sequence

StoredBytes(i) == stored[i].bytes

\* No History receipts in a row ever exceeded the limit in bytes.
EverRoom ==
    \A i \in DOMAIN stored :
        MapThenSumSet(StoredBytes, {j \in DOMAIN stored : j >= i /\ j < i + History}) <= ByteLimit

\* Eviction takes the oldest and no more than it must: a receipt younger than
\* one still kept is kept, the last one always is, and where the limit in
\* bytes plays no part the last History ones are.  A client whose answer was
\* lost can count on that much when it repeats its request.
RetryWindow ==
    /\ \A i, j \in DOMAIN stored : Retained(i) /\ i < j => Retained(j)
    /\ stored # <<>> => Retained(Len(stored))
    /\ EverRoom => \A i \in DOMAIN stored : i > Len(stored) - History => Retained(i)

\* Requests are carried out at most once, in order, and answered once: the
\* whole ledger is invisible to its clients, restarts and evictions included.
Promise == INSTANCE OnceOnly WITH Sequences <- 1..MaxSequence
OnceOnlySpec == Promise!Spec

\* No request reaches dispatch twice, in spite of evicted receipts, receipts
\* too large to keep, and restarts.
AtMostOnce == Promise!AtMostOnce

\* All answers to a request agree, whether first-hand, replayed or fetched.
OneAnswer == Promise!OneAnswer

=============================================================================
