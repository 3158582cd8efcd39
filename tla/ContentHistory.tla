--------------------------- MODULE ContentHistory ---------------------------
(***************************************************************************)
(* What the daemon remembers of content changes: the micro-host counts the *)
(* output commits that carried damage (vendor/cage/output.c, seat.c) in a  *)
(* serial of 32 bits and reports each one; the daemon                      *)
(* (native/agentseat-input.c) keeps the last of them in a ring indexed by  *)
(* the serial and answers content.changes from it.  A client of            *)
(* wait-change (lib/agentseat_cli/observe.py) asks repeatedly, each time   *)
(* for what came after the serial of the previous answer.                  *)
(*                                                                         *)
(* A change is represented by the number of its commit, which does not     *)
(* wrap and which the code never sees.  How the reports travel is left to  *)
(* the module that uses this one.                                          *)
(*                                                                         *)
(* Definitions headed "Mistake" are not part of the specification: each is *)
(* the definition that follows it as a plausible slip would leave it.      *)
(***************************************************************************)
EXTENDS Integers, FiniteSets

CONSTANTS
    Span,       \* number of serials: 2^32
    History,    \* AGENTSEAT_CONTENT_HISTORY
    Births,     \* commits made before the daemon connected
    MaxCommits  \* bound: commits made since

ASSUME HistoryAssumption ==
    /\ Span \in Nat \ {0}
    /\ History \in Nat \ {0}
    /\ Span % (2 * History) = 0   \* a serial keeps its slot when it wraps
    /\ Births \subseteq Nat
    /\ MaxCommits \in 0..(Span \div 2 - 1)  \* no client is half of the serials behind

VARIABLES
    born,     \* commits made before the daemon connected
    commits,  \* the micro-host's content_serial, before it wraps
    dirty,    \* the scene has damage that no commit has carried yet
    latest,   \* the daemon's content_serial
    ring,     \* content_history: what each slot holds
    reported, \* ghost: the commit that latest stands for
    waiter    \* the client of wait-change

contentVars == <<born, commits, dirty, latest, ring, reported, waiter>>

Serials == 0..(Span - 1)
Slots == 0..(History - 1)
Serial(commit) == commit % Span

\* A slot that was never written is all zeros, and reads as serial 0.
NoCommit == -1
BlankSlot == [serial |-> 0, commit |-> NoCommit]

NoWaiter == [cursor |-> 0, from |-> NoCommit, upTo |-> NoCommit, heard |-> {}, gap |-> FALSE]

InitContent ==
    /\ born \in Births
    /\ commits = born
    /\ dirty = FALSE
    /\ latest = Serial(born)    \* announced when the daemon binds the gate
    /\ ring = [s \in Slots |-> BlankSlot]
    /\ reported = born
    /\ waiter = NoWaiter

----------------------------------------------------------------------------
(* The micro-host.                                                         *)

\* The application draws.
Draw ==
    /\ ~dirty
    /\ commits < born + MaxCommits
    /\ dirty' = TRUE
    /\ UNCHANGED <<born, commits, latest, ring, reported, waiter>>

\* output_render: only a commit that carries damage advances the serial.
Rendered ==
    /\ commits' = IF dirty THEN commits + 1 ELSE commits
    /\ dirty' = FALSE

----------------------------------------------------------------------------
(* The daemon.                                                             *)

\* content: a report of a damaged commit.
Content(commit) ==
    /\ latest' = Serial(commit)
    /\ reported' = commit
    /\ ring' = [ring EXCEPT ![Serial(commit) % History] =
                    [serial |-> Serial(commit), commit |-> commit]]

Difference(a, b) == (a - b) % Span

\* Mistake: the comparison of serials that do not wrap.
IsAheadPlain(after) == latest > after

\* (int32_t)(latest - after) > 0
IsAhead(after) == Difference(latest, after) \in 1..(Span \div 2 - 1)

\* The serial that agentseat_input_content_changes begins with.
OldestAsked(after) ==
    IF Difference(latest, after) > History
    THEN (latest - History + 1) % Span
    ELSE (after + 1) % Span

\* The serials it looks up.
Asked(after) ==
    IF IsAhead(after)
    THEN {(OldestAsked(after) + k) % Span : k \in 0..Difference(latest, OldestAsked(after))}
    ELSE {}

Holds(serial) == ring[serial % History].serial = serial

Listed(after) == {ring[s % History].commit : s \in {t \in Asked(after) : Holds(t)}}

Gap(after) ==
    /\ IsAhead(after)
    /\ \/ Difference(latest, after) > History
       \/ \E s \in Asked(after) : ~Holds(s)

----------------------------------------------------------------------------
(* The client.                                                             *)

\* wait-change --since, with the serial of a frame that shows commit shown.
BeginWait(serial, shown) ==
    /\ waiter = NoWaiter
    /\ waiter' = [cursor |-> serial, from |-> shown, upTo |-> shown, heard |-> {}, gap |-> FALSE]
    /\ UNCHANGED <<born, commits, dirty, latest, ring, reported>>

\* content.changes: the reply is added to what was heard before.
Changes ==
    /\ waiter # NoWaiter
    /\ waiter' = [waiter EXCEPT !.cursor = latest,
                                !.upTo = IF reported > @ THEN reported ELSE @,
                                !.heard = @ \cup Listed(waiter.cursor),
                                !.gap = @ \/ Gap(waiter.cursor)]
    /\ UNCHANGED <<born, commits, dirty, latest, ring, reported>>

----------------------------------------------------------------------------

ContentTypeOK ==
    /\ born \in Births
    /\ commits \in born..(born + MaxCommits)
    /\ dirty \in BOOLEAN
    /\ latest \in Serials
    /\ ring \in [Slots -> [serial : Serials, commit : (born + 1)..commits \cup {NoCommit}]]
    /\ reported \in born..commits
    /\ waiter \in [cursor : Serials, from : (born..(commits + 1)) \cup {NoCommit},
                   upTo : (born..(commits + 1)) \cup {NoCommit},
                   heard : SUBSET ((born + 1)..commits \cup {NoCommit}), gap : BOOLEAN]

\* A client that waits from the serial of a frame misses no change made since
\* that frame: whatever was committed after the picture and reported to the
\* daemon was listed to it, or a gap was flagged, across the wrap of the serial
\* and the end of the ring (docs/PROTOCOL.md: "a change between that frame and
\* the wait is never missed").
NothingMissed ==
    waiter # NoWaiter =>
        waiter.gap \/ (waiter.from + 1)..waiter.upTo \subseteq waiter.heard
============================================================================
