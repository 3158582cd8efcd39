--------------------------- MODULE Capture_proofs ---------------------------
(***************************************************************************)
(* Theorems about Capture and the ContentHistory it extends, for every     *)
(* number of receipts kept, every number of captures and of commits, and   *)
(* every width of the serial that keeps a slot when it wraps.              *)
(***************************************************************************)
EXTENDS Capture, TLAPS

Slot == 0..(Retained - 1)
WorkerSteps == {"none", "open", "write", "report", "tell", "signal", "ended"}

\* What a receipt, a request and an event can be when the daemon connected at
\* commit b, commit c was the last one, and n captures were submitted.
Pictures(b, c) == b..c \cup {NoCommit}

ReceiptsOf(b, c, n) ==
    [number : 0..n, status : {"none", "pending", "finished", "failed"},
     serial : Serials, picture : Pictures(b, c)]

RequestsOf(n) == [kind : {"capture", "copy", "render_once", "destroy"}, number : 1..n]

EventsOf(b, c, n) ==
    [kind : {"buffer", "failed"}, number : 1..n]
    \cup [kind : {"ready"}, number : 1..n, commit : b..c]
    \cup [kind : {"content"}, number : {0}, commit : (b + 1)..c]

ContentInv ==
    /\ ContentTypeOK
    /\ dirty => commits < born + MaxCommits

LoopTyped ==
    /\ place \in {"top", "dispatch", "mid", "submit", "get", "gone"}
    /\ step \in {"drain", "check", "go"}
    /\ sequence \in 0..MaxCaptures
    /\ place = "submit" => sequence < MaxCaptures
    /\ active \in 0..sequence /\ frame \in {0, active} /\ copying \in 0..sequence
    /\ deadline \in {"off", "armed", "late"}
    /\ pixels \in BOOLEAN /\ workerRunning \in BOOLEAN /\ workerDone \in BOOLEAN
    /\ wake \in BOOLEAN /\ success \in BOOLEAN
    /\ worker \in WorkerSteps
    /\ files \in [Numbers -> {"absent", "partial", "whole"}]

LinkTyped ==
    /\ receipts \in [Slot -> ReceiptsOf(born, commits, sequence)]
    /\ requests \in Seq(RequestsOf(sequence))
    /\ events \in Seq(EventsOf(born, commits, sequence))

TypeInv == ContentInv /\ LoopTyped /\ LinkTyped

\* No message of the kind for frame n is under way in q.
Mute(q, kind, n) == \A i \in 1..Len(q) : ~(q[i].kind = kind /\ q[i].number = n)

\* Until the daemon has mapped the pixels of its frame, nobody was asked to
\* copy that frame, so no event can say that it is ready.
InFlight ==
    frame # 0 /\ ~pixels =>
        Mute(requests, "copy", frame) /\ Mute(events, "ready", frame) /\ copying # frame

\* The active capture keeps its receipt; it has either a frame or a thread.
OwnInv ==
    /\ workerRunning <=> worker # "none"
    /\ active # 0 => receipts[ActiveSlot].number = active
    /\ active # 0 /\ worker = "none" => receipts[ActiveSlot].status = "pending" /\ frame = active
    /\ active = 0 => deadline = "off" /\ ~pixels /\ worker = "none"
    /\ worker # "none" => pixels /\ frame = 0 /\ deadline = "off"
    /\ worker \in {"open", "write", "report", "tell"} => ~workerDone
    /\ worker \in {"open", "write", "report"} => receipts[ActiveSlot].status = "pending"
    /\ place = "gone" => active = 0 /\ step = "go"

\* A receipt lies in the slot of its number.
Kept == \A s \in Slot : receipts[s].number # 0 => SlotOf(receipts[s].number) = s

\* A file is there only for a receipt that is kept.
FilesKept ==
    \A n \in Numbers : files[n] # "absent" => place # "gone" /\ receipts[SlotOf(n)].number = n

\* What the thread has made of the file so far.
Written ==
    /\ active # 0 /\ worker \in {"none", "open"} => files[active] = "absent"
    /\ worker = "write" => files[active] # "whole"
    /\ worker = "report" => files[active] = IF success THEN "whole" ELSE "absent"
    /\ worker \in {"tell", "signal", "ended"} => receipts[ActiveSlot].status # "pending"
    /\ \A n \in Numbers : files[n] = "partial" => worker = "write" /\ active = n

\* What the status of a receipt says, of the receipt and of its file.
Tells(r) ==
    /\ r.status = "none" <=> r.number = 0
    /\ r.status = "pending" => r.number = active
    /\ r.status = "finished" => files[r.number] = "whole"
    /\ r.status = "failed" => files[r.number] = "absent"

FileInv ==
    /\ Kept
    /\ FilesKept
    /\ Written
    /\ place # "gone" => \A s \in Slot : Tells(receipts[s])

----------------------------------------------------------------------------
(* Numbers and serials.                                                    *)

\* The reports of changes in q are those of the commits after lo, up to hi, in order.
Reports(q, lo, hi) ==
    /\ \A i \in 1..Len(q) : q[i].kind = "content" => q[i].commit \in (lo + 1)..hi
    /\ \A c \in (lo + 1)..hi : \E i \in 1..Len(q) : q[i].kind = "content" /\ q[i].commit = c
    /\ \A i, j \in 1..Len(q) :
            i < j /\ q[i].kind = "content" /\ q[j].kind = "content" => q[i].commit < q[j].commit

\* The ring holds the last commits that were reported.
RingInv ==
    /\ latest = Serial(reported)
    /\ Reports(events, reported, commits)
    /\ \A c \in (born + 1)..reported : reported - c < History =>
            ring[c % History] = [serial |-> Serial(c), commit |-> c]

\* The receipt r names commit k, which came no later than its picture.
Since(r, k) ==
    /\ k \in born..reported /\ r.serial = Serial(k)
    /\ r.picture # NoCommit => k <= r.picture
    /\ \A i \in 1..Len(events) :
            events[i].kind = "ready" /\ events[i].number = r.number => k <= events[i].commit

SinceInv ==
    /\ \A s \in Slot : receipts[s].number # 0 => \E k \in born..reported : Since(receipts[s], k)
    /\ \A s \in Slot : receipts[s].status = "finished" => receipts[s].picture # NoCommit
    /\ worker # "none" => receipts[ActiveSlot].picture # NoCommit

\* The client has asked for all that came before the serial it asks with next.
WaiterInv ==
    waiter # NoWaiter => \E k \in born..reported : waiter.cursor = Serial(k) /\ k <= waiter.upTo

LEMMA Widths ==
    /\ Span \in Nat \ {0} /\ History \in Nat \ {0} /\ Retained \in Nat \ {0}
    /\ MaxCommits \in Nat /\ MaxCaptures \in Nat
    /\ \A b \in Births : b \in Nat
  <1>1. Span \div 2 - 1 \in Int
    BY HistoryAssumption
  <1> QED BY <1>1, HistoryAssumption, CaptureAssumption

(* Division and remainders. *)

LEMMA Division ==
    ASSUME NEW n \in Nat \ {0}, NEW x \in Int
    PROVE  x \div n \in Int /\ x % n \in 0..(n - 1) /\ x = n * (x \div n) + (x % n)
  OBVIOUS

LEMMA TimesAtLeast ==
    ASSUME NEW n \in Nat \ {0}, NEW d \in Nat \ {0}
    PROVE  n * d >= n /\ n * d \in Nat
  OBVIOUS

LEMMA TimesMinus ==
    ASSUME NEW n \in Nat \ {0}, NEW p \in Int, NEW q \in Int
    PROVE  n * (p - q) = n * p - n * q /\ n * (p + q) = n * p + n * q
  OBVIOUS

\* Multiples of n that differ do so by n at least.
LEMMA Multiples ==
    ASSUME NEW n \in Nat \ {0}, NEW p \in Int, NEW q \in Int, p < q
    PROVE  n * p + n <= n * q
  <1>1. q - p \in Nat \ {0}
    OBVIOUS
  <1>2. n * (q - p) >= n /\ n * (q - p) = n * q - n * p
    BY <1>1, TimesAtLeast, TimesMinus
  <1>3. n * q \in Int /\ n * p \in Int
    OBVIOUS
  <1> QED BY <1>2, <1>3

LEMMA SameRemainder ==
    ASSUME NEW n \in Nat \ {0}, NEW a \in Int, NEW b \in Int, NEW k \in Int, a = b + n * k
    PROVE  a % n = b % n
  <1> DEFINE p == a \div n
             q == (b \div n) + k
  <1>1. p \in Int /\ q \in Int /\ a % n \in 0..(n - 1) /\ b % n \in 0..(n - 1)
    BY Division
  <1>2. a = n * p + (a % n) /\ b = n * (b \div n) + (b % n)
    BY Division
  <1>3. n * q = n * (b \div n) + n * k
    BY Division, TimesMinus
  <1>4. n * p + (a % n) = n * q + (b % n)
    <2>1. n * p \in Int /\ n * q \in Int /\ n * k \in Int /\ n * (b \div n) \in Int
      BY <1>1, Division
    <2> QED BY <1>1, <1>2, <1>3, <2>1
  <1> HIDE DEF p, q
  <1>5. p = q
    <2>1. n * p \in Int /\ n * q \in Int
      BY <1>1
    <2>2. ~(p < q)
      BY <1>1, <1>4, <2>1, Multiples
    <2>3. ~(q < p)
      BY <1>1, <1>4, <2>1, Multiples
    <2> QED BY <1>1, <2>2, <2>3
  <1> QED BY <1>1, <1>4, <1>5

LEMMA SmallRemainder ==
    ASSUME NEW n \in Nat \ {0}, NEW x \in 0..(n - 1)
    PROVE  x % n = x
  OBVIOUS

\* Numbers closer than n with the same remainder are equal.
LEMMA NearRemainder ==
    ASSUME NEW n \in Nat \ {0}, NEW a \in Int, NEW b \in Int, a % n = b % n, b < a
    PROVE  b + n <= a
  <1>1. /\ a \div n \in Int /\ b \div n \in Int /\ n * (a \div n) \in Int /\ n * (b \div n) \in Int
        /\ a % n \in Int
    BY Division
  <1>2. a = n * (a \div n) + (a % n) /\ b = n * (b \div n) + (a % n)
    BY Division
  <1>3. n * (b \div n) < n * (a \div n)
    BY <1>1, <1>2
  <1>4. ~(a \div n < b \div n) /\ a \div n # b \div n
    BY <1>1, <1>3, Multiples
  <1>5. n * (b \div n) + n <= n * (a \div n)
    BY <1>1, <1>4, Multiples
  <1> QED BY <1>1, <1>2, <1>5

\* A remainder lies below what one divides by.
LEMMA Remainder ==
    ASSUME NEW n \in Nat \ {0}, NEW x \in Int
    PROVE  x % n \in 0..(n - 1)
  OBVIOUS

LEMMA ModSpan == \A x \in Int : x % Span \in Serials
  BY Widths, Remainder DEF Serials

LEMMA ModHistory == \A x \in Int : x % History \in Slots
  BY Widths, Remainder DEF Slots

LEMMA SerialsAreInts == \A s \in Serials : s \in Int
  BY Widths DEF Serials

LEMMA SlotOfIsSlot == \A n \in Int : SlotOf(n) \in Slot
  BY Widths, Remainder DEF SlotOf, Slot

LEMMA SerialIsSerial == \A c \in Int : Serial(c) \in Serials /\ Serial(c) % History \in Slots
  BY ModSpan, ModHistory, SerialsAreInts DEF Serial

LEMMA RangeGrows == \A a, b, c \in Int : b <= c => a..b \subseteq a..c
  OBVIOUS

LEMMA NextGrows ==
    \A a, b, c \in Int : b <= c => a..(b + 1) \subseteq a..(c + 1) /\ (a + 1)..b \subseteq (a + 1)..c
  OBVIOUS

\* What was possible stays possible as commits are made and captures submitted.
LEMMA Wider ==
    ASSUME NEW b \in Nat, NEW c \in Nat, NEW d \in Nat, NEW n \in Nat, NEW m \in Nat,
           c <= d, n <= m
    PROVE  /\ ReceiptsOf(b, c, n) \subseteq ReceiptsOf(b, d, m)
           /\ RequestsOf(n) \subseteq RequestsOf(m)
           /\ EventsOf(b, c, n) \subseteq EventsOf(b, d, m)
  <1>1. b..c \subseteq b..d /\ (b + 1)..c \subseteq (b + 1)..d /\ 1..n \subseteq 1..m /\ 0..n \subseteq 0..m
    OBVIOUS
  <1>2. ReceiptsOf(b, c, n) \subseteq ReceiptsOf(b, d, m)
    BY <1>1 DEF ReceiptsOf, Pictures
  <1>3. RequestsOf(n) \subseteq RequestsOf(m)
    BY <1>1 DEF RequestsOf
  <1>4. EventsOf(b, c, n) \subseteq EventsOf(b, d, m)
    BY <1>1 DEF EventsOf
  <1> QED BY <1>2, <1>3, <1>4

LEMMA WiderSeq ==
    ASSUME NEW S, NEW T, S \subseteq T
    PROVE  Seq(S) \subseteq Seq(T)
  OBVIOUS

----------------------------------------------------------------------------
(* Type correctness of ContentHistory's operations.                        *)

LEMMA ContentKept ==
    ASSUME ContentInv, UNCHANGED contentVars
    PROVE  ContentInv'
  BY DEF ContentInv, ContentTypeOK, contentVars

LEMMA DrawTyped ==
    ASSUME ContentInv, Draw
    PROVE  ContentInv'
  BY DEF ContentInv, ContentTypeOK, Draw

LEMMA RenderedTyped ==
    ASSUME ContentInv, Rendered, UNCHANGED <<born, latest, ring, reported, waiter>>
    PROVE  /\ ContentInv'
           /\ commits' \in Nat /\ commits <= commits'
           /\ dirty => commits' \in (born + 1)..commits'
  <1>1. born \in Nat /\ commits \in born..(born + MaxCommits) /\ dirty \in BOOLEAN
        /\ (dirty => commits < born + MaxCommits) /\ reported \in born..commits
    BY Widths DEF ContentInv, ContentTypeOK
  <1>a. commits' \in commits..(born + MaxCommits) /\ commits' \in Nat
    BY <1>1, Widths DEF Rendered
  <1>2. dirty => commits' \in (born + 1)..commits'
    BY <1>1, Widths DEF Rendered
  <1>3. /\ (born + 1)..commits \subseteq (born + 1)..commits'
        /\ born..commits \subseteq born..commits'
        /\ born..(commits + 1) \subseteq born..(commits' + 1)
    <2>1. born \in Int /\ commits \in Int /\ commits' \in Int /\ commits <= commits'
      BY <1>1, <1>a, Widths
    <2>2. (born + 1)..commits \subseteq (born + 1)..commits'
      BY <2>1
    <2>3. born..commits \subseteq born..commits'
      BY <2>1
    <2>4. born..(commits + 1) \subseteq born..(commits' + 1)
      BY <2>1, NextGrows
    <2> QED BY <2>2, <2>3, <2>4
  <1>4. (ring \in [Slots -> [serial : Serials, commit : (born + 1)..commits \cup {NoCommit}]])'
    BY <1>3 DEF ContentInv, ContentTypeOK
  <1>5. (waiter \in [cursor : Serials, from : (born..(commits + 1)) \cup {NoCommit},
                     upTo : (born..(commits + 1)) \cup {NoCommit},
                     heard : SUBSET ((born + 1)..commits \cup {NoCommit}), gap : BOOLEAN])'
    BY <1>3 DEF ContentInv, ContentTypeOK
  <1>6. commits' \in born..(born + MaxCommits) /\ reported \in born..commits'
    BY <1>1, <1>a, Widths
  <1>7. dirty' = FALSE
    BY DEF Rendered
  <1>8. born \in Births /\ latest \in Serials
    BY DEF ContentInv, ContentTypeOK
  <1>9. ContentInv'
    BY <1>4, <1>5, <1>6, <1>7, <1>8 DEF ContentInv, ContentTypeOK
  <1>b. commits <= commits' /\ commits' \in Nat
    BY <1>1, <1>a, Widths
  <1> QED BY <1>2, <1>9, <1>b

LEMMA ContentEventTyped ==
    ASSUME ContentInv, NEW c \in (born + 1)..commits, Content(c),
           UNCHANGED <<born, commits, dirty, waiter>>
    PROVE  ContentInv'
  <1> USE DEF ContentInv, ContentTypeOK
  <1>1. born \in Nat /\ c \in Nat
    BY Widths
  <1>2. Serial(c) \in Serials /\ Serial(c) % History \in Slots
    BY Widths, <1>1, SerialIsSerial
  <1>3. ring' \in [Slots -> [serial : Serials, commit : (born + 1)..commits \cup {NoCommit}]]
    BY <1>2 DEF Content
  <1>4. latest' \in Serials /\ reported' \in born..commits
    BY <1>1, <1>2 DEF Content
  <1> QED BY <1>3, <1>4

LEMMA BeginWaitTyped ==
    ASSUME ContentInv, NEW serial \in Serials, NEW shown \in Pictures(born, commits),
           BeginWait(serial, shown)
    PROVE  ContentInv'
  <1> USE DEF ContentInv, ContentTypeOK
  <1>1. shown \in (born..(commits + 1)) \cup {NoCommit}
    BY DEF Pictures
  <1>2. waiter' \in [cursor : Serials, from : (born..(commits + 1)) \cup {NoCommit},
                     upTo : (born..(commits + 1)) \cup {NoCommit},
                     heard : SUBSET ((born + 1)..commits \cup {NoCommit}), gap : BOOLEAN]
    BY <1>1 DEF BeginWait
  <1> QED BY <1>2 DEF BeginWait

LEMMA DifferenceIsSerial == \A a, b \in Int : Difference(a, b) \in Serials
  BY ModSpan DEF Difference

LEMMA AskedSerials ==
    ASSUME latest \in Serials, NEW after \in Serials
    PROVE  OldestAsked(after) \in Serials /\ Asked(after) \subseteq Serials
  <1>1. latest \in Int /\ after \in Int /\ History \in Int
    BY SerialsAreInts, Widths
  <1>2. OldestAsked(after) \in Serials
    BY <1>1, ModSpan DEF OldestAsked
  <1>3. OldestAsked(after) \in Int
    BY <1>2, SerialsAreInts
  <1>4. \A k \in Int : (OldestAsked(after) + k) % Span \in Serials
    BY <1>3, ModSpan
  <1>5. \A k \in 0..Difference(latest, OldestAsked(after)) : k \in Int
    OBVIOUS
  <1> QED BY <1>2, <1>4, <1>5 DEF Asked

LEMMA ListedTyped ==
    ASSUME ContentInv, NEW after \in Serials
    PROVE  Listed(after) \subseteq (born + 1)..commits \cup {NoCommit}
  <1>1. latest \in Serials
    BY DEF ContentInv, ContentTypeOK
  <1>2. \A s \in Asked(after) : s % History \in Slots
    <2>1. \A s \in Asked(after) : s \in Serials
      BY <1>1, AskedSerials
    <2> QED BY <2>1, SerialsAreInts, ModHistory
  <1> QED BY <1>2 DEF Listed, ContentInv, ContentTypeOK

LEMMA ChangesTyped ==
    ASSUME ContentInv, Changes
    PROVE  ContentInv'
  <1> USE DEF ContentInv, ContentTypeOK
  <1>1. Listed(waiter.cursor) \subseteq (born + 1)..commits \cup {NoCommit}
    BY ListedTyped
  <1>2. reported \in (born..(commits + 1)) \cup {NoCommit}
    OBVIOUS
  <1>3. Gap(waiter.cursor) \in BOOLEAN
    BY DEF Gap
  <1>4. waiter' \in [cursor : Serials, from : (born..(commits + 1)) \cup {NoCommit},
                     upTo : (born..(commits + 1)) \cup {NoCommit},
                     heard : SUBSET ((born + 1)..commits \cup {NoCommit}), gap : BOOLEAN]
    BY <1>1, <1>2, <1>3 DEF Changes
  <1> QED BY <1>4 DEF Changes

----------------------------------------------------------------------------
(* Type correctness.                                                       *)

LEMMA TypeInit == Init => TypeInv
  <1> SUFFICES ASSUME Init PROVE TypeInv
    OBVIOUS
  <1>1. ContentInv
    <2>1. born \in Nat /\ born \in Births /\ commits = born /\ reported = born
      BY Widths DEF Init, InitContent
    <2>2. Serial(born) \in Serials /\ 0 \in Serials
      BY <2>1, SerialIsSerial, Widths DEF Serials
    <2>3. ring \in [Slots -> [serial : Serials, commit : (born + 1)..commits \cup {NoCommit}]]
      BY <2>2 DEF Init, InitContent, BlankSlot
    <2>4. waiter \in [cursor : Serials, from : (born..(commits + 1)) \cup {NoCommit},
                      upTo : (born..(commits + 1)) \cup {NoCommit},
                      heard : SUBSET ((born + 1)..commits \cup {NoCommit}), gap : BOOLEAN]
      BY <2>2 DEF Init, InitContent, NoWaiter
    <2>5. commits \in born..(born + MaxCommits) /\ reported \in born..commits
      BY <2>1, Widths
    <2>6. latest \in Serials /\ dirty = FALSE
      BY <2>2 DEF Init, InitContent
    <2> QED BY <2>1, <2>3, <2>4, <2>5, <2>6 DEF ContentInv, ContentTypeOK
  <1>2. LoopTyped
    <2>1. sequence = 0 /\ active = 0 /\ frame = 0 /\ copying = 0 /\ 0 \in 0..MaxCaptures
      BY Widths DEF Init
    <2>2. files \in [Numbers -> {"absent", "partial", "whole"}]
      BY DEF Init
    <2>3. /\ pixels = FALSE /\ workerRunning = FALSE /\ workerDone = FALSE /\ wake = FALSE
          /\ success = FALSE
      BY DEF Init
    <2>4. place = "top" /\ step = "drain" /\ deadline = "off" /\ worker = "none"
      BY DEF Init
    <2>5. active \in 0..sequence /\ frame \in {0, active} /\ copying \in 0..sequence
      BY <2>1
    <2> QED BY <2>1, <2>2, <2>3, <2>4, <2>5 DEF LoopTyped, WorkerSteps
  <1>3. LinkTyped
    <2>1. NoReceipt \in ReceiptsOf(born, commits, sequence)
      BY Widths DEF Init, NoReceipt, ReceiptsOf, Pictures, Serials
    <2> QED BY <2>1 DEF Init, LinkTyped, Slot
  <1> QED BY <1>1, <1>2, <1>3 DEF TypeInv

\* The numbers that are known to the daemon.
LEMMA Known ==
    ASSUME TypeInv
    PROVE  /\ sequence \in Nat /\ active \in Nat /\ 0..sequence \subseteq Nat
           /\ ActiveSlot \in Slot
           /\ frame # 0 => frame = active /\ frame \in 1..sequence
           /\ active # 0 => active \in Numbers
           /\ born \in Nat /\ commits \in Nat /\ born <= commits
  <1>1. sequence \in Nat /\ active \in Nat /\ active \in 0..sequence /\ frame \in {0, active}
        /\ sequence \in 0..MaxCaptures
    BY Widths DEF TypeInv, LoopTyped
  <1>2. ActiveSlot \in Slot
    BY <1>1, SlotOfIsSlot DEF ActiveSlot
  <1>3. born \in Nat /\ commits \in born..(born + MaxCommits)
    BY Widths DEF TypeInv, ContentInv, ContentTypeOK
  <1>4. frame # 0 => frame = active /\ frame \in 1..sequence
    BY <1>1
  <1>5. active # 0 => active \in Numbers
    BY <1>1, Widths DEF Numbers
  <1>6. commits \in Nat /\ born <= commits
    BY <1>3, Widths
  <1> QED BY <1>1, <1>2, <1>3, <1>4, <1>5, <1>6

LEMMA CleanupTyped ==
    ASSUME TypeInv, NEW sent \in Seq(RequestsOf(sequence)), Cleanup(sent)
    PROVE  /\ requests' \in Seq(RequestsOf(sequence))
           /\ frame' = 0 /\ pixels' = FALSE /\ active' = 0 /\ deadline' = "off"
  <1>1. frame # 0 => Message("destroy", frame) \in RequestsOf(sequence)
    BY Known DEF Message, RequestsOf
  <1> QED BY <1>1 DEF Cleanup

LEMMA FailTyped ==
    ASSUME TypeInv, Fail
    PROVE  /\ receipts' \in [Slot -> ReceiptsOf(born, commits, sequence)]
           /\ requests' \in Seq(RequestsOf(sequence))
           /\ frame' = 0 /\ pixels' = FALSE /\ active' = 0 /\ deadline' = "off"
  <1>1. receipts' = [receipts EXCEPT ![ActiveSlot].status = "failed"] /\ Cleanup(requests)
    BY DEF Fail
  <1>2. requests \in Seq(RequestsOf(sequence))
    BY DEF TypeInv, LinkTyped
  <1>3. receipts' \in [Slot -> ReceiptsOf(born, commits, sequence)]
    BY <1>1 DEF TypeInv, LinkTyped, ReceiptsOf
  <1> QED BY <1>1, <1>2, <1>3, CleanupTyped

LEMMA TypeLoop ==
    ASSUME TypeInv, Drain \/ Check \/ Poll \/ PollClient \/ DispatchDone \/ EndTurn \/ Close
    PROVE  TypeInv'
  <1>0. /\ requests \in Seq(RequestsOf(sequence)) /\ sequence \in Nat /\ 0 \in 0..sequence
    BY Known DEF TypeInv, LinkTyped
  <1>1. ASSUME UNCHANGED <<receipts, sequence, requests, events, born, commits>> PROVE LinkTyped'
    BY <1>1 DEF TypeInv, LinkTyped
  <1>2. CASE Drain
    <2>1. ContentInv' /\ LinkTyped'
      BY <1>2, <1>1, ContentKept DEF Drain, TypeInv, captureVars, linkVars, contentVars
    <2>2. LoopTyped'
      BY <1>2 DEF Drain, TypeInv, LoopTyped, captureVars, linkVars
    <2> QED BY <2>1, <2>2 DEF TypeInv
  <1>3. CASE Check
    <2>1. ContentInv'
      BY <1>3, ContentKept DEF Check, TypeInv
    <2>2. UNCHANGED <<born, commits, sequence, events>>
      BY <1>3 DEF Check, contentVars
    <2>3. receipts' \in [Slot -> ReceiptsOf(born, commits, sequence)]
      BY <1>3, FailTyped DEF Check, Join, TypeInv, LinkTyped
    <2>4. requests' \in Seq(RequestsOf(sequence))
      BY <1>3, <1>0, FailTyped, CleanupTyped DEF Check, Join
    <2>5. LinkTyped'
      BY <2>2, <2>3, <2>4 DEF TypeInv, LinkTyped
    <2>6. /\ active' \in 0..sequence /\ frame' \in {0, active'} /\ deadline' \in {"off", "armed", "late"}
          /\ pixels' \in BOOLEAN
      BY <1>3, <1>0, FailTyped, CleanupTyped DEF Check, Join, TypeInv, LoopTyped
    <2>7. workerRunning' \in BOOLEAN /\ worker' \in WorkerSteps
      BY <1>3 DEF Check, Join, TypeInv, LoopTyped, WorkerSteps
    <2>8. LoopTyped'
      BY <1>3, <2>6, <2>7 DEF Check, TypeInv, LoopTyped
    <2> QED BY <2>1, <2>5, <2>8 DEF TypeInv
  <1>4. CASE Poll \/ PollClient \/ DispatchDone \/ EndTurn
    <2>1. UNCHANGED <<contentVars, captureVars, sharedVars, linkVars>>
      BY <1>4 DEF Poll, PollClient, DispatchDone, EndTurn
    <2>2. ContentInv' /\ LinkTyped'
      BY <2>1, <1>1, ContentKept DEF TypeInv, captureVars, linkVars, contentVars
    <2>3. /\ place' \in {"top", "dispatch", "mid"}
          /\ step' \in {"drain", "check", "go"}
      BY <1>4 DEF Poll, PollClient, DispatchDone, EndTurn, GoTo
    <2>4. LoopTyped'
      BY <2>1, <2>3 DEF TypeInv, LoopTyped, captureVars, sharedVars, linkVars
    <2> QED BY <2>2, <2>4 DEF TypeInv
  <1>5. CASE Close
    <2>1. ContentInv'
      BY <1>5, ContentKept DEF Close, TypeInv
    <2>2. UNCHANGED <<born, commits, sequence, events, receipts>>
      BY <1>5 DEF Close, Join, contentVars
    <2>3. /\ requests' \in Seq(RequestsOf(sequence))
          /\ frame' = 0 /\ pixels' = FALSE /\ active' = 0 /\ deadline' = "off"
      BY <1>5, <1>0, CleanupTyped DEF Close, Join
    <2>4. LinkTyped'
      BY <2>2, <2>3 DEF TypeInv, LinkTyped
    <2>5. files' \in [Numbers -> {"absent", "partial", "whole"}]
      BY <1>5 DEF Close, TypeInv, LoopTyped
    <2>6. workerRunning' \in BOOLEAN /\ worker' \in WorkerSteps
      BY <1>5 DEF Close, Join, TypeInv, LoopTyped, WorkerSteps
    <2>7. place' = "gone" /\ step' = "go" /\ UNCHANGED <<sequence, workerDone, wake, success, copying>>
      BY <1>5 DEF Close, GoTo
    <2>8. LoopTyped'
      BY <1>0, <2>3, <2>5, <2>6, <2>7 DEF TypeInv, LoopTyped
    <2> QED BY <2>1, <2>4, <2>8 DEF TypeInv
  <1> QED BY <1>2, <1>3, <1>4, <1>5

LEMMA TailTyped ==
    ASSUME NEW S, NEW q \in Seq(S), q # <<>>
    PROVE  Head(q) \in S /\ Tail(q) \in Seq(S)
  OBVIOUS

LEMMA TypeEvents ==
    ASSUME TypeInv, BufferEvent \/ ReadyEvent \/ FailedEvent \/ StaleEvent \/ ContentEvent
    PROVE  TypeInv'
  <1>0. /\ requests \in Seq(RequestsOf(sequence)) /\ sequence \in Nat /\ 0 \in 0..sequence
        /\ events \in Seq(EventsOf(born, commits, sequence)) /\ events # <<>>
        /\ events' = Tail(events) /\ UNCHANGED <<born, commits, sequence, loopVars, wake, success, files, copying>>
    BY Known DEF TypeInv, LinkTyped, BufferEvent, ReadyEvent, FailedEvent, StaleEvent, ContentEvent,
                 Dispatches, contentVars, sharedVars, captureVars, loopVars
  <1>1. Head(events) \in EventsOf(born, commits, sequence) /\ events' \in Seq(EventsOf(born, commits, sequence))
    BY <1>0, TailTyped
  <1>2. CASE BufferEvent
    <2>1. frame \in 1..sequence
      BY <1>1, <1>2 DEF BufferEvent, Dispatches, ForFrame, EventsOf
    <2>2. Message("copy", frame) \in RequestsOf(sequence) /\ Message("render_once", frame) \in RequestsOf(sequence)
      BY <2>1 DEF Message, RequestsOf
    <2>3. requests \o <<Message("copy", frame), Message("render_once", frame)>> \in Seq(RequestsOf(sequence))
      BY <1>0, <2>2
    <2>4. requests' \in Seq(RequestsOf(sequence)) /\ receipts' \in [Slot -> ReceiptsOf(born, commits, sequence)]
      BY <1>2, <2>3, FailTyped DEF BufferEvent, TypeInv, LinkTyped
    <2>5. LinkTyped'
      BY <2>4, <1>0, <1>1 DEF LinkTyped
    <2>6. /\ active' \in 0..sequence /\ frame' \in {0, active'} /\ deadline' \in {"off", "armed", "late"}
          /\ pixels' \in BOOLEAN
      BY <1>2, <1>0, FailTyped DEF BufferEvent, TypeInv, LoopTyped
    <2>7. LoopTyped'
      BY <1>0, <1>2, <2>6 DEF BufferEvent, TypeInv, LoopTyped, loopVars, sharedVars
    <2>8. ContentInv'
      BY <1>2, ContentKept DEF BufferEvent, TypeInv
    <2> QED BY <2>5, <2>7, <2>8 DEF TypeInv
  <1>3. CASE ReadyEvent
    <2>1. frame \in 1..sequence /\ Head(events).commit \in born..commits
      BY <1>1, <1>3 DEF ReadyEvent, Dispatches, ForFrame, EventsOf
    <2>2. Message("destroy", frame) \in RequestsOf(sequence)
      BY <2>1 DEF Message, RequestsOf
    <2>3. requests' \in Seq(RequestsOf(sequence))
      BY <1>0, <1>3, <2>2 DEF ReadyEvent
    <2> DEFINE shown == [receipts EXCEPT ![ActiveSlot].picture = Head(events).commit]
    <2>4. shown \in [Slot -> ReceiptsOf(born, commits, sequence)]
      BY <2>1 DEF TypeInv, LinkTyped, ReceiptsOf, Pictures
    <2>5. [shown EXCEPT ![ActiveSlot].status = "failed"] \in [Slot -> ReceiptsOf(born, commits, sequence)]
      BY <2>4 DEF ReceiptsOf
    <2>6. receipts' \in [Slot -> ReceiptsOf(born, commits, sequence)]
      BY <1>3, <2>4, <2>5 DEF ReadyEvent
    <2>7. LinkTyped'
      BY <2>3, <2>6, <1>0, <1>1 DEF LinkTyped
    <2>8. /\ active' \in 0..sequence /\ frame' \in {0, active'} /\ deadline' \in {"off", "armed", "late"}
          /\ pixels' \in BOOLEAN
      BY <1>3, <1>0 DEF ReadyEvent, WorkerStarted, TypeInv, LoopTyped
    <2>9. workerRunning' \in BOOLEAN /\ workerDone' \in BOOLEAN /\ worker' \in WorkerSteps
      BY <1>3, <1>0 DEF ReadyEvent, WorkerStarted, TypeInv, LoopTyped, WorkerSteps
    <2>10. LoopTyped'
      BY <1>0, <2>8, <2>9 DEF TypeInv, LoopTyped, loopVars
    <2>11. ContentInv'
      BY <1>3, ContentKept DEF ReadyEvent, TypeInv
    <2> QED BY <2>7, <2>10, <2>11 DEF TypeInv
  <1>4. CASE FailedEvent
    <2>1. LinkTyped'
      BY <1>0, <1>1, <1>4, FailTyped DEF FailedEvent, LinkTyped
    <2>2. LoopTyped'
      BY <1>0, <1>4, FailTyped DEF FailedEvent, TypeInv, LoopTyped, loopVars, sharedVars
    <2>3. ContentInv'
      BY <1>4, ContentKept DEF FailedEvent, TypeInv
    <2> QED BY <2>1, <2>2, <2>3 DEF TypeInv
  <1>5. CASE StaleEvent
    <2>1. LinkTyped'
      BY <1>0, <1>1, <1>5 DEF StaleEvent, TypeInv, LinkTyped, captureVars
    <2>2. LoopTyped'
      BY <1>0, <1>5 DEF StaleEvent, TypeInv, LoopTyped, loopVars, sharedVars, captureVars
    <2>3. ContentInv'
      BY <1>5, ContentKept DEF StaleEvent, TypeInv
    <2> QED BY <2>1, <2>2, <2>3 DEF TypeInv
  <1>6. CASE ContentEvent
    <2>1. Head(events).commit \in (born + 1)..commits
      BY <1>1, <1>6 DEF ContentEvent, Dispatches, EventsOf
    <2>2. ContentInv'
      BY <1>6, <2>1, ContentEventTyped DEF ContentEvent, TypeInv
    <2>3. LinkTyped'
      BY <1>0, <1>1, <1>6 DEF ContentEvent, TypeInv, LinkTyped, captureVars
    <2>4. LoopTyped'
      BY <1>0, <1>6 DEF ContentEvent, TypeInv, LoopTyped, loopVars, sharedVars, captureVars
    <2> QED BY <2>2, <2>3, <2>4 DEF TypeInv
  <1> QED BY <1>2, <1>3, <1>4, <1>5, <1>6

LEMMA TypeCalls ==
    ASSUME TypeInv, CallSubmit \/ CallGet \/ GetChanges \/ Get \/ Submit
    PROVE  TypeInv'
  <1>0. /\ sequence \in Nat /\ 0 \in 0..sequence /\ born \in Nat /\ commits \in Nat
        /\ requests \in Seq(RequestsOf(sequence))
        /\ receipts \in [Slot -> ReceiptsOf(born, commits, sequence)]
        /\ events \in Seq(EventsOf(born, commits, sequence))
        /\ sequence \in 0..MaxCaptures
    BY Known DEF TypeInv, LinkTyped, LoopTyped
  <1>1. CASE CallSubmit \/ CallGet
    <2>1. UNCHANGED <<contentVars, captureVars, sharedVars, linkVars>>
      BY <1>1 DEF CallSubmit, CallGet, Call
    <2>2. ContentInv' /\ LinkTyped'
      BY <2>1, ContentKept DEF TypeInv, LinkTyped, captureVars, linkVars, contentVars
    <2>3. place' \in {"submit", "get"} /\ step' = "drain" /\ (place' = "submit" => sequence < MaxCaptures)
      BY <1>1 DEF CallSubmit, CallGet, Call
    <2>4. LoopTyped'
      BY <2>1, <2>3 DEF TypeInv, LoopTyped, captureVars, sharedVars, linkVars
    <2> QED BY <2>2, <2>4 DEF TypeInv
  <1>2. CASE GetChanges \/ Get
    <2>1. UNCHANGED <<captureVars, sharedVars, linkVars, born, commits>>
      BY <1>2 DEF GetChanges, Get, Changes, BeginWait, contentVars
    <2>2. LinkTyped'
      BY <2>1 DEF TypeInv, LinkTyped, captureVars, linkVars
    <2>3. place' \in {place, "mid"} /\ step' \in {step, "go"}
      BY <1>2 DEF GetChanges, Get, Answered, loopVars
    <2>4. LoopTyped'
      BY <2>1, <2>3 DEF TypeInv, LoopTyped, captureVars, sharedVars, linkVars
    <2>5. ContentInv'
      <3>1. CASE GetChanges
        BY <3>1, ChangesTyped DEF GetChanges, TypeInv
      <3>2. CASE Get
        <4>1. CASE UNCHANGED contentVars
          BY <4>1, ContentKept DEF TypeInv
        <4>2. ASSUME NEW s \in DOMAIN receipts, BeginWait(receipts[s].serial, receipts[s].picture)
              PROVE  ContentInv'
          <5>1. receipts[s].serial \in Serials /\ receipts[s].picture \in Pictures(born, commits)
            BY <1>0 DEF ReceiptsOf
          <5> QED BY <4>2, <5>1, BeginWaitTyped DEF TypeInv
        <4> QED BY <3>2, <4>1, <4>2 DEF Get
      <3> QED BY <1>2, <3>1, <3>2
    <2> QED BY <2>2, <2>4, <2>5 DEF TypeInv
  <1>3. CASE Submit
    <2>1. ContentInv' /\ UNCHANGED <<born, commits, events, pixels, workerRunning, workerDone, wake,
                                     worker, success, copying>>
      BY <1>3, ContentKept DEF Submit, TypeInv, contentVars
    <2>2. place' = "mid" /\ step' = "go"
      BY <1>3 DEF Submit, Answered
    <2>3. CASE active # 0
      <3>1. UNCHANGED <<sequence, files, receipts, active, deadline, frame, requests>>
        BY <1>3, <2>3 DEF Submit
      <3>2. LinkTyped'
        BY <2>1, <3>1 DEF TypeInv, LinkTyped
      <3>3. LoopTyped'
        BY <2>1, <2>2, <3>1 DEF TypeInv, LoopTyped
      <3> QED BY <2>1, <3>2, <3>3 DEF TypeInv
    <2>4. CASE active = 0
      <3> DEFINE n == sequence + 1
                 fresh == [number |-> n, status |-> "pending", serial |-> latest, picture |-> NoCommit]
      <3>1. /\ sequence' = n /\ active' = n /\ frame' = n /\ deadline' = "armed"
            /\ requests' = Append(requests, Message("capture", n))
            /\ receipts' = [receipts EXCEPT ![SlotOf(n)] = fresh]
            /\ sequence < MaxCaptures /\ Retired(n)
        BY <1>3, <2>4 DEF Submit, TypeInv, LoopTyped
      <3>2. n \in Nat /\ n \in 0..MaxCaptures /\ n \in 1..n /\ n \in 0..n /\ sequence <= n /\ commits <= commits
            /\ 0..sequence \subseteq 0..n
        BY <1>0, <3>1, Widths
      <3>3. fresh \in ReceiptsOf(born, commits, n) /\ Message("capture", n) \in RequestsOf(n)
        BY <3>2 DEF ReceiptsOf, Pictures, RequestsOf, Message, TypeInv, ContentInv, ContentTypeOK
      <3>4. /\ ReceiptsOf(born, commits, sequence) \subseteq ReceiptsOf(born, commits, n)
            /\ RequestsOf(sequence) \subseteq RequestsOf(n)
            /\ EventsOf(born, commits, sequence) \subseteq EventsOf(born, commits, n)
        BY <1>0, <3>2, Wider
      <3>5. receipts' \in [Slot -> ReceiptsOf(born, commits, n)]
        BY <1>0, <3>1, <3>3, <3>4
      <3>6. requests \in Seq(RequestsOf(n)) /\ events \in Seq(EventsOf(born, commits, n))
        BY <1>0, <3>4, WiderSeq
      <3>7. requests' \in Seq(RequestsOf(n))
        BY <3>1, <3>3, <3>6
      <3>8. LinkTyped'
        BY <2>1, <3>1, <3>5, <3>6, <3>7 DEF LinkTyped
      <3>9. files' \in [Numbers -> {"absent", "partial", "whole"}]
        BY <3>1 DEF Retired, TypeInv, LoopTyped
      <3>10. copying \in 0..n
        BY <3>2 DEF TypeInv, LoopTyped
      <3>11. LoopTyped'
        BY <2>1, <2>2, <3>1, <3>2, <3>9, <3>10 DEF TypeInv, LoopTyped
      <3> QED BY <2>1, <3>8, <3>11 DEF TypeInv
    <2> QED BY <2>3, <2>4
  <1> QED BY <1>1, <1>2, <1>3

LEMMA TypeWorker ==
    ASSUME TypeInv, Worker
    PROVE  TypeInv'
  <1>1. /\ UNCHANGED <<contentVars, loopVars, sequence, active, deadline, frame, pixels, workerRunning,
                       linkVars>>
    BY DEF Worker, WorkerOpen, WorkerWrite, WorkerReport, WorkerTell, ThreadUnchanged, captureVars
  <1>2. receipts' \in [Slot -> ReceiptsOf(born, commits, sequence)]
    <2>1. CASE WorkerReport
      BY <2>1 DEF WorkerReport, TypeInv, LinkTyped, ReceiptsOf
    <2>2. CASE WorkerOpen \/ WorkerWrite \/ WorkerTell
      BY <2>2 DEF WorkerOpen, WorkerWrite, WorkerTell, ThreadUnchanged, captureVars, TypeInv, LinkTyped
    <2> QED BY <2>1, <2>2 DEF Worker
  <1>3. LinkTyped'
    BY <1>1, <1>2 DEF TypeInv, LinkTyped, linkVars, contentVars
  <1>4. files' \in [Numbers -> {"absent", "partial", "whole"}]
    BY DEF Worker, WorkerOpen, WorkerWrite, WorkerReport, WorkerTell, ThreadUnchanged, WrittenOrUnlinked,
           TypeInv, LoopTyped
  <1>5. worker' \in WorkerSteps /\ success' \in BOOLEAN /\ workerDone' \in BOOLEAN /\ wake' \in BOOLEAN
    BY DEF Worker, WorkerOpen, WorkerWrite, WorkerReport, WorkerTell, ThreadUnchanged,
           TypeInv, LoopTyped, WorkerSteps
  <1>6. LoopTyped'
    BY <1>1, <1>4, <1>5 DEF TypeInv, LoopTyped, loopVars, linkVars
  <1>7. ContentInv'
    BY <1>1, ContentKept DEF TypeInv
  <1> QED BY <1>3, <1>6, <1>7 DEF TypeInv

LEMMA RenderTyped ==
    ASSUME TypeInv, Render
    PROVE  /\ ContentInv' /\ commits' \in Nat /\ commits <= commits' /\ copying' = 0
           /\ events' \in Seq(EventsOf(born, commits', sequence)) /\ UNCHANGED born
  <1>0. Rendered /\ UNCHANGED <<born, latest, ring, reported, waiter>> /\ copying' = 0
    BY DEF Render
  <1>1. ContentInv' /\ commits' \in Nat /\ commits <= commits' /\ (dirty => commits' \in (born + 1)..commits')
    BY <1>0, RenderedTyped DEF TypeInv
  <1>2. born \in Nat /\ commits \in Nat /\ sequence \in Nat /\ born <= commits /\ copying \in 0..sequence
    BY Known DEF TypeInv, LoopTyped
  <1>3. EventsOf(born, commits, sequence) \subseteq EventsOf(born, commits', sequence)
    BY <1>1, <1>2, Wider
  <1>4. events \in Seq(EventsOf(born, commits', sequence))
    BY <1>3, WiderSeq DEF TypeInv, LinkTyped
  <1> DEFINE ready == IF copying = 0 THEN <<>>
                      ELSE <<[kind |-> "ready", number |-> copying, commit |-> commits']>>
             content == IF dirty THEN <<[kind |-> "content", number |-> 0, commit |-> commits']>>
                        ELSE <<>>
             set == EventsOf(born, commits', sequence)
  <1>5. commits' \in born..commits'
    <2>1. \A a, b, c \in Int : a <= b /\ b <= c => c \in a..c
      OBVIOUS
    <2> QED BY <1>1, <1>2, <2>1
  <1>6. ready \in Seq(set)
    <2>1. CASE copying = 0
      BY <2>1
    <2>2. CASE copying # 0
      <3>1. copying \in 1..sequence
        BY <1>2, <2>2
      <3>2. [kind |-> "ready", number |-> copying, commit |-> commits'] \in set
        BY <1>5, <3>1 DEF EventsOf
      <3> QED BY <2>2, <3>2
    <2> QED BY <2>1, <2>2
  <1>7. content \in Seq(set)
    <2>1. CASE dirty
      <3>1. [kind |-> "content", number |-> 0, commit |-> commits'] \in set
        BY <1>1, <2>1 DEF EventsOf
      <3> QED BY <2>1, <3>1
    <2>2. CASE ~dirty
      BY <2>2
    <2> QED BY <2>1, <2>2
  <1>8. events' = events \o ready \o content
    BY DEF Render
  <1>9. \A q, r, t \in Seq(set) : q \o r \o t \in Seq(set)
    OBVIOUS
  <1>10. events' \in Seq(set)
    BY <1>4, <1>6, <1>7, <1>8, <1>9
  <1> QED BY <1>0, <1>1, <1>10

LEMMA TypeHost ==
    ASSUME TypeInv, TakeCapture \/ TakeCopy \/ TakeRender \/ Commit \/ Drawn \/ Late
    PROVE  TypeInv'
  <1>0. /\ sequence \in Nat /\ 0 \in 0..sequence /\ born \in Nat /\ commits \in Nat
        /\ requests \in Seq(RequestsOf(sequence))
        /\ receipts \in [Slot -> ReceiptsOf(born, commits, sequence)]
        /\ events \in Seq(EventsOf(born, commits, sequence))
    BY Known DEF TypeInv, LinkTyped
  <1>1. /\ UNCHANGED <<place, step, receipts, sequence, active, frame, pixels, workerRunning, workerDone, wake,
                       worker, success, files>>
        /\ deadline' \in {"off", "armed", "late"}
    BY DEF TakeCapture, TakeCopy, TakeRender, Commit, Drawn, Late, HostUnchanged,
           loopVars, captureVars, sharedVars, TypeInv, LoopTyped
  <1>2. ASSUME copying' \in 0..sequence PROVE LoopTyped'
    BY <1>1, <1>2 DEF TypeInv, LoopTyped
  <1>3. ASSUME requests # <<>>, requests' = Tail(requests)
        PROVE  Head(requests) \in RequestsOf(sequence) /\ requests' \in Seq(RequestsOf(sequence))
    BY <1>0, <1>3, TailTyped
  <1>4. CASE TakeCapture
    <2>1. Head(requests).number \in 1..sequence /\ requests' \in Seq(RequestsOf(sequence))
      BY <1>3, <1>4 DEF TakeCapture, Requested, RequestsOf
    <2>2. PICK kind \in {"buffer", "failed"} : events' = Append(events, Message(kind, Head(requests).number))
      BY <1>4 DEF TakeCapture
    <2>3. Message(kind, Head(requests).number) \in EventsOf(born, commits, sequence)
      BY <2>1 DEF Message, EventsOf
    <2>4. events' \in Seq(EventsOf(born, commits, sequence))
      BY <1>0, <2>2, <2>3
    <2>5. ContentInv' /\ UNCHANGED <<born, commits, copying>>
      BY <1>4, ContentKept DEF TakeCapture, TypeInv, contentVars
    <2>6. LinkTyped'
      BY <1>0, <1>1, <2>1, <2>4, <2>5 DEF LinkTyped
    <2>7. LoopTyped'
      BY <1>2, <2>5 DEF TypeInv, LoopTyped
    <2> QED BY <2>5, <2>6, <2>7 DEF TypeInv
  <1>5. CASE TakeCopy
    <2>1. Head(requests) \in RequestsOf(sequence) /\ requests' \in Seq(RequestsOf(sequence))
      BY <1>3, <1>5 DEF TakeCopy, Requested
    <2>2. ContentInv' /\ UNCHANGED <<born, commits, events>>
      BY <1>5, ContentKept DEF TakeCopy, TypeInv, contentVars
    <2>3. copying' \in {Head(requests).number, 0, copying}
      BY <1>5 DEF TakeCopy
    <2>4. copying' \in 0..sequence
      BY <1>0, <2>1, <2>3 DEF RequestsOf, TypeInv, LoopTyped
    <2>5. LinkTyped'
      BY <1>0, <1>1, <2>1, <2>2 DEF LinkTyped
    <2> QED BY <1>2, <2>2, <2>4, <2>5 DEF TypeInv
  <1>6. CASE Render /\ requests' \in Seq(RequestsOf(sequence))
    <2>1. /\ ContentInv' /\ commits' \in Nat /\ commits <= commits' /\ copying' = 0
          /\ events' \in Seq(EventsOf(born, commits', sequence)) /\ UNCHANGED born
      BY <1>6, RenderTyped
    <2>2. sequence <= sequence
      BY <1>0
    <2>3. ReceiptsOf(born, commits, sequence) \subseteq ReceiptsOf(born, commits', sequence)
      BY <1>0, <2>1, <2>2, Wider
    <2>4. receipts \in [Slot -> ReceiptsOf(born, commits', sequence)]
      BY <1>0, <2>3
    <2>5. LinkTyped'
      BY <1>1, <1>6, <2>1, <2>4 DEF LinkTyped
    <2>6. LoopTyped'
      BY <1>0, <1>2, <2>1
    <2> QED BY <2>1, <2>5, <2>6 DEF TypeInv
  <1>7. CASE UNCHANGED <<contentVars, events, copying>> /\ requests' \in Seq(RequestsOf(sequence))
    <2>1. ContentInv' /\ LinkTyped'
      BY <1>0, <1>1, <1>7, ContentKept DEF TypeInv, LinkTyped, contentVars
    <2>2. LoopTyped'
      BY <1>2, <1>7 DEF TypeInv, LoopTyped
    <2> QED BY <2>1, <2>2 DEF TypeInv
  <1>8. CASE TakeRender
    BY <1>3, <1>6, <1>7, <1>8 DEF TakeRender, Requested
  <1>9. CASE Commit
    BY <1>0, <1>6, <1>9 DEF Commit
  <1>10. CASE Drawn
    <2>1. ContentInv' /\ UNCHANGED <<born, commits, linkVars>>
      BY <1>10, DrawTyped DEF Drawn, Draw, TypeInv
    <2>2. LinkTyped'
      BY <1>0, <1>1, <2>1 DEF LinkTyped, linkVars
    <2>3. LoopTyped'
      BY <1>2, <2>1 DEF TypeInv, LoopTyped, linkVars
    <2> QED BY <2>1, <2>2, <2>3 DEF TypeInv
  <1>11. CASE Late
    BY <1>0, <1>7, <1>11 DEF Late, linkVars
  <1> QED BY <1>4, <1>5, <1>8, <1>9, <1>10, <1>11

LEMMA TypeNext == TypeInv /\ [Next]_vars => TypeInv'
  <1> SUFFICES ASSUME TypeInv, [Next]_vars PROVE TypeInv'
    OBVIOUS
  <1>1. CASE UNCHANGED vars
    <2>1. UNCHANGED <<contentVars, loopVars, captureVars, sharedVars, linkVars>>
      BY <1>1 DEF vars
    <2>2. ContentInv' /\ LinkTyped' /\ LoopTyped'
      BY <2>1, ContentKept DEF TypeInv, LinkTyped, LoopTyped, loopVars, captureVars, sharedVars, linkVars,
         contentVars
    <2> QED BY <2>2 DEF TypeInv
  <1> QED BY <1>1, TypeLoop, TypeEvents, TypeCalls, TypeWorker, TypeHost DEF Next, Loop

\* The invariant that the later inductions use as known.
THEOREM CaptureTypes == Spec => []TypeInv
  BY TypeInit, TypeNext, PTL DEF Spec

----------------------------------------------------------------------------
(* The receipt, the frame and the thread of the active capture.            *)

LEMMA TailIndex ==
    ASSUME NEW S, NEW q \in Seq(S), q # <<>>
    PROVE  /\ 1 \in 1..Len(q) /\ Head(q) = q[1]
           /\ \A i \in 1..Len(Tail(q)) : i + 1 \in 1..Len(q) /\ Tail(q)[i] = q[i + 1]
  OBVIOUS

LEMMA MuteTail ==
    ASSUME NEW S, NEW q \in Seq(S), q # <<>>, NEW kind, NEW n, Mute(q, kind, n)
    PROVE  Mute(Tail(q), kind, n) /\ ~(Head(q).kind = kind /\ Head(q).number = n)
  BY TailIndex DEF Mute

LEMMA MuteAppend ==
    ASSUME NEW S, NEW q \in Seq(S), NEW m, NEW kind, NEW n, Mute(q, kind, n),
           m.kind # kind \/ m.number # n
    PROVE  Mute(Append(q, m), kind, n)
  <1>1. \A i \in 1..Len(Append(q, m)) :
            \/ i \in 1..Len(q) /\ Append(q, m)[i] = q[i]
            \/ Append(q, m)[i] = m
    OBVIOUS
  <1> QED BY <1>1 DEF Mute

\* Nothing is under way for a frame that was not created yet.
LEMMA MuteFresh ==
    ASSUME TypeInv
    PROVE  /\ \A kind \in {"copy", "ready"} : Mute(requests, kind, sequence + 1)
           /\ Mute(events, "ready", sequence + 1) /\ copying # sequence + 1
  <1>1. sequence \in Nat /\ copying \in 0..sequence
    BY Known DEF TypeInv, LoopTyped
  <1>2. \A i \in 1..Len(requests) : requests[i].number \in 1..sequence
    <2>1. \A i \in 1..Len(requests) : requests[i] \in RequestsOf(sequence)
      BY DEF TypeInv, LinkTyped
    <2> QED BY <2>1 DEF RequestsOf
  <1>3. \A i \in 1..Len(events) : events[i].kind = "ready" => events[i].number \in 1..sequence
    <2>1. \A i \in 1..Len(events) : events[i] \in EventsOf(born, commits, sequence)
      BY DEF TypeInv, LinkTyped
    <2> QED BY <2>1 DEF EventsOf
  <1>4. \A x \in 1..sequence : x # sequence + 1
    BY <1>1
  <1>5. copying # sequence + 1
    BY <1>1
  <1> QED BY <1>2, <1>3, <1>4, <1>5 DEF Mute

LEMMA InFlightNext ==
    ASSUME TypeInv, OwnInv, InFlight, [Next]_vars
    PROVE  InFlight'
  <1> SUFFICES ASSUME frame' # 0, ~pixels'
               PROVE  Mute(requests', "copy", frame') /\ Mute(events', "ready", frame') /\ copying' # frame'
    BY DEF InFlight
  <1>0. requests \in Seq(RequestsOf(sequence)) /\ events \in Seq(EventsOf(born, commits, sequence))
    BY DEF TypeInv, LinkTyped
  <1>1. ASSUME UNCHANGED <<frame, pixels, events, copying, requests>>
        PROVE  Mute(requests', "copy", frame') /\ Mute(events', "ready", frame') /\ copying' # frame'
    BY <1>1 DEF InFlight
  <1>2. CASE Drain \/ Check \/ Poll \/ PollClient \/ DispatchDone \/ EndTurn \/ Close
    <2>1. CASE Check \/ Close
      BY <1>1, <2>1 DEF Check, Close, Join, Cleanup, Fail
    <2>2. CASE Drain \/ Poll \/ PollClient \/ DispatchDone \/ EndTurn
      BY <1>1, <2>2 DEF Drain, Poll, PollClient, DispatchDone, EndTurn, captureVars, linkVars
    <2> QED BY <1>2, <2>1, <2>2
  <1>3. CASE BufferEvent \/ ReadyEvent \/ FailedEvent
    BY <1>3 DEF BufferEvent, ReadyEvent, FailedEvent, Fail, Cleanup
  <1>4. CASE StaleEvent \/ ContentEvent
    <2>1. UNCHANGED <<frame, pixels, copying, requests>> /\ events # <<>> /\ events' = Tail(events)
      BY <1>4 DEF StaleEvent, ContentEvent, Dispatches, captureVars
    <2> QED BY <1>0, <2>1, MuteTail DEF InFlight
  <1>5. CASE CallSubmit \/ CallGet \/ GetChanges \/ Get
    BY <1>1, <1>5 DEF CallSubmit, CallGet, Call, GetChanges, Get, captureVars, linkVars
  <1>6. CASE Submit
    <2>1. CASE active # 0
      BY <1>1, <1>6, <2>1 DEF Submit
    <2>2. CASE active = 0
      <3>1. /\ frame' = sequence + 1 /\ UNCHANGED <<events, copying>>
            /\ requests' = Append(requests, Message("capture", sequence + 1))
        BY <1>6, <2>2 DEF Submit
      <3>2. Message("capture", sequence + 1).kind # "copy"
        BY DEF Message
      <3> QED BY <1>0, <3>1, <3>2, MuteFresh, MuteAppend
    <2> QED BY <2>1, <2>2
  <1>7. CASE Worker
    BY <1>1, <1>7 DEF Worker, WorkerOpen, WorkerWrite, WorkerReport, WorkerTell, ThreadUnchanged,
                      captureVars, linkVars
  <1>8. CASE TakeCapture
    <2>1. UNCHANGED <<frame, pixels, copying>> /\ requests # <<>> /\ requests' = Tail(requests)
      BY <1>8 DEF TakeCapture, Requested, HostUnchanged, captureVars
    <2>2. PICK kind \in {"buffer", "failed"} : events' = Append(events, Message(kind, Head(requests).number))
      BY <1>8 DEF TakeCapture
    <2>3. Message(kind, Head(requests).number).kind # "ready"
      BY DEF Message
    <2> QED BY <1>0, <2>1, <2>2, <2>3, MuteTail, MuteAppend DEF InFlight
  <1>9. CASE TakeCopy
    <2>1. UNCHANGED <<frame, pixels, events>> /\ requests # <<>> /\ requests' = Tail(requests)
      BY <1>9 DEF TakeCopy, Requested, HostUnchanged, captureVars
    <2>2. Mute(requests', "copy", frame') /\ ~(Head(requests).kind = "copy" /\ Head(requests).number = frame)
      BY <1>0, <2>1, MuteTail DEF InFlight
    <2>3. \/ copying' = Head(requests).number /\ Head(requests).kind = "copy"
          \/ copying' = 0 \/ copying' = copying
      BY <1>9 DEF TakeCopy
    <2> QED BY <2>1, <2>2, <2>3 DEF InFlight
  <1>10. ASSUME Render, UNCHANGED <<frame, pixels>>,
                \/ requests' = requests
                \/ requests # <<>> /\ requests' = Tail(requests)
         PROVE  Mute(requests', "copy", frame') /\ Mute(events', "ready", frame') /\ copying' # frame'
    <2>0. Mute(requests, "copy", frame)
      BY <1>10 DEF InFlight
    <2>1. Mute(requests', "copy", frame')
      <3>1. CASE requests' = requests
        BY <1>10, <2>0, <3>1
      <3>2. CASE requests # <<>> /\ requests' = Tail(requests)
        BY <1>0, <1>10, <2>0, <3>2, MuteTail
      <3> QED BY <1>10, <3>1, <3>2
    <2> DEFINE ready == [kind |-> "ready", number |-> copying, commit |-> commits']
               content == [kind |-> "content", number |-> 0, commit |-> commits']
               after == IF copying = 0 THEN events ELSE Append(events, ready)
    <2>2. after \in Seq(EventsOf(born, commits, sequence) \cup {ready})
      BY <1>0
    <2>3. Mute(after, "ready", frame)
      BY <1>0, <1>10, MuteAppend DEF InFlight
    <2>4. events' = after \/ events' = Append(after, content)
      <3>1. /\ events' = events \o (IF copying = 0 THEN <<>> ELSE <<ready>>) \o (IF dirty THEN <<content>> ELSE <<>>)
        BY <1>10 DEF Render
      <3>2. after \in Seq(EventsOf(born, commits, sequence) \cup {ready})
        BY <2>2
      <3>3. events \o (IF copying = 0 THEN <<>> ELSE <<ready>>) = after
        BY <1>0
      <3>4. after \o <<>> = after /\ after \o <<content>> = Append(after, content)
        BY <3>2
      <3>5. events' = after \o (IF dirty THEN <<content>> ELSE <<>>)
        BY <3>1, <3>3
      <3> HIDE DEF after
      <3> QED BY <3>4, <3>5
    <2>5. Mute(events', "ready", frame)
      BY <2>2, <2>3, <2>4, MuteAppend
    <2> QED BY <1>10, <2>1, <2>5 DEF Render
  <1>11. CASE TakeRender
    <2>1. UNCHANGED <<frame, pixels>> /\ requests # <<>> /\ requests' = Tail(requests)
      BY <1>11 DEF TakeRender, Requested, HostUnchanged, captureVars
    <2>2. CASE UNCHANGED <<contentVars, events, copying>>
      BY <1>0, <2>1, <2>2, MuteTail DEF InFlight
    <2> QED BY <1>10, <1>11, <2>1, <2>2 DEF TakeRender
  <1>12. CASE Commit
    <2>1. Render /\ UNCHANGED <<frame, pixels>> /\ requests' = requests
      BY <1>12 DEF Commit, HostUnchanged, captureVars
    <2> QED BY <1>10, <2>1
  <1>13. CASE Drawn \/ Late \/ UNCHANGED vars
    BY <1>1, <1>13 DEF Drawn, Late, HostUnchanged, captureVars, linkVars, vars
  <1> QED BY <1>2, <1>3, <1>4, <1>5, <1>6, <1>7, <1>8, <1>9, <1>11, <1>12, <1>13 DEF Next, Loop

\* Steps that leave the active capture alone.
LEMMA OwnKept ==
    ASSUME OwnInv,
           UNCHANGED <<receipts, active, frame, pixels, workerRunning, workerDone, worker>>,
           deadline' = deadline \/ deadline = "armed",
           place' = "gone" => UNCHANGED loopVars
    PROVE  OwnInv'
  <1>1. ActiveSlot' = ActiveSlot
    BY DEF ActiveSlot, SlotOf
  <1>2. deadline = "armed" => worker = "none" /\ active # 0
    BY DEF OwnInv
  <1> QED BY <1>1, <1>2 DEF OwnInv, loopVars

\* A capture that ends leaves nothing behind.
LEMMA OwnEnded ==
    ASSUME Cleanup(requests), worker' = "none", workerRunning' = FALSE, place' = "gone" => step' = "go"
    PROVE  OwnInv'
  BY DEF OwnInv, Cleanup

LEMMA OwnNext ==
    ASSUME TypeInv, OwnInv, InFlight, [Next]_vars
    PROVE  OwnInv'
  <1>0. /\ receipts \in [Slot -> ReceiptsOf(born, commits, sequence)] /\ ActiveSlot \in Slot
        /\ workerRunning \in BOOLEAN /\ worker \in WorkerSteps
    BY Known DEF TypeInv, LinkTyped, LoopTyped
  <1>1. CASE Drain \/ Poll \/ PollClient \/ DispatchDone \/ EndTurn
    <2>1. /\ UNCHANGED <<receipts, active, deadline, frame, pixels, workerRunning, workerDone, worker>>
          /\ place' # "gone" \/ UNCHANGED place
      BY <1>1 DEF Drain, Poll, PollClient, DispatchDone, EndTurn, GoTo, captureVars, sharedVars
    <2>2. place # "gone"
      BY <1>1 DEF Drain, Poll, PollClient, DispatchDone, EndTurn
    <2> QED BY <2>1, <2>2, OwnKept
  <1>2. CASE Check
    <2>1. place' # "gone" /\ step' = "go"
      BY <1>2 DEF Check, OwnInv
    <2>2. CASE Join
      BY <2>1, <2>2, OwnEnded DEF Join
    <2>3. CASE ~(workerRunning /\ workerDone) /\ deadline = "late" /\ Fail /\ UNCHANGED <<workerRunning, worker>>
      <3>1. worker' = "none" /\ workerRunning' = FALSE
        BY <1>0, <2>3 DEF OwnInv
      <3> QED BY <2>1, <2>3, <3>1, OwnEnded DEF Fail
    <2>4. CASE UNCHANGED <<receipts, active, deadline, frame, pixels, workerRunning, worker>>
      BY <1>2, <2>1, <2>4, OwnKept DEF Check
    <2> QED BY <1>2, <2>2, <2>3, <2>4 DEF Check
  <1>3. CASE Close
    <2>1. Cleanup(requests) /\ step' = "go"
      BY <1>3 DEF Close, Join, GoTo
    <2>2. worker' = "none" /\ workerRunning' = FALSE
      BY <1>0, <1>3 DEF Close, Join, OwnInv
    <2> QED BY <2>1, <2>2, OwnEnded
  <1>4. CASE BufferEvent
    <2>1. place = "dispatch" /\ UNCHANGED <<loopVars, workerRunning, worker, workerDone>>
      BY <1>4 DEF BufferEvent, Dispatches, sharedVars
    <2>2. frame # 0
      <3>1. Head(events) \in EventsOf(born, commits, sequence) /\ Head(events).kind = "buffer"
        BY <1>4, TailTyped DEF BufferEvent, Dispatches, TypeInv, LinkTyped
      <3> QED BY <1>4, <3>1, Known DEF BufferEvent, ForFrame, EventsOf
    <2>3. active # 0 /\ worker = "none" /\ workerRunning = FALSE
      BY <1>0, <2>2, Known DEF OwnInv
    <2>4. CASE Fail
      BY <2>1, <2>3, <2>4, OwnEnded DEF Fail, loopVars
    <2>5. CASE pixels' = TRUE /\ UNCHANGED <<receipts, active, deadline, frame>>
      BY <2>1, <2>3, <2>5 DEF OwnInv, ActiveSlot, SlotOf, loopVars
    <2> QED BY <1>4, <2>4, <2>5 DEF BufferEvent
  <1>5. CASE ReadyEvent
    <2>1. place = "dispatch" /\ UNCHANGED loopVars /\ events # <<>>
      BY <1>5 DEF ReadyEvent, Dispatches
    <2>2. Head(events).kind = "ready" /\ Head(events).number = frame
      BY <1>5 DEF ReadyEvent, Dispatches, ForFrame
    <2>3. frame # 0
      <3>1. Head(events) \in EventsOf(born, commits, sequence)
        BY <2>1, TailTyped DEF TypeInv, LinkTyped
      <3> QED BY <2>2, <3>1, Known DEF EventsOf
    <2>4. active # 0 /\ worker = "none" /\ workerRunning = FALSE
      BY <1>0, <2>3, Known DEF OwnInv
    <2>5. pixels
      <3>1. 1 \in 1..Len(events) /\ Head(events) = events[1]
        BY <2>1, TailIndex DEF TypeInv, LinkTyped
      <3> QED BY <2>2, <2>3, <3>1 DEF InFlight, Mute
    <2> DEFINE shown == [receipts EXCEPT ![ActiveSlot].picture = Head(events).commit]
    <2>6. CASE WorkerStarted /\ receipts' = shown /\ UNCHANGED <<active, pixels>>
      <3>1. frame' = 0 /\ ActiveSlot' = ActiveSlot /\ deadline' = "off"
        BY <1>5, <2>6 DEF ReadyEvent, ActiveSlot, SlotOf, WorkerStarted
      <3>2. receipts'[ActiveSlot].number = receipts[ActiveSlot].number
            /\ receipts'[ActiveSlot].status = receipts[ActiveSlot].status
        BY <1>0, <2>6 DEF ReceiptsOf
      <3>3. worker' = "open" /\ workerRunning' = TRUE /\ workerDone' = FALSE
        BY <2>6 DEF WorkerStarted
      <3> QED BY <2>1, <2>4, <2>5, <2>6, <3>1, <3>2, <3>3 DEF OwnInv, loopVars
    <2>7. CASE pixels' = FALSE /\ active' = 0 /\ deadline' = "off" /\ UNCHANGED <<workerRunning, worker>>
      BY <1>5, <2>1, <2>4, <2>7 DEF OwnInv, loopVars
    <2> QED BY <1>5, <2>6, <2>7 DEF ReadyEvent
  <1>6. CASE FailedEvent
    <2>1. place = "dispatch" /\ UNCHANGED <<loopVars, workerRunning, worker, workerDone>>
      BY <1>6 DEF FailedEvent, Dispatches, sharedVars
    <2>2. frame # 0
      <3>1. Head(events) \in EventsOf(born, commits, sequence) /\ Head(events).kind = "failed"
        BY <1>6, TailTyped DEF FailedEvent, Dispatches, TypeInv, LinkTyped
      <3> QED BY <1>6, <3>1, Known DEF FailedEvent, ForFrame, EventsOf
    <2>3. active # 0 /\ worker = "none" /\ workerRunning = FALSE
      BY <1>0, <2>2, Known DEF OwnInv
    <2> QED BY <1>6, <2>1, <2>3, OwnEnded DEF FailedEvent, Fail, loopVars
  <1>7. CASE StaleEvent \/ ContentEvent \/ GetChanges \/ TakeCapture \/ TakeCopy \/ TakeRender \/ Commit \/ Drawn
    <2>1. UNCHANGED <<loopVars, captureVars, sharedVars>>
      BY <1>7 DEF StaleEvent, ContentEvent, GetChanges, TakeCapture, TakeCopy, TakeRender, Commit, Drawn,
                  HostUnchanged
    <2> QED BY <2>1, OwnKept DEF captureVars, sharedVars
  <1>8. CASE CallSubmit \/ CallGet \/ Get
    <2>1. UNCHANGED <<captureVars, sharedVars>> /\ place' # "gone"
      BY <1>8 DEF CallSubmit, CallGet, Call, Get, Answered
    <2> QED BY <2>1, OwnKept DEF captureVars, sharedVars
  <1>9. CASE Submit
    <2>1. place' = "mid" /\ UNCHANGED <<pixels, workerRunning, workerDone, worker>>
      BY <1>9 DEF Submit, Answered
    <2>2. CASE active # 0
      BY <1>9, <2>1, <2>2, OwnKept DEF Submit
    <2>3. CASE active = 0
      <3> DEFINE n == sequence + 1
                 fresh == [number |-> n, status |-> "pending", serial |-> latest, picture |-> NoCommit]
      <3>1. /\ active' = n /\ frame' = n
            /\ receipts' = [receipts EXCEPT ![SlotOf(n)] = fresh]
        BY <1>9, <2>3 DEF Submit
      <3>2. n \in Int /\ n # 0 /\ SlotOf(n) \in Slot
        BY Known, SlotOfIsSlot
      <3>3. ActiveSlot' = SlotOf(n) /\ receipts'[ActiveSlot'] = fresh
        BY <1>0, <3>1, <3>2 DEF ActiveSlot, SlotOf
      <3>4. worker' = "none" /\ workerRunning' = FALSE
        BY <1>0, <2>1, <2>3 DEF OwnInv
      <3> QED BY <2>1, <3>1, <3>2, <3>3, <3>4 DEF OwnInv
    <2> QED BY <2>2, <2>3
  <1>10. CASE Worker
    <2>1. UNCHANGED <<loopVars, active, deadline, frame, pixels, workerRunning>> /\ ActiveSlot' = ActiveSlot
      BY <1>10 DEF Worker, WorkerOpen, WorkerWrite, WorkerReport, WorkerTell, ThreadUnchanged, captureVars,
                   ActiveSlot, SlotOf
    <2>2. CASE WorkerOpen \/ WorkerWrite \/ WorkerTell
      <3>1. UNCHANGED receipts
        BY <2>2 DEF WorkerOpen, WorkerWrite, WorkerTell, ThreadUnchanged, captureVars
      <3>2. \/ worker' \in {"write", "report"} /\ UNCHANGED workerDone /\ worker \in {"open", "write"}
            \/ worker' \in {"signal", "ended"} /\ worker \in {"tell", "signal"}
        BY <2>2 DEF WorkerOpen, WorkerWrite, WorkerTell
      <3> QED BY <2>1, <3>1, <3>2 DEF OwnInv, loopVars
    <2>3. CASE WorkerReport
      <3>1. receipts'[ActiveSlot].number = receipts[ActiveSlot].number
        BY <1>0, <2>3 DEF WorkerReport, ReceiptsOf
      <3>2. worker = "report" /\ worker' = "tell" /\ UNCHANGED workerDone
        BY <2>3 DEF WorkerReport
      <3> QED BY <2>1, <3>1, <3>2 DEF OwnInv, loopVars
    <2> QED BY <1>10, <2>2, <2>3 DEF Worker
  <1>11. CASE Late
    BY <1>11, OwnKept DEF Late, sharedVars
  <1>12. CASE UNCHANGED vars
    BY <1>12, OwnKept DEF vars, captureVars, sharedVars
  <1> QED BY <1>1, <1>2, <1>3, <1>4, <1>5, <1>6, <1>7, <1>8, <1>9, <1>10, <1>11, <1>12 DEF Next, Loop

\* The frame, the pixels, the thread and the receipt of the active capture belong
\* together, whatever the order of events, deadlines and the steps of the thread.
THEOREM CaptureOwns == Spec => [](OwnInv /\ InFlight)
  <1>1. Init => OwnInv /\ InFlight
    <2> SUFFICES ASSUME Init PROVE OwnInv /\ InFlight
      OBVIOUS
    <2>1. OwnInv
      BY DEF Init, OwnInv
    <2> QED BY <2>1 DEF Init, InFlight
  <1>2. TypeInv /\ OwnInv /\ InFlight /\ [Next]_vars => (OwnInv /\ InFlight)'
    BY OwnNext, InFlightNext
  <1> QED BY <1>1, <1>2, CaptureTypes, PTL DEF Spec

\* The PNG thread and the daemon's loop never work on a receipt at the same time
\* (native/agentseat-capture.c, encode, ready_event and as_capture_tick).
THEOREM WorkerOwns == Spec => []WorkerOwnsItsReceipt
  <1>1. TypeInv /\ OwnInv => WorkerOwnsItsReceipt
    BY DEF TypeInv, LoopTyped, OwnInv, WorkerOwnsItsReceipt, WorkerSteps
  <1> QED BY <1>1, CaptureTypes, CaptureOwns, PTL

----------------------------------------------------------------------------
(* The files and what the receipts say of them.                            *)

\* Steps that touch neither a receipt nor a file nor what the thread does next.
LEMMA FilesUntouched ==
    ASSUME FileInv, UNCHANGED <<receipts, active, worker, success, files>>,
           place' = "gone" <=> place = "gone"
    PROVE  FileInv'
  BY DEF FileInv, Kept, FilesKept, Written, Tells, ActiveSlot, SlotOf

\* The slots other than that of the active capture.
LEMMA OtherSlots ==
    ASSUME TypeInv, OwnInv, FileInv, active # 0, NEW s \in Slot, s # ActiveSlot
    PROVE  receipts[s].number # active /\ receipts[s].status # "pending" /\ place # "gone"
  <1>1. receipts[s].number # active
    BY DEF FileInv, Kept, ActiveSlot
  <1>2. place # "gone"
    BY DEF OwnInv
  <1> QED BY <1>1, <1>2 DEF FileInv, Tells

\* A capture that fails before its thread was started has no file.
LEMMA FailedHasNoFile ==
    ASSUME TypeInv, OwnInv, FileInv, active # 0, worker = "none", worker' = "none",
           active' = 0, UNCHANGED <<place, files>>,
           receipts' \in [Slot -> ReceiptsOf(born, commits, sequence)],
           receipts'[ActiveSlot].number = active, receipts'[ActiveSlot].status = "failed",
           \A s \in Slot : s # ActiveSlot => receipts'[s] = receipts[s]
    PROVE  FileInv'
  <1>0. receipts[ActiveSlot].number = active /\ ActiveSlot \in Slot /\ place # "gone"
    BY Known DEF OwnInv
  <1>1. \A s \in Slot : receipts'[s].number = receipts[s].number
    BY <1>0
  <1>2. Kept'
    BY <1>1 DEF FileInv, Kept, SlotOf
  <1>3. FilesKept'
    <2>1. \A n \in Numbers : SlotOf(n) \in Slot
      BY SlotOfIsSlot DEF Numbers
    <2> QED BY <1>1, <2>1 DEF FileInv, FilesKept, SlotOf
  <1>4. Written'
    BY DEF FileInv, Written
  <1>5. \A s \in Slot : Tells(receipts[s])'
    <2> TAKE s \in Slot
    <2>1. CASE s = ActiveSlot
      <3>1. files[active] = "absent"
        BY DEF FileInv, Written
      <3> QED BY <2>1, <3>1 DEF Tells
    <2>2. CASE s # ActiveSlot
      <3>1. receipts[s].status # "pending" /\ Tells(receipts[s])
        BY <1>0, <2>2, OtherSlots DEF FileInv
      <3> QED BY <2>2, <3>1 DEF Tells
    <2> QED BY <2>1, <2>2
  <1> QED BY <1>2, <1>3, <1>4, <1>5 DEF FileInv

\* Fail, while a frame is awaited.
LEMMA FailFiles ==
    ASSUME TypeInv, OwnInv, FileInv, Fail, active # 0, worker = "none", worker' = "none",
           UNCHANGED <<place, files>>
    PROVE  FileInv'
  <1>1. receipts \in [Slot -> ReceiptsOf(born, commits, sequence)] /\ ActiveSlot \in Slot
    BY Known DEF TypeInv, LinkTyped
  <1>2. receipts' = [receipts EXCEPT ![ActiveSlot].status = "failed"]
    BY DEF Fail
  <1>3. /\ receipts'[ActiveSlot].number = receipts[ActiveSlot].number
        /\ receipts'[ActiveSlot].status = "failed"
        /\ \A s \in Slot : s # ActiveSlot => receipts'[s] = receipts[s]
    BY <1>1, <1>2 DEF ReceiptsOf
  <1>4. receipts[ActiveSlot].number = active
    BY DEF OwnInv
  <1>5. receipts' \in [Slot -> ReceiptsOf(born, commits, sequence)] /\ active' = 0
    BY FailTyped
  <1> QED BY <1>3, <1>4, <1>5, FailedHasNoFile

\* The thread is joined after it has said how the file came out.
LEMMA JoinFiles ==
    ASSUME TypeInv, OwnInv, FileInv, Join, UNCHANGED <<place, files, success>>
    PROVE  FileInv'
  <1>1. worker = "ended" /\ worker' = "none" /\ UNCHANGED receipts /\ active' = 0
    BY DEF Join, Cleanup
  <1>2. active # 0 /\ ActiveSlot \in Slot /\ receipts[ActiveSlot].status # "pending"
    BY <1>1, Known DEF OwnInv, FileInv, Written
  <1>3. Kept' /\ FilesKept'
    BY <1>1 DEF FileInv, Kept, FilesKept, SlotOf
  <1>4. Written'
    BY <1>1 DEF FileInv, Written
  <1>5. \A s \in Slot : Tells(receipts[s])'
    <2> TAKE s \in Slot
    <2>1. Tells(receipts[s])
      BY <1>1, <1>2 DEF FileInv, OwnInv
    <2>2. receipts[s].status # "pending"
      BY <1>2, OtherSlots
    <2> QED BY <1>1, <2>1, <2>2 DEF Tells
  <1> QED BY <1>3, <1>4, <1>5 DEF FileInv

LEMMA ReadyFiles ==
    ASSUME TypeInv, OwnInv, InFlight, FileInv, ReadyEvent
    PROVE  FileInv'
  <1>1. events # <<>> /\ UNCHANGED <<place, success, files>>
    BY DEF ReadyEvent, Dispatches, loopVars
  <1>2. Head(events).kind = "ready" /\ Head(events).number = frame
    BY DEF ReadyEvent, Dispatches, ForFrame
  <1>3. frame # 0
    <2>1. Head(events) \in EventsOf(born, commits, sequence)
      BY <1>1, TailTyped DEF TypeInv, LinkTyped
    <2> QED BY <1>2, <2>1, Known DEF EventsOf
  <1>4. active # 0 /\ worker = "none" /\ place # "gone"
    BY <1>3, Known DEF OwnInv
  <1>5. receipts \in [Slot -> ReceiptsOf(born, commits, sequence)] /\ ActiveSlot \in Slot
        /\ receipts[ActiveSlot].number = active
    BY <1>4, Known DEF TypeInv, LinkTyped, OwnInv
  <1> DEFINE shown == [receipts EXCEPT ![ActiveSlot].picture = Head(events).commit]
             lost == [shown EXCEPT ![ActiveSlot].status = "failed"]
  <1>6. /\ shown[ActiveSlot].number = receipts[ActiveSlot].number
        /\ shown[ActiveSlot].status = receipts[ActiveSlot].status
        /\ lost[ActiveSlot].number = receipts[ActiveSlot].number
        /\ lost[ActiveSlot].status = "failed"
        /\ \A s \in Slot : s # ActiveSlot => shown[s] = receipts[s] /\ lost[s] = receipts[s]
    BY <1>5 DEF ReceiptsOf
  <1> HIDE DEF shown, lost
  <1>7. CASE worker' = "open" /\ receipts' = shown /\ active' = active
    <2>1. \A s \in Slot : receipts'[s].number = receipts[s].number /\ receipts'[s].status = receipts[s].status
      BY <1>6, <1>7
    <2>2. Kept'
      BY <2>1 DEF FileInv, Kept, SlotOf
    <2>3. FilesKept'
      <3>1. \A n \in Numbers : SlotOf(n) \in Slot
        BY SlotOfIsSlot DEF Numbers
      <3> QED BY <1>1, <2>1, <3>1 DEF FileInv, FilesKept, SlotOf
    <2>4. Written'
      BY <1>1, <1>4, <1>7 DEF FileInv, Written
    <2>5. \A s \in Slot : Tells(receipts[s])'
      BY <1>1, <1>4, <1>7, <2>1 DEF FileInv, Tells
    <2> QED BY <2>2, <2>3, <2>4, <2>5 DEF FileInv
  <1>8. CASE worker' = worker /\ receipts' = lost /\ active' = 0
    <2>1. receipts' \in [Slot -> ReceiptsOf(born, commits, sequence)]
      <3>1. UNCHANGED <<born, commits, sequence>>
        BY DEF ReadyEvent, contentVars
      <3>2. TypeInv'
        BY TypeEvents
      <3> QED BY <3>1, <3>2 DEF TypeInv, LinkTyped
    <2> QED BY <1>1, <1>4, <1>5, <1>6, <1>8, <2>1, FailedHasNoFile
  <1>9. \/ worker' = "open" /\ receipts' = shown /\ active' = active
        \/ worker' = worker /\ receipts' = lost /\ active' = 0
    BY DEF ReadyEvent, WorkerStarted, shown, lost
  <1> QED BY <1>7, <1>8, <1>9

LEMMA SubmitFiles ==
    ASSUME TypeInv, OwnInv, FileInv, Submit
    PROVE  FileInv'
  <1>0. place = "submit" /\ place' = "mid" /\ UNCHANGED <<worker, success>>
    BY DEF Submit, Answered
  <1>1. CASE active # 0
    BY <1>0, <1>1, FilesUntouched DEF Submit
  <1>2. CASE active = 0
    <2> DEFINE n == sequence + 1
               slot == SlotOf(n)
               old == receipts[slot].number
               fresh == [number |-> n, status |-> "pending", serial |-> latest, picture |-> NoCommit]
    <2>1. active' = n /\ receipts' = [receipts EXCEPT ![slot] = fresh]
      BY <1>2 DEF Submit
    <2>2. files' = IF old = 0 THEN files ELSE [files EXCEPT ![old] = "absent"]
      BY <1>2 DEF Submit, Retired
    <2>3. /\ receipts \in [Slot -> ReceiptsOf(born, commits, sequence)]
          /\ files \in [Numbers -> {"absent", "partial", "whole"}]
          /\ n \in Int /\ slot \in Slot /\ n # 0 /\ sequence \in Nat
      BY Known, SlotOfIsSlot DEF TypeInv, LinkTyped, LoopTyped
    <2>4. n \in Numbers
      BY <1>0, <2>3, Widths DEF TypeInv, LoopTyped, Numbers
    <2>5. \A s \in Slot : receipts[s].number \in 0..sequence /\ receipts[s].number # n
      <3>1. \A s \in Slot : receipts[s].number \in 0..sequence
        BY <2>3 DEF ReceiptsOf
      <3>2. \A k \in 0..sequence : k # n
        BY <2>3
      <3> QED BY <3>1, <3>2
    <2>6. receipts'[slot] = fresh /\ \A s \in Slot : s # slot => receipts'[s] = receipts[s]
      BY <2>1, <2>3
    <2>7. fresh.number = n /\ fresh.status = "pending"
      OBVIOUS
    <2>8. \A m \in Numbers : SlotOf(m) \in Slot
      BY SlotOfIsSlot DEF Numbers
    <2>9. worker = "none" /\ place # "gone"
      BY <1>0, <1>2 DEF OwnInv
    <2>10. \A s \in Slot : s # slot /\ receipts[s].number # 0 => receipts[s].number # old
      BY <2>3 DEF FileInv, Kept
    <2>11. \A m \in Numbers : files'[m] = files[m] \/ (m = old /\ files'[m] = "absent")
      BY <2>2, <2>3
    <2>17. \A m \in Numbers : m = old => files'[m] = "absent"
      BY <2>2, <2>3, Widths DEF Numbers
    <2> HIDE DEF fresh, old, slot, n
    <2>12. Kept'
      BY <2>6, <2>7 DEF slot, FileInv, Kept, SlotOf
    <2>13. FilesKept'
      <3> SUFFICES ASSUME NEW m \in Numbers, files'[m] # "absent"
                   PROVE  receipts'[SlotOf(m)].number = m
        BY <1>0 DEF FilesKept, SlotOf
      <3>1. files[m] # "absent" /\ m # old
        BY <2>11, <2>17
      <3>2. receipts[SlotOf(m)].number = m
        BY <3>1 DEF FileInv, FilesKept
      <3>3. SlotOf(m) # slot
        BY <3>1, <3>2 DEF old, Numbers
      <3> QED BY <2>6, <2>8, <3>2, <3>3
    <2>14. files[n] = "absent"
      BY <2>4, <2>5, <2>8 DEF FileInv, FilesKept
    <2>15. Written'
      <3>1. files'[n] = "absent"
        BY <2>4, <2>11, <2>14
      <3>2. \A m \in Numbers : files'[m] # "partial"
        BY <2>9, <2>11 DEF FileInv, Written
      <3> QED BY <1>0, <2>1, <2>9, <3>1, <3>2 DEF Written
    <2>16. \A s \in Slot : Tells(receipts[s])'
      <3> TAKE s \in Slot
      <3>1. CASE s = slot
        BY <2>1, <2>3, <2>6, <2>7, <3>1 DEF Tells, n
      <3>2. CASE s # slot
        <4>1. Tells(receipts[s]) /\ receipts'[s] = receipts[s]
          BY <2>6, <2>9, <3>2 DEF FileInv
        <4>2. receipts[s].number # 0 => files'[receipts[s].number] = files[receipts[s].number]
          BY <2>2, <2>3, <2>10, <3>2
        <4>3. receipts[s].status # "pending"
          BY <1>2, <4>1 DEF Tells
        <4>4. receipts[s].number = 0 => receipts[s].status = "none"
          BY <4>1 DEF Tells
        <4> QED BY <4>1, <4>2, <4>3, <4>4 DEF Tells
      <3> QED BY <3>1, <3>2
    <2> QED BY <2>12, <2>13, <2>15, <2>16 DEF FileInv
  <1> QED BY <1>1, <1>2

\* The thread works on the file of the active capture and on no other.
LEMMA WorkerFiles ==
    ASSUME TypeInv, OwnInv, FileInv, Worker
    PROVE  FileInv'
  <1>0. /\ receipts \in [Slot -> ReceiptsOf(born, commits, sequence)] /\ ActiveSlot \in Slot
        /\ files \in [Numbers -> {"absent", "partial", "whole"}]
    BY Known DEF TypeInv, LinkTyped, LoopTyped
  <1>1. worker # "none" /\ UNCHANGED <<place, active>> /\ ActiveSlot' = ActiveSlot
    BY DEF Worker, WorkerOpen, WorkerWrite, WorkerReport, WorkerTell, ThreadUnchanged, loopVars, captureVars,
           ActiveSlot, SlotOf
  <1>2. active # 0 /\ active \in Numbers /\ place # "gone" /\ receipts[ActiveSlot].number = active
    BY <1>1, Known DEF OwnInv
  <1>3. CASE WorkerOpen \/ WorkerWrite
    <2>1. /\ UNCHANGED receipts /\ worker \in {"open", "write"} /\ worker' \in {"write", "report"}
          /\ worker' = "write" <=> worker = "open"
      BY <1>3 DEF WorkerOpen, WorkerWrite, ThreadUnchanged, captureVars
    <2>2. \A n \in Numbers : n # active => files'[n] = files[n]
      BY <1>0, <1>3 DEF WorkerOpen, WorkerWrite, WrittenOrUnlinked
    <2>3. receipts[ActiveSlot].status = "pending"
      BY <2>1 DEF OwnInv
    <2>4. Kept'
      BY <2>1 DEF FileInv, Kept, SlotOf
    <2>5. FilesKept'
      BY <1>1, <1>2, <2>1, <2>2 DEF FileInv, FilesKept, ActiveSlot, SlotOf
    <2>6. Written'
      <3>1. CASE WorkerOpen
        <4>1. files[active] = "absent"
          BY <1>2, <3>1 DEF FileInv, Written, WorkerOpen
        <4>2. files'[active] \in {"absent", "partial"}
          BY <1>0, <1>2, <3>1, <4>1 DEF WorkerOpen
        <4>3. \A n \in Numbers : n # active => files'[n] # "partial"
          BY <2>2, <3>1 DEF FileInv, Written, WorkerOpen
        <4>4. worker' = "write"
          BY <3>1 DEF WorkerOpen
        <4> QED BY <1>1, <4>2, <4>3, <4>4 DEF Written
      <3>2. CASE WorkerWrite
        <4>1. worker' = "report" /\ worker = "write"
          BY <3>2 DEF WorkerWrite
        <4>2. PICK ok \in BOOLEAN : success' = ok /\ WrittenOrUnlinked(ok)
          BY <3>2 DEF WorkerWrite
        <4>3. files'[active] = IF success' THEN "whole" ELSE "absent"
          BY <1>0, <1>2, <4>2 DEF WrittenOrUnlinked
        <4>4. \A n \in Numbers : n # active => files'[n] # "partial"
          BY <2>2 DEF FileInv, Written
        <4>5. files'[active] # "partial"
          BY <4>3
        <4> QED BY <1>1, <4>1, <4>3, <4>4, <4>5 DEF Written
      <3> QED BY <1>3, <3>1, <3>2
    <2>7. \A s \in Slot : Tells(receipts[s])'
      <3> TAKE s \in Slot
      <3>1. Tells(receipts[s])
        BY <1>2 DEF FileInv
      <3>2. CASE s = ActiveSlot
        BY <1>1, <1>2, <2>1, <2>3, <3>2 DEF Tells
      <3>3. CASE s # ActiveSlot
        <4>1. receipts[s].number # active /\ receipts[s].number \in 0..sequence
          BY <1>0, <1>2, <3>3, OtherSlots DEF ReceiptsOf
        <4>2. receipts[s].number # 0 => files'[receipts[s].number] = files[receipts[s].number]
          <5>1. \A k \in 0..sequence : k # 0 => k \in Numbers
            BY Widths DEF TypeInv, LoopTyped, Numbers
          <5> QED BY <2>2, <4>1, <5>1
        <4> QED BY <1>1, <2>1, <3>1, <4>2 DEF Tells
      <3> QED BY <3>2, <3>3
    <2> QED BY <2>4, <2>5, <2>6, <2>7 DEF FileInv
  <1>4. CASE WorkerReport
    <2>1. /\ worker = "report" /\ worker' = "tell" /\ UNCHANGED files
          /\ receipts' = [receipts EXCEPT ![ActiveSlot].status = IF success THEN "finished" ELSE "failed"]
      BY <1>4 DEF WorkerReport
    <2>2. /\ receipts'[ActiveSlot].number = active
          /\ receipts'[ActiveSlot].status = IF success THEN "finished" ELSE "failed"
          /\ \A s \in Slot : s # ActiveSlot => receipts'[s] = receipts[s]
      BY <1>0, <1>2, <2>1 DEF ReceiptsOf
    <2>3. \A s \in Slot : receipts'[s].number = receipts[s].number
      BY <1>2, <2>2
    <2>4. Kept'
      BY <2>3 DEF FileInv, Kept, SlotOf
    <2>5. FilesKept'
      <3>1. \A n \in Numbers : SlotOf(n) \in Slot
        BY SlotOfIsSlot DEF Numbers
      <3> QED BY <1>1, <2>1, <2>3, <3>1 DEF FileInv, FilesKept, SlotOf
    <2>6. Written'
      BY <1>1, <2>1, <2>2 DEF FileInv, Written
    <2>7. \A s \in Slot : Tells(receipts[s])'
      <3> TAKE s \in Slot
      <3>1. CASE s = ActiveSlot
        <4>1. files[active] = IF success THEN "whole" ELSE "absent"
          BY <2>1 DEF FileInv, Written
        <4> QED BY <1>1, <1>2, <2>1, <2>2, <3>1, <4>1 DEF Tells
      <3>2. CASE s # ActiveSlot
        <4>1. Tells(receipts[s]) /\ receipts'[s] = receipts[s]
          BY <1>2, <2>2, <3>2 DEF FileInv
        <4> QED BY <1>1, <2>1, <4>1 DEF Tells
      <3> QED BY <3>1, <3>2
    <2> QED BY <2>4, <2>5, <2>6, <2>7 DEF FileInv
  <1>5. CASE WorkerTell
    <2>1. UNCHANGED <<receipts, success, files>> /\ worker \in {"tell", "signal"} /\ worker' \in {"signal", "ended"}
      BY <1>5 DEF WorkerTell, ThreadUnchanged, captureVars
    <2>2. Written'
      BY <1>1, <2>1 DEF FileInv, Written
    <2> QED BY <1>1, <2>1, <2>2 DEF FileInv, Kept, FilesKept, Tells, SlotOf
  <1> QED BY <1>3, <1>4, <1>5 DEF Worker

LEMMA CloseFiles ==
    ASSUME TypeInv, OwnInv, FileInv, Close
    PROVE  FileInv'
  <1>1. UNCHANGED receipts /\ place' = "gone" /\ active' = 0 /\ worker' = "none" /\ place # "gone"
    BY DEF Close, Join, Cleanup, GoTo, OwnInv, TypeInv, LoopTyped, WorkerSteps
  <1>2. files' = [n \in Numbers |-> IF \E s \in DOMAIN receipts : receipts[s].number = n THEN "absent" ELSE files[n]]
    BY DEF Close
  <1>3. \A n \in Numbers : files'[n] = "absent"
    <2>1. \A n \in Numbers : SlotOf(n) \in DOMAIN receipts
      BY SlotOfIsSlot DEF Numbers, TypeInv, LinkTyped
    <2> QED BY <1>2, <2>1 DEF FileInv, FilesKept
  <1> QED BY <1>1, <1>3 DEF FileInv, Kept, FilesKept, Written, SlotOf

LEMMA FileNext ==
    ASSUME TypeInv, OwnInv, InFlight, FileInv, [Next]_vars
    PROVE  FileInv'
  <1>1. CASE Drain \/ Poll \/ PollClient \/ DispatchDone \/ EndTurn
    BY <1>1, FilesUntouched DEF Drain, Poll, PollClient, DispatchDone, EndTurn, GoTo, captureVars, sharedVars
  <1>2. CASE Check
    <2>1. UNCHANGED <<place, success, files>>
      BY <1>2 DEF Check
    <2>2. CASE Join
      BY <2>1, <2>2, JoinFiles
    <2>3. CASE deadline = "late" /\ Fail /\ UNCHANGED <<workerRunning, worker>>
      <3>1. worker = "none" /\ active # 0
        BY <2>3 DEF OwnInv
      <3> QED BY <2>1, <2>3, <3>1, FailFiles
    <2>4. CASE UNCHANGED <<receipts, active, worker>>
      BY <2>1, <2>4, FilesUntouched
    <2> QED BY <1>2, <2>2, <2>3, <2>4 DEF Check
  <1>3. CASE BufferEvent \/ FailedEvent
    <2>1. UNCHANGED <<place, success, files, worker>>
      BY <1>3 DEF BufferEvent, FailedEvent, loopVars, sharedVars
    <2>2. CASE UNCHANGED <<receipts, active>>
      BY <2>1, <2>2, FilesUntouched
    <2>3. CASE Fail
      <3>1. Head(events) \in EventsOf(born, commits, sequence) /\ Head(events).kind \in {"buffer", "failed"}
        BY <1>3, TailTyped DEF BufferEvent, FailedEvent, Dispatches, TypeInv, LinkTyped
      <3>2. frame # 0
        BY <1>3, <3>1, Known DEF BufferEvent, FailedEvent, ForFrame, EventsOf
      <3>3. active # 0 /\ worker = "none"
        BY <3>2, Known DEF OwnInv
      <3> QED BY <2>1, <2>3, <3>3, FailFiles
    <2> QED BY <1>3, <2>2, <2>3 DEF BufferEvent, FailedEvent
  <1>4. CASE StaleEvent \/ ContentEvent \/ GetChanges \/ TakeCapture \/ TakeCopy \/ TakeRender \/ Commit \/ Drawn
    <2>1. UNCHANGED <<loopVars, captureVars, sharedVars>>
      BY <1>4 DEF StaleEvent, ContentEvent, GetChanges, TakeCapture, TakeCopy, TakeRender, Commit, Drawn,
                  HostUnchanged
    <2> QED BY <2>1, FilesUntouched DEF loopVars, captureVars, sharedVars
  <1>5. CASE CallSubmit \/ CallGet \/ Get
    BY <1>5, FilesUntouched DEF CallSubmit, CallGet, Call, Get, Answered, captureVars, sharedVars
  <1>6. CASE Late
    BY <1>6, FilesUntouched DEF Late, loopVars, sharedVars
  <1>7. CASE UNCHANGED vars
    BY <1>7, FilesUntouched DEF vars, loopVars, captureVars, sharedVars
  <1> QED BY <1>1, <1>2, <1>3, <1>4, <1>5, <1>6, <1>7, ReadyFiles, SubmitFiles, WorkerFiles, CloseFiles
          DEF Next, Loop

\* A file is kept for as long as its receipt, says what the receipt says, and is
\* half written only under the thread.
THEOREM CaptureFiles == Spec => []FileInv
  <1>1. Init => FileInv
    <2> SUFFICES ASSUME Init PROVE FileInv
      OBVIOUS
    <2>1. \A s \in Slot : receipts[s] = NoReceipt
      BY DEF Init, Slot
    <2>2. \A s \in Slot : receipts[s].number = 0 /\ receipts[s].status = "none"
      BY <2>1 DEF NoReceipt
    <2>3. Kept /\ \A s \in Slot : Tells(receipts[s])
      BY <2>2 DEF Kept, Tells
    <2>4. FilesKept /\ Written
      BY DEF Init, FilesKept, Written
    <2> QED BY <2>3, <2>4 DEF FileInv
  <1>2. TypeInv /\ OwnInv /\ InFlight /\ FileInv /\ [Next]_vars => FileInv'
    BY FileNext
  <1> QED BY <1>1, <1>2, CaptureTypes, CaptureOwns, PTL DEF Spec

\* What a client reads of a receipt is true of its file, and no file outlives the
\* session (native/agentseat-capture.c, receipt_json, as_capture_start and
\* as_capture_destroy).
THEOREM FilesAreTold == Spec => []FilesMatchReceipts
  <1>1. TypeInv /\ OwnInv /\ FileInv => FilesMatchReceipts
    <2> SUFFICES ASSUME TypeInv, OwnInv, FileInv PROVE FilesMatchReceipts
      OBVIOUS
    <2>1. receipts \in [Slot -> ReceiptsOf(born, commits, sequence)]
      BY DEF TypeInv, LinkTyped
    <2>2. \A s \in DOMAIN receipts : s \in Slot /\ receipts[s].status \in {"none", "pending", "finished", "failed"}
      BY <2>1 DEF ReceiptsOf
    <2>3. CaptureTypeOK
      BY <2>2 DEF CaptureTypeOK, TypeInv, LoopTyped, ContentInv
    <2>4. \A n \in Numbers : files[n] # "absent" =>
            /\ place # "gone"
            /\ receipts[SlotOf(n)].number = n
            /\ files[n] = "partial" => workerRunning /\ active = n
      BY DEF FileInv, FilesKept, Written, OwnInv
    <2>5. ASSUME place # "gone", NEW s \in DOMAIN receipts
          PROVE  /\ Reported(s) = "finished" => files[receipts[s].number] = "whole"
                 /\ Reported(s) = "failed" => files[receipts[s].number] = "absent"
      <3>1. Tells(receipts[s])
        BY <2>2, <2>5 DEF FileInv
      <3>2. Reported(s) = "encoding" \/ Reported(s) = receipts[s].status
        BY DEF Reported
      <3> QED BY <3>1, <3>2 DEF Tells
    <2> QED BY <2>3, <2>4, <2>5 DEF FilesMatchReceipts
  <1> QED BY <1>1, CaptureTypes, CaptureOwns, CaptureFiles, PTL

----------------------------------------------------------------------------
(* Serials that wrap.                                                      *)

\* A serial keeps its slot when it wraps.
LEMMA SlotOfSerial == \A c \in Int : Serial(c) % History = c % History
  <1> TAKE c \in Int
  <1>0. Span \in Nat \ {0} /\ History \in Nat \ {0} /\ 2 * History \in Nat \ {0}
    BY Widths
  <1> DEFINE m == Span \div (2 * History)
             k == c \div Span
  <1>1. m \in Int /\ k \in Int /\ Serial(c) \in Int
    BY <1>0, Division DEF Serial
  <1>2. Span = (2 * History) * m
    <2> DEFINE w == 2 * History
    <2>1. w \in Nat \ {0} /\ Span \in Int /\ Span % w = 0
      BY <1>0, HistoryAssumption
    <2>2. Span = w * (Span \div w) + (Span % w) /\ Span \div w \in Int
      <3> HIDE DEF w
      <3> QED BY <2>1, Division
    <2>3. w * (Span \div w) \in Int
      BY <2>1, <2>2
    <2> QED BY <2>1, <2>2, <2>3 DEF m
  <1>3. c = Span * k + Serial(c)
    BY <1>0, Division DEF Serial
  <1> HIDE DEF m, k
  <1>4. c = Serial(c) + History * (2 * m * k)
    <2>1. ((2 * History) * m) * k = History * (2 * m * k)
      BY <1>0, <1>1
    <2> QED BY <1>0, <1>1, <1>2, <1>3, <2>1
  <1>5. 2 * m * k \in Int
    BY <1>1
  <1> QED BY <1>0, <1>1, <1>4, <1>5, SameRemainder

\* The difference of two serials is that of their commits, as long as no more
\* commits than there are serials lie between them.
LEMMA DifferenceOfSerials ==
    ASSUME NEW a \in Int, NEW b \in Int, a - b \in 0..(Span - 1)
    PROVE  Difference(Serial(a), Serial(b)) = a - b
  <1>0. Span \in Nat \ {0}
    BY Widths
  <1> DEFINE p == a \div Span
             q == b \div Span
  <1>1. /\ p \in Int /\ q \in Int /\ Serial(a) \in Int /\ Serial(b) \in Int
        /\ a = Span * p + Serial(a) /\ b = Span * q + Serial(b)
    BY <1>0, Division DEF Serial
  <1> HIDE DEF p, q
  <1> DEFINE x == Span * p
             y == Span * q
             z == Span * (p - q)
  <1>2. z = x - y /\ x \in Int /\ y \in Int /\ p - q \in Int
    BY <1>0, <1>1, TimesMinus
  <1>3. a - b = (Serial(a) - Serial(b)) + z
    <2>1. a = x + Serial(a) /\ b = y + Serial(b)
      BY <1>1
    <2> HIDE DEF x, y, z
    <2> QED BY <1>1, <1>2, <2>1
  <1>4. (a - b) % Span = (Serial(a) - Serial(b)) % Span
    <2>1. a - b \in Int /\ Serial(a) - Serial(b) \in Int
      BY <1>1
    <2> QED BY <1>0, <1>2, <1>3, <2>1, SameRemainder
  <1>5. (a - b) % Span = a - b
    BY <1>0, SmallRemainder
  <1> QED BY <1>4, <1>5 DEF Difference

\* The serial of the commit x after c.
LEMMA SerialPlus ==
    ASSUME NEW c \in Int, NEW x \in Int
    PROVE  (Serial(c) + x) % Span = Serial(c + x)
  <1>0. Span \in Nat \ {0}
    BY Widths
  <1> DEFINE k == c \div Span
  <1>1. k \in Int /\ Serial(c) \in Int /\ c = Span * k + Serial(c)
    BY <1>0, Division DEF Serial
  <1> HIDE DEF k
  <1>2. c + x = (Serial(c) + x) + Span * k /\ c + x \in Int /\ Serial(c) + x \in Int
    BY <1>0, <1>1
  <1>3. (c + x) % Span = (Serial(c) + x) % Span
    BY <1>0, <1>1, <1>2, SameRemainder
  <1> QED BY <1>3 DEF Serial

\* Half of the serials are more than the commits that are ever apart.
LEMMA HalfSpan ==
    /\ Span \div 2 \in Int /\ MaxCommits + 1 <= Span \div 2 /\ Span \div 2 <= Span - 1
    /\ MaxCommits \in Nat
  <1>1. Span \div 2 \in Int /\ Span = 2 * (Span \div 2) + (Span % 2) /\ Span % 2 \in 0..1
    BY Widths, Division
  <1>2. MaxCommits \in 0..(Span \div 2 - 1)
    BY HistoryAssumption
  <1>3. Span \div 2 >= 1
    BY <1>1, <1>2
  <1> QED BY <1>1, <1>2, <1>3

\* A client that asks with the serial of commit k is told of every commit since,
\* or of a gap.
LEMMA AnswerComplete ==
    ASSUME TypeInv, RingInv, NEW k \in born..reported
    PROVE  Gap(Serial(k)) \/ (k + 1)..reported \subseteq Listed(Serial(k))
  <1>0. /\ born \in Nat /\ reported \in born..commits /\ commits \in born..(born + MaxCommits)
        /\ k \in Int /\ reported \in Int /\ Span \in Nat \ {0} /\ History \in Nat \ {0}
    BY Widths DEF TypeInv, ContentInv, ContentTypeOK
  <1> DEFINE d == reported - k
  <1>1. d \in Int /\ d \in 0..MaxCommits /\ d \in 0..(Span - 1)
    BY <1>0, HalfSpan
  <1>2. latest = Serial(reported) /\ Difference(latest, Serial(k)) = d
    BY <1>0, <1>1, DifferenceOfSerials DEF RingInv
  <1>3. CASE d = 0
    <2>1. (k + 1)..reported = {}
      BY <1>0, <1>3
    <2> QED BY <2>1
  <1>4. CASE d > History
    <2>1. IsAhead(Serial(k))
      BY <1>0, <1>1, <1>2, <1>4, HalfSpan DEF IsAhead
    <2> QED BY <1>2, <1>4, <2>1 DEF Gap
  <1>5. CASE d > 0 /\ d <= History
    <2>1. IsAhead(Serial(k))
      BY <1>1, <1>2, <1>5, HalfSpan DEF IsAhead
    <2>2. OldestAsked(Serial(k)) = Serial(k + 1)
      <3>1. OldestAsked(Serial(k)) = (Serial(k) + 1) % Span
        BY <1>0, <1>1, <1>2, <1>5 DEF OldestAsked
      <3> QED BY <1>0, <3>1, SerialPlus
    <2>3. reported - (k + 1) \in 0..(Span - 1) /\ reported - (k + 1) = d - 1 /\ k + 1 \in Int
      BY <1>0, <1>1, <1>5
    <2>4. Difference(latest, OldestAsked(Serial(k))) = d - 1
      BY <1>0, <1>2, <2>2, <2>3, DifferenceOfSerials
    <2>5. ASSUME NEW c \in (k + 1)..reported
          PROVE  c \in Listed(Serial(k))
      <3>1. c \in Int /\ c - (k + 1) \in 0..(d - 1) /\ c - (k + 1) \in Int /\ c = (k + 1) + (c - (k + 1))
        BY <1>0, <1>1, <2>5
      <3>2. Serial(c) = (OldestAsked(Serial(k)) + (c - (k + 1))) % Span
        BY <2>2, <2>3, <3>1, SerialPlus
      <3>3. Serial(c) \in Asked(Serial(k))
        BY <2>1, <2>4, <3>1, <3>2 DEF Asked
      <3>4. c \in (born + 1)..reported /\ reported - c < History
        BY <1>0, <1>1, <1>5, <2>5
      <3>5. ring[c % History] = [serial |-> Serial(c), commit |-> c]
        BY <3>4 DEF RingInv
      <3>6. ring[Serial(c) % History] = [serial |-> Serial(c), commit |-> c]
        BY <3>1, <3>5, SlotOfSerial
      <3>7. Holds(Serial(c)) /\ ring[Serial(c) % History].commit = c
        BY <3>6 DEF Holds
      <3> QED BY <3>3, <3>7 DEF Listed
    <2> QED BY <2>5
  <1> QED BY <1>0, <1>1, <1>3, <1>4, <1>5

----------------------------------------------------------------------------
(* Reports of changes arrive in the order of their commits.                *)

LEMMA ReportsTail ==
    ASSUME NEW S, NEW q \in Seq(S), q # <<>>, NEW lo, NEW hi, Reports(q, lo, hi),
           Head(q).kind # "content"
    PROVE  Reports(Tail(q), lo, hi)
  <1>1. /\ 1 \in 1..Len(q) /\ Head(q) = q[1]
        /\ \A i \in 1..Len(Tail(q)) : i + 1 \in 1..Len(q) /\ Tail(q)[i] = q[i + 1]
    BY TailIndex
  <1>2. \A i \in 1..Len(Tail(q)) : Tail(q)[i].kind = "content" => Tail(q)[i].commit \in (lo + 1)..hi
    BY <1>1 DEF Reports
  <1>3. ASSUME NEW c \in (lo + 1)..hi
        PROVE  \E i \in 1..Len(Tail(q)) : Tail(q)[i].kind = "content" /\ Tail(q)[i].commit = c
    <2>1. PICK i \in 1..Len(q) : q[i].kind = "content" /\ q[i].commit = c
      BY DEF Reports
    <2>2. i # 1
      BY <1>1, <2>1
    <2>3. i - 1 \in 1..Len(Tail(q)) /\ Tail(q)[i - 1] = q[i]
      BY <2>2
    <2> QED BY <2>1, <2>3
  <1>4. ASSUME NEW i \in 1..Len(Tail(q)), NEW j \in 1..Len(Tail(q)), i < j,
               Tail(q)[i].kind = "content", Tail(q)[j].kind = "content"
        PROVE  Tail(q)[i].commit < Tail(q)[j].commit
    <2>1. i + 1 < j + 1 /\ i + 1 \in 1..Len(q) /\ j + 1 \in 1..Len(q)
      BY <1>1, <1>4
    <2>2. Tail(q)[i] = q[i + 1] /\ Tail(q)[j] = q[j + 1]
      BY <1>1
    <2> QED BY <1>4, <2>1, <2>2 DEF Reports
  <1> QED BY <1>2, <1>3, <1>4 DEF Reports

LEMMA ReportsHead ==
    ASSUME NEW S, NEW q \in Seq(S), q # <<>>, NEW lo \in Int, NEW hi \in Int, Reports(q, lo, hi),
           Head(q).kind = "content"
    PROVE  Head(q).commit = lo + 1 /\ lo + 1 <= hi /\ Reports(Tail(q), lo + 1, hi)
  <1>1. /\ 1 \in 1..Len(q) /\ Head(q) = q[1]
        /\ \A i \in 1..Len(Tail(q)) : i + 1 \in 1..Len(q) /\ Tail(q)[i] = q[i + 1]
    BY TailIndex
  <1>2. q[1].commit \in (lo + 1)..hi
    BY <1>1 DEF Reports
  <1>3. lo + 1 \in (lo + 1)..hi
    BY <1>2
  <1>4. PICK i \in 1..Len(q) : q[i].kind = "content" /\ q[i].commit = lo + 1
    BY <1>3 DEF Reports
  <1>5. i = 1
    <2>1. CASE 1 < i
      <3>1. q[1].commit < q[i].commit
        BY <1>1, <1>4, <2>1 DEF Reports
      <3> QED BY <1>2, <1>4, <3>1
    <2> QED BY <2>1
  <1>6. \A j \in 1..Len(Tail(q)) : Tail(q)[j].kind = "content" => Tail(q)[j].commit \in (lo + 1 + 1)..hi
    <2> SUFFICES ASSUME NEW j \in 1..Len(Tail(q)), Tail(q)[j].kind = "content"
                 PROVE  Tail(q)[j].commit \in (lo + 1 + 1)..hi
      OBVIOUS
    <2>1. j + 1 \in 1..Len(q) /\ 1 < j + 1 /\ Tail(q)[j] = q[j + 1]
      BY <1>1
    <2>2. q[1].commit < q[j + 1].commit /\ q[j + 1].commit \in (lo + 1)..hi
      BY <1>1, <2>1 DEF Reports
    <2> QED BY <1>4, <1>5, <2>1, <2>2
  <1>7. ASSUME NEW c \in (lo + 1 + 1)..hi
        PROVE  \E j \in 1..Len(Tail(q)) : Tail(q)[j].kind = "content" /\ Tail(q)[j].commit = c
    <2>1. c \in (lo + 1)..hi /\ c # lo + 1
      OBVIOUS
    <2>2. PICK j \in 1..Len(q) : q[j].kind = "content" /\ q[j].commit = c
      BY <2>1 DEF Reports
    <2>3. j # 1
      BY <1>4, <1>5, <2>1, <2>2
    <2>4. j - 1 \in 1..Len(Tail(q)) /\ Tail(q)[j - 1] = q[j]
      BY <2>3
    <2> QED BY <2>2, <2>4
  <1>8. ASSUME NEW m \in 1..Len(Tail(q)), NEW j \in 1..Len(Tail(q)), m < j,
               Tail(q)[m].kind = "content", Tail(q)[j].kind = "content"
        PROVE  Tail(q)[m].commit < Tail(q)[j].commit
    <2>1. m + 1 < j + 1 /\ m + 1 \in 1..Len(q) /\ j + 1 \in 1..Len(q)
      BY <1>1, <1>8
    <2>2. Tail(q)[m] = q[m + 1] /\ Tail(q)[j] = q[j + 1]
      BY <1>1
    <2> QED BY <1>8, <2>1, <2>2 DEF Reports
  <1>9. Reports(Tail(q), lo + 1, hi)
    BY <1>6, <1>7, <1>8 DEF Reports
  <1>10. Head(q).commit = lo + 1
    BY <1>1, <1>4, <1>5
  <1>11. lo + 1 <= hi
    BY <1>3
  <1> QED BY <1>9, <1>10, <1>11

LEMMA AppendIndex ==
    ASSUME NEW S, NEW q \in Seq(S), NEW m
    PROVE  /\ Len(Append(q, m)) = Len(q) + 1 /\ Len(q) \in Nat
           /\ Append(q, m)[Len(q) + 1] = m
           /\ \A i \in 1..Len(q) : Append(q, m)[i] = q[i]
           /\ \A i \in 1..(Len(q) + 1) : i \in 1..Len(q) \/ i = Len(q) + 1
           /\ \A i \in 1..Len(q) : i \in 1..(Len(q) + 1) /\ i < Len(q) + 1 /\ ~(Len(q) + 1 < i)
  OBVIOUS

LEMMA ReportsSkip ==
    ASSUME NEW S, NEW q \in Seq(S), NEW lo, NEW hi, Reports(q, lo, hi), NEW m, m.kind # "content"
    PROVE  Reports(Append(q, m), lo, hi)
  <1> DEFINE r == Append(q, m)
             n == Len(q) + 1
  <1>1. /\ Len(r) = n /\ r[n] = m /\ \A i \in 1..Len(q) : r[i] = q[i] /\ i \in 1..n
        /\ \A i \in 1..n : i \in 1..Len(q) \/ i = n
    BY AppendIndex
  <1> HIDE DEF r, n
  <1>2. \A i \in 1..Len(r) : r[i].kind = "content" => i \in 1..Len(q) /\ r[i] = q[i]
    BY <1>1
  <1>3. \A c \in (lo + 1)..hi : \E i \in 1..Len(r) : r[i].kind = "content" /\ r[i].commit = c
    BY <1>1 DEF Reports
  <1>4. Reports(r, lo, hi)
    BY <1>2, <1>3 DEF Reports
  <1> QED BY <1>4 DEF r

LEMMA ReportsAppend ==
    ASSUME NEW S, NEW q \in Seq(S), NEW lo \in Int, NEW hi \in Int, lo <= hi, Reports(q, lo, hi),
           NEW m, m.kind = "content", m.commit = hi + 1
    PROVE  Reports(Append(q, m), lo, hi + 1)
  <1> DEFINE r == Append(q, m)
             n == Len(q) + 1
  <1>1. /\ Len(r) = n /\ r[n] = m /\ \A i \in 1..Len(q) : r[i] = q[i] /\ i \in 1..n /\ i < n /\ ~(n < i)
        /\ \A i \in 1..n : i \in 1..Len(q) \/ i = n
        /\ n \in 1..n /\ n \in Nat
    BY AppendIndex
  <1> HIDE DEF r, n
  <1>2. \A i \in 1..Len(r) : r[i].kind = "content" => r[i].commit \in (lo + 1)..(hi + 1)
    <2>1. \A c \in (lo + 1)..hi : c \in (lo + 1)..(hi + 1)
      OBVIOUS
    <2>2. hi + 1 \in (lo + 1)..(hi + 1)
      OBVIOUS
    <2> QED BY <1>1, <2>1, <2>2 DEF Reports
  <1>3. \A c \in (lo + 1)..(hi + 1) : \E i \in 1..Len(r) : r[i].kind = "content" /\ r[i].commit = c
    <2>1. \A c \in (lo + 1)..(hi + 1) : c \in (lo + 1)..hi \/ c = hi + 1
      OBVIOUS
    <2> QED BY <1>1, <2>1 DEF Reports
  <1>4. ASSUME NEW i \in 1..Len(r), NEW j \in 1..Len(r), i < j, r[i].kind = "content", r[j].kind = "content"
        PROVE  r[i].commit < r[j].commit
    <2>1. i \in 1..Len(q)
      BY <1>1, <1>4
    <2>2. CASE j \in 1..Len(q)
      BY <1>1, <1>4, <2>1, <2>2 DEF Reports
    <2>3. CASE j = n
      <3>1. r[i].commit \in (lo + 1)..hi
        BY <1>1, <1>4, <2>1 DEF Reports
      <3> QED BY <1>1, <2>3, <3>1
    <2> QED BY <1>1, <2>2, <2>3
  <1>5. Reports(r, lo, hi + 1)
    BY <1>2, <1>3, <1>4 DEF Reports
  <1> QED BY <1>5 DEF r

----------------------------------------------------------------------------
(* The ring, and what was reported.                                        *)

ReadyMessage == [kind |-> "ready", number |-> copying, commit |-> commits']
ChangeMessage == [kind |-> "content", number |-> 0, commit |-> commits']
AfterReady == IF copying = 0 THEN events ELSE Append(events, ReadyMessage)

LEMMA RenderAppends ==
    ASSUME TypeInv, Render
    PROVE  /\ AfterReady \in Seq(EventsOf(born, commits, sequence) \cup {ReadyMessage})
           /\ events' = IF dirty THEN Append(AfterReady, ChangeMessage) ELSE AfterReady
  <1>0. events \in Seq(EventsOf(born, commits, sequence))
    BY DEF TypeInv, LinkTyped
  <1>1. AfterReady \in Seq(EventsOf(born, commits, sequence) \cup {ReadyMessage})
    BY <1>0 DEF AfterReady
  <1>2. events' = events \o (IF copying = 0 THEN <<>> ELSE <<ReadyMessage>>)
                         \o (IF dirty THEN <<ChangeMessage>> ELSE <<>>)
    BY DEF Render, ReadyMessage, ChangeMessage
  <1>3. events \o (IF copying = 0 THEN <<>> ELSE <<ReadyMessage>>) = AfterReady
    BY <1>0 DEF AfterReady
  <1>4. AfterReady \o <<>> = AfterReady /\ AfterReady \o <<ChangeMessage>> = Append(AfterReady, ChangeMessage)
    BY <1>1
  <1>5. events' = AfterReady \o (IF dirty THEN <<ChangeMessage>> ELSE <<>>)
    BY <1>2, <1>3
  <1> QED BY <1>1, <1>4, <1>5

LEMMA RingRender ==
    ASSUME TypeInv, RingInv, Render
    PROVE  RingInv'
  <1>0. /\ reported \in Int /\ commits \in Int /\ born \in Int /\ reported <= commits
    BY Widths DEF TypeInv, ContentInv, ContentTypeOK
  <1>1. UNCHANGED <<born, latest, ring, reported>> /\ commits' = IF dirty THEN commits + 1 ELSE commits
    BY DEF Render, Rendered
  <1>2. Reports(events, reported, commits) /\ events \in Seq(EventsOf(born, commits, sequence))
    BY DEF RingInv, TypeInv, LinkTyped
  <1>3. Reports(AfterReady, reported, commits)
    BY <1>2, ReportsSkip DEF AfterReady, ReadyMessage
  <1>4. Reports(events', reported, commits')
    <2>1. CASE dirty
      <3>1. commits' = commits + 1 /\ events' = Append(AfterReady, ChangeMessage)
        BY <1>1, <2>1, RenderAppends
      <3>2. ChangeMessage.kind = "content" /\ ChangeMessage.commit = commits + 1
        BY <3>1 DEF ChangeMessage
      <3> QED BY <1>0, <1>3, <3>1, <3>2, RenderAppends, ReportsAppend
    <2>2. CASE ~dirty
      BY <1>1, <1>3, <2>2, RenderAppends
    <2> QED BY <2>1, <2>2
  <1> QED BY <1>1, <1>4 DEF RingInv, Serial

LEMMA RingContent ==
    ASSUME TypeInv, RingInv, ContentEvent
    PROVE  RingInv' /\ reported' = reported + 1
  <1>0. /\ reported \in Int /\ commits \in Int /\ born \in Int /\ reported <= commits
        /\ events \in Seq(EventsOf(born, commits, sequence)) /\ events # <<>>
        /\ Head(events).kind = "content" /\ events' = Tail(events)
    BY Widths DEF TypeInv, ContentInv, ContentTypeOK, LinkTyped, ContentEvent, Dispatches
  <1> DEFINE c == Head(events).commit
  <1>1. /\ c = reported + 1 /\ Reports(events', reported + 1, commits)
    BY <1>0, ReportsHead DEF RingInv
  <1>2. /\ latest' = Serial(c) /\ reported' = c /\ UNCHANGED <<born, commits>>
        /\ ring' = [ring EXCEPT ![Serial(c) % History] = [serial |-> Serial(c), commit |-> c]]
    BY DEF ContentEvent, Content
  <1> HIDE DEF c
  <1>3. Serial(c) % History = c % History /\ c % History \in Slots /\ c \in Int
    BY <1>0, <1>1, SlotOfSerial, ModHistory
  <1>4. ring \in [Slots -> [serial : Serials, commit : (born + 1)..commits \cup {NoCommit}]]
    BY DEF TypeInv, ContentInv, ContentTypeOK
  <1>5. ASSUME NEW d \in (born + 1)..reported', reported' - d < History
        PROVE  ring'[d % History] = [serial |-> Serial(d), commit |-> d]
    <2>1. CASE d = c
      BY <1>2, <1>3, <1>4, <2>1
    <2>2. CASE d # c
      <3>1. d \in (born + 1)..reported /\ reported - d < History /\ d < c /\ c - d < History /\ d \in Int
        BY <1>0, <1>1, <1>2, <1>5, <2>2, Widths
      <3>2. ring[d % History] = [serial |-> Serial(d), commit |-> d]
        BY <3>1 DEF RingInv
      <3>3. d % History # c % History
        <4>1. ~(d + History <= c)
          BY <1>3, <3>1, Widths
        <4> QED BY <1>3, <3>1, <4>1, Widths, NearRemainder
      <3>4. ring'[d % History] = ring[d % History]
        BY <1>2, <1>3, <1>4, <3>1, <3>3, ModHistory
      <3> QED BY <3>2, <3>4
    <2> QED BY <2>1, <2>2
  <1>6. latest' = Serial(reported')
    BY <1>2
  <1>7. RingInv'
    BY <1>1, <1>2, <1>5, <1>6 DEF RingInv, Serial
  <1> QED BY <1>1, <1>2, <1>7

\* The other events say nothing of a change.
LEMMA RingOther ==
    ASSUME TypeInv, RingInv, UNCHANGED <<born, commits, latest, ring, reported>>,
           \/ UNCHANGED events
           \/ events # <<>> /\ Head(events).kind # "content" /\ events' = Tail(events)
           \/ \E m : m.kind # "content" /\ events' = Append(events, m)
    PROVE  RingInv'
  <1>1. Reports(events, reported, commits) /\ events \in Seq(EventsOf(born, commits, sequence))
    BY DEF RingInv, TypeInv, LinkTyped
  <1>2. Reports(events', reported, commits)
    <2>1. CASE UNCHANGED events
      BY <1>1, <2>1
    <2>2. CASE events # <<>> /\ Head(events).kind # "content" /\ events' = Tail(events)
      BY <1>1, <2>2, ReportsTail
    <2>3. CASE \E m : m.kind # "content" /\ events' = Append(events, m)
      BY <1>1, <2>3, ReportsSkip
    <2> QED BY <2>1, <2>2, <2>3
  <1> QED BY <1>2 DEF RingInv, Serial

LEMMA RingNext ==
    ASSUME TypeInv, RingInv, [Next]_vars
    PROVE  RingInv' /\ reported <= reported' /\ UNCHANGED born
  <1>0. reported \in Int
    BY Widths DEF TypeInv, ContentInv, ContentTypeOK
  <1>1. CASE ContentEvent
    BY <1>0, <1>1, RingContent DEF ContentEvent
  <1>2. CASE Render
    BY <1>0, <1>2, RingRender DEF Render
  <1>3. ASSUME UNCHANGED <<born, commits, latest, ring, reported, events>>
        PROVE  RingInv' /\ reported <= reported' /\ UNCHANGED born
    BY <1>0, <1>3, RingOther
  <1>4. CASE Drain \/ Check \/ Poll \/ PollClient \/ DispatchDone \/ EndTurn \/ Close
    BY <1>3, <1>4 DEF Drain, Check, Poll, PollClient, DispatchDone, EndTurn, Close, contentVars, linkVars
  <1>5. CASE CallSubmit \/ CallGet \/ Submit \/ Get \/ GetChanges
    BY <1>3, <1>5 DEF CallSubmit, CallGet, Call, Submit, Get, GetChanges, Changes, BeginWait, contentVars,
                      linkVars
  <1>6. CASE BufferEvent \/ ReadyEvent \/ FailedEvent \/ StaleEvent
    <2>1. UNCHANGED <<born, commits, latest, ring, reported>>
      BY <1>6 DEF BufferEvent, ReadyEvent, FailedEvent, StaleEvent, contentVars
    <2>2. events # <<>> /\ Head(events).kind # "content" /\ events' = Tail(events)
      BY <1>6 DEF BufferEvent, ReadyEvent, FailedEvent, StaleEvent, Dispatches
    <2> QED BY <1>0, <2>1, <2>2, RingOther
  <1>7. CASE Worker
    BY <1>3, <1>7 DEF Worker, WorkerOpen, WorkerWrite, WorkerReport, WorkerTell, ThreadUnchanged, contentVars,
                      linkVars
  <1>8. CASE TakeCapture
    <2>1. UNCHANGED <<born, commits, latest, ring, reported>>
      BY <1>8 DEF TakeCapture, contentVars
    <2>2. PICK kind \in {"buffer", "failed"} : events' = Append(events, Message(kind, Head(requests).number))
      BY <1>8 DEF TakeCapture
    <2>3. Message(kind, Head(requests).number).kind # "content"
      BY DEF Message
    <2> QED BY <1>0, <2>1, <2>2, <2>3, RingOther
  <1>9. CASE TakeCopy
    BY <1>3, <1>9 DEF TakeCopy, contentVars
  <1>10. CASE TakeRender \/ Commit
    <2>1. Render \/ UNCHANGED <<contentVars, events>>
      BY <1>10 DEF TakeRender, Commit
    <2> QED BY <1>2, <1>3, <2>1 DEF contentVars
  <1>11. CASE Drawn \/ Late \/ UNCHANGED vars
    BY <1>3, <1>11 DEF Drawn, Draw, Late, vars, contentVars, linkVars
  <1> QED BY <1>1, <1>4, <1>5, <1>6, <1>7, <1>8, <1>9, <1>10, <1>11 DEF Next, Loop

\* The daemon's serial is that of the last change reported to it, the reports on
\* their way are those of the commits since, and the ring holds the last ones.
THEOREM RingHolds == Spec => []RingInv
  <1>1. Init => RingInv
    <2> SUFFICES ASSUME Init PROVE RingInv
      OBVIOUS
    <2>1. born \in Nat /\ commits = born /\ reported = born /\ latest = Serial(born) /\ events = <<>>
      BY Widths DEF Init, InitContent
    <2>2. (born + 1)..born = {}
      BY <2>1
    <2> QED BY <2>1, <2>2 DEF RingInv, Reports
  <1>2. TypeInv /\ RingInv /\ [Next]_vars => RingInv'
    BY RingNext
  <1> QED BY <1>1, <1>2, CaptureTypes, PTL DEF Spec

----------------------------------------------------------------------------
(* What the serial of a receipt says of its picture.                       *)

\* A copy that becomes ready shows all that was committed before.
LEMMA ReadyOrigin ==
    ASSUME TypeInv, [Next]_vars
    PROVE  \A i \in 1..Len(events') : events'[i].kind = "ready" =>
                \/ \E j \in 1..Len(events) : events[j] = events'[i]
                \/ commits <= events'[i].commit
  <1>0. events \in Seq(EventsOf(born, commits, sequence)) /\ commits \in Int
    BY Known DEF TypeInv, LinkTyped
  <1>1. ASSUME UNCHANGED events PROVE \A i \in 1..Len(events') : \E j \in 1..Len(events) : events[j] = events'[i]
    BY <1>1
  <1>2. ASSUME events # <<>>, events' = Tail(events)
        PROVE  \A i \in 1..Len(events') : \E j \in 1..Len(events) : events[j] = events'[i]
    BY <1>0, <1>2, TailIndex
  <1>3. CASE Render
    <2>1. commits <= commits'
      BY <1>3, RenderTyped
    <2>2. \A i \in 1..Len(AfterReady) :
                \/ \E j \in 1..Len(events) : events[j] = AfterReady[i]
                \/ AfterReady[i] = ReadyMessage
      BY <1>0, AppendIndex DEF AfterReady
    <2>3. \A i \in 1..Len(events') : events'[i] = ChangeMessage \/
                (i \in 1..Len(AfterReady) /\ events'[i] = AfterReady[i])
      <3>1. CASE dirty
        BY <1>3, <3>1, RenderAppends, AppendIndex
      <3>2. CASE ~dirty
        BY <1>3, <3>2, RenderAppends
      <3> QED BY <3>1, <3>2
    <2>4. ChangeMessage.kind # "ready" /\ ReadyMessage.commit = commits'
      BY DEF ChangeMessage, ReadyMessage
    <2> QED BY <2>1, <2>2, <2>3, <2>4
  <1>4. CASE Drain \/ Check \/ Poll \/ PollClient \/ DispatchDone \/ EndTurn \/ Close
    BY <1>1, <1>4 DEF Drain, Check, Poll, PollClient, DispatchDone, EndTurn, Close, linkVars
  <1>5. CASE CallSubmit \/ CallGet \/ Submit \/ Get \/ GetChanges
    BY <1>1, <1>5 DEF CallSubmit, CallGet, Call, Submit, Get, GetChanges, linkVars
  <1>6. CASE BufferEvent \/ ReadyEvent \/ FailedEvent \/ StaleEvent \/ ContentEvent
    BY <1>2, <1>6 DEF BufferEvent, ReadyEvent, FailedEvent, StaleEvent, ContentEvent, Dispatches
  <1>7. CASE Worker
    BY <1>1, <1>7 DEF Worker, WorkerOpen, WorkerWrite, WorkerReport, WorkerTell, ThreadUnchanged, linkVars
  <1>8. CASE TakeCapture
    <2>1. PICK kind \in {"buffer", "failed"} : events' = Append(events, Message(kind, Head(requests).number))
      BY <1>8 DEF TakeCapture
    <2>2. Message(kind, Head(requests).number).kind # "ready"
      BY DEF Message
    <2>3. \A i \in 1..Len(events') : events'[i] = Message(kind, Head(requests).number) \/
                (i \in 1..Len(events) /\ events'[i] = events[i])
      BY <1>0, <2>1, AppendIndex
    <2> QED BY <2>2, <2>3
  <1>9. CASE TakeCopy \/ TakeRender \/ Commit \/ Drawn \/ Late \/ UNCHANGED vars
    <2>1. Render \/ UNCHANGED events
      BY <1>9 DEF TakeCopy, TakeRender, Commit, Drawn, Late, linkVars, vars
    <2> QED BY <1>1, <1>3, <2>1
  <1> QED BY <1>4, <1>5, <1>6, <1>7, <1>8, <1>9 DEF Next, Loop

\* What becomes of a receipt in a step.
LEMMA ReceiptSteps ==
    ASSUME TypeInv, OwnInv, [Next]_vars, NEW s \in Slot
    PROVE  \/ /\ receipts'[s].number = receipts[s].number
              /\ receipts'[s].serial = receipts[s].serial
              /\ receipts'[s].picture = receipts[s].picture
              /\ receipts'[s].status # "finished" \/ receipts[s].status = "finished"
                    \/ (worker # "none" /\ s = ActiveSlot)
           \/ /\ ReadyEvent
              /\ s = ActiveSlot /\ active # 0 /\ Head(events).number = active
              /\ receipts'[s].number = receipts[s].number
              /\ receipts'[s].serial = receipts[s].serial
              /\ receipts'[s].picture = Head(events).commit
           \/ /\ UNCHANGED events
              /\ receipts'[s] = [number |-> sequence + 1, status |-> "pending", serial |-> latest,
                                 picture |-> NoCommit]
  <1>0. receipts \in [Slot -> ReceiptsOf(born, commits, sequence)] /\ ActiveSlot \in Slot
    BY Known DEF TypeInv, LinkTyped
  <1> DEFINE same ==
              /\ receipts'[s].number = receipts[s].number
              /\ receipts'[s].serial = receipts[s].serial
              /\ receipts'[s].picture = receipts[s].picture
              /\ receipts'[s].status # "finished" \/ receipts[s].status = "finished"
                    \/ (worker # "none" /\ s = ActiveSlot)
  <1>1. CASE UNCHANGED receipts
    BY <1>1
  <1>2. CASE Fail
    <2>1. receipts' = [receipts EXCEPT ![ActiveSlot].status = "failed"]
      BY <1>2 DEF Fail
    <2>2. same
      BY <1>0, <2>1 DEF ReceiptsOf
    <2> QED BY <2>2
  <1>3. CASE WorkerReport
    <2>1. worker # "none"
      BY <1>3 DEF WorkerReport
    <2>2. PICK told \in {"finished", "failed"} : receipts' = [receipts EXCEPT ![ActiveSlot].status = told]
      BY <1>3 DEF WorkerReport
    <2>3. CASE s = ActiveSlot
      BY <1>0, <2>1, <2>2, <2>3 DEF ReceiptsOf
    <2>4. CASE s # ActiveSlot
      BY <1>0, <2>2, <2>4
    <2> QED BY <2>3, <2>4
  <1>4. CASE ReadyEvent
    <2> DEFINE shown == [receipts EXCEPT ![ActiveSlot].picture = Head(events).commit]
               lost == [shown EXCEPT ![ActiveSlot].status = "failed"]
    <2>1. receipts' = shown \/ receipts' = lost
      BY <1>4 DEF ReadyEvent
    <2>2. /\ shown[ActiveSlot].number = receipts[ActiveSlot].number
          /\ shown[ActiveSlot].serial = receipts[ActiveSlot].serial
          /\ shown[ActiveSlot].picture = Head(events).commit
          /\ lost[ActiveSlot].number = receipts[ActiveSlot].number
          /\ lost[ActiveSlot].serial = receipts[ActiveSlot].serial
          /\ lost[ActiveSlot].picture = Head(events).commit
          /\ s # ActiveSlot => shown[s] = receipts[s] /\ lost[s] = receipts[s]
      BY <1>0 DEF ReceiptsOf
    <2> HIDE DEF shown, lost
    <2>3. events # <<>> /\ Head(events).kind = "ready" /\ Head(events).number = frame
      BY <1>4 DEF ReadyEvent, Dispatches, ForFrame
    <2>4. Head(events) \in EventsOf(born, commits, sequence)
      BY <2>3, TailTyped DEF TypeInv, LinkTyped
    <2>5. frame # 0
      BY <2>3, <2>4, Known DEF EventsOf
    <2>6. active # 0 /\ Head(events).number = active
      BY <2>3, <2>5, Known DEF OwnInv
    <2>7. CASE s = ActiveSlot
      BY <1>4, <2>1, <2>2, <2>6, <2>7
    <2>8. CASE s # ActiveSlot
      BY <2>1, <2>2, <2>8
    <2> QED BY <2>7, <2>8
  <1>5. CASE Submit
    <2>1. CASE active # 0
      BY <1>1, <1>5, <2>1 DEF Submit
    <2>2. CASE active = 0
      <3> DEFINE fresh == [number |-> sequence + 1, status |-> "pending", serial |-> latest,
                           picture |-> NoCommit]
      <3>1. UNCHANGED events /\ receipts' = [receipts EXCEPT ![SlotOf(sequence + 1)] = fresh]
        BY <1>5, <2>2 DEF Submit
      <3>2. receipts'[s] = fresh \/ receipts'[s] = receipts[s]
        BY <1>0, <3>1
      <3> QED BY <3>1, <3>2
    <2> QED BY <2>1, <2>2
  <1>6. CASE Drain \/ Check \/ Poll \/ PollClient \/ DispatchDone \/ EndTurn \/ Close
    BY <1>1, <1>2, <1>6 DEF Drain, Check, Join, Poll, PollClient, DispatchDone, EndTurn, Close, captureVars
  <1>7. CASE CallSubmit \/ CallGet \/ Get \/ GetChanges
    BY <1>1, <1>7 DEF CallSubmit, CallGet, Call, Get, GetChanges, captureVars
  <1>8. CASE BufferEvent \/ FailedEvent \/ StaleEvent \/ ContentEvent
    BY <1>1, <1>2, <1>8 DEF BufferEvent, FailedEvent, StaleEvent, ContentEvent, captureVars
  <1>9. CASE WorkerOpen \/ WorkerWrite \/ WorkerTell
    BY <1>1, <1>9 DEF WorkerOpen, WorkerWrite, WorkerTell, ThreadUnchanged, captureVars
  <1>10. CASE TakeCapture \/ TakeCopy \/ TakeRender \/ Commit \/ Drawn \/ Late \/ UNCHANGED vars
    BY <1>1, <1>10 DEF TakeCapture, TakeCopy, TakeRender, Commit, Drawn, Late, HostUnchanged, captureVars, vars
  <1> QED BY <1>3, <1>4, <1>5, <1>6, <1>7, <1>8, <1>9, <1>10 DEF Next, Loop, Worker

\* A thread is started when a frame is ready, and keeps its capture until it is joined.
LEMMA ThreadSteps ==
    ASSUME TypeInv, OwnInv, [Next]_vars, worker' # "none"
    PROVE  \/ /\ worker # "none" /\ active' = active
              /\ receipts'[ActiveSlot].picture = receipts[ActiveSlot].picture
           \/ ReadyEvent /\ active' = active
  <1>0. receipts \in [Slot -> ReceiptsOf(born, commits, sequence)] /\ ActiveSlot \in Slot
    BY Known DEF TypeInv, LinkTyped
  <1> DEFINE kept == /\ worker # "none" /\ active' = active
                     /\ receipts'[ActiveSlot].picture = receipts[ActiveSlot].picture
  <1>1. ASSUME UNCHANGED <<receipts, active, worker>> PROVE kept
    BY <1>1
  <1>2. CASE Drain \/ Poll \/ PollClient \/ DispatchDone \/ EndTurn
    BY <1>1, <1>2 DEF Drain, Poll, PollClient, DispatchDone, EndTurn, captureVars, sharedVars
  <1>3. CASE Check
    <2>1. worker' = "none" \/ UNCHANGED <<receipts, active, worker>>
      BY <1>3 DEF Check, Join, OwnInv
    <2> QED BY <1>1, <2>1
  <1>4. CASE Close
    <2>1. worker' = "none"
      BY <1>4 DEF Close, Join, OwnInv
    <2> QED BY <2>1
  <1>5. CASE CallSubmit \/ CallGet \/ Get \/ GetChanges
    BY <1>1, <1>5 DEF CallSubmit, CallGet, Call, Get, GetChanges, captureVars, sharedVars
  <1>6. CASE BufferEvent \/ FailedEvent
    <2>1. events # <<>> /\ Head(events).kind \in {"buffer", "failed"} /\ Head(events).number = frame
      BY <1>6 DEF BufferEvent, FailedEvent, Dispatches, ForFrame
    <2>2. Head(events) \in EventsOf(born, commits, sequence)
      BY <2>1, TailTyped DEF TypeInv, LinkTyped
    <2>3. frame # 0
      BY <2>1, <2>2, Known DEF EventsOf
    <2>4. worker = "none" /\ worker' = worker
      BY <1>6, <2>3 DEF OwnInv, BufferEvent, FailedEvent, sharedVars
    <2> QED BY <2>4
  <1>7. CASE StaleEvent \/ ContentEvent
    BY <1>1, <1>7 DEF StaleEvent, ContentEvent, captureVars, sharedVars
  <1>8. CASE ReadyEvent
    <2>1. \/ WorkerStarted /\ UNCHANGED active
          \/ UNCHANGED worker
      BY <1>8 DEF ReadyEvent
    <2>2. events # <<>> /\ Head(events).kind = "ready" /\ Head(events).number = frame
      BY <1>8 DEF ReadyEvent, Dispatches, ForFrame
    <2>3. Head(events) \in EventsOf(born, commits, sequence)
      BY <2>2, TailTyped DEF TypeInv, LinkTyped
    <2>4. frame # 0
      BY <2>2, <2>3, Known DEF EventsOf
    <2>5. worker = "none"
      BY <2>4 DEF OwnInv
    <2> QED BY <1>8, <2>1, <2>5
  <1>9. CASE Submit
    <2>1. UNCHANGED worker /\ (active # 0 => UNCHANGED <<receipts, active>>)
      BY <1>9 DEF Submit
    <2>2. active = 0 => worker = "none"
      BY DEF OwnInv
    <2> QED BY <1>1, <2>1, <2>2
  <1>10. CASE Worker
    <2>1. worker # "none" /\ UNCHANGED active
      BY <1>10 DEF Worker, WorkerOpen, WorkerWrite, WorkerReport, WorkerTell, ThreadUnchanged, captureVars
    <2>2. receipts'[ActiveSlot].picture = receipts[ActiveSlot].picture
      <3>1. CASE WorkerReport
        <4>1. PICK told \in {"finished", "failed"} : receipts' = [receipts EXCEPT ![ActiveSlot].status = told]
          BY <3>1 DEF WorkerReport
        <4> QED BY <1>0, <4>1 DEF ReceiptsOf
      <3>2. CASE WorkerOpen \/ WorkerWrite \/ WorkerTell
        BY <3>2 DEF WorkerOpen, WorkerWrite, WorkerTell, ThreadUnchanged, captureVars
      <3> QED BY <1>10, <3>1, <3>2 DEF Worker
    <2> QED BY <2>1, <2>2
  <1>11. CASE TakeCapture \/ TakeCopy \/ TakeRender \/ Commit \/ Drawn \/ Late \/ UNCHANGED vars
    BY <1>1, <1>11 DEF TakeCapture, TakeCopy, TakeRender, Commit, Drawn, Late, HostUnchanged, captureVars,
                       sharedVars, vars
  <1> QED BY <1>2, <1>3, <1>4, <1>5, <1>6, <1>7, <1>8, <1>9, <1>10, <1>11 DEF Next, Loop

LEMMA SinceNext ==
    ASSUME TypeInv, TypeInv', OwnInv, RingInv, SinceInv, [Next]_vars
    PROVE  SinceInv'
  <1>0. /\ receipts \in [Slot -> ReceiptsOf(born, commits, sequence)] /\ ActiveSlot \in Slot
        /\ born \in Int /\ reported \in Int /\ commits \in Int /\ born <= reported /\ reported <= commits
        /\ reported' \in Int /\ reported <= reported' /\ born' = born
        /\ latest = Serial(reported) /\ sequence \in Nat
    <2>1. receipts \in [Slot -> ReceiptsOf(born, commits, sequence)] /\ ActiveSlot \in Slot /\ sequence \in Nat
      BY Known DEF TypeInv, LinkTyped
    <2>2. born \in Int /\ reported \in Int /\ commits \in Int /\ born <= reported /\ reported <= commits
      BY Widths DEF TypeInv, ContentInv, ContentTypeOK
    <2>3. reported <= reported' /\ born' = born /\ latest = Serial(reported)
      BY RingNext DEF RingInv
    <2>4. reported' \in Int
      BY Widths DEF TypeInv, ContentInv, ContentTypeOK
    <2> QED BY <2>1, <2>2, <2>3, <2>4
  <1>1. \A k \in born..reported : k \in born'..reported' /\ k \in Int
    BY <1>0
  <1>2. \A k \in born..reported : Serial(k)' = Serial(k)
    BY DEF Serial
  \* What was so of the copies that became ready stays so.
  <1>3. ASSUME NEW k \in born..reported, NEW n,
               \A i \in 1..Len(events) : events[i].kind = "ready" /\ events[i].number = n => k <= events[i].commit
        PROVE  \A i \in 1..Len(events') :
                    events'[i].kind = "ready" /\ events'[i].number = n => k <= events'[i].commit
    <2> SUFFICES ASSUME NEW i \in 1..Len(events'), events'[i].kind = "ready", events'[i].number = n
                 PROVE  k <= events'[i].commit
      OBVIOUS
    <2>1. CASE \E j \in 1..Len(events) : events[j] = events'[i]
      BY <1>3, <2>1
    <2>2. CASE commits <= events'[i].commit
      <3>1. events'[i] \in EventsOf(born', commits', sequence')
        BY DEF TypeInv, LinkTyped
      <3>2. events'[i].commit \in Int
        BY <3>1, Widths DEF EventsOf, TypeInv, ContentInv, ContentTypeOK
      <3> QED BY <1>0, <1>1, <2>2, <3>2
    <2> QED BY <2>1, <2>2, ReadyOrigin
  <1>4. ASSUME NEW s \in Slot, receipts'[s].number # 0
        PROVE  \E k \in born'..reported' : Since(receipts[s], k)'
    <2>1. CASE /\ receipts'[s].number = receipts[s].number
               /\ receipts'[s].serial = receipts[s].serial
               /\ receipts'[s].picture = receipts[s].picture
      <3>1. PICK k \in born..reported : Since(receipts[s], k)
        BY <1>4, <2>1 DEF SinceInv
      <3>2. \A i \in 1..Len(events') :
                events'[i].kind = "ready" /\ events'[i].number = receipts'[s].number => k <= events'[i].commit
        BY <1>3, <2>1, <3>1 DEF Since
      <3>3. Since(receipts[s], k)'
        BY <1>1, <1>2, <2>1, <3>1, <3>2 DEF Since
      <3> QED BY <1>1, <3>3
    <2>2. CASE /\ ReadyEvent
               /\ s = ActiveSlot /\ active # 0 /\ Head(events).number = active
               /\ receipts'[s].number = receipts[s].number
               /\ receipts'[s].serial = receipts[s].serial
               /\ receipts'[s].picture = Head(events).commit
      <3>1. PICK k \in born..reported : Since(receipts[s], k)
        BY <1>4, <2>2 DEF SinceInv
      <3>2. \A i \in 1..Len(events') :
                events'[i].kind = "ready" /\ events'[i].number = receipts'[s].number => k <= events'[i].commit
        BY <1>3, <2>2, <3>1 DEF Since
      <3>3. Head(events).kind = "ready" /\ 1 \in 1..Len(events) /\ Head(events) = events[1]
        BY <2>2, TailIndex DEF ReadyEvent, Dispatches, TypeInv, LinkTyped
      <3>4. receipts[s].number = active
        BY <2>2 DEF OwnInv
      <3>5. k <= receipts'[s].picture
        BY <2>2, <3>1, <3>3, <3>4 DEF Since
      <3>6. Since(receipts[s], k)'
        BY <1>1, <1>2, <2>2, <3>1, <3>2, <3>5 DEF Since
      <3> QED BY <1>1, <3>6
    <2>3. CASE /\ UNCHANGED events
               /\ receipts'[s] = [number |-> sequence + 1, status |-> "pending", serial |-> latest,
                                  picture |-> NoCommit]
      <3>1. Mute(events, "ready", sequence + 1)
        BY MuteFresh
      <3>2. reported \in born..reported
        BY <1>0
      <3>3. /\ receipts'[s].number = sequence + 1 /\ receipts'[s].serial = Serial(reported)
            /\ receipts'[s].picture = NoCommit
        BY <1>0, <2>3
      <3>4. \A i \in 1..Len(events') :
                ~(events'[i].kind = "ready" /\ events'[i].number = receipts'[s].number)
        BY <2>3, <3>1, <3>3 DEF Mute
      <3>5. PICK k \in born..reported : k = reported
        BY <3>2
      <3>6. k \in born'..reported' /\ receipts'[s].serial = Serial(k)
        BY <1>1, <3>3, <3>5
      <3>7. Since(receipts[s], k)'
        BY <3>3, <3>4, <3>6 DEF Since, Serial
      <3> QED BY <3>6, <3>7
    <2> QED BY <2>1, <2>2, <2>3, ReceiptSteps
  \* A frame that was copied has a picture.
  <1>5. ASSUME ReadyEvent
        PROVE  Head(events).commit # NoCommit
    <2>1. events # <<>> /\ Head(events).kind = "ready"
      BY <1>5 DEF ReadyEvent, Dispatches
    <2>2. Head(events) \in EventsOf(born, commits, sequence)
      BY <2>1, TailTyped DEF TypeInv, LinkTyped
    <2>3. Head(events).commit \in born..commits
      BY <2>1, <2>2 DEF EventsOf
    <2>4. born \in Nat
      BY Known
    <2> QED BY <1>0, <2>3, <2>4 DEF NoCommit
  <1>6. ASSUME NEW s \in Slot, receipts'[s].status = "finished"
        PROVE  receipts'[s].picture # NoCommit
    BY <1>5, <1>6, ReceiptSteps DEF SinceInv
  <1>7. ASSUME worker' # "none"
        PROVE  receipts'[ActiveSlot'].picture # NoCommit
    <2>1. CASE /\ worker # "none" /\ active' = active
               /\ receipts'[ActiveSlot].picture = receipts[ActiveSlot].picture
      BY <2>1 DEF SinceInv, ActiveSlot, SlotOf
    <2>2. CASE ReadyEvent /\ active' = active
      <3>1. receipts'[ActiveSlot].picture = Head(events).commit
        BY <1>0, <2>2 DEF ReadyEvent, ReceiptsOf
      <3> QED BY <1>5, <2>2, <3>1 DEF ActiveSlot, SlotOf
    <2> QED BY <1>7, <2>1, <2>2, ThreadSteps
  <1> QED BY <1>4, <1>6, <1>7 DEF SinceInv

\* The serial that a receipt names is that of a commit no younger than the picture
\* of the frame, so that waiting from it can miss nothing that the picture lacks.
THEOREM SerialsArePast == Spec => []SinceInv
  <1>1. Init => SinceInv
    <2> SUFFICES ASSUME Init PROVE SinceInv
      OBVIOUS
    <2>1. \A s \in Slot : receipts[s] = NoReceipt
      BY DEF Init, Slot
    <2>2. \A s \in Slot : receipts[s].number = 0 /\ receipts[s].status = "none"
      BY <2>1 DEF NoReceipt
    <2>3. worker = "none"
      BY DEF Init
    <2> QED BY <2>2, <2>3 DEF SinceInv
  <1>2. TypeInv /\ TypeInv' /\ OwnInv /\ RingInv /\ SinceInv /\ [Next]_vars => SinceInv'
    BY SinceNext
  <1> QED BY <1>1, <1>2, CaptureTypes, CaptureOwns, RingHolds, PTL DEF Spec

----------------------------------------------------------------------------
(* The client that waits.                                                  *)

LEMMA WaiterNext ==
    ASSUME TypeInv, TypeInv', OwnInv, FileInv, RingInv, SinceInv, WaiterInv, NothingMissed, [Next]_vars
    PROVE  WaiterInv' /\ NothingMissed'
  <1>0. /\ born \in Int /\ reported \in Int /\ reported' \in Int /\ reported <= reported' /\ born' = born
        /\ born <= reported
    <2>1. born \in Int /\ reported \in Int /\ born <= reported
      BY Widths DEF TypeInv, ContentInv, ContentTypeOK
    <2>2. reported' \in Int
      BY Widths DEF TypeInv, ContentInv, ContentTypeOK
    <2> QED BY <2>1, <2>2, RingNext
  <1>1. \A k \in born..reported : k \in born'..reported' /\ k \in Int /\ Serial(k)' = Serial(k)
    BY <1>0 DEF Serial
  <1>2. CASE UNCHANGED waiter
    <2>1. NothingMissed'
      BY <1>2 DEF NothingMissed
    <2>2. WaiterInv'
      <3> SUFFICES ASSUME waiter # NoWaiter
                   PROVE  \E k \in born'..reported' : waiter.cursor = Serial(k)' /\ k <= waiter.upTo
        BY <1>2 DEF WaiterInv, NoWaiter, Serial
      <3>1. PICK k \in born..reported : waiter.cursor = Serial(k) /\ k <= waiter.upTo
        BY DEF WaiterInv
      <3> QED BY <1>1, <3>1
    <2> QED BY <2>1, <2>2
  <1>3. CASE Get
    <2> SUFFICES ASSUME NEW s \in DOMAIN receipts, Reported(s) = "finished",
                        BeginWait(receipts[s].serial, receipts[s].picture)
                 PROVE  WaiterInv' /\ NothingMissed'
      BY <1>2, <1>3 DEF Get, contentVars
    <2>1. s \in Slot
      BY DEF TypeInv, LinkTyped
    <2>2. receipts[s].status = "finished"
      BY DEF Reported
    <2>3. receipts[s].picture # NoCommit
      BY <2>1, <2>2 DEF SinceInv
    <2>4. receipts[s].number # 0
      <3>1. place # "gone"
        BY <1>3 DEF Get
      <3> QED BY <2>1, <2>2, <3>1 DEF FileInv, Tells
    <2>5. PICK k \in born..reported : Since(receipts[s], k)
      BY <2>1, <2>4 DEF SinceInv
    <2>6. waiter' = [cursor |-> receipts[s].serial, from |-> receipts[s].picture,
                     upTo |-> receipts[s].picture, heard |-> {}, gap |-> FALSE]
      BY DEF BeginWait
    <2>7. waiter'.cursor = Serial(k)' /\ k <= waiter'.upTo
      BY <1>1, <2>3, <2>5, <2>6 DEF Since
    <2>8. receipts[s].picture \in Int
      BY <2>1, Known DEF TypeInv, LinkTyped, ReceiptsOf, Pictures, NoCommit
    <2>9. (waiter'.from + 1)..waiter'.upTo = {}
      BY <2>6, <2>8
    <2>10. NothingMissed'
      BY <2>9 DEF NothingMissed
    <2>11. WaiterInv'
      BY <1>1, <2>7 DEF WaiterInv, Serial
    <2> QED BY <2>10, <2>11
  <1>4. CASE GetChanges
    <2>1. /\ waiter # NoWaiter /\ UNCHANGED <<born, reported>>
          /\ waiter' = [waiter EXCEPT !.cursor = latest,
                                !.upTo = IF reported > @ THEN reported ELSE @,
                                !.heard = @ \cup Listed(waiter.cursor),
                                !.gap = @ \/ Gap(waiter.cursor)]
      BY <1>4 DEF GetChanges, Changes
    <2>2. waiter \in [cursor : Serials, from : (born..(commits + 1)) \cup {NoCommit},
                      upTo : (born..(commits + 1)) \cup {NoCommit},
                      heard : SUBSET ((born + 1)..commits \cup {NoCommit}), gap : BOOLEAN]
      BY DEF TypeInv, ContentInv, ContentTypeOK
    <2>3. /\ waiter'.cursor = latest /\ waiter'.from = waiter.from
          /\ waiter'.upTo = IF reported > waiter.upTo THEN reported ELSE waiter.upTo
          /\ waiter'.heard = waiter.heard \cup Listed(waiter.cursor)
      BY <2>1, <2>2
    <2>4. waiter'.gap = (waiter.gap \/ Gap(waiter.cursor))
      BY <2>1, <2>2
    <2>5. waiter.upTo \in Int /\ waiter.from \in Int
      BY <2>2, Known DEF NoCommit
    <2>6. PICK k \in born..reported : waiter.cursor = Serial(k) /\ k <= waiter.upTo
      BY <2>1 DEF WaiterInv
    <2>7. Gap(waiter.cursor) \/ (k + 1)..reported \subseteq Listed(waiter.cursor)
      BY <2>6, AnswerComplete
    <2>8. NothingMissed'
      <3> SUFFICES ASSUME ~waiter.gap, ~Gap(waiter.cursor), NEW c \in (waiter'.from + 1)..waiter'.upTo
                   PROVE  c \in waiter'.heard
        BY <2>4 DEF NothingMissed
      <3>1. CASE c <= waiter.upTo
        <4>1. c \in (waiter.from + 1)..waiter.upTo
          BY <1>0, <2>3, <2>5, <3>1
        <4> QED BY <2>1, <2>3, <4>1 DEF NothingMissed
      <3>2. CASE ~(c <= waiter.upTo)
        <4>1. c \in (k + 1)..reported
          BY <1>0, <1>1, <2>3, <2>5, <2>6, <3>2
        <4> QED BY <2>3, <2>7, <4>1
      <3> QED BY <3>1, <3>2
    <2>9. WaiterInv'
      <3>1. reported \in born'..reported' /\ waiter'.cursor = Serial(reported) /\ reported <= waiter'.upTo
        BY <1>0, <2>1, <2>3, <2>5 DEF RingInv
      <3>2. PICK m \in born'..reported' : m = reported
        BY <3>1
      <3> QED BY <3>1, <3>2 DEF WaiterInv, Serial
    <2> QED BY <2>8, <2>9
  <1>5. CASE Drain \/ Check \/ Poll \/ PollClient \/ DispatchDone \/ EndTurn \/ Close
    BY <1>2, <1>5 DEF Drain, Check, Poll, PollClient, DispatchDone, EndTurn, Close, contentVars
  <1>6. CASE CallSubmit \/ CallGet \/ Submit
    BY <1>2, <1>6 DEF CallSubmit, CallGet, Call, Submit, contentVars
  <1>7. CASE BufferEvent \/ ReadyEvent \/ FailedEvent \/ StaleEvent \/ ContentEvent
    BY <1>2, <1>7 DEF BufferEvent, ReadyEvent, FailedEvent, StaleEvent, ContentEvent, contentVars
  <1>8. CASE Worker
    BY <1>2, <1>8 DEF Worker, WorkerOpen, WorkerWrite, WorkerReport, WorkerTell, ThreadUnchanged, contentVars
  <1>9. CASE TakeCapture \/ TakeCopy \/ TakeRender \/ Commit \/ Drawn \/ Late \/ UNCHANGED vars
    BY <1>2, <1>9 DEF TakeCapture, TakeCopy, TakeRender, Commit, Render, Drawn, Draw, Late, contentVars, vars
  <1> QED BY <1>3, <1>4, <1>5, <1>6, <1>7, <1>8, <1>9 DEF Next, Loop

\* A client that waits from the serial of a frame misses no change made since that
\* frame, across the wrap of the serial and the end of the ring (docs/PROTOCOL.md,
\* native/agentseat-input.c, agentseat_input_content_changes).
THEOREM NoChangeIsMissed == Spec => []NothingMissed
  <1>1. Init => WaiterInv /\ NothingMissed
    BY DEF Init, InitContent, WaiterInv, NothingMissed
  <1>2. TypeInv /\ TypeInv' /\ OwnInv /\ FileInv /\ RingInv /\ SinceInv /\ WaiterInv /\ NothingMissed
            /\ [Next]_vars => (WaiterInv /\ NothingMissed)'
    BY WaiterNext
  <1> QED BY <1>1, <1>2, CaptureTypes, CaptureOwns, CaptureFiles, RingHolds, SerialsArePast, PTL DEF Spec

=============================================================================
