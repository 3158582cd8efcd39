------------------------ MODULE InputBackend_proofs ------------------------
(***************************************************************************)
(* Theorems about InputBackend, for every set of keys, buttons, modifiers  *)
(* and characters that its assumptions allow, and for every bound.         *)
(*                                                                         *)
(* The queue to the compositor has no bound here, so what is said of it    *)
(* is said request by request, and each part comes with two lemmas: a      *)
(* batch may be put behind the queue, and its head may be taken off.  A    *)
(* step of the daemon is then an operation's batch of requests that is     *)
(* "Sendable", whatever it is (DaemonKeeps), and a step of the compositor  *)
(* takes the head or acts of itself (TakeKeeps, ActKeeps).                 *)
(***************************************************************************)
EXTENDS InputBackend, FiniteSetTheorems, SequenceTheorems, TLAPS

----------------------------------------------------------------------------
(* What is on its way.                                                     *)

Strokes == [type : {"input"}, code : Inputs, down : BOOLEAN, meant : SUBSET Modifiers,
            of : {"key", "text", "chord", "release"}]

Requests ==
    [type : {"acquire"}, epoch : Nat] \cup [type : {"modifiers"}, mods : SUBSET Modifiers]
    \cup Strokes \cup [type : {"offer"}, epoch : Nat, token : Nat]
    \cup [type : {"revoke", "create", "destroy"}]

Events ==
    [type : {"state"}, epoch : Nat, active : BOOLEAN]
    \cup [type : {"offered"}, token : Nat, answer : {"yes", "refused"}]

Press(r) == r.type = "input" /\ r.down
KeyPress(r) == Press(r) /\ r.code \in Keys
ChordPress(r) == KeyPress(r) /\ r.of = "chord"

\* The request ends a hold of i.
Ends(r, i) == r.type = "revoke" \/ (r.type = "input" /\ r.code = i /\ ~r.down)

----------------------------------------------------------------------------
(* Sequences.                                                              *)

LEMMA ElementsOf ==
    ASSUME NEW R, NEW s \in Seq(R)
    PROVE  Len(s) \in Nat /\ DOMAIN s = 1..Len(s) /\ \A n \in 1..Len(s) : s[n] \in R
  OBVIOUS

LEMMA Joined ==
    ASSUME NEW R, NEW s \in Seq(R), NEW t \in Seq(R)
    PROVE  /\ s \o t \in Seq(R)
           /\ Len(s \o t) = Len(s) + Len(t)
           /\ \A n \in 1..Len(s) : (s \o t)[n] = s[n]
           /\ \A n \in 1..Len(t) : (s \o t)[Len(s) + n] = t[n]
           /\ \A n \in 1..Len(s \o t) : n \in 1..Len(s) \/ (n - Len(s) \in 1..Len(t) /\ (s \o t)[n] = t[n - Len(s)])
  OBVIOUS

LEMMA Rest ==
    ASSUME NEW R, NEW s \in Seq(R), s # <<>>
    PROVE  /\ Tail(s) \in Seq(R)
           /\ Len(s) \in Nat \ {0}
           /\ Len(Tail(s)) = Len(s) - 1
           /\ \A n \in 1..(Len(s) - 1) : Tail(s)[n] = s[n + 1]
           /\ Head(s) = s[1] /\ Head(s) \in R
  OBVIOUS

LEMMA Added ==
    ASSUME NEW R, NEW s \in Seq(R), NEW x \in R
    PROVE  /\ Append(s, x) \in Seq(R)
           /\ Len(Append(s, x)) = Len(s) + 1
           /\ \A n \in 1..Len(s) : Append(s, x)[n] = s[n]
           /\ Append(s, x)[Len(s) + 1] = x
  OBVIOUS

----------------------------------------------------------------------------
(* release_all.                                                            *)

\* Every code of a set is the n-th of it for one n, and there is no other n.
LEMMA EachIsNth ==
    ASSUME NEW S \in SUBSET Nat, IsFiniteSet(S)
    PROVE  /\ Cardinality(S) \in Nat
           /\ \A n \in 1..Cardinality(S) : Nth(S, n) \in S
           /\ \A i \in S : \E n \in 1..Cardinality(S) : Nth(S, n) = i
  <1> DEFINE Upto(i) == {j \in S : j <= i}
             C == Cardinality(S)
             rank == [i \in S |-> Cardinality(Upto(i))]
  <1>1. C \in Nat
    BY FS_CardinalityType
  <1>2. \A i \in S : IsFiniteSet(Upto(i)) /\ Cardinality(Upto(i)) \in Nat
    BY FS_Subset, FS_CardinalityType
  <1>3. ASSUME NEW i \in S PROVE rank[i] \in 1..C
    <2>1. Upto(i) # {}
      <3>1. i \in Upto(i)
        OBVIOUS
      <3> QED BY <3>1
    <2>2. Cardinality(Upto(i)) <= C
      BY FS_Subset
    <2>3. Cardinality(Upto(i)) # 0
      BY <1>2, <2>1, FS_EmptySet
    <2> QED BY <1>1, <1>2, <2>2, <2>3
  <1>4. ASSUME NEW i \in S, NEW k \in S, i < k PROVE rank[i] < rank[k]
    <2> DEFINE A == Upto(i)
               B == Upto(k)
    <2>1. A \in SUBSET B /\ k \in B /\ k \notin A /\ IsFiniteSet(B)
      <3>1. i \in Nat /\ k \in Nat /\ ~(k <= i)
        BY <1>4
      <3>2. \A j \in S : j <= i => j <= k
        BY <1>4, <3>1
      <3>3. IsFiniteSet(B)
        BY <1>2
      <3>4. A \in SUBSET B
        BY <3>2
      <3>5. k \in B /\ k \notin A
        BY <3>1
      <3> QED BY <3>3, <3>4, <3>5
    <2>2. Cardinality(A) \in Nat /\ Cardinality(B) \in Nat
      BY <1>2
    <2> HIDE DEF A, B
    <2>3. Cardinality(A) <= Cardinality(B) /\ Cardinality(A) # Cardinality(B)
      BY <2>1, FS_Subset
    <2>4. Cardinality(A) < Cardinality(B)
      BY <2>2, <2>3
    <2> QED BY <2>4 DEF A, B
  <1>5. rank \in [S -> 1..C]
    BY <1>3
  <1>6. \A i, k \in S : rank[i] = rank[k] => i = k
    <2> SUFFICES ASSUME NEW i \in S, NEW k \in S, rank[i] = rank[k], i # k PROVE FALSE
      OBVIOUS
    <2>1. i < k \/ k < i
      OBVIOUS
    <2>2. rank[i] \in Nat /\ rank[k] \in Nat
      BY <1>3
    <2> HIDE DEF rank
    <2> QED BY <1>4, <2>1, <2>2
  <1>7. \A i \in S : rank[i] = Cardinality({j \in S : j <= i})
    OBVIOUS
  <1> HIDE DEF rank
  <1>8. rank \in Surjection(S, 1..C)
    <2>1. rank \in Injection(S, 1..C)
      BY <1>5, <1>6 DEF Injection, IsInjective
    <2>2. IsFiniteSet(1..C) /\ Cardinality(1..C) = C
      BY <1>1, FS_Interval
    <2> DEFINE T == 1..C
    <2> HIDE DEF T
    <2> QED BY <2>1, <2>2, FS_Injection DEF T
  <1>9. \A n \in 1..C : \E i \in S : rank[i] = n
    BY <1>8 DEF Surjection
  <1>10. \A n \in 1..C, i \in S : rank[i] = n => Nth(S, n) = i
    <2> SUFFICES ASSUME NEW n \in 1..C, NEW i \in S, rank[i] = n PROVE Nth(S, n) = i
      OBVIOUS
    <2>1. \A k \in S : Cardinality({j \in S : j <= k}) = n <=> k = i
      BY <1>6, <1>7
    <2> QED BY <2>1 DEF Nth
  <1> QED BY <1>1, <1>3, <1>9, <1>10

LEMMA TwiceIs ==
    ASSUME NEW n \in Nat
    PROVE  (2 * n) % 2 = 0 /\ (2 * n + 1) \div 2 = n
  <1>1. (2 * n) % 2 = 0
    OBVIOUS
  <1>2. (2 * n + 1) \div 2 = n
    OBVIOUS
  <1> QED BY <1>1, <1>2

LEMMA ReleasesAre ==
    ASSUME NEW b, b.pressed \in SUBSET Inputs, IsFiniteSet(b.pressed), b.mods \in SUBSET Modifiers
    PROVE  /\ Releases(b) \in Seq(Requests)
           /\ \A n \in 1..Len(Releases(b)) :
                /\ Releases(b)[n].type \in {"modifiers", "input"}
                /\ ~Press(Releases(b)[n])
           /\ \A i \in b.pressed : \E n \in 1..Len(Releases(b)) : Ends(Releases(b)[n], i)
  <1> DEFINE keys == b.pressed \cap Keys
             buttons == b.pressed \cap Buttons
             K == Cardinality(keys)
             B == Cardinality(buttons)
             release(i) == [type |-> "input", code |-> i, down |-> FALSE, meant |-> {}, of |-> "release"]
             mods(n) == [type |-> "modifiers", mods |-> b.mods \ {k \in keys : k <= Nth(keys, (n + 1) \div 2)}]
             s == Releases(b)
  <1>1. /\ keys \in SUBSET Nat /\ IsFiniteSet(keys) /\ keys \subseteq Inputs
        /\ buttons \in SUBSET Nat /\ IsFiniteSet(buttons) /\ buttons \subseteq Inputs
        /\ b.pressed = keys \cup buttons
    BY CodesAssumption, FS_Subset DEF Inputs
  <1>2. /\ K \in Nat /\ B \in Nat
        /\ \A n \in 1..K : Nth(keys, n) \in keys
        /\ \A i \in keys : \E n \in 1..K : Nth(keys, n) = i
        /\ \A n \in 1..B : Nth(buttons, n) \in buttons
        /\ \A i \in buttons : \E n \in 1..B : Nth(buttons, n) = i
    <2> HIDE DEF keys, buttons
    <2> QED BY <1>1, EachIsNth
  <1>3. s = [n \in 1..(2 * K + B) |->
               IF n > 2 * K THEN release(Nth(buttons, n - 2 * K))
               ELSE IF n % 2 = 0 THEN release(Nth(keys, (n + 1) \div 2)) ELSE mods(n)]
    BY DEF Releases, Sent, Mods
  <1> HIDE DEF s, keys, buttons, K, B
  <1>4. \A i \in Inputs : release(i) \in Requests /\ ~Press(release(i)) /\ Ends(release(i), i)
    BY DEF Requests, Strokes, Press, Ends
  <1>5. \A n : mods(n) \in Requests /\ ~Press(mods(n))
    BY DEF Requests, Press
  <1>mods. \A n : mods(n).type = "modifiers"
    OBVIOUS
  <1>release. \A i : release(i).type = "input"
    OBVIOUS
  <1> HIDE DEF release, mods
  <1>6. \A n \in 1..(2 * K) : (n + 1) \div 2 \in 1..K
    BY <1>2
  <1>7. \A n \in 1..(2 * K + B) : n > 2 * K => n - 2 * K \in 1..B
    BY <1>2
  <1>8. \A n \in 1..(2 * K + B) : s[n] \in Requests /\ s[n].type \in {"modifiers", "input"} /\ ~Press(s[n])
    <2> SUFFICES ASSUME NEW n \in 1..(2 * K + B)
                 PROVE  s[n] \in Requests /\ s[n].type \in {"modifiers", "input"} /\ ~Press(s[n])
      OBVIOUS
    <2>1. CASE n > 2 * K
      <3>1. Nth(buttons, n - 2 * K) \in Inputs
        BY <1>1, <1>2, <1>7, <2>1
      <3>2. s[n] = release(Nth(buttons, n - 2 * K))
        BY <1>3, <2>1
      <3> QED BY <1>4, <1>release, <3>1, <3>2
    <2>2. CASE ~(n > 2 * K) /\ n % 2 = 0
      <3>1. Nth(keys, (n + 1) \div 2) \in Inputs
        <4>1. n \in 1..(2 * K)
          BY <1>2, <2>2
        <4> QED BY <1>1, <1>2, <1>6, <4>1
      <3>2. s[n] = release(Nth(keys, (n + 1) \div 2))
        BY <1>3, <2>2
      <3> QED BY <1>4, <1>release, <3>1, <3>2
    <2>3. CASE ~(n > 2 * K) /\ n % 2 # 0
      <3>1. s[n] = mods(n)
        BY <1>3, <2>3
      <3> QED BY <1>5, <1>mods, <3>1
    <2> QED BY <2>1, <2>2, <2>3
  <1>9. s \in Seq(Requests) /\ Len(s) = 2 * K + B
    <2>1. 2 * K + B \in Nat /\ s = [n \in 1..(2 * K + B) |-> s[n]]
      BY <1>2, <1>3
    <2> QED BY <1>8, <2>1
  <1>10. ASSUME NEW i \in b.pressed PROVE \E n \in 1..Len(s) : Ends(s[n], i)
    <2>1. CASE i \in keys
      <3>1. PICK n \in 1..K : Nth(keys, n) = i
        BY <1>2, <2>1
      <3>2. 2 * n \in 1..(2 * K + B) /\ ~(2 * n > 2 * K) /\ (2 * n) % 2 = 0 /\ (2 * n + 1) \div 2 = n
        <4>1. n \in Nat /\ 1 <= n /\ n <= K
          BY <1>2
        <4>2. 2 * n \in Nat /\ 1 <= 2 * n /\ 2 * n <= 2 * K /\ 2 * K <= 2 * K + B
          BY <1>2, <4>1
        <4>3. (2 * n) % 2 = 0 /\ (2 * n + 1) \div 2 = n
          BY <4>1, TwiceIs
        <4> QED BY <1>2, <4>2, <4>3
      <3>3. s[2 * n] = release(i)
        BY <1>3, <3>1, <3>2
      <3> QED BY <1>4, <1>9, <3>2, <3>3
    <2>2. CASE i \in buttons
      <3>1. PICK n \in 1..B : Nth(buttons, n) = i
        BY <1>2, <2>2
      <3>2. 2 * K + n \in 1..(2 * K + B) /\ 2 * K + n > 2 * K /\ (2 * K + n) - 2 * K = n
        BY <1>2
      <3>3. s[2 * K + n] = release(i)
        BY <1>3, <3>1, <3>2
      <3> QED BY <1>4, <1>9, <3>2, <3>3
    <2> QED BY <1>1, <2>1, <2>2
  <1> QED BY <1>8, <1>9, <1>10 DEF s

----------------------------------------------------------------------------
(* What holds of the requests on their way, q, and how it outlasts a batch  *)
(* t sent behind them and the taking of the first.                         *)

\* A hold of i ends on the way, behind the n-th request.
EndsBehind(q, n, i) == \E m \in 1..Len(q) : m > n /\ Ends(q[m], i)

Remembered(held, pressed, q) ==
    /\ \A i \in held : i \in pressed \/ EndsBehind(q, 0, i)
    /\ \A n \in 1..Len(q) : Press(q[n]) => q[n].code \in pressed \/ EndsBehind(q, n, q[n].code)

\* The modifiers of a key are announced right ahead of it.
Announced(q, vk) ==
    \A n \in 1..Len(q) : KeyPress(q[n]) =>
        IF n = 1 THEN vk = q[1].meant
        ELSE q[n - 1].type = "modifiers" /\ q[n - 1].mods = q[n].meant

\* Were epoch the current one, the text would be on offer.
Valid(e, epoch, offer) == epoch >= e /\ (epoch = e => offer)

\* A key of the chord finds the offer once its acquire two ahead is granted.
Chords(q, epoch, offer, allowed) ==
    \A n \in 1..Len(q) : ChordPress(q[n]) =>
        IF n >= 3 THEN q[n - 2].type = "acquire" /\ Valid(q[n - 2].epoch, epoch, offer)
        ELSE allowed => offer

Rev(r) == IF r.type = "revoke" THEN 1 ELSE 0

\* The epochs the compositor goes through, at least, with the requests.
Levels(c, q, epoch, b) ==
    /\ c \in [1..(Len(q) + 1) -> Nat]
    /\ c[1] = epoch
    /\ \A n \in 1..(Len(q) + 1) : epoch <= c[n]
    /\ \A n \in 1..Len(q) : c[n + 1] <= c[n] + Rev(q[n])
    /\ \A n \in 1..Len(q) : q[n].type = "acquire" => q[n].epoch <= c[n]
    /\ b <= c[Len(q) + 1]

\* No acquire is of a later epoch than one behind it, or than b.
Sorted(q, b) ==
    /\ \A n \in 1..Len(q) : q[n].type = "acquire" => q[n].epoch <= b
    /\ \A m, n \in 1..Len(q) :
           m <= n /\ q[m].type = "acquire" /\ q[n].type = "acquire" => q[m].epoch <= q[n].epoch

\* What a batch t does to the keys held, p before and p2 after.
Bookkept(t, p, p2) ==
    /\ \A i \in p \ p2 : EndsBehind(t, 0, i)
    /\ \A n \in 1..Len(t) : Press(t[n]) => t[n].code \in p2 \/ EndsBehind(t, n, t[n].code)

\* What the backend may send at epoch e.
Sendable(t, e, p, p2) ==
    /\ t \in Seq(Requests)
    /\ \A n \in 1..Len(t) : t[n].type = "acquire" => t[n].epoch = e
    /\ \A n \in 1..Len(t) : KeyPress(t[n]) =>
           n >= 2 /\ t[n - 1].type = "modifiers" /\ t[n - 1].mods = t[n].meant
    /\ \A n \in 1..Len(t) : ChordPress(t[n]) => n >= 3 /\ t[n - 2].type = "acquire"
    /\ Bookkept(t, p, p2)

LEMMA EndsJoined ==
    ASSUME NEW q \in Seq(Requests), NEW t \in Seq(Requests), NEW i
    PROVE  /\ \A n \in 0..Len(q) : EndsBehind(q, n, i) => EndsBehind(q \o t, n, i)
           /\ \A n \in 0..Len(q) : EndsBehind(t, 0, i) => EndsBehind(q \o t, n, i)
           /\ \A n \in 1..Len(t) : EndsBehind(t, n, i) => EndsBehind(q \o t, Len(q) + n, i)
  <1> DEFINE s == q \o t
             L == Len(q)
             T == Len(t)
  <1>1. /\ L \in Nat /\ T \in Nat /\ Len(s) = L + T
        /\ \A n \in 1..L : s[n] = q[n]
        /\ \A n \in 1..T : s[L + n] = t[n]
    <2>1. /\ s \in Seq(Requests)
          /\ Len(s) = Len(q) + Len(t)
          /\ \A n \in 1..Len(q) : s[n] = q[n]
          /\ \A n \in 1..Len(t) : s[Len(q) + n] = t[n]
          /\ \A n \in 1..Len(s) : n \in 1..Len(q) \/ (n - Len(q) \in 1..Len(t) /\ s[n] = t[n - Len(q)])
      BY Joined
    <2> QED BY <2>1
  <1> HIDE DEF s
  <1>2. ASSUME NEW n \in 0..L, EndsBehind(q, n, i) PROVE EndsBehind(s, n, i)
    <2>1. PICK m \in 1..L : m > n /\ Ends(q[m], i)
      BY <1>2 DEF EndsBehind
    <2>2. m \in 1..Len(s) /\ s[m] = q[m]
      BY <1>1
    <2> QED BY <2>1, <2>2 DEF EndsBehind
  <1>3. ASSUME NEW n \in 0..L, EndsBehind(t, 0, i) PROVE EndsBehind(s, n, i)
    <2>1. PICK m \in 1..T : m > 0 /\ Ends(t[m], i)
      BY <1>3 DEF EndsBehind
    <2>2. L + m \in 1..Len(s) /\ s[L + m] = t[m] /\ L + m > n
      BY <1>1
    <2> QED BY <2>1, <2>2 DEF EndsBehind
  <1>4. ASSUME NEW n \in 1..T, EndsBehind(t, n, i) PROVE EndsBehind(s, L + n, i)
    <2>1. PICK m \in 1..T : m > n /\ Ends(t[m], i)
      BY <1>4 DEF EndsBehind
    <2>2. L + m \in 1..Len(s) /\ s[L + m] = t[m] /\ L + m > L + n
      BY <1>1, <2>1
    <2> QED BY <2>1, <2>2 DEF EndsBehind
  <1> QED BY <1>2, <1>3, <1>4 DEF s

LEMMA SendableJoined ==
    ASSUME NEW t, NEW u, NEW e, NEW p, NEW p2, NEW p3, Sendable(t, e, p, p2), Sendable(u, e, p2, p3)
    PROVE  Sendable(t \o u, e, p, p3)
  <1> DEFINE s == t \o u
             L == Len(t)
             U == Len(u)
  <1>0. t \in Seq(Requests) /\ u \in Seq(Requests)
    BY DEF Sendable
  <1>1. /\ s \in Seq(Requests) /\ L \in Nat /\ U \in Nat /\ Len(s) = L + U
        /\ \A n \in 1..L : s[n] = t[n]
        /\ \A n \in 1..U : s[L + n] = u[n]
        /\ \A n \in 1..Len(s) : n \in 1..L \/ (n - L \in 1..U /\ s[n] = u[n - L])
    <2>1. /\ s \in Seq(Requests)
          /\ Len(s) = Len(t) + Len(u)
          /\ \A n \in 1..Len(t) : s[n] = t[n]
          /\ \A n \in 1..Len(u) : s[Len(t) + n] = u[n]
          /\ \A n \in 1..Len(s) : n \in 1..Len(t) \/ (n - Len(t) \in 1..Len(u) /\ s[n] = u[n - Len(t)])
      BY <1>0, Joined
    <2> QED BY <1>0, <2>1
  <1>ends. ASSUME NEW i
           PROVE  /\ EndsBehind(t, 0, i) \/ EndsBehind(u, 0, i) => EndsBehind(s, 0, i)
                  /\ \A n \in 1..L : EndsBehind(t, n, i) \/ EndsBehind(u, 0, i) => EndsBehind(s, n, i)
                  /\ \A n \in 1..U : EndsBehind(u, n, i) => EndsBehind(s, L + n, i)
    <2>1. /\ \A n \in 0..Len(t) : EndsBehind(t, n, i) => EndsBehind(t \o u, n, i)
          /\ \A n \in 0..Len(t) : EndsBehind(u, 0, i) => EndsBehind(t \o u, n, i)
          /\ \A n \in 1..Len(u) : EndsBehind(u, n, i) => EndsBehind(t \o u, Len(t) + n, i)
      BY <1>0, EndsJoined
    <2>2. 0 \in 0..L /\ \A n \in 1..L : n \in 0..L
      BY <1>1
    <2> QED BY <2>1, <2>2
  <1> HIDE DEF s, L, U
  <1>2. ASSUME NEW n \in 1..Len(s)
        PROVE  \/ n \in 1..L /\ s[n] = t[n] /\ (n > 1 => n - 1 \in 1..L /\ s[n - 1] = t[n - 1])
                  /\ (n > 2 => n - 2 \in 1..L /\ s[n - 2] = t[n - 2])
               \/ \E k \in 1..U : /\ n = L + k /\ s[n] = u[k]
                                  /\ k > 1 => k - 1 \in 1..U /\ s[n - 1] = u[k - 1]
                                  /\ k > 2 => k - 2 \in 1..U /\ s[n - 2] = u[k - 2]
    <2>1. CASE n \in 1..L
      BY <1>1, <2>1
    <2>2. CASE n \notin 1..L
      <3> DEFINE k == n - L
      <3>1. k \in 1..U /\ n = L + k /\ s[n] = u[k] /\ n \in Nat
        BY <1>1, <2>2
      <3>2. k > 1 => k - 1 \in 1..U /\ n - 1 = L + (k - 1)
        BY <1>1, <3>1
      <3>3. k > 2 => k - 2 \in 1..U /\ n - 2 = L + (k - 2)
        BY <1>1, <3>1
      <3> HIDE DEF k
      <3>4. /\ k > 1 => k - 1 \in 1..U /\ s[n - 1] = u[k - 1]
            /\ k > 2 => k - 2 \in 1..U /\ s[n - 2] = u[k - 2]
        BY <1>1, <3>2, <3>3
      <3> QED BY <3>1, <3>4
    <2> QED BY <2>1, <2>2
  <1>3. ASSUME NEW n \in 1..Len(s)
        PROVE  /\ s[n].type = "acquire" => s[n].epoch = e
               /\ KeyPress(s[n]) => n >= 2 /\ s[n - 1].type = "modifiers" /\ s[n - 1].mods = s[n].meant
               /\ ChordPress(s[n]) => n >= 3 /\ s[n - 2].type = "acquire"
               /\ Press(s[n]) => s[n].code \in p3 \/ EndsBehind(s, n, s[n].code)
    <2>1. CASE /\ n \in 1..L /\ s[n] = t[n]
               /\ n > 1 => n - 1 \in 1..L /\ s[n - 1] = t[n - 1]
               /\ n > 2 => n - 2 \in 1..L /\ s[n - 2] = t[n - 2]
      <3>1. /\ t[n].type = "acquire" => t[n].epoch = e
            /\ KeyPress(t[n]) => n >= 2 /\ t[n - 1].type = "modifiers" /\ t[n - 1].mods = t[n].meant
            /\ ChordPress(t[n]) => n >= 3 /\ t[n - 2].type = "acquire"
        BY <2>1 DEF Sendable, L
      <3>2. ASSUME Press(s[n]) PROVE s[n].code \in p3 \/ EndsBehind(s, n, s[n].code)
        <4>1. t[n].code \in p2 \/ EndsBehind(t, n, t[n].code)
          BY <2>1, <3>2 DEF Sendable, Bookkept, L
        <4>2. t[n].code \in p2 => t[n].code \in p3 \/ EndsBehind(u, 0, t[n].code)
          BY DEF Sendable, Bookkept
        <4> QED BY <1>ends, <2>1, <4>1, <4>2
      <3> QED BY <2>1, <3>1, <3>2
    <2>2. ASSUME NEW k \in 1..U, n = L + k, s[n] = u[k],
                 k > 1 => k - 1 \in 1..U /\ s[n - 1] = u[k - 1],
                 k > 2 => k - 2 \in 1..U /\ s[n - 2] = u[k - 2]
          PROVE  /\ s[n].type = "acquire" => s[n].epoch = e
                 /\ KeyPress(s[n]) => n >= 2 /\ s[n - 1].type = "modifiers" /\ s[n - 1].mods = s[n].meant
                 /\ ChordPress(s[n]) => n >= 3 /\ s[n - 2].type = "acquire"
                 /\ Press(s[n]) => s[n].code \in p3 \/ EndsBehind(s, n, s[n].code)
      <3>1. /\ u[k].type = "acquire" => u[k].epoch = e
            /\ KeyPress(u[k]) => k >= 2 /\ u[k - 1].type = "modifiers" /\ u[k - 1].mods = u[k].meant
            /\ ChordPress(u[k]) => k >= 3 /\ u[k - 2].type = "acquire"
            /\ Press(u[k]) => u[k].code \in p3 \/ EndsBehind(u, k, u[k].code)
        BY DEF Sendable, Bookkept, U
      <3>2. (k >= 2 => k > 1 /\ n >= 2) /\ (k >= 3 => k > 2 /\ n >= 3)
        BY <1>1, <2>2
      <3>3. \A i : EndsBehind(u, k, i) => EndsBehind(s, n, i)
        BY <1>ends, <2>2
      <3> QED BY <2>2, <3>1, <3>2, <3>3
    <2> QED BY <1>2, <2>1, <2>2
  <1>4. \A i \in p \ p3 : EndsBehind(s, 0, i)
    <2> SUFFICES ASSUME NEW i \in p \ p3 PROVE EndsBehind(s, 0, i)
      OBVIOUS
    <2>1. EndsBehind(t, 0, i) \/ EndsBehind(u, 0, i)
      BY DEF Sendable, Bookkept
    <2> QED BY <1>ends, <2>1
  <1>5. Bookkept(s, p, p3)
    BY <1>3, <1>4 DEF Bookkept
  <1> QED BY <1>1, <1>3, <1>5 DEF Sendable, s

----------------------------------------------------------------------------
(* A batch goes behind the requests on their way.                          *)

LEMMA RememberedSend ==
    ASSUME NEW q \in Seq(Requests), NEW t \in Seq(Requests), NEW held, NEW p, NEW p2,
           Remembered(held, p, q), Bookkept(t, p, p2)
    PROVE  Remembered(held, p2, q \o t)
  <1> DEFINE s == q \o t
             L == Len(q)
             T == Len(t)
  <1>1. /\ L \in Nat /\ T \in Nat /\ Len(s) = L + T
        /\ \A n \in 1..L : s[n] = q[n]
        /\ \A n \in 1..Len(s) : n \in 1..L \/ (n - L \in 1..T /\ s[n] = t[n - L])
    <2>1. /\ s \in Seq(Requests)
          /\ Len(s) = Len(q) + Len(t)
          /\ \A n \in 1..Len(q) : s[n] = q[n]
          /\ \A n \in 1..Len(t) : s[Len(q) + n] = t[n]
          /\ \A n \in 1..Len(s) : n \in 1..Len(q) \/ (n - Len(q) \in 1..Len(t) /\ s[n] = t[n - Len(q)])
      BY Joined
    <2> QED BY <2>1
  <1>ends. ASSUME NEW i
           PROVE  /\ \A n \in 0..L : EndsBehind(q, n, i) \/ EndsBehind(t, 0, i) => EndsBehind(s, n, i)
                  /\ \A n \in 1..T : EndsBehind(t, n, i) => EndsBehind(s, L + n, i)
    <2>1. /\ \A n \in 0..Len(q) : EndsBehind(q, n, i) => EndsBehind(q \o t, n, i)
          /\ \A n \in 0..Len(q) : EndsBehind(t, 0, i) => EndsBehind(q \o t, n, i)
          /\ \A n \in 1..Len(t) : EndsBehind(t, n, i) => EndsBehind(q \o t, Len(q) + n, i)
      BY EndsJoined
    <2> QED BY <2>1
  <1>T. \A n \in 1..T : Press(t[n]) => t[n].code \in p2 \/ EndsBehind(t, n, t[n].code)
    BY DEF Bookkept
  <1>p. \A i \in p : i \in p2 \/ EndsBehind(t, 0, i)
    BY DEF Bookkept
  <1>q. /\ \A i \in held : i \in p \/ EndsBehind(q, 0, i)
        /\ \A n \in 1..L : Press(q[n]) => q[n].code \in p \/ EndsBehind(q, n, q[n].code)
    BY DEF Remembered
  <1>0. 0 \in 0..L /\ \A n \in 1..L : n \in 0..L
    BY <1>1
  <1> HIDE DEF s, L, T
  <1>2. ASSUME NEW i \in held PROVE i \in p2 \/ EndsBehind(s, 0, i)
    BY <1>ends, <1>p, <1>q, <1>0
  <1>3. ASSUME NEW n \in 1..Len(s), Press(s[n]) PROVE s[n].code \in p2 \/ EndsBehind(s, n, s[n].code)
    <2>1. CASE n \in 1..L
      <3>1. s[n] = q[n]
        BY <1>1, <2>1
      <3>2. q[n].code \in p \/ EndsBehind(q, n, q[n].code)
        BY <1>3, <1>q, <2>1, <3>1
      <3> QED BY <1>ends, <1>p, <1>0, <2>1, <3>1, <3>2
    <2>2. CASE n \notin 1..L
      <3>1. PICK k : k = n - L
        OBVIOUS
      <3>2. k \in 1..T /\ s[n] = t[k] /\ n = L + k
        BY <1>1, <2>2, <3>1
      <3>3. t[k].code \in p2 \/ EndsBehind(t, k, t[k].code)
        BY <1>3, <1>T, <3>2
      <3> QED BY <1>ends, <3>2, <3>3
    <2> QED BY <2>1, <2>2
  <1>4. Remembered(held, p2, s)
    BY <1>2, <1>3 DEF Remembered
  <1> QED BY <1>4 DEF s

LEMMA QueueSend ==
    ASSUME NEW q \in Seq(Requests), NEW t \in Seq(Requests), NEW e \in Nat, NEW e2 \in Nat, e <= e2,
           NEW p, NEW p2, NEW vk, NEW epoch \in Nat, NEW offer, NEW allowed,
           Announced(q, vk), Chords(q, epoch, offer, allowed), Sorted(q, e),
           Sendable(t, e, p, p2),
           \A n \in 1..Len(t) : ChordPress(t[n]) => Valid(e, epoch, offer)
    PROVE  /\ Announced(q \o t, vk)
           /\ Chords(q \o t, epoch, offer, allowed)
           /\ Sorted(q \o t, e2)
  <1> DEFINE s == q \o t
             L == Len(q)
             T == Len(t)
  <1>1. /\ s \in Seq(Requests) /\ L \in Nat /\ T \in Nat /\ Len(s) = L + T
        /\ \A n \in 1..L : s[n] = q[n]
        /\ \A n \in 1..T : s[L + n] = t[n]
        /\ \A n \in 1..Len(s) : n \in 1..L \/ (n - L \in 1..T /\ s[n] = t[n - L])
    <2>1. /\ s \in Seq(Requests)
          /\ Len(s) = Len(q) + Len(t)
          /\ \A n \in 1..Len(q) : s[n] = q[n]
          /\ \A n \in 1..Len(t) : s[Len(q) + n] = t[n]
          /\ \A n \in 1..Len(s) : n \in 1..Len(q) \/ (n - Len(q) \in 1..Len(t) /\ s[n] = t[n - Len(q)])
      BY Joined
    <2> QED BY <2>1
  <1>t. \A n \in 1..T :
           /\ t[n].type = "acquire" => t[n].epoch = e
           /\ KeyPress(t[n]) => n >= 2 /\ t[n - 1].type = "modifiers" /\ t[n - 1].mods = t[n].meant
           /\ ChordPress(t[n]) => n >= 3 /\ t[n - 2].type = "acquire" /\ Valid(e, epoch, offer)
    BY DEF Sendable
  <1>q. /\ \A n \in 1..L : q[n].type = "acquire" => q[n].epoch <= e /\ q[n].epoch \in Nat
        /\ \A m, n \in 1..L : m <= n /\ q[m].type = "acquire" /\ q[n].type = "acquire" => q[m].epoch <= q[n].epoch
    <2>1. \A n \in 1..L : q[n] \in Requests
      BY ElementsOf
    <2> QED BY <2>1 DEF Sorted, Requests, Strokes
  <1> HIDE DEF s, L, T
  <1>where. ASSUME NEW n \in 1..Len(s)
        PROVE  \/ n \in 1..L /\ s[n] = q[n] /\ (n > 1 => n - 1 \in 1..L /\ s[n - 1] = q[n - 1])
                  /\ (n > 2 => n - 2 \in 1..L /\ s[n - 2] = q[n - 2])
               \/ \E k \in 1..T : /\ n = L + k /\ s[n] = t[k]
                                  /\ k > 1 => k - 1 \in 1..T /\ s[n - 1] = t[k - 1]
                                  /\ k > 2 => k - 2 \in 1..T /\ s[n - 2] = t[k - 2]
    <2>1. CASE n \in 1..L
      BY <1>1, <2>1
    <2>2. CASE n \notin 1..L
      <3> DEFINE k == n - L
      <3>1. k \in 1..T /\ n = L + k /\ s[n] = t[k] /\ n \in Nat
        BY <1>1, <2>2
      <3>2. k > 1 => k - 1 \in 1..T /\ n - 1 = L + (k - 1)
        BY <1>1, <3>1
      <3>3. k > 2 => k - 2 \in 1..T /\ n - 2 = L + (k - 2)
        BY <1>1, <3>1
      <3> HIDE DEF k
      <3>4. /\ k > 1 => k - 1 \in 1..T /\ s[n - 1] = t[k - 1]
            /\ k > 2 => k - 2 \in 1..T /\ s[n - 2] = t[k - 2]
        BY <1>1, <3>2, <3>3
      <3> QED BY <3>1, <3>4
    <2> QED BY <2>1, <2>2
  <1>2. ASSUME NEW n \in 1..Len(s)
        PROVE  /\ KeyPress(s[n]) =>
                    IF n = 1 THEN vk = s[1].meant
                    ELSE s[n - 1].type = "modifiers" /\ s[n - 1].mods = s[n].meant
               /\ ChordPress(s[n]) =>
                    IF n >= 3 THEN s[n - 2].type = "acquire" /\ Valid(s[n - 2].epoch, epoch, offer)
                    ELSE allowed => offer
    <2>1. CASE /\ n \in 1..L /\ s[n] = q[n]
               /\ n > 1 => n - 1 \in 1..L /\ s[n - 1] = q[n - 1]
               /\ n > 2 => n - 2 \in 1..L /\ s[n - 2] = q[n - 2]
      <3>1. /\ KeyPress(q[n]) =>
                 IF n = 1 THEN vk = q[1].meant
                 ELSE q[n - 1].type = "modifiers" /\ q[n - 1].mods = q[n].meant
            /\ ChordPress(q[n]) =>
                 IF n >= 3 THEN q[n - 2].type = "acquire" /\ Valid(q[n - 2].epoch, epoch, offer)
                 ELSE allowed => offer
        BY <2>1 DEF Announced, Chords, L
      <3>2. n \in Nat /\ n >= 1 /\ (n # 1 => n > 1) /\ (n >= 3 => n > 2)
        BY <1>1, <2>1
      <3> QED BY <2>1, <3>1, <3>2
    <2>2. ASSUME NEW k \in 1..T, n = L + k, s[n] = t[k],
                 k > 1 => k - 1 \in 1..T /\ s[n - 1] = t[k - 1],
                 k > 2 => k - 2 \in 1..T /\ s[n - 2] = t[k - 2]
          PROVE  /\ KeyPress(s[n]) => n # 1 /\ s[n - 1].type = "modifiers" /\ s[n - 1].mods = s[n].meant
                 /\ ChordPress(s[n]) => n >= 3 /\ s[n - 2].type = "acquire" /\ Valid(s[n - 2].epoch, epoch, offer)
      <3>1. (k >= 2 => k > 1 /\ n # 1) /\ (k >= 3 => k > 2 /\ n >= 3)
        BY <1>1, <2>2
      <3>2. KeyPress(s[n]) => n # 1 /\ s[n - 1].type = "modifiers" /\ s[n - 1].mods = s[n].meant
        BY <1>t, <2>2, <3>1
      <3>3. ASSUME ChordPress(s[n])
            PROVE  n >= 3 /\ s[n - 2].type = "acquire" /\ Valid(s[n - 2].epoch, epoch, offer)
        <4>1. k >= 3 /\ t[k - 2].type = "acquire" /\ Valid(e, epoch, offer)
          BY <1>t, <2>2, <3>3
        <4>2. n >= 3 /\ k - 2 \in 1..T /\ s[n - 2] = t[k - 2]
          BY <2>2, <3>1, <4>1
        <4> QED BY <1>t, <4>1, <4>2
      <3> QED BY <3>2, <3>3
    <2> QED BY <1>where, <2>1, <2>2
  <1>3. ASSUME NEW n \in 1..Len(s), s[n].type = "acquire"
        PROVE  s[n].epoch <= e /\ s[n].epoch \in Nat /\ (n \notin 1..L => s[n].epoch = e)
    <2>1. CASE n \in 1..L
      BY <1>1, <1>3, <1>q, <2>1
    <2>2. CASE n \notin 1..L
      <3>1. n - L \in 1..T /\ s[n] = t[n - L]
        BY <1>1, <2>2
      <3> QED BY <1>3, <1>t, <3>1
    <2> QED BY <2>1, <2>2
  <1>4. ASSUME NEW m \in 1..Len(s), NEW n \in 1..Len(s), m <= n, s[m].type = "acquire", s[n].type = "acquire"
        PROVE  s[m].epoch <= s[n].epoch
    <2>1. CASE n \notin 1..L
      BY <1>3, <1>4, <2>1
    <2>2. CASE n \in 1..L
      <3>1. m \in 1..L /\ s[m] = q[m] /\ s[n] = q[n]
        BY <1>1, <1>4, <2>2
      <3> QED BY <1>4, <1>q, <2>2, <3>1
    <2> QED BY <2>1, <2>2
  <1>5. Announced(s, vk) /\ Chords(s, epoch, offer, allowed)
    BY <1>2 DEF Announced, Chords
  <1>6. Sorted(s, e2)
    <2>1. \A n \in 1..Len(s) : s[n].type = "acquire" => s[n].epoch <= e2
      BY <1>3
    <2> QED BY <1>4, <2>1 DEF Sorted
  <1> QED BY <1>5, <1>6 DEF s

LEMMA LevelsSend ==
    ASSUME NEW q \in Seq(Requests), NEW t \in Seq(Requests), NEW epoch \in Nat,
           NEW b \in Nat, NEW b2 \in Nat, NEW c, Levels(c, q, epoch, b),
           \A n \in 1..Len(t) : t[n].type = "acquire" => t[n].epoch = b,
           \/ b2 <= b \/ b2 <= epoch
           \/ b2 = b + 1 /\ Len(t) >= 1 /\ t[1].type = "revoke"
    PROVE  \E d : Levels(d, q \o t, epoch, b2)
  <1> DEFINE s == q \o t
             L == Len(q)
             T == Len(t)
  <1>1. /\ s \in Seq(Requests) /\ L \in Nat /\ T \in Nat /\ Len(s) = L + T
        /\ \A n \in 1..L : s[n] = q[n]
        /\ \A n \in 1..T : s[L + n] = t[n]
        /\ \A n \in 1..Len(s) : n \in 1..L \/ (n - L \in 1..T /\ s[n] = t[n - L])
    <2>1. /\ s \in Seq(Requests)
          /\ Len(s) = Len(q) + Len(t)
          /\ \A n \in 1..Len(q) : s[n] = q[n]
          /\ \A n \in 1..Len(t) : s[Len(q) + n] = t[n]
          /\ \A n \in 1..Len(s) : n \in 1..Len(q) \/ (n - Len(q) \in 1..Len(t) /\ s[n] = t[n - Len(q)])
      BY Joined
    <2> QED BY <2>1
  <1>2. /\ c \in [1..(L + 1) -> Nat] /\ c[1] = epoch
        /\ \A n \in 1..(L + 1) : c[n] \in Nat /\ epoch <= c[n]
        /\ \A n \in 1..L : c[n + 1] <= c[n] + Rev(q[n])
        /\ \A n \in 1..L : q[n].type = "acquire" => q[n].epoch <= c[n]
        /\ b <= c[L + 1] /\ L + 1 \in 1..(L + 1) /\ 1 \in 1..(L + 1)
    <2>1. /\ c \in [1..(L + 1) -> Nat] /\ c[1] = epoch
          /\ \A n \in 1..(L + 1) : epoch <= c[n]
          /\ \A n \in 1..L : c[n + 1] <= c[n] + Rev(q[n])
          /\ \A n \in 1..L : q[n].type = "acquire" => q[n].epoch <= c[n]
          /\ b <= c[L + 1]
      BY Zenon DEF Levels
    <2>2. L + 1 \in 1..(L + 1) /\ 1 \in 1..(L + 1)
      BY <1>1
    <2>3. \A n \in 1..(L + 1) : c[n] \in Nat
      BY <2>1
    <2> QED BY <2>1, <2>2, <2>3
  <1>3. PICK up \in {0, 1} : /\ up = 1 => T >= 1 /\ t[1].type = "revoke"
                             /\ b2 <= b + up \/ b2 <= epoch
    <2>1. CASE b2 <= b \/ b2 <= epoch
      BY <2>1
    <2>2. CASE b2 = b + 1 /\ Len(t) >= 1 /\ t[1].type = "revoke"
      BY <2>2
    <2> QED BY <2>1, <2>2
  <1>t. \A n \in 1..T : t[n].type = "acquire" => t[n].epoch = b
    OBVIOUS
  <1> HIDE DEF s, L, T
  <1>4. PICK top \in Nat : top = c[L + 1]
    BY <1>2
  <1> DEFINE d == [n \in 1..(L + T + 1) |-> IF n <= L + 1 THEN c[n] ELSE top + up]
  <1>5. /\ d \in [1..(L + T + 1) -> Nat]
        /\ \A n \in 1..(L + 1) : n \in 1..(L + T + 1) /\ d[n] = c[n]
        /\ \A n \in 1..(L + T + 1) : n > L + 1 => d[n] = top + up
    <2>1. \A n \in 1..(L + T + 1) : n <= L + 1 => n \in 1..(L + 1)
      BY <1>1
    <2> QED BY <1>1, <1>2, <2>1
  <1> HIDE DEF d
  <1>6. d[1] = epoch
    BY <1>2, <1>5
  <1>7. top + up \in Nat /\ epoch <= top + up /\ epoch <= top
    BY <1>2, <1>4
  <1>8. \A n \in 1..(Len(s) + 1) : epoch <= d[n]
    <2> SUFFICES ASSUME NEW n \in 1..(L + T + 1) PROVE epoch <= d[n]
      BY <1>1
    <2>1. CASE n \in 1..(L + 1)
      BY <1>2, <1>5, <2>1
    <2>2. CASE n \notin 1..(L + 1)
      <3>1. n > L + 1
        BY <1>1, <2>2
      <3> QED BY <1>5, <1>7, <3>1
    <2> QED BY <2>1, <2>2
  <1>9. ASSUME NEW n \in 1..Len(s)
        PROVE  /\ d[n + 1] <= d[n] + Rev(s[n])
               /\ s[n].type = "acquire" => s[n].epoch <= d[n]
    <2>0. Rev(s[n]) \in {0, 1} /\ n \in Nat
      BY DEF Rev
    <2>1. CASE n \in 1..L
      <3>1. n \in 1..(L + 1) /\ n + 1 \in 1..(L + 1)
        BY <1>1, <2>1
      <3>2. d[n] = c[n] /\ d[n + 1] = c[n + 1] /\ s[n] = q[n]
        BY <1>1, <1>5, <2>1, <3>1
      <3> QED BY <1>2, <2>1, <3>2
    <2>2. CASE n = L + 1
      <3>1. n \in 1..(L + 1) /\ n + 1 \in 1..(L + T + 1) /\ n + 1 > L + 1 /\ 1 \in 1..T /\ n = L + 1
        BY <1>1, <2>2
      <3>2. d[n] = top /\ d[n + 1] = top + up /\ s[n] = t[1]
        BY <1>1, <1>4, <1>5, <3>1
      <3>3. up <= Rev(s[n])
        BY <1>3, <3>2 DEF Rev
      <3>4. d[n + 1] <= d[n] + Rev(s[n])
        BY <2>0, <3>2, <3>3
      <3>5. s[n].type = "acquire" => s[n].epoch = b
        BY <1>t, <3>1, <3>2
      <3> QED BY <1>2, <1>4, <3>2, <3>4, <3>5
    <2>3. CASE n \notin 1..L /\ n # L + 1
      <3>1. n > L + 1 /\ n + 1 > L + 1 /\ n \in 1..(L + T + 1) /\ n + 1 \in 1..(L + T + 1) /\ n - L \in 1..T
        BY <1>1, <2>3
      <3>2. d[n] = top + up /\ d[n + 1] = top + up /\ s[n] = t[n - L]
        BY <1>1, <1>5, <2>3, <3>1
      <3>3. d[n + 1] <= d[n] + Rev(s[n])
        BY <1>7, <2>0, <3>2
      <3>4. s[n].type = "acquire" => s[n].epoch = b
        BY <1>t, <3>1, <3>2
      <3>5. b <= top + up
        BY <1>2, <1>4
      <3> QED BY <3>2, <3>3, <3>4, <3>5
    <2> QED BY <2>1, <2>2, <2>3
  <1>10. b2 <= d[Len(s) + 1]
    <2>0. L + T + 1 \in 1..(L + T + 1) /\ Len(s) + 1 = L + T + 1
      BY <1>1
    <2>b. b <= top /\ (b2 <= b + up \/ b2 <= epoch) /\ up \in Nat
      BY <1>2, <1>3, <1>4
    <2>m. b2 <= top + up
      BY <2>b, <1>7
    <2>1. CASE T = 0
      <3>1. L + T + 1 = L + 1 /\ up = 0
        BY <1>1, <1>3, <2>1
      <3>2. d[L + T + 1] = top
        BY <1>2, <1>4, <1>5, <3>1
      <3>3. b2 <= top
        BY <2>m, <3>1
      <3> QED BY <2>0, <3>2, <3>3
    <2>2. CASE T # 0
      <3>1. d[L + T + 1] = top + up
        BY <1>1, <1>5, <2>0, <2>2
      <3> QED BY <2>0, <2>m, <3>1
    <2> QED BY <2>1, <2>2
  <1>11. Levels(d, s, epoch, b2)
    BY <1>1, <1>5, <1>6, <1>8, <1>9, <1>10 DEF Levels
  <1> QED BY <1>11 DEF s

----------------------------------------------------------------------------
(* The compositor takes the first request.                                 *)

LEMMA EndsTail ==
    ASSUME NEW q \in Seq(Requests), q # <<>>, NEW i
    PROVE  /\ \A n \in 1..Len(q) : EndsBehind(q, n, i) => EndsBehind(Tail(q), n - 1, i)
           /\ EndsBehind(q, 0, i) => Ends(q[1], i) \/ EndsBehind(Tail(q), 0, i)
  <1> DEFINE s == Tail(q)
             L == Len(q)
  <1>1. L \in Nat \ {0} /\ Len(s) = L - 1 /\ \A n \in 1..(L - 1) : s[n] = q[n + 1]
    <2>1. /\ Tail(q) \in Seq(Requests)
          /\ Len(q) \in Nat \ {0}
          /\ Len(Tail(q)) = Len(q) - 1
          /\ \A n \in 1..(Len(q) - 1) : Tail(q)[n] = q[n + 1]
          /\ Head(q) = q[1] /\ Head(q) \in Requests
      BY Rest
    <2> QED BY <2>1
  <1> HIDE DEF s
  <1>2. ASSUME NEW m \in 1..L, NEW n \in Nat, m > n, m > 1, Ends(q[m], i)
        PROVE  EndsBehind(s, n - 1, i)
    <2>1. PICK k : k = m - 1
      OBVIOUS
    <2>2. k \in 1..Len(s) /\ k > n - 1 /\ k \in 1..(L - 1) /\ k + 1 = m
      BY <1>1, <1>2, <2>1
    <2>3. s[k] = q[m]
      BY <1>1, <2>2
    <2> QED BY <1>2, <2>2, <2>3 DEF EndsBehind
  <1>3. ASSUME NEW n \in 1..L, EndsBehind(q, n, i) PROVE EndsBehind(s, n - 1, i)
    <2>1. PICK m \in 1..L : m > n /\ Ends(q[m], i)
      BY <1>3 DEF EndsBehind
    <2>2. m > 1 /\ n \in Nat
      BY <1>1, <2>1
    <2> QED BY <1>2, <2>1, <2>2
  <1>4. ASSUME EndsBehind(q, 0, i), ~Ends(q[1], i) PROVE EndsBehind(s, 0, i)
    <2>1. PICK m \in 1..L : m > 0 /\ Ends(q[m], i)
      BY <1>4 DEF EndsBehind
    <2>2. m # 1
      BY <1>4, <2>1
    <2>3. m > 1 /\ 1 \in Nat /\ 1 - 1 = 0
      BY <1>1, <2>1, <2>2
    <2>4. PICK k : k = m - 1
      OBVIOUS
    <2>5. k \in 1..Len(s) /\ k > 0 /\ k \in 1..(L - 1) /\ k + 1 = m
      BY <1>1, <2>3, <2>4
    <2>6. s[k] = q[m]
      BY <1>1, <2>5
    <2> QED BY <2>1, <2>5, <2>6 DEF EndsBehind
  <1> QED BY <1>3, <1>4 DEF s

LEMMA RememberedTail ==
    ASSUME NEW q \in Seq(Requests), q # <<>>, NEW held, NEW held2, NEW p, Remembered(held, p, q),
           \A i \in held2 : (i \in held /\ ~Ends(q[1], i)) \/ (Press(q[1]) /\ q[1].code = i)
    PROVE  Remembered(held2, p, Tail(q))
  <1> DEFINE s == Tail(q)
             L == Len(q)
  <1>1. L \in Nat \ {0} /\ Len(s) = L - 1 /\ \A n \in 1..(L - 1) : s[n] = q[n + 1]
    <2>1. /\ Tail(q) \in Seq(Requests)
          /\ Len(q) \in Nat \ {0}
          /\ Len(Tail(q)) = Len(q) - 1
          /\ \A n \in 1..(Len(q) - 1) : Tail(q)[n] = q[n + 1]
          /\ Head(q) = q[1] /\ Head(q) \in Requests
      BY Rest
    <2> QED BY <2>1
  <1>ends. ASSUME NEW i
           PROVE  /\ \A n \in 1..L : EndsBehind(q, n, i) => EndsBehind(s, n - 1, i)
                  /\ EndsBehind(q, 0, i) => Ends(q[1], i) \/ EndsBehind(s, 0, i)
    BY EndsTail
  <1>q. /\ \A i \in held : i \in p \/ EndsBehind(q, 0, i)
        /\ \A n \in 1..L : Press(q[n]) => q[n].code \in p \/ EndsBehind(q, n, q[n].code)
    BY DEF Remembered
  <1> HIDE DEF s, L
  <1>2. ASSUME NEW i \in held2 PROVE i \in p \/ EndsBehind(s, 0, i)
    <2>1. CASE i \in held /\ ~Ends(q[1], i)
      BY <1>ends, <1>q, <2>1
    <2>2. CASE Press(q[1]) /\ q[1].code = i
      <3>1. 1 \in 1..L /\ 1 - 1 = 0
        BY <1>1
      <3>2. i \in p \/ EndsBehind(q, 1, i)
        BY <1>q, <2>2, <3>1
      <3>3. EndsBehind(q, 1, i) => EndsBehind(s, 1 - 1, i)
        BY <1>ends, <3>1
      <3> QED BY <3>1, <3>2, <3>3
    <2> QED BY <2>1, <2>2
  <1>3. ASSUME NEW n \in 1..Len(s), Press(s[n]) PROVE s[n].code \in p \/ EndsBehind(s, n, s[n].code)
    <2>1. n \in 1..(L - 1) /\ n + 1 \in 1..L /\ (n + 1) - 1 = n
      BY <1>1
    <2>2. s[n] = q[n + 1]
      BY <1>1, <2>1
    <2>3. q[n + 1].code \in p \/ EndsBehind(q, n + 1, q[n + 1].code)
      BY <1>3, <1>q, <2>1, <2>2
    <2>4. EndsBehind(q, n + 1, q[n + 1].code) => EndsBehind(s, (n + 1) - 1, q[n + 1].code)
      BY <1>ends, <2>1
    <2> QED BY <2>1, <2>2, <2>3, <2>4
  <1>4. Remembered(held2, p, s)
    BY <1>2, <1>3 DEF Remembered
  <1> QED BY <1>4 DEF s

\* The holds may also go without a request.
LEMMA RememberedLess ==
    ASSUME NEW q, NEW held, NEW held2, held2 \subseteq held, NEW p, Remembered(held, p, q)
    PROVE  Remembered(held2, p, q)
  BY DEF Remembered

LEMMA ValidKept ==
    ASSUME NEW e \in Nat, NEW epoch \in Nat, NEW epoch2 \in Nat, NEW offer, NEW offer2,
           epoch2 > epoch \/ (epoch2 = epoch /\ (offer => offer2)), Valid(e, epoch, offer)
    PROVE  Valid(e, epoch2, offer2)
  BY DEF Valid

LEMMA QueueTail ==
    ASSUME NEW q \in Seq(Requests), q # <<>>, NEW e,
           NEW vk, NEW vk2, q[1].type = "modifiers" => vk2 = q[1].mods,
           NEW epoch \in Nat, NEW epoch2 \in Nat, NEW offer, NEW offer2, NEW allowed, NEW allowed2,
           epoch2 > epoch \/ (epoch2 = epoch /\ (offer => offer2)),
           q[1].type = "modifiers" /\ (allowed => offer) => (allowed2 => offer2),
           q[1].type = "acquire" /\ Valid(q[1].epoch, epoch, offer) => (allowed2 => offer2),
           Announced(q, vk), Chords(q, epoch, offer, allowed), Sorted(q, e)
    PROVE  /\ Announced(Tail(q), vk2)
           /\ Chords(Tail(q), epoch2, offer2, allowed2)
           /\ Sorted(Tail(q), e)
  <1> DEFINE s == Tail(q)
             L == Len(q)
  <1>1. L \in Nat \ {0} /\ Len(s) = L - 1 /\ \A n \in 1..(L - 1) : s[n] = q[n + 1]
    <2>1. /\ Tail(q) \in Seq(Requests)
          /\ Len(q) \in Nat \ {0}
          /\ Len(Tail(q)) = Len(q) - 1
          /\ \A n \in 1..(Len(q) - 1) : Tail(q)[n] = q[n + 1]
          /\ Head(q) = q[1] /\ Head(q) \in Requests
      BY Rest
    <2> QED BY <2>1
  <1>elements. \A n \in 1..L : q[n].type = "acquire" => q[n].epoch \in Nat
    <2>1. \A n \in 1..Len(q) : q[n] \in Requests
      BY ElementsOf
    <2> QED BY <2>1 DEF Requests, Strokes
  <1>q. \A n \in 1..L :
           /\ KeyPress(q[n]) =>
                IF n = 1 THEN vk = q[1].meant
                ELSE q[n - 1].type = "modifiers" /\ q[n - 1].mods = q[n].meant
           /\ ChordPress(q[n]) =>
                IF n >= 3 THEN q[n - 2].type = "acquire" /\ Valid(q[n - 2].epoch, epoch, offer)
                ELSE allowed => offer
    BY DEF Announced, Chords
  <1>s. /\ \A n \in 1..L : q[n].type = "acquire" => q[n].epoch <= e
        /\ \A m, n \in 1..L : m <= n /\ q[m].type = "acquire" /\ q[n].type = "acquire" => q[m].epoch <= q[n].epoch
    BY DEF Sorted
  <1> HIDE DEF s, L
  <1>2. ASSUME NEW n \in 1..Len(s)
        PROVE  /\ n \in 1..(L - 1) /\ n + 1 \in 1..L /\ s[n] = q[n + 1] /\ (n + 1) - 1 = n
               /\ n > 1 => s[n - 1] = q[n]
               /\ n > 2 => s[n - 2] = q[n - 1]
    <2>1. n \in 1..(L - 1) /\ n + 1 \in 1..L /\ (n + 1) - 1 = n
      BY <1>1
    <2>2. n > 1 => n - 1 \in 1..(L - 1) /\ (n - 1) + 1 = n
      BY <1>1, <2>1
    <2>3. n > 2 => n - 2 \in 1..(L - 1) /\ (n - 2) + 1 = n - 1
      BY <1>1, <2>1
    <2> QED BY <1>1, <2>1, <2>2, <2>3
  <1>3. ASSUME NEW n \in 1..Len(s), KeyPress(s[n])
        PROVE  IF n = 1 THEN vk2 = s[1].meant
               ELSE s[n - 1].type = "modifiers" /\ s[n - 1].mods = s[n].meant
    <2>1. n + 1 \in 1..L /\ s[n] = q[n + 1] /\ (n + 1) - 1 = n /\ n + 1 # 1 /\ n \in Nat /\ n >= 1
      BY <1>1, <1>2
    <2>2. q[n].type = "modifiers" /\ q[n].mods = s[n].meant
      <3>1. q[(n + 1) - 1].type = "modifiers" /\ q[(n + 1) - 1].mods = q[n + 1].meant
        BY <1>3, <1>q, <2>1
      <3> QED BY <2>1, <3>1
    <2>3. CASE n = 1
      BY <2>2, <2>3
    <2>4. CASE n # 1
      <3>1. n > 1
        BY <2>1, <2>4
      <3> QED BY <1>2, <2>2, <2>4, <3>1
    <2> QED BY <2>3, <2>4
  <1>4. ASSUME NEW n \in 1..Len(s), ChordPress(s[n])
        PROVE  IF n >= 3 THEN s[n - 2].type = "acquire" /\ Valid(s[n - 2].epoch, epoch2, offer2)
               ELSE allowed2 => offer2
    <2>1. n + 1 \in 1..L /\ s[n] = q[n + 1] /\ n \in Nat /\ n >= 1
      BY <1>1, <1>2
    <2>2. IF n + 1 >= 3 THEN q[(n + 1) - 2].type = "acquire" /\ Valid(q[(n + 1) - 2].epoch, epoch, offer)
          ELSE allowed => offer
      BY <1>4, <1>q, <2>1
    <2>3. CASE n = 1
      <3>1. allowed => offer
        BY <2>2, <2>3
      <3>2. q[2 - 1].type = "modifiers"
        <4>1. KeyPress(q[2]) /\ 2 \in 1..L
          BY <1>4, <2>1, <2>3 DEF ChordPress
        <4> QED BY <1>q, <4>1
      <3>3. q[1].type = "modifiers"
        BY <3>2
      <3> QED BY <2>3, <3>1, <3>3
    <2>4. CASE n = 2
      <3>1. q[1].type = "acquire" /\ Valid(q[1].epoch, epoch, offer)
        BY <2>2, <2>4
      <3> QED BY <2>4, <3>1
    <2>5. CASE n >= 3
      <3>1. n + 1 >= 3 /\ (n + 1) - 2 = n - 1 /\ n > 2 /\ n - 1 \in 1..L
        BY <1>1, <2>1, <2>5
      <3>2. q[n - 1].type = "acquire" /\ Valid(q[n - 1].epoch, epoch, offer)
        BY <2>2, <3>1
      <3>3. q[n - 1].epoch \in Nat
        BY <1>elements, <3>1, <3>2
      <3>4. Valid(q[n - 1].epoch, epoch2, offer2)
        BY <3>2, <3>3, ValidKept
      <3>5. s[n - 2] = q[n - 1]
        BY <1>2, <3>1
      <3> QED BY <2>5, <3>2, <3>4, <3>5
    <2> QED BY <2>1, <2>3, <2>4, <2>5
  <1>5. Announced(s, vk2) /\ Chords(s, epoch2, offer2, allowed2)
    BY <1>3, <1>4 DEF Announced, Chords
  <1>6. Sorted(s, e)
    <2>1. ASSUME NEW n \in 1..Len(s), s[n].type = "acquire" PROVE s[n].epoch <= e
      BY <1>2, <1>s, <2>1
    <2>2. ASSUME NEW m \in 1..Len(s), NEW n \in 1..Len(s), m <= n,
                 s[m].type = "acquire", s[n].type = "acquire"
          PROVE  s[m].epoch <= s[n].epoch
      <3>1. m + 1 \in 1..L /\ n + 1 \in 1..L /\ s[m] = q[m + 1] /\ s[n] = q[n + 1] /\ m + 1 <= n + 1
        BY <1>1, <1>2, <2>2
      <3> QED BY <1>s, <2>2, <3>1
    <2> QED BY <2>1, <2>2 DEF Sorted
  <1> QED BY <1>5, <1>6 DEF s

\* Nothing is taken: the compositor acts of itself.
LEMMA QueueStays ==
    ASSUME NEW q \in Seq(Requests),
           NEW epoch \in Nat, NEW epoch2 \in Nat, NEW offer, NEW offer2, NEW allowed, NEW allowed2,
           epoch2 > epoch \/ (epoch2 = epoch /\ (offer => offer2)),
           (allowed => offer) => (allowed2 => offer2),
           Chords(q, epoch, offer, allowed)
    PROVE  Chords(q, epoch2, offer2, allowed2)
  <1>1. \A n \in 1..Len(q) : q[n].type = "acquire" => q[n].epoch \in Nat
    <2>1. \A n \in 1..Len(q) : q[n] \in Requests
      BY ElementsOf
    <2> QED BY <2>1 DEF Requests, Strokes
  <1> SUFFICES ASSUME NEW n \in 1..Len(q), ChordPress(q[n])
               PROVE  IF n >= 3 THEN q[n - 2].type = "acquire" /\ Valid(q[n - 2].epoch, epoch2, offer2)
                      ELSE allowed2 => offer2
    BY DEF Chords
  <1>2. IF n >= 3 THEN q[n - 2].type = "acquire" /\ Valid(q[n - 2].epoch, epoch, offer)
        ELSE allowed => offer
    BY DEF Chords
  <1>3. CASE n >= 3
    <2>1. n - 2 \in 1..Len(q)
      <3>1. Len(q) \in Nat
        OBVIOUS
      <3> QED BY <1>3, <3>1
    <2>2. q[n - 2].epoch \in Nat /\ Valid(q[n - 2].epoch, epoch, offer) /\ q[n - 2].type = "acquire"
      BY <1>1, <1>2, <1>3, <2>1
    <2>3. Valid(q[n - 2].epoch, epoch2, offer2)
      BY <2>2, ValidKept
    <2> QED BY <1>3, <2>2, <2>3
  <1>4. CASE ~(n >= 3)
    BY <1>2, <1>4
  <1> QED BY <1>3, <1>4

LEMMA LevelsTail ==
    ASSUME NEW q \in Seq(Requests), q # <<>>, NEW epoch \in Nat, NEW epoch2 \in Nat, NEW b \in Nat,
           epoch2 = epoch + Rev(q[1]), NEW c, Levels(c, q, epoch, b)
    PROVE  \E d : Levels(d, Tail(q), epoch2, b)
  <1> DEFINE s == Tail(q)
             L == Len(q)
             d == [n \in 1..L |-> IF c[n + 1] < epoch2 THEN epoch2 ELSE c[n + 1]]
  <1>1. L \in Nat \ {0} /\ Len(s) = L - 1 /\ \A n \in 1..(L - 1) : s[n] = q[n + 1]
    <2>1. /\ Tail(q) \in Seq(Requests)
          /\ Len(q) \in Nat \ {0}
          /\ Len(Tail(q)) = Len(q) - 1
          /\ \A n \in 1..(Len(q) - 1) : Tail(q)[n] = q[n + 1]
          /\ Head(q) = q[1] /\ Head(q) \in Requests
      BY Rest
    <2> QED BY <2>1
  <1>2. /\ c \in [1..(L + 1) -> Nat]
        /\ c[1] = epoch
        /\ \A n \in 1..L : c[n + 1] <= c[n] + Rev(q[n])
        /\ \A n \in 1..L : q[n].type = "acquire" => q[n].epoch <= c[n]
        /\ b <= c[L + 1]
    BY Zenon DEF Levels
  <1>elements. \A n \in 1..L : q[n].type = "acquire" => q[n].epoch \in Nat
    <2>1. \A n \in 1..Len(q) : q[n] \in Requests
      BY ElementsOf
    <2> QED BY <2>1 DEF Requests, Strokes
  <1> HIDE DEF s, L
  <1>3. ASSUME NEW n \in 1..L
        PROVE  d[n] \in Nat /\ c[n + 1] \in Nat /\ d[n] >= epoch2 /\ d[n] >= c[n + 1]
               /\ (d[n] = epoch2 \/ d[n] = c[n + 1])
    <2>1. n + 1 \in 1..(L + 1)
      BY <1>1
    <2>2. c[n + 1] \in Nat
      BY <1>2, <2>1
    <2>3. d[n] = IF c[n + 1] < epoch2 THEN epoch2 ELSE c[n + 1]
      OBVIOUS
    <2> HIDE DEF d
    <2> QED BY <2>2, <2>3
  <1>4. d \in [1..L -> Nat]
    BY <1>3
  <1> HIDE DEF d
  <1>5. d[1] = epoch2
    <2>1. 1 \in 1..L /\ c[1 + 1] <= epoch2
      BY <1>1, <1>2
    <2>2. d[1] \in Nat /\ c[1 + 1] \in Nat /\ d[1] >= epoch2 /\ (d[1] = epoch2 \/ d[1] = c[1 + 1])
      BY <1>3, <2>1
    <2> QED BY <2>1, <2>2
  <1>6. ASSUME NEW n \in 1..(L - 1)
        PROVE  d[n + 1] <= d[n] + Rev(s[n]) /\ (s[n].type = "acquire" => s[n].epoch <= d[n])
    <2>1. n \in 1..L /\ n + 1 \in 1..L /\ s[n] = q[n + 1]
      BY <1>1
    <2>2. c[(n + 1) + 1] <= c[n + 1] + Rev(s[n]) /\ (s[n].type = "acquire" => s[n].epoch <= c[n + 1] /\ s[n].epoch \in Nat)
      BY <1>2, <1>elements, <2>1
    <2>3. Rev(s[n]) \in {0, 1}
      BY DEF Rev
    <2>4. d[n] \in Nat /\ c[n + 1] \in Nat /\ d[n] >= epoch2 /\ d[n] >= c[n + 1]
      BY <1>3, <2>1
    <2>5. d[n + 1] \in Nat /\ c[(n + 1) + 1] \in Nat /\ (d[n + 1] = epoch2 \/ d[n + 1] = c[(n + 1) + 1])
      BY <1>3, <2>1
    <2>6. d[n + 1] <= d[n] + Rev(s[n])
      <3>1. PICK v \in {0, 1} : v = Rev(s[n])
        BY <2>3
      <3>2. PICK a \in Nat : a = c[n + 1]
        BY <2>4
      <3>3. PICK a2 \in Nat : a2 = c[(n + 1) + 1]
        BY <2>5
      <3>4. PICK h \in Nat : h = d[n]
        BY <2>4
      <3>5. PICK h2 \in Nat : h2 = d[n + 1]
        BY <2>5
      <3>6. a2 <= a + v /\ h >= epoch2 /\ h >= a /\ (h2 = epoch2 \/ h2 = a2)
        BY <2>2, <2>4, <2>5, <3>1, <3>2, <3>3, <3>4, <3>5
      <3>7. h2 <= h + v
        BY <3>6
      <3> QED BY <3>1, <3>4, <3>5, <3>7
    <2>7. s[n].type = "acquire" => s[n].epoch <= d[n]
      BY <2>2, <2>4
    <2> QED BY <2>6, <2>7
  <1>7. b <= d[L]
    <2>1. L \in 1..L
      BY <1>1
    <2>2. d[L] \in Nat /\ c[L + 1] \in Nat /\ d[L] >= c[L + 1]
      BY <1>3, <2>1
    <2> QED BY <1>2, <2>2
  <1>8. Levels(d, s, epoch2, b)
    <2>1. Len(s) = L - 1 /\ Len(s) + 1 = L
      BY <1>1
    <2>2. \A n \in 1..L : epoch2 <= d[n]
      BY <1>3
    <2> QED BY <1>4, <1>5, <1>6, <1>7, <2>1, <2>2 DEF Levels
  <1> QED BY <1>8 DEF s

LEMMA LevelsRise ==
    ASSUME NEW q \in Seq(Requests), NEW epoch \in Nat, NEW epoch2 \in Nat, NEW b \in Nat,
           epoch <= epoch2, NEW c, Levels(c, q, epoch, b)
    PROVE  \E d : Levels(d, q, epoch2, b)
  <1> DEFINE L == Len(q)
             d == [n \in 1..(L + 1) |-> IF c[n] < epoch2 THEN epoch2 ELSE c[n]]
  <1>1. L \in Nat
    OBVIOUS
  <1>2. /\ c \in [1..(L + 1) -> Nat]
        /\ c[1] = epoch
        /\ \A n \in 1..L : c[n + 1] <= c[n] + Rev(q[n])
        /\ \A n \in 1..L : q[n].type = "acquire" => q[n].epoch <= c[n]
        /\ b <= c[L + 1]
    BY Zenon DEF Levels
  <1>elements. \A n \in 1..L : q[n].type = "acquire" => q[n].epoch \in Nat
    <2>1. \A n \in 1..Len(q) : q[n] \in Requests
      BY ElementsOf
    <2> QED BY <2>1 DEF Requests, Strokes
  <1> HIDE DEF L
  <1>3. ASSUME NEW n \in 1..(L + 1)
        PROVE  d[n] \in Nat /\ c[n] \in Nat /\ d[n] >= epoch2 /\ d[n] >= c[n]
               /\ (d[n] = epoch2 \/ d[n] = c[n])
    <2>2. c[n] \in Nat
      BY <1>2
    <2>3. d[n] = IF c[n] < epoch2 THEN epoch2 ELSE c[n]
      OBVIOUS
    <2> HIDE DEF d
    <2> QED BY <2>2, <2>3
  <1>4. d \in [1..(L + 1) -> Nat]
    BY <1>3
  <1> HIDE DEF d
  <1>5. d[1] = epoch2
    <2>1. 1 \in 1..(L + 1)
      BY <1>1
    <2>2. d[1] \in Nat /\ d[1] >= epoch2 /\ (d[1] = epoch2 \/ d[1] = c[1])
      BY <1>3, <2>1
    <2> QED BY <1>2, <2>2
  <1>6. ASSUME NEW n \in 1..L
        PROVE  d[n + 1] <= d[n] + Rev(q[n]) /\ (q[n].type = "acquire" => q[n].epoch <= d[n])
    <2>1. n \in 1..(L + 1) /\ n + 1 \in 1..(L + 1)
      BY <1>1
    <2>2. c[n + 1] <= c[n] + Rev(q[n]) /\ (q[n].type = "acquire" => q[n].epoch <= c[n] /\ q[n].epoch \in Nat)
      BY <1>2, <1>elements
    <2>3. Rev(q[n]) \in {0, 1}
      BY DEF Rev
    <2>4. d[n] \in Nat /\ c[n] \in Nat /\ d[n] >= epoch2 /\ d[n] >= c[n]
      BY <1>3, <2>1
    <2>5. d[n + 1] \in Nat /\ c[n + 1] \in Nat /\ (d[n + 1] = epoch2 \/ d[n + 1] = c[n + 1])
      BY <1>3, <2>1
    <2>6. d[n + 1] <= d[n] + Rev(q[n])
      <3>1. PICK v \in {0, 1} : v = Rev(q[n])
        BY <2>3
      <3>2. PICK a \in Nat : a = c[n]
        BY <2>4
      <3>3. PICK a2 \in Nat : a2 = c[n + 1]
        BY <2>5
      <3>4. PICK h \in Nat : h = d[n]
        BY <2>4
      <3>5. PICK h2 \in Nat : h2 = d[n + 1]
        BY <2>5
      <3>6. a2 <= a + v /\ h >= epoch2 /\ h >= a /\ (h2 = epoch2 \/ h2 = a2)
        BY <2>2, <2>4, <2>5, <3>1, <3>2, <3>3, <3>4, <3>5
      <3>7. h2 <= h + v
        BY <3>6
      <3> QED BY <3>1, <3>4, <3>5, <3>7
    <2>7. q[n].type = "acquire" => q[n].epoch <= d[n]
      BY <2>2, <2>4
    <2> QED BY <2>6, <2>7
  <1>7. b <= d[L + 1]
    <2>1. L + 1 \in 1..(L + 1)
      BY <1>1
    <2>2. d[L + 1] \in Nat /\ c[L + 1] \in Nat /\ d[L + 1] >= c[L + 1]
      BY <1>3, <2>1
    <2> QED BY <1>2, <2>2
  <1>8. Levels(d, q, epoch2, b)
    <2>1. \A n \in 1..(L + 1) : epoch2 <= d[n]
      BY <1>3
    <2> QED BY <1>4, <1>5, <1>6, <1>7, <2>1 DEF Levels, L
  <1> QED BY <1>8

----------------------------------------------------------------------------
(* The daemon's batches.                                                   *)

LEMMA Few ==
    ASSUME NEW R, NEW a \in R, NEW b \in R, NEW c \in R
    PROVE  /\ <<a>> \o <<>> \in Seq(R) /\ Len(<<a>> \o <<>>) = 1 /\ (<<a>> \o <<>>)[1] = a
           /\ <<a>> \o <<b>> \in Seq(R) /\ Len(<<a>> \o <<b>>) = 2
           /\ (<<a>> \o <<b>>)[1] = a /\ (<<a>> \o <<b>>)[2] = b
           /\ <<a>> \o (<<>> \o <<b>>) = <<a>> \o <<b>>
           /\ <<a>> \o (<<b>> \o <<c>>) \in Seq(R) /\ Len(<<a>> \o (<<b>> \o <<c>>)) = 3
           /\ (<<a>> \o (<<b>> \o <<c>>))[1] = a /\ (<<a>> \o (<<b>> \o <<c>>))[2] = b
           /\ (<<a>> \o (<<b>> \o <<c>>))[3] = c
  OBVIOUS

BackendType ==
    [epoch : Nat, created : BOOLEAN, paused : BOOLEAN, humanActive : BOOLEAN,
     pressed : SUBSET Inputs, mods : SUBSET Modifiers]

\* The modifiers the backend knows of are those it holds.
GoodBackend(b) ==
    b \in BackendType /\ IsFiniteSet(b.pressed) /\ b.mods = b.pressed \cap Modifiers

LEMMA PressedIs ==
    ASSUME NEW b, GoodBackend(b), NEW i \in Inputs, NEW down \in BOOLEAN
    PROVE  LET b2 == Pressed(b, i, down)
           IN  /\ GoodBackend(b2)
               /\ b2.epoch = b.epoch
               /\ b2.pressed = Toggled(b.pressed, i, down)
               /\ (i \in b.pressed) # down => b2.mods = ModsAfter(b, i, down)
  <1> DEFINE b2 == Pressed(b, i, down)
  <1>1. b \in BackendType /\ IsFiniteSet(b.pressed) /\ b.mods = b.pressed \cap Modifiers
    BY DEF GoodBackend
  <1>2. CASE (i \in b.pressed) = down
    <2>1. b2 = b
      BY <1>2 DEF Pressed
    <2>2. b.pressed = Toggled(b.pressed, i, down)
      BY <1>1, <1>2 DEF Toggled
    <2>3. GoodBackend(b2) /\ b2.epoch = b.epoch /\ b2.pressed = Toggled(b.pressed, i, down)
      <3> HIDE DEF b2
      <3> QED BY <2>1, <2>2
    <2> QED BY <1>2, <2>3
  <1>3. CASE (i \in b.pressed) # down
    <2>1. b2 = [b EXCEPT !.pressed = Toggled(@, i, down), !.mods = ModsAfter(b, i, down)]
      BY <1>3 DEF Pressed
    <2> HIDE DEF b2
    <2>2. Toggled(b.pressed, i, down) \in SUBSET Inputs
      BY <1>1 DEF Toggled, BackendType
    <2>3. ModsAfter(b, i, down) = Toggled(b.pressed, i, down) \cap Modifiers
      BY <1>1 DEF ModsAfter, Toggled, BackendType
    <2>4. IsFiniteSet(Toggled(b.pressed, i, down))
      <3>1. IsFiniteSet(b.pressed \cup {i})
        BY <1>1, FS_AddElement
      <3>2. IsFiniteSet(b.pressed \ {i})
        BY <1>1, FS_RemoveElement
      <3> QED BY <3>1, <3>2 DEF Toggled
    <2>5. /\ b2 \in BackendType /\ b2.epoch = b.epoch
          /\ b2.pressed = Toggled(b.pressed, i, down) /\ b2.mods = ModsAfter(b, i, down)
      BY <1>1, <2>1, <2>2, <2>3 DEF BackendType
    <2>6. GoodBackend(b2)
      BY <2>3, <2>4, <2>5 DEF GoodBackend
    <2> QED BY <2>5, <2>6 DEF b2
  <1> QED BY <1>2, <1>3

Quiet == {"acquire", "modifiers", "input"}

LEMMA PressesAre ==
    ASSUME NEW b, GoodBackend(b), NEW i \in Inputs, NEW down \in BOOLEAN, NEW of \in {"key", "chord"},
           backend.epoch \in Nat, of = "chord" /\ down => ModsAfter(b, i, down) = {Ctrl}
    PROVE  LET t == Acquired \o Presses(b, i, down, of)
           IN  /\ Sendable(t, backend.epoch, b.pressed, Pressed(b, i, down).pressed)
               /\ \A n \in 1..Len(t) : t[n].type \in Quiet /\ (of = "key" => ~ChordPress(t[n]))
  <1> DEFINE t == Acquired \o Presses(b, i, down, of)
             p == b.pressed
             p2 == Pressed(b, i, down).pressed
             a == [type |-> "acquire", epoch |-> backend.epoch]
             m == [type |-> "modifiers", mods |-> ModsAfter(b, i, down)]
             meant == IF of = "chord" THEN {Ctrl} ELSE p2 \cap Modifiers
             x == [type |-> "input", code |-> i, down |-> down, meant |-> meant, of |-> of]
  <1>1. /\ p2 = Toggled(p, i, down) /\ p \in SUBSET Inputs
        /\ (i \in p) # down => ModsAfter(b, i, down) = p2 \cap Modifiers
    BY PressedIs DEF GoodBackend, BackendType
  <1>2. meant \in SUBSET Modifiers /\ ModsAfter(b, i, down) \in SUBSET Modifiers
    BY <1>1, CodesAssumption DEF ModsAfter, Toggled, GoodBackend, BackendType
  <1>3. (i \in p) # down /\ down => meant = ModsAfter(b, i, down)
    BY <1>1
  <1> HIDE DEF meant, p, p2
  <1>4. a \in Requests /\ m \in Requests /\ x \in Requests
    BY <1>2 DEF Requests, Strokes
  <1>5. /\ a.type = "acquire" /\ a.epoch = backend.epoch
        /\ m.type = "modifiers" /\ m.mods = ModsAfter(b, i, down)
        /\ x.type = "input" /\ x.code = i /\ x.down = down /\ x.meant = meant /\ x.of = of
    OBVIOUS
  <1>6. t = <<a>> \o Presses(b, i, down, of)
    BY DEF Acquired
  <1>7. CASE (i \in p) = down
    <2>1. t = <<a>> \o <<>>
      BY <1>6, <1>7 DEF Presses, p
    <2> HIDE DEF t, a, m, x
    <2>2. t \in Seq(Requests) /\ Len(t) = 1 /\ t[1] = a
      BY <1>4, <2>1, Few
    <2>3. p2 = p
      BY <1>1, <1>7 DEF Toggled
    <2>4. \A n \in 1..Len(t) : n = 1 /\ t[n] = a
      BY <2>2
    <2>5. ~Press(a)
      BY <1>5 DEF Press
    <2>6. Bookkept(t, p, p2)
      BY <2>3, <2>4, <2>5 DEF Bookkept
    <2> QED BY <1>5, <2>2, <2>4, <2>5, <2>6 DEF Sendable, Quiet, KeyPress, ChordPress, t, p, p2
  <1>8. CASE (i \in p) # down
    <2>0. /\ t = <<a>> \o (IF i \in Keys THEN <<m>> \o <<x>> ELSE <<>> \o <<x>>)
      BY <1>6, <1>8 DEF Presses, Mods, Sent, p, p2, meant
    <2> HIDE DEF t, a, m, x
    <2>1. PICK l \in {2, 3} :
             /\ t \in Seq(Requests) /\ Len(t) = l /\ t[1] = a /\ t[l] = x
             /\ l = 3 => t[2] = m
             /\ i \in Keys => l = 3
      <3>1. CASE i \in Keys
        <4>1. t = <<a>> \o (<<m>> \o <<x>>)
          BY <2>0, <3>1
        <4>2. t \in Seq(Requests) /\ Len(t) = 3 /\ t[1] = a /\ t[2] = m /\ t[3] = x
          BY <1>4, <4>1, Few
        <4> QED BY <4>2
      <3>2. CASE i \notin Keys
        <4>1. t = <<a>> \o <<x>>
          BY <1>4, <2>0, <3>2, Few
        <4>2. t \in Seq(Requests) /\ Len(t) = 2 /\ t[1] = a /\ t[2] = x
          BY <1>4, <4>1, Few
        <4> QED BY <3>2, <4>2
      <3> QED BY <3>1, <3>2
    <2>2. \A n \in 1..Len(t) : n = 1 \/ n = l \/ (n = 2 /\ l = 3)
      BY <2>1
    <2>3. ~Press(a) /\ ~Press(m)
      BY <1>5 DEF Press
    <2>4. \A n \in 1..Len(t) : Press(t[n]) => n = l /\ t[n] = x /\ x.down
      BY <2>1, <2>2, <2>3 DEF Press
    <2>5. \A n \in 1..Len(t) : t[n].type = "acquire" => t[n].epoch = backend.epoch
      BY <1>5, <2>1, <2>2
    <2>6. ASSUME NEW n \in 1..Len(t), KeyPress(t[n])
          PROVE  n = 3 /\ t[2].type = "modifiers" /\ t[2].mods = t[n].meant /\ t[1].type = "acquire"
      <3>1. n = l /\ t[n] = x /\ i \in Keys /\ down
        BY <1>5, <2>4, <2>6 DEF KeyPress
      <3>2. l = 3 /\ t[2] = m
        BY <2>1, <3>1
      <3> QED BY <1>3, <1>5, <1>8, <2>1, <3>1, <3>2
    <2>7. Bookkept(t, p, p2)
      <3>1. \A n \in 1..Len(t) : Press(t[n]) => t[n].code \in p2
        BY <1>1, <1>5, <2>4 DEF Toggled
      <3>2. ASSUME NEW k \in p \ p2 PROVE EndsBehind(t, 0, k)
        <4>1. k = i /\ ~down
          BY <1>1, <3>2 DEF Toggled
        <4>2. Ends(t[l], k) /\ l \in 1..Len(t) /\ l > 0
          BY <1>5, <2>1, <4>1 DEF Ends
        <4> QED BY <4>2 DEF EndsBehind
      <3> QED BY <3>1, <3>2 DEF Bookkept
    <2>8. \A n \in 1..Len(t) : ChordPress(t[n]) => n >= 3 /\ t[n - 2].type = "acquire"
      BY <2>6 DEF ChordPress
    <2>9. \A n \in 1..Len(t) : KeyPress(t[n]) =>
              n >= 2 /\ t[n - 1].type = "modifiers" /\ t[n - 1].mods = t[n].meant
      BY <2>6
    <2>10. \A n \in 1..Len(t) : t[n].type \in Quiet /\ (of = "key" => ~ChordPress(t[n]))
      <3>1. \A n \in 1..Len(t) : t[n].type \in Quiet
        BY <1>5, <2>1, <2>2 DEF Quiet
      <3>2. \A n \in 1..Len(t) : ChordPress(t[n]) => t[n] = x /\ x.of = "chord"
        BY <2>4 DEF ChordPress, KeyPress
      <3> QED BY <1>5, <3>1, <3>2
    <2>11. Sendable(t, backend.epoch, p, p2)
      BY <2>1, <2>5, <2>7, <2>8, <2>9 DEF Sendable
    <2> QED BY <2>10, <2>11 DEF t, p, p2
  <1> QED BY <1>7, <1>8

LEMMA Harmless ==
    ASSUME NEW t \in Seq(Requests), NEW e, NEW p, NEW p2,
           \A n \in 1..Len(t) : ~Press(t[n]) /\ (t[n].type = "acquire" => t[n].epoch = e),
           \A i \in p \ p2 : EndsBehind(t, 0, i)
    PROVE  Sendable(t, e, p, p2)
  BY DEF Sendable, Bookkept, KeyPress, ChordPress

\* Requests that leave the clipboard alone, and those with no chord as well.
Unoffered == {r \in Requests : r.type # "offer"}
Calm == {r \in Unoffered : ~ChordPress(r)}

LEMMA Nothing ==
    ASSUME NEW p, NEW e
    PROVE  Sendable(<<>>, e, p, p) /\ <<>> \in Seq(Calm) /\ \A q \in Seq(Requests) : q \o <<>> = q
  <1>1. <<>> \in Seq(Requests) /\ <<>> \in Seq(Calm) /\ Len(<<>>) = 0
    OBVIOUS
  <1>2. Sendable(<<>>, e, p, p)
    BY <1>1 DEF Sendable, Bookkept
  <1>3. \A q \in Seq(Requests) : q \o <<>> = q
    BY ConcatEmptySeq
  <1> QED BY <1>1, <1>2, <1>3

LEMMA CalmRequests ==
    ASSUME NEW t \in Seq(Requests)
    PROVE  /\ (\A n \in 1..Len(t) : t[n] \in Unoffered) => t \in Seq(Unoffered)
           /\ (\A n \in 1..Len(t) : t[n] \in Calm) => t \in Seq(Calm)
  OBVIOUS

LEMMA OfCalm ==
    /\ \A t \in Seq(Calm) : t \in Seq(Unoffered)
    /\ \A t \in Seq(Unoffered) : t \in Seq(Requests) /\ \A n \in 1..Len(t) : t[n].type # "offer"
    /\ \A t \in Seq(Calm) : \A n \in 1..Len(t) : ~ChordPress(t[n])
  BY DEF Unoffered, Calm

LEMMA QuietIsCalm ==
    ASSUME NEW t \in Seq(Requests), \A n \in 1..Len(t) : t[n].type \in Quiet
    PROVE  t \in Seq(Unoffered) /\ ((\A n \in 1..Len(t) : ~ChordPress(t[n])) => t \in Seq(Calm))
  <1>1. \A n \in 1..Len(t) : t[n] \in Requests
    BY ElementsOf
  <1>2. \A n \in 1..Len(t) : t[n].type # "offer"
    BY DEF Quiet
  <1>3. \A n \in 1..Len(t) : t[n] \in Unoffered
    BY <1>1, <1>2 DEF Unoffered
  <1>4. (\A n \in 1..Len(t) : ~ChordPress(t[n])) => \A n \in 1..Len(t) : t[n] \in Calm
    BY <1>3 DEF Calm
  <1> QED BY <1>3, <1>4, CalmRequests

\* A key or a button.
LEMMA KeySent ==
    ASSUME NEW b, GoodBackend(b), NEW i \in Inputs, NEW down \in BOOLEAN, NEW of \in {"key", "chord"},
           backend.epoch \in Nat, of = "chord" /\ down => ModsAfter(b, i, down) = {Ctrl}
    PROVE  LET t == Acquired \o Presses(b, i, down, of)
           IN  /\ Sendable(t, backend.epoch, b.pressed, Pressed(b, i, down).pressed)
               /\ t \in Seq(Unoffered) /\ (of = "key" => t \in Seq(Calm))
  <1> DEFINE t == Acquired \o Presses(b, i, down, of)
  <1>1. /\ Sendable(t, backend.epoch, b.pressed, Pressed(b, i, down).pressed)
        /\ \A n \in 1..Len(t) : t[n].type \in Quiet /\ (of = "key" => ~ChordPress(t[n]))
    BY PressesAre
  <1> HIDE DEF t
  <1>2. t \in Seq(Requests)
    BY <1>1 DEF Sendable
  <1>3. t \in Seq(Unoffered) /\ (of = "key" => t \in Seq(Calm))
    BY <1>1, <1>2, QuietIsCalm
  <1> QED BY <1>1, <1>3 DEF t

LEMMA OneMore ==
    ASSUME NEW R, NEW s \in Seq(R), NEW x \in R
    PROVE  /\ s \o <<x>> \in Seq(R) /\ Len(s \o <<x>>) = Len(s) + 1
           /\ \A n \in 1..Len(s) : (s \o <<x>>)[n] = s[n]
           /\ (s \o <<x>>)[Len(s) + 1] = x
  OBVIOUS

LEMMA OneAhead ==
    ASSUME NEW R, NEW s \in Seq(R), NEW x \in R
    PROVE  /\ <<x>> \o s \in Seq(R) /\ Len(<<x>> \o s) = Len(s) + 1
           /\ (<<x>> \o s)[1] = x
           /\ \A n \in 1..Len(s) : (<<x>> \o s)[n + 1] = s[n]
  OBVIOUS

\* A character.
LEMMA TypedSent ==
    ASSUME GoodBackend(backend), NEW ch \in Characters
    PROVE  LET t == Acquired \o Typed(ch)
           IN  Sendable(t, backend.epoch, backend.pressed, backend.pressed) /\ t \in Seq(Calm)
  <1> DEFINE t == Acquired \o Typed(ch)
             p == backend.pressed
             a == [type |-> "acquire", epoch |-> backend.epoch]
             m == [type |-> "modifiers", mods |-> ch.mods]
             x == [type |-> "input", code |-> ch.key, down |-> TRUE, meant |-> ch.mods, of |-> "text"]
             y == [type |-> "input", code |-> ch.key, down |-> FALSE, meant |-> {}, of |-> "text"]
             z == [type |-> "modifiers", mods |-> backend.mods]
  <1>1. ch.key \in Inputs /\ ch.mods \in SUBSET Modifiers /\ backend.epoch \in Nat /\ backend.mods \in SUBSET Modifiers
    BY CharactersAssumption DEF GoodBackend, BackendType, Inputs
  <1>2. a \in Requests /\ m \in Requests /\ x \in Requests /\ y \in Requests /\ z \in Requests
    BY <1>1 DEF Requests, Strokes
  <1>3. /\ a.type = "acquire" /\ a.epoch = backend.epoch
        /\ m.type = "modifiers" /\ m.mods = ch.mods /\ z.type = "modifiers"
        /\ x.type = "input" /\ x.code = ch.key /\ x.down /\ x.meant = ch.mods /\ x.of = "text"
        /\ y.type = "input" /\ y.code = ch.key /\ ~y.down
    OBVIOUS
  <1>4. t = <<a>> \o (((<<m>> \o <<x>>) \o <<y>>) \o <<z>>)
    BY DEF Acquired, Typed, Mods, Sent
  <1> HIDE DEF t, a, m, x, y, z
  <1>5. /\ t \in Seq(Requests) /\ Len(t) = 5
        /\ t[1] = a /\ t[2] = m /\ t[3] = x /\ t[4] = y /\ t[5] = z
    <2>1. PICK u : u = <<m>> \o <<x>>
      OBVIOUS
    <2>2. u \in Seq(Requests) /\ Len(u) = 2 /\ u[1] = m /\ u[2] = x
      BY <1>2, <2>1
    <2>3. PICK v : v = u \o <<y>>
      OBVIOUS
    <2>4. v \in Seq(Requests) /\ Len(v) = 3 /\ v[1] = m /\ v[2] = x /\ v[3] = y
      <3>1. /\ u \o <<y>> \in Seq(Requests) /\ Len(u \o <<y>>) = Len(u) + 1
            /\ \A n \in 1..Len(u) : (u \o <<y>>)[n] = u[n]
            /\ (u \o <<y>>)[Len(u) + 1] = y
        BY <1>2, <2>2, OneMore
      <3> QED BY <2>2, <2>3, <3>1
    <2>5. PICK w : w = v \o <<z>>
      OBVIOUS
    <2>6. w \in Seq(Requests) /\ Len(w) = 4 /\ w[1] = m /\ w[2] = x /\ w[3] = y /\ w[4] = z
      <3>1. /\ v \o <<z>> \in Seq(Requests) /\ Len(v \o <<z>>) = Len(v) + 1
            /\ \A n \in 1..Len(v) : (v \o <<z>>)[n] = v[n]
            /\ (v \o <<z>>)[Len(v) + 1] = z
        BY <1>2, <2>4, OneMore
      <3> QED BY <2>4, <2>5, <3>1
    <2>7. t = <<a>> \o w
      BY <1>4, <2>1, <2>3, <2>5
    <2>8. /\ t \in Seq(Requests) /\ Len(t) = Len(w) + 1 /\ t[1] = a
          /\ \A n \in 1..Len(w) : t[n + 1] = w[n]
      BY <1>2, <2>6, <2>7, OneAhead
    <2>9. t[1 + 1] = w[1] /\ t[2 + 1] = w[2] /\ t[3 + 1] = w[3] /\ t[4 + 1] = w[4]
      BY <2>6, <2>8
    <2> QED BY <2>6, <2>8, <2>9
  <1>6. \A n \in 1..Len(t) : n = 1 \/ n = 2 \/ n = 3 \/ n = 4 \/ n = 5
    BY <1>5
  <1>7. ~Press(a) /\ ~Press(m) /\ ~Press(y) /\ ~Press(z)
    BY <1>3 DEF Press
  <1>8. \A n \in 1..Len(t) : Press(t[n]) => n = 3
    BY <1>5, <1>6, <1>7
  <1>9. \A n \in 1..Len(t) : t[n].type \in Quiet /\ ~ChordPress(t[n])
                             /\ (t[n].type = "acquire" => t[n].epoch = backend.epoch)
    <2>1. \A n \in 1..Len(t) : t[n].type \in Quiet /\ (t[n].type = "acquire" => t[n].epoch = backend.epoch)
      BY <1>3, <1>5, <1>6 DEF Quiet
    <2>2. \A n \in 1..Len(t) : ~ChordPress(t[n])
      BY <1>3, <1>5, <1>8 DEF ChordPress, KeyPress
    <2> QED BY <2>1, <2>2
  <1>10. Bookkept(t, p, p)
    <2>1. EndsBehind(t, 3, ch.key)
      <3>1. 4 \in 1..Len(t) /\ 4 > 3 /\ Ends(t[4], ch.key)
        BY <1>3, <1>5 DEF Ends
      <3> QED BY <3>1 DEF EndsBehind
    <2> QED BY <1>3, <1>5, <1>8, <2>1 DEF Bookkept
  <1>11. Sendable(t, backend.epoch, p, p)
    <2>1. \A n \in 1..Len(t) : KeyPress(t[n]) =>
              n >= 2 /\ t[n - 1].type = "modifiers" /\ t[n - 1].mods = t[n].meant
      <3>1. t[3 - 1].type = "modifiers" /\ t[3 - 1].mods = t[3].meant /\ 3 >= 2
        BY <1>3, <1>5
      <3> QED BY <1>8, <3>1 DEF KeyPress
    <2> QED BY <1>5, <1>9, <1>10, <2>1 DEF Sendable
  <1>12. t \in Seq(Calm)
    BY <1>5, <1>9, QuietIsCalm
  <1> QED BY <1>11, <1>12 DEF t

\* What neither presses nor offers.
Plain == {r \in Requests : ~Press(r) /\ r.type # "offer"}

LEMMA PlainSent ==
    ASSUME NEW t \in Seq(Plain), NEW e, NEW p, \A n \in 1..Len(t) : t[n].type = "acquire" => t[n].epoch = e
    PROVE  Sendable(t, e, p, p) /\ t \in Seq(Calm)
  <1>1. t \in Seq(Requests) /\ \A n \in 1..Len(t) : ~Press(t[n]) /\ t[n].type # "offer"
    BY DEF Plain
  <1>2. \A n \in 1..Len(t) : t[n] \in Calm
    <2>1. \A n \in 1..Len(t) : t[n] \in Requests
      BY <1>1, ElementsOf
    <2> QED BY <1>1, <2>1 DEF Calm, Unoffered, ChordPress, KeyPress
  <1> QED BY <1>1, <1>2, Harmless, CalmRequests

\* release_all.
LEMMA ReleasesSent ==
    ASSUME NEW b, GoodBackend(b), NEW e
    PROVE  /\ Sendable(Releases(b), e, b.pressed, {})
           /\ Sendable(Releases(b), e, {}, {})
           /\ Releases(b) \in Seq(Calm)
  <1> DEFINE t == Releases(b)
  <1>1. /\ t \in Seq(Requests)
        /\ \A n \in 1..Len(t) : t[n].type \in {"modifiers", "input"} /\ ~Press(t[n])
        /\ \A i \in b.pressed : \E n \in 1..Len(t) : Ends(t[n], i)
    BY ReleasesAre DEF GoodBackend, BackendType
  <1> HIDE DEF t
  <1>2. \A n \in 1..Len(t) : ~Press(t[n]) /\ t[n].type # "acquire" /\ t[n].type # "offer"
    BY <1>1
  <1>3. \A i \in b.pressed : EndsBehind(t, 0, i)
    <2>1. \A n \in 1..Len(t) : n > 0
      OBVIOUS
    <2> QED BY <1>1, <2>1 DEF EndsBehind
  <1>4. Sendable(t, e, b.pressed, {}) /\ Sendable(t, e, {}, {})
    BY <1>1, <1>2, <1>3, Harmless
  <1>5. t \in Seq(Calm)
    <2>1. \A n \in 1..Len(t) : t[n] \in Requests
      BY <1>1, ElementsOf
    <2>2. \A n \in 1..Len(t) : t[n] \in Calm
      BY <1>2, <2>1 DEF Calm, Unoffered, ChordPress, KeyPress
    <2> QED BY <1>1, <2>2, CalmRequests
  <1> QED BY <1>4, <1>5 DEF t

\* revoke_input, and what follows it.
LEMMA RevokesSent ==
    ASSUME NEW b, GoodBackend(b), NEW e, NEW more \in Seq(Plain),
           \A n \in 1..Len(more) : more[n].type # "acquire"
    PROVE  LET t == Revoke \o Releases(b) \o more
           IN  /\ Sendable(t, e, b.pressed, {}) /\ t \in Seq(Calm)
               /\ Len(t) >= 1 /\ t[1].type = "revoke"
  <1> DEFINE s == Releases(b)
             r == [type |-> "revoke"]
             t == Revoke \o Releases(b) \o more
  <1>1. r \in Requests /\ ~Press(r) /\ r.type = "revoke"
    BY DEF Requests, Press
  <1>2. Sendable(Revoke, e, b.pressed, {}) /\ Revoke \in Seq(Calm) /\ Len(Revoke) = 1 /\ Revoke[1] = r
    <2>1. PICK u : u = Revoke
      OBVIOUS
    <2>2. r \in Calm
      BY <1>1 DEF Calm, Unoffered, ChordPress, KeyPress
    <2>3. u = <<r>>
      BY <2>1 DEF Revoke
    <2> HIDE DEF r
    <2>4. u \in Seq(Requests) /\ u \in Seq(Calm) /\ Len(u) = 1 /\ u[1] = r
      BY <1>1, <2>2, <2>3
    <2>5. \A i \in b.pressed : EndsBehind(u, 0, i)
      <3>1. 1 \in 1..Len(u) /\ 1 > 0
        BY <2>4
      <3>2. \A i : Ends(u[1], i)
        BY <1>1, <2>4 DEF Ends
      <3> QED BY <3>1, <3>2 DEF EndsBehind
    <2>6. \A n \in 1..Len(u) : ~Press(u[n]) /\ u[n].type # "acquire"
      BY <1>1, <2>4
    <2>7. Sendable(u, e, b.pressed, {})
      BY <2>4, <2>5, <2>6, Harmless
    <2> QED BY <2>1, <2>4, <2>7
  <1>3. Sendable(s, e, {}, {}) /\ s \in Seq(Calm)
    BY ReleasesSent
  <1>4. Sendable(more, e, {}, {}) /\ more \in Seq(Calm)
    BY PlainSent
  <1>5. t = (Revoke \o s) \o more
    OBVIOUS
  <1> HIDE DEF s, t, r
  <1>6. Sendable(Revoke \o s, e, b.pressed, {}) /\ Revoke \o s \in Seq(Calm)
    BY <1>2, <1>3, SendableJoined
  <1>7. Sendable(t, e, b.pressed, {}) /\ t \in Seq(Calm)
    BY <1>4, <1>5, <1>6, SendableJoined
  <1>8. Len(t) >= 1 /\ t[1] = r
    <2>1. Revoke \in Seq(Calm) /\ s \in Seq(Calm) /\ more \in Seq(Calm)
      BY <1>2, <1>3, <1>4
    <2>2. PICK u : u = Revoke
      OBVIOUS
    <2>3. u \in Seq(Calm) /\ Len(u) = 1 /\ u[1] = r /\ t = (u \o s) \o more
      BY <1>2, <1>5, <2>2
    <2>4. PICK v : v = u \o s
      OBVIOUS
    <2>5. ASSUME NEW x \in Seq(Calm), NEW y \in Seq(Calm), Len(x) >= 1, x[1] = r
          PROVE  x \o y \in Seq(Calm) /\ Len(x \o y) >= 1 /\ (x \o y)[1] = r
      <3>1. /\ x \o y \in Seq(Calm)
            /\ Len(x \o y) = Len(x) + Len(y)
            /\ \A n \in 1..Len(x) : (x \o y)[n] = x[n]
            /\ \A n \in 1..Len(y) : (x \o y)[Len(x) + n] = y[n]
            /\ \A n \in 1..Len(x \o y) :
                   n \in 1..Len(x) \/ (n - Len(x) \in 1..Len(y) /\ (x \o y)[n] = y[n - Len(x)])
        BY Joined
      <3>2. Len(x) \in Nat /\ Len(y) \in Nat /\ 1 \in 1..Len(x)
        BY <2>5
      <3> QED BY <2>5, <3>1, <3>2
    <2>6. v \in Seq(Calm) /\ Len(v) >= 1 /\ v[1] = r
      BY <2>1, <2>3, <2>4, <2>5
    <2> QED BY <2>1, <2>3, <2>4, <2>5, <2>6
  <1> QED BY <1>1, <1>7, <1>8 DEF t

\* What takes two calls or more.
LEMMA SentAgain ==
    ASSUME NEW s \in Seq(Unoffered), NEW a \in Seq(Unoffered), NEW u \in Seq(Unoffered),
           NEW e, NEW p, NEW p2, NEW p3, Sendable(s, e, p, p2), Sendable(a \o u, e, p2, p3)
    PROVE  /\ Sendable(s \o a \o u, e, p, p3) /\ s \o a \o u \in Seq(Unoffered)
           /\ s \in Seq(Calm) /\ a \o u \in Seq(Calm) => s \o a \o u \in Seq(Calm)
  <1>1. (s \o a) \o u = s \o (a \o u)
    BY ConcatAssociative
  <1>2. Sendable(s \o (a \o u), e, p, p3)
    BY SendableJoined
  <1>3. PICK v : v = a \o u
    OBVIOUS
  <1>4. v \in Seq(Unoffered)
    BY <1>3
  <1>5. s \o v \in Seq(Unoffered) /\ (s \in Seq(Calm) /\ v \in Seq(Calm) => s \o v \in Seq(Calm))
    BY <1>4
  <1> QED BY <1>1, <1>2, <1>3, <1>5

LEMMA AcquiredIs ==
    ASSUME backend.epoch \in Nat
    PROVE  /\ Acquired \in Seq(Plain) /\ Acquired \in Seq(Unoffered)
           /\ \A n \in 1..Len(Acquired) : Acquired[n].type = "acquire" => Acquired[n].epoch = backend.epoch
  <1> DEFINE a == [type |-> "acquire", epoch |-> backend.epoch]
  <1>1. a \in Requests /\ ~Press(a) /\ a.type # "offer" /\ a.epoch = backend.epoch
    BY DEF Requests, Press
  <1>2. a \in Plain /\ a \in Unoffered
    BY <1>1 DEF Plain, Unoffered
  <1>3. Acquired = <<a>>
    BY DEF Acquired
  <1> HIDE DEF a
  <1>4. <<a>> \in Seq(Plain) /\ <<a>> \in Seq(Unoffered) /\ Len(<<a>>) = 1 /\ <<a>>[1] = a
    BY <1>2
  <1> QED BY <1>1, <1>3, <1>4

LEMMA PressesIs ==
    ASSUME NEW b, GoodBackend(b), NEW i \in Inputs, NEW down \in BOOLEAN, NEW of \in {"key", "chord"}
    PROVE  Presses(b, i, down, of) \in Seq(Unoffered)
  <1> DEFINE m == [type |-> "modifiers", mods |-> ModsAfter(b, i, down)]
             meant == IF of = "chord" THEN {Ctrl} ELSE Pressed(b, i, down).pressed \cap Modifiers
             x == [type |-> "input", code |-> i, down |-> down, meant |-> meant, of |-> of]
  <1>1. meant \in SUBSET Modifiers /\ ModsAfter(b, i, down) \in SUBSET Modifiers
    BY CodesAssumption DEF ModsAfter, Toggled, GoodBackend, BackendType
  <1> HIDE DEF meant
  <1>2. m \in Unoffered /\ x \in Unoffered
    BY <1>1 DEF Requests, Strokes, Unoffered
  <1>3. Presses(b, i, down, of) =
            IF (i \in b.pressed) = down THEN <<>> ELSE (IF i \in Keys THEN <<m>> ELSE <<>>) \o <<x>>
    BY DEF Presses, Mods, Sent, meant
  <1> HIDE DEF m, x
  <1>4. <<>> \in Seq(Unoffered) /\ <<m>> \o <<x>> \in Seq(Unoffered) /\ <<>> \o <<x>> \in Seq(Unoffered)
    BY <1>2
  <1> QED BY <1>3, <1>4

\* pointer.click.
LEMMA ClickSent ==
    ASSUME GoodBackend(backend), NEW b \in Buttons
    PROVE  LET down == Pressed(backend, b, TRUE)
               up == Pressed(down, b, FALSE)
               t == Acquired \o Presses(backend, b, TRUE, "key") \o Acquired \o Presses(down, b, FALSE, "key")
           IN  /\ GoodBackend(up) /\ up.epoch = backend.epoch /\ up.pressed \cap Keys = (backend.pressed \cap Keys)
               /\ Sendable(t, backend.epoch, backend.pressed, up.pressed) /\ t \in Seq(Calm)
  <1> DEFINE down == Pressed(backend, b, TRUE)
             up == Pressed(down, b, FALSE)
             s == Acquired \o Presses(backend, b, TRUE, "key")
             u == Presses(down, b, FALSE, "key")
             t == s \o Acquired \o u
  <1>0. b \in Inputs /\ b \notin Keys /\ backend.epoch \in Nat
    BY CodesAssumption DEF Inputs, GoodBackend, BackendType
  <1>1. GoodBackend(down) /\ down.epoch = backend.epoch /\ down.pressed = Toggled(backend.pressed, b, TRUE)
    BY <1>0, PressedIs
  <1> HIDE DEF down
  <1>2. GoodBackend(up) /\ up.epoch = down.epoch /\ up.pressed = Toggled(down.pressed, b, FALSE)
    BY <1>0, <1>1, PressedIs
  <1>3. up.pressed \cap Keys = backend.pressed \cap Keys
    BY <1>0, <1>1, <1>2 DEF Toggled
  <1>4. Sendable(s, backend.epoch, backend.pressed, down.pressed) /\ s \in Seq(Unoffered) /\ s \in Seq(Calm)
    BY <1>0, KeySent DEF down
  <1>5. Sendable(Acquired \o u, backend.epoch, down.pressed, up.pressed) /\ Acquired \o u \in Seq(Calm)
    BY <1>0, <1>1, KeySent
  <1>6. Acquired \in Seq(Unoffered) /\ u \in Seq(Unoffered)
    BY <1>0, <1>1, AcquiredIs, PressesIs
  <1> HIDE DEF s, u, up
  <1>7. /\ Sendable(s \o Acquired \o u, backend.epoch, backend.pressed, up.pressed)
        /\ s \o Acquired \o u \in Seq(Calm)
    BY <1>4, <1>5, <1>6, SentAgain
  <1> QED BY <1>1, <1>2, <1>3, <1>7 DEF s, u, up, down

\* The paste chord, by a backend that holds no key.
LEMMA ChordSent ==
    ASSUME GoodBackend(backend), backend.pressed \cap Keys = {}
    PROVE  /\ GoodBackend(Chord.after) /\ Chord.after.epoch = backend.epoch
           /\ Sendable(Chord.sent, backend.epoch, backend.pressed, Chord.after.pressed)
           /\ Chord.sent \in Seq(Unoffered)
           /\ Chord.after.pressed \cap Keys = {}
  <1> DEFINE b1 == Pressed(backend, Ctrl, TRUE)
             b2 == Pressed(b1, V, TRUE)
             b3 == Pressed(b2, V, FALSE)
             b4 == Pressed(b3, Ctrl, FALSE)
             p1 == Presses(backend, Ctrl, TRUE, "chord")
             p2 == Presses(b1, V, TRUE, "chord")
             p3 == Presses(b2, V, FALSE, "chord")
             p4 == Presses(b3, Ctrl, FALSE, "chord")
             e == backend.epoch
  <1>0. Ctrl \in Inputs /\ V \in Inputs /\ V \notin Modifiers /\ Ctrl \in Modifiers /\ e \in Nat
        /\ Ctrl \in Keys
    BY CodesAssumption DEF Inputs, GoodBackend, BackendType
  <1>1. Chord.after = b4 /\ Chord.sent = Acquired \o p1 \o Acquired \o p2 \o Acquired \o p3 \o Acquired \o p4
    BY DEF Chord
  <1>mods. ModsAfter(backend, Ctrl, TRUE) = {Ctrl}
    <2>1. backend.mods = {}
      BY CodesAssumption DEF GoodBackend
    <2> QED BY <1>0, <2>1 DEF ModsAfter, Toggled
  <1>pressed. b4.pressed \cap Keys = {}
    <2>1. /\ b1.pressed = Toggled(backend.pressed, Ctrl, TRUE) /\ GoodBackend(b1)
      BY <1>0, PressedIs
    <2> HIDE DEF b1
    <2>2. b2.pressed = Toggled(b1.pressed, V, TRUE) /\ GoodBackend(b2)
      BY <1>0, <2>1, PressedIs
    <2> HIDE DEF b2
    <2>3. b3.pressed = Toggled(b2.pressed, V, FALSE) /\ GoodBackend(b3)
      BY <1>0, <2>2, PressedIs
    <2> HIDE DEF b3
    <2>4. b4.pressed = Toggled(b3.pressed, Ctrl, FALSE)
      BY <1>0, <2>3, PressedIs
    <2> QED BY <2>1, <2>2, <2>3, <2>4 DEF Toggled
  <1>2. GoodBackend(b1) /\ b1.epoch = e /\ b1.mods = {Ctrl}
    <2>1. /\ GoodBackend(b1) /\ b1.epoch = e
          /\ (Ctrl \in backend.pressed) # TRUE => b1.mods = ModsAfter(backend, Ctrl, TRUE)
      BY <1>0, PressedIs
    <2>2. Ctrl \notin backend.pressed
      BY <1>0
    <2> QED BY <1>mods, <2>1, <2>2
  <1>a. Sendable(Acquired \o p1, e, backend.pressed, b1.pressed) /\ Acquired \o p1 \in Seq(Unoffered)
    BY <1>0, <1>mods, KeySent
  <1>p1. p1 \in Seq(Unoffered)
    BY <1>0, PressesIs
  <1> HIDE DEF b1, p1
  <1>3. GoodBackend(b2) /\ b2.epoch = e
    BY <1>0, <1>2, PressedIs
  <1>b. Sendable(Acquired \o p2, e, b1.pressed, b2.pressed) /\ p2 \in Seq(Unoffered)
    <2>1. ModsAfter(b1, V, TRUE) = {Ctrl}
      BY <1>0, <1>2 DEF ModsAfter
    <2> QED BY <1>0, <1>2, <2>1, KeySent, PressesIs
  <1> HIDE DEF b2, p2
  <1>4. GoodBackend(b3) /\ b3.epoch = e
    BY <1>0, <1>3, PressedIs
  <1>c. Sendable(Acquired \o p3, e, b2.pressed, b3.pressed) /\ p3 \in Seq(Unoffered)
    BY <1>0, <1>3, KeySent, PressesIs
  <1> HIDE DEF b3, p3
  <1>5. GoodBackend(b4) /\ b4.epoch = e
    BY <1>0, <1>4, PressedIs
  <1>d. Sendable(Acquired \o p4, e, b3.pressed, b4.pressed) /\ p4 \in Seq(Unoffered)
    BY <1>0, <1>4, KeySent, PressesIs
  <1> HIDE DEF b4, p4
  <1>acq. Acquired \in Seq(Unoffered)
    BY <1>0, AcquiredIs
  <1>6. PICK s1 : s1 = Acquired \o p1
    OBVIOUS
  <1>7. PICK s2 : s2 = s1 \o Acquired \o p2
    OBVIOUS
  <1>8. PICK s3 : s3 = s2 \o Acquired \o p3
    OBVIOUS
  <1>9. Sendable(s2, e, backend.pressed, b2.pressed) /\ s2 \in Seq(Unoffered)
    <2>1. Sendable(s1, e, backend.pressed, b1.pressed) /\ s1 \in Seq(Unoffered)
      BY <1>a, <1>6
    <2>2. /\ Sendable(s1 \o Acquired \o p2, e, backend.pressed, b2.pressed)
          /\ s1 \o Acquired \o p2 \in Seq(Unoffered)
      BY <1>b, <1>acq, <2>1, SentAgain
    <2> QED BY <1>7, <2>2
  <1>10. Sendable(s3, e, backend.pressed, b3.pressed) /\ s3 \in Seq(Unoffered)
    <2>1. /\ Sendable(s2 \o Acquired \o p3, e, backend.pressed, b3.pressed)
          /\ s2 \o Acquired \o p3 \in Seq(Unoffered)
      BY <1>c, <1>acq, <1>9, SentAgain
    <2> QED BY <1>8, <2>1
  <1>11. /\ Sendable(s3 \o Acquired \o p4, e, backend.pressed, b4.pressed)
         /\ s3 \o Acquired \o p4 \in Seq(Unoffered)
    BY <1>d, <1>acq, <1>10, SentAgain
  <1>12. Chord.sent = s3 \o Acquired \o p4
    BY <1>1, <1>6, <1>7, <1>8
  <1> QED BY <1>1, <1>5, <1>11, <1>12, <1>pressed

\* seat.create and its failure, and what follows a revocation in seat.destroy.
LEMMA DevicesSent ==
    ASSUME backend.epoch \in Nat
    PROVE  /\ \A t \in {Acquired \o <<[type |-> "create"]>> \o Mods({}),
                        Acquired \o <<[type |-> "create"], [type |-> "destroy"]>>} :
                 t \in Seq(Plain) /\ \A n \in 1..Len(t) : t[n].type = "acquire" => t[n].epoch = backend.epoch
           /\ \A t \in {<<>>, Revoke \o <<[type |-> "destroy"]>>} :
                 t \in Seq(Plain) /\ \A n \in 1..Len(t) : t[n].type # "acquire"
  <1> DEFINE a == [type |-> "acquire", epoch |-> backend.epoch]
             c == [type |-> "create"]
             d == [type |-> "destroy"]
             r == [type |-> "revoke"]
             m == [type |-> "modifiers", mods |-> {}]
             Own == {x \in Plain : x.type = "acquire" => x.epoch = backend.epoch}
             Other == {x \in Plain : x.type # "acquire"}
  <1>1. a \in Plain /\ c \in Plain /\ d \in Plain /\ r \in Plain /\ m \in Plain
    BY DEF Plain, Requests, Press
  <1>2. a \in Own /\ c \in Own /\ d \in Own /\ m \in Own /\ r \in Other /\ d \in Other
    BY <1>1
  <1>3. /\ Acquired \o <<[type |-> "create"]>> \o Mods({}) = <<a>> \o <<c>> \o <<m>>
        /\ Acquired \o <<[type |-> "create"], [type |-> "destroy"]>> = <<a>> \o <<c, d>>
        /\ Revoke \o <<[type |-> "destroy"]>> = <<r>> \o <<d>>
    BY DEF Acquired, Mods, Revoke
  <1>4. /\ \A t \in Seq(Own) : t \in Seq(Plain) /\ \A n \in 1..Len(t) : t[n].type = "acquire" => t[n].epoch = backend.epoch
        /\ \A t \in Seq(Other) : t \in Seq(Plain) /\ \A n \in 1..Len(t) : t[n].type # "acquire"
    OBVIOUS
  <1> HIDE DEF a, c, d, r, m, Own, Other
  <1>5. <<a>> \in Seq(Own) /\ <<c>> \in Seq(Own) /\ <<m>> \in Seq(Own) /\ <<c, d>> \in Seq(Own)
        /\ <<r>> \in Seq(Other) /\ <<d>> \in Seq(Other) /\ <<>> \in Seq(Other)
    BY <1>2
  <1>6. <<a>> \o <<c>> \o <<m>> \in Seq(Own) /\ <<a>> \o <<c, d>> \in Seq(Own) /\ <<r>> \o <<d>> \in Seq(Other)
    BY <1>5
  <1> QED BY <1>3, <1>4, <1>5, <1>6

\* keyboard.paste.
LEMMA OfferedSent ==
    ASSUME backend.epoch \in Nat, NEW token \in Nat, NEW p
    PROVE  LET t == Acquired \o Offered(token)
           IN  /\ Sendable(t, backend.epoch, p, p)
               /\ \A n \in 1..Len(t) : ~ChordPress(t[n])
               /\ \A n \in 1..Len(t) : t[n].type = "offer" => t[n].token = token /\ t[n].epoch = backend.epoch
  <1> DEFINE a == [type |-> "acquire", epoch |-> backend.epoch]
             o == [type |-> "offer", epoch |-> backend.epoch, token |-> token]
             t == Acquired \o Offered(token)
  <1>1. /\ a \in Requests /\ o \in Requests /\ ~Press(a) /\ ~Press(o)
        /\ a.type = "acquire" /\ a.epoch = backend.epoch
        /\ o.type = "offer" /\ o.token = token /\ o.epoch = backend.epoch
    BY DEF Requests, Press
  <1>2. t = <<a>> \o <<o>>
    BY DEF Acquired, Offered
  <1> HIDE DEF a, o, t
  <1>3. t \in Seq(Requests) /\ Len(t) = 2 /\ t[1] = a /\ t[2] = o
    BY <1>1, <1>2, Few
  <1>4. \A n \in 1..Len(t) : n = 1 \/ n = 2
    BY <1>3
  <1>5. \A n \in 1..Len(t) : ~Press(t[n])
    BY <1>1, <1>3, <1>4
  <1>6. \A n \in 1..Len(t) : t[n].type = "acquire" => t[n].epoch = backend.epoch
    BY <1>1, <1>3, <1>4
  <1>7. \A n \in 1..Len(t) : t[n].type = "offer" => t[n].token = token /\ t[n].epoch = backend.epoch
    BY <1>1, <1>3, <1>4
  <1>8. Sendable(t, backend.epoch, p, p)
    BY <1>3, <1>5, <1>6, Harmless
  <1> QED BY <1>5, <1>7, <1>8 DEF t, ChordPress, KeyPress

----------------------------------------------------------------------------
(* The inductive invariant.                                                *)

OpType == [kind : {"none", "type", "paste"}, text : Seq(Characters),
           offered : {"no", "yes", "refused", "used"}, token : Nat]

HostType == [epoch : Nat, allowed : BOOLEAN, quiet : BOOLEAN, humanHolds : BOOLEAN, unsaid : BOOLEAN,
             held : SUBSET Inputs, offer : BOOLEAN, vk : SUBSET Modifiers, keyboard : {"agent", "other"}]

ReadType == [of : {"nothing", "key", "text", "chord", "release"}, seen : SUBSET Modifiers,
             meant : SUBSET Modifiers, offer : BOOLEAN]

AppType == [down : SUBSET Inputs, mods : SUBSET Modifiers, read : ReadType]

\* There is text to type, and no key is down while a paste is under way.
GoodOp(o, pressed) ==
    /\ o \in OpType
    /\ o.kind = "type" => o.text # <<>>
    /\ o.kind = "paste" => pressed \cap Keys = {}

TypeInv ==
    /\ GoodBackend(backend)
    /\ GoodOp(op, backend.pressed)
    /\ calls \in Nat
    /\ toHost \in Seq(Requests)
    /\ host \in HostType
    /\ toDaemon \in Seq(Events)
    /\ app \in AppType

HoldInv ==
    /\ ~host.allowed => host.held = {}
    /\ Remembered(host.held, backend.pressed, toHost)

QueueInv ==
    /\ Announced(toHost, host.vk)
    /\ Chords(toHost, host.epoch, host.offer, host.allowed)
    /\ Sorted(toHost, backend.epoch)

\* The backend is never ahead of what its revocations make of the epoch, so an
\* acquire that meets the seat allowed is for the current epoch.
EpochInv ==
    /\ \E c : Levels(c, toHost, host.epoch, backend.epoch)
    /\ \A n \in 1..Len(toDaemon) : toDaemon[n].type = "state" => toDaemon[n].epoch <= host.epoch
    /\ host.allowed =>
         /\ host.quiet /\ ~host.humanHolds /\ host.epoch <= backend.epoch
         /\ \A n \in 1..Len(toHost) : toHost[n].type = "acquire" => host.epoch <= toHost[n].epoch

SeatInv ==
    /\ host.offer => host.allowed
    /\ host.keyboard = "agent" => host.allowed /\ app.mods = host.vk

Answers(m, token) == m.type = "offered" /\ m.token = token /\ m.answer = "yes"

PasteInv ==
    /\ op.kind = "paste" =>
         /\ op.offered = "yes" => Valid(backend.epoch, host.epoch, host.offer)
         /\ \A n \in 1..Len(toDaemon) :
                Answers(toDaemon[n], op.token) => Valid(backend.epoch, host.epoch, host.offer)
         /\ \A n \in 1..Len(toHost) :
                toHost[n].type = "offer" /\ toHost[n].token = op.token => toHost[n].epoch = backend.epoch
    /\ \A n \in 1..Len(toHost) : toHost[n].type = "offer" => toHost[n].token <= calls
    /\ \A n \in 1..Len(toDaemon) : toDaemon[n].type = "offered" => toDaemon[n].token <= calls

IInv ==
    /\ TypeInv /\ HoldInv /\ QueueInv /\ EpochInv /\ SeatInv /\ PasteInv
    /\ ReadAsMeant /\ ChordFindsOffer

----------------------------------------------------------------------------
(* Steps of the daemon.                                                    *)

\* What the operation becomes when t is sent.
OperationStep(t) ==
    \/ op'.kind # "paste"
    \/ /\ op.kind = "paste" /\ op'.kind = "paste" /\ op'.token = op.token /\ backend'.epoch = backend.epoch
       /\ \A n \in 1..Len(t) : t[n].type # "offer"
       /\ op'.offered = "yes" => op.offered = "yes" \/ (toDaemon # <<>> /\ Answers(Head(toDaemon), op.token))
    \/ /\ op'.kind = "paste" /\ op'.token = calls' /\ calls' = calls + 1 /\ op'.offered = "no"
       /\ backend'.epoch = backend.epoch
       /\ \A n \in 1..Len(t) : t[n].type = "offer" => t[n].epoch = backend.epoch

DaemonSends(t) ==
    /\ toHost' = toHost \o t
    /\ UNCHANGED <<host, app>>
    /\ Sendable(t, backend.epoch, backend.pressed, backend'.pressed)
    /\ GoodBackend(backend') /\ GoodOp(op', backend'.pressed)
    /\ calls' \in {calls, calls + 1}
    /\ toDaemon' = toDaemon \/ (toDaemon # <<>> /\ toDaemon' = Tail(toDaemon))
    /\ backend.epoch <= backend'.epoch
    /\ \/ backend'.epoch <= backend.epoch \/ backend'.epoch <= host.epoch
       \/ backend'.epoch = backend.epoch + 1 /\ Len(t) >= 1 /\ t[1].type = "revoke"
    /\ \A n \in 1..Len(t) : ChordPress(t[n]) => op.kind = "paste" /\ op.offered = "yes"
    /\ \A n \in 1..Len(t) : t[n].type = "offer" => t[n].token = calls'
    /\ OperationStep(t)

LEMMA DaemonKeeps ==
    ASSUME IInv, NEW t, DaemonSends(t)
    PROVE  IInv'
  <1>0. TypeInv /\ HoldInv /\ QueueInv /\ EpochInv /\ SeatInv /\ PasteInv /\ ReadAsMeant /\ ChordFindsOffer
    BY DEF IInv
  <1>1. /\ toHost' = toHost \o t /\ host' = host /\ app' = app
        /\ Sendable(t, backend.epoch, backend.pressed, backend'.pressed)
        /\ GoodBackend(backend') /\ GoodOp(op', backend'.pressed)
        /\ calls' \in {calls, calls + 1}
        /\ toDaemon' = toDaemon \/ (toDaemon # <<>> /\ toDaemon' = Tail(toDaemon))
        /\ backend.epoch <= backend'.epoch
        /\ OperationStep(t)
    BY DEF DaemonSends
  <1>types. /\ backend.epoch \in Nat /\ backend'.epoch \in Nat /\ host.epoch \in Nat /\ calls \in Nat
            /\ toHost \in Seq(Requests) /\ t \in Seq(Requests) /\ toDaemon \in Seq(Events)
    BY <1>0, <1>1 DEF TypeInv, GoodBackend, BackendType, HostType, Sendable
  <1>2. /\ toHost' \in Seq(Requests)
        /\ \A n \in 1..Len(toHost') : \/ \E m \in 1..Len(toHost) : toHost'[n] = toHost[m]
                                      \/ \E m \in 1..Len(t) : toHost'[n] = t[m]
    <2> DEFINE s == toHost \o t
    <2>1. /\ s \in Seq(Requests)
          /\ Len(s) = Len(toHost) + Len(t)
          /\ \A n \in 1..Len(toHost) : s[n] = toHost[n]
          /\ \A n \in 1..Len(t) : s[Len(toHost) + n] = t[n]
          /\ \A n \in 1..Len(s) : n \in 1..Len(toHost) \/ (n - Len(toHost) \in 1..Len(t) /\ s[n] = t[n - Len(toHost)])
      BY <1>types, Joined
    <2>2. toHost' = s
      BY <1>1
    <2> HIDE DEF s
    <2> QED BY <2>1, <2>2
  <1>3. /\ toDaemon' \in Seq(Events)
        /\ \A n \in 1..Len(toDaemon') : \E m \in 1..Len(toDaemon) : toDaemon'[n] = toDaemon[m]
    <2>1. CASE toDaemon' = toDaemon
      BY <1>types, <2>1
    <2>2. CASE toDaemon # <<>> /\ toDaemon' = Tail(toDaemon)
      <3>1. /\ Tail(toDaemon) \in Seq(Events)
            /\ Len(toDaemon) \in Nat \ {0}
            /\ Len(Tail(toDaemon)) = Len(toDaemon) - 1
            /\ \A n \in 1..(Len(toDaemon) - 1) : Tail(toDaemon)[n] = toDaemon[n + 1]
            /\ Head(toDaemon) = toDaemon[1] /\ Head(toDaemon) \in Events
        BY <1>types, <2>2, Rest
      <3>2. \A n \in 1..(Len(toDaemon) - 1) : n + 1 \in 1..Len(toDaemon)
        BY <3>1
      <3> QED BY <2>2, <3>1, <3>2
    <2> QED BY <1>1, <2>1, <2>2
  <1>head. toDaemon # <<>> => 1 \in 1..Len(toDaemon) /\ Head(toDaemon) = toDaemon[1]
    BY <1>types
  <1>4. TypeInv'
    BY <1>0, <1>1, <1>2, <1>3 DEF TypeInv
  <1>5. HoldInv'
    <2>1. Remembered(host.held, backend.pressed, toHost) /\ Bookkept(t, backend.pressed, backend'.pressed)
      BY <1>0, <1>1 DEF HoldInv, Sendable
    <2>2. Remembered(host.held, backend'.pressed, toHost \o t)
      BY <1>types, <2>1, RememberedSend
    <2> QED BY <1>0, <1>1, <2>2 DEF HoldInv
  <1>6. QueueInv'
    <2>1. \A n \in 1..Len(t) : ChordPress(t[n]) => Valid(backend.epoch, host.epoch, host.offer)
      BY <1>0 DEF DaemonSends, PasteInv
    <2>2. /\ Announced(toHost, host.vk) /\ Chords(toHost, host.epoch, host.offer, host.allowed)
          /\ Sorted(toHost, backend.epoch)
      BY <1>0 DEF QueueInv
    <2>3. /\ Announced(toHost \o t, host.vk)
          /\ Chords(toHost \o t, host.epoch, host.offer, host.allowed)
          /\ Sorted(toHost \o t, backend'.epoch)
      BY <1>types, <1>1, <2>1, <2>2, QueueSend
    <2> QED BY <1>1, <2>3 DEF QueueInv
  <1>7. EpochInv'
    <2>1. PICK c : Levels(c, toHost, host.epoch, backend.epoch)
      BY <1>0 DEF EpochInv
    <2>2. /\ \A n \in 1..Len(t) : t[n].type = "acquire" => t[n].epoch = backend.epoch
          /\ \/ backend'.epoch <= backend.epoch \/ backend'.epoch <= host.epoch
             \/ backend'.epoch = backend.epoch + 1 /\ Len(t) >= 1 /\ t[1].type = "revoke"
      BY <1>1 DEF DaemonSends, Sendable
    <2>3. \E d : Levels(d, toHost \o t, host.epoch, backend'.epoch)
      BY <1>types, <2>1, <2>2, LevelsSend
    <2>4. \A n \in 1..Len(toDaemon') : toDaemon'[n].type = "state" => toDaemon'[n].epoch <= host'.epoch
      BY <1>0, <1>1, <1>3 DEF EpochInv
    <2>5. ASSUME host.allowed
          PROVE  /\ host.quiet /\ ~host.humanHolds /\ host.epoch <= backend'.epoch
                 /\ \A n \in 1..Len(toHost') : toHost'[n].type = "acquire" => host.epoch <= toHost'[n].epoch
      <3>1. /\ host.quiet /\ ~host.humanHolds /\ host.epoch <= backend.epoch
            /\ \A n \in 1..Len(toHost) : toHost[n].type = "acquire" => host.epoch <= toHost[n].epoch
        BY <1>0, <2>5 DEF EpochInv
      <3>2. host.epoch <= backend'.epoch
        BY <1>types, <1>1, <3>1
      <3>3. ASSUME NEW n \in 1..Len(toHost'), toHost'[n].type = "acquire"
            PROVE  host.epoch <= toHost'[n].epoch
        <4>1. CASE \E m \in 1..Len(toHost) : toHost'[n] = toHost[m]
          BY <3>1, <3>3, <4>1
        <4>2. CASE \E m \in 1..Len(t) : toHost'[n] = t[m]
          <5>1. toHost'[n].epoch = backend.epoch
            BY <2>2, <3>3, <4>2
          <5> QED BY <3>1, <5>1
        <4> QED BY <1>2, <4>1, <4>2
      <3> QED BY <3>1, <3>2, <3>3
    <2> QED BY <1>1, <2>3, <2>4, <2>5 DEF EpochInv
  <1>8. SeatInv'
    BY <1>0, <1>1 DEF SeatInv
  <1>9. PasteInv'
    <2>1. /\ \A n \in 1..Len(toHost) : toHost[n].type = "offer" => toHost[n].token <= calls
          /\ \A n \in 1..Len(toDaemon) : toDaemon[n].type = "offered" => toDaemon[n].token <= calls
      BY <1>0 DEF PasteInv
    <2>2. /\ \A n \in 1..Len(t) : t[n].type = "offer" => t[n].token = calls'
          /\ calls' \in Nat /\ calls <= calls'
      BY <1>types, <1>1 DEF DaemonSends
    <2>tokens. /\ \A n \in 1..Len(toHost) : toHost[n].type = "offer" => toHost[n].token \in Nat
               /\ \A n \in 1..Len(toDaemon) : toDaemon[n].type = "offered" => toDaemon[n].token \in Nat
      <3>1. (\A n \in 1..Len(toHost) : toHost[n] \in Requests) /\ \A n \in 1..Len(toDaemon) : toDaemon[n] \in Events
        BY <1>types, ElementsOf
      <3> QED BY <3>1 DEF Requests, Strokes, Events
    <2>most. \A k \in Nat : k <= calls => k <= calls'
      BY <1>types, <2>2
    <2>3. ASSUME NEW n \in 1..Len(toHost'), toHost'[n].type = "offer"
          PROVE  toHost'[n].token <= calls'
      <3>1. CASE \E m \in 1..Len(toHost) : toHost'[n] = toHost[m]
        <4>1. PICK m \in 1..Len(toHost) : toHost'[n] = toHost[m]
          BY <3>1
        <4>2. toHost[m].token \in Nat /\ toHost[m].token <= calls
          BY <2>1, <2>3, <2>tokens, <4>1
        <4> QED BY <2>most, <4>1, <4>2
      <3>2. CASE \E m \in 1..Len(t) : toHost'[n] = t[m]
        <4>1. toHost'[n].token = calls'
          BY <2>2, <2>3, <3>2
        <4> QED BY <2>2, <4>1
      <3> QED BY <1>2, <3>1, <3>2
    <2>4. \A n \in 1..Len(toDaemon') : toDaemon'[n].type = "offered" => toDaemon'[n].token <= calls'
      BY <1>3, <2>1, <2>most, <2>tokens
    <2>5. ASSUME op'.kind = "paste"
          PROVE  /\ op'.offered = "yes" => Valid(backend'.epoch, host.epoch, host.offer)
                 /\ \A n \in 1..Len(toDaemon') :
                        Answers(toDaemon'[n], op'.token) => Valid(backend'.epoch, host.epoch, host.offer)
                 /\ \A n \in 1..Len(toHost') :
                        toHost'[n].type = "offer" /\ toHost'[n].token = op'.token => toHost'[n].epoch = backend'.epoch
      <3>1. CASE /\ op.kind = "paste" /\ op'.token = op.token /\ backend'.epoch = backend.epoch
                 /\ \A n \in 1..Len(t) : t[n].type # "offer"
                 /\ op'.offered = "yes" => op.offered = "yes" \/ (toDaemon # <<>> /\ Answers(Head(toDaemon), op.token))
        <4>1. /\ op.offered = "yes" => Valid(backend.epoch, host.epoch, host.offer)
              /\ \A n \in 1..Len(toDaemon) :
                     Answers(toDaemon[n], op.token) => Valid(backend.epoch, host.epoch, host.offer)
              /\ \A n \in 1..Len(toHost) :
                     toHost[n].type = "offer" /\ toHost[n].token = op.token => toHost[n].epoch = backend.epoch
          BY <1>0, <3>1 DEF PasteInv
        <4>2. op'.offered = "yes" => Valid(backend'.epoch, host.epoch, host.offer)
          BY <1>head, <3>1, <4>1
        <4>3. \A n \in 1..Len(toDaemon') :
                  Answers(toDaemon'[n], op'.token) => Valid(backend'.epoch, host.epoch, host.offer)
          BY <1>3, <3>1, <4>1
        <4>4. \A n \in 1..Len(toHost') :
                  toHost'[n].type = "offer" /\ toHost'[n].token = op'.token => toHost'[n].epoch = backend'.epoch
          BY <1>2, <3>1, <4>1
        <4> QED BY <4>2, <4>3, <4>4
      <3>2. CASE /\ op'.token = calls' /\ calls' = calls + 1 /\ op'.offered = "no"
                 /\ backend'.epoch = backend.epoch
                 /\ \A n \in 1..Len(t) : t[n].type = "offer" => t[n].epoch = backend.epoch
        <4>1. /\ \A n \in 1..Len(toHost) : toHost[n].type = "offer" => toHost[n].token # op'.token
              /\ \A n \in 1..Len(toDaemon) : toDaemon[n].type = "offered" => toDaemon[n].token # op'.token
          BY <1>types, <2>1, <2>tokens, <3>2
        <4>2. \A n \in 1..Len(toDaemon') : ~Answers(toDaemon'[n], op'.token)
          BY <1>3, <4>1 DEF Answers
        <4>3. \A n \in 1..Len(toHost') :
                  toHost'[n].type = "offer" /\ toHost'[n].token = op'.token => toHost'[n].epoch = backend'.epoch
          BY <1>2, <3>2, <4>1
        <4> QED BY <3>2, <4>2, <4>3
      <3> QED BY <1>1, <2>5, <3>1, <3>2 DEF OperationStep
    <2> QED BY <1>1, <2>3, <2>4, <2>5 DEF PasteInv
  <1>10. ReadAsMeant' /\ ChordFindsOffer'
    BY <1>0, <1>1 DEF ReadAsMeant, ChordFindsOffer
  <1> QED BY <1>4, <1>5, <1>6, <1>7, <1>8, <1>9, <1>10 DEF IInv

\* The daemon sends nothing and keeps what it holds.
LEMMA KeepsStill ==
    ASSUME IInv, toHost' = toHost, UNCHANGED <<host, app>>,
           GoodBackend(backend'), backend'.pressed = backend.pressed, backend'.epoch = backend.epoch,
           GoodOp(op', backend.pressed), calls' \in {calls, calls + 1},
           toDaemon' = toDaemon \/ (toDaemon # <<>> /\ toDaemon' = Tail(toDaemon)),
           \/ op'.kind # "paste"
           \/ /\ op.kind = "paste" /\ op'.kind = "paste" /\ op'.token = op.token
              /\ op'.offered = "yes" => op.offered = "yes" \/ (toDaemon # <<>> /\ Answers(Head(toDaemon), op.token))
    PROVE  IInv'
  <1>1. /\ Sendable(<<>>, backend.epoch, backend.pressed, backend.pressed)
        /\ <<>> \in Seq(Calm) /\ \A q \in Seq(Requests) : q \o <<>> = q
    BY Nothing
  <1>2. toHost' = toHost \o <<>> /\ Len(<<>>) = 0
    BY <1>1 DEF IInv, TypeInv
  <1>3. OperationStep(<<>>)
    BY <1>2 DEF OperationStep
  <1>4. backend.epoch <= backend'.epoch /\ backend'.epoch <= backend.epoch
    BY DEF GoodBackend, BackendType
  <1>5. DaemonSends(<<>>)
    BY <1>1, <1>2, <1>3, <1>4 DEF DaemonSends
  <1> QED BY <1>5, DaemonKeeps

\* The daemon sends something that is none of the clipboard's, at its epoch.
LEMMA KeepsCalm ==
    ASSUME IInv, NEW t \in Seq(Calm), toHost' = toHost \o t, UNCHANGED <<host, app>>,
           Sendable(t, backend.epoch, backend.pressed, backend'.pressed),
           GoodBackend(backend'), GoodOp(op', backend'.pressed), calls' \in {calls, calls + 1},
           toDaemon' = toDaemon \/ (toDaemon # <<>> /\ toDaemon' = Tail(toDaemon)),
           op'.kind # "paste" \/ (op' = op /\ backend'.epoch = backend.epoch), backend.epoch <= backend'.epoch,
           \/ backend'.epoch <= backend.epoch \/ backend'.epoch <= host.epoch
           \/ backend'.epoch = backend.epoch + 1 /\ Len(t) >= 1 /\ t[1].type = "revoke"
    PROVE  IInv'
  <1>1. \A n \in 1..Len(t) : ~ChordPress(t[n]) /\ t[n].type # "offer"
    BY OfCalm
  <1>2. OperationStep(t)
    BY <1>1 DEF OperationStep
  <1>3. DaemonSends(t)
    BY <1>1, <1>2 DEF DaemonSends
  <1> QED BY <1>3, DaemonKeeps

LEMMA NoOpIsGood ==
    ASSUME NEW p
    PROVE  GoodOp(NoOp, p) /\ NoOp.kind = "none"
  <1>1. <<>> \in Seq(Characters) /\ None \in Nat
    BY DEF None
  <1> QED BY <1>1 DEF NoOp, GoodOp, OpType

LEMMA ReleasedIs ==
    ASSUME NEW b, GoodBackend(b)
    PROVE  Released(b) = [b EXCEPT !.pressed = {}, !.mods = {}]
  <1>1. b.mods \ b.pressed = {}
    BY DEF GoodBackend
  <1> QED BY <1>1 DEF Released

LEMMA EmptyIsGood ==
    ASSUME NEW b \in BackendType, b.pressed = {}, b.mods = {}
    PROVE  GoodBackend(b)
  BY FS_EmptySet DEF GoodBackend

LEMMA RevokingKeeps ==
    ASSUME IInv, NEW n, NEW more \in Seq(Plain), \A m \in 1..Len(more) : more[m].type # "acquire",
           NEW b \in BackendType, b.pressed = {}, b.mods = {}, Revoking(n, more, b)
    PROVE  IInv'
  <1>0. GoodBackend(backend) /\ backend.epoch \in Nat
    BY DEF IInv, TypeInv, GoodBackend, BackendType
  <1>1. /\ op' = NoOp /\ toHost' = toHost \o (Revoke \o Releases(backend) \o more)
        /\ backend' = [b EXCEPT !.epoch = backend.epoch + 1]
        /\ UNCHANGED <<calls, host, toDaemon, app>>
    BY DEF Revoking, Send
  <1>2. /\ backend' \in BackendType /\ backend'.pressed = {} /\ backend'.mods = {}
        /\ backend'.epoch = backend.epoch + 1
    <2>1. PICK e \in Nat : e = backend.epoch + 1
      BY <1>0
    <2>2. PICK c : c = [b EXCEPT !.epoch = e]
      OBVIOUS
    <2>3. c \in BackendType /\ c.pressed = {} /\ c.mods = {} /\ c.epoch = e
      BY <2>2 DEF BackendType
    <2> QED BY <1>1, <2>1, <2>2, <2>3
  <1>3. GoodBackend(backend')
    BY <1>2, EmptyIsGood
  <1>4. PICK t : t = Revoke \o Releases(backend) \o more
    OBVIOUS
  <1>5. /\ Sendable(t, backend.epoch, backend.pressed, {}) /\ t \in Seq(Calm)
        /\ Len(t) >= 1 /\ t[1].type = "revoke"
    BY <1>0, <1>4, RevokesSent
  <1>6. GoodOp(op', backend'.pressed) /\ op'.kind # "paste"
    BY <1>1, NoOpIsGood
  <1>7. toHost' = toHost \o t /\ UNCHANGED <<host, app>> /\ calls' \in {calls, calls + 1} /\ toDaemon' = toDaemon
    BY <1>1, <1>4
  <1>8. backend.epoch <= backend'.epoch /\ Sendable(t, backend.epoch, backend.pressed, backend'.pressed)
    BY <1>0, <1>2, <1>5
  <1> QED BY <1>2, <1>3, <1>5, <1>6, <1>7, <1>8, KeepsCalm

LEMMA MethodsKeep ==
    ASSUME IInv, Methods
    PROVE  IInv'
  <1>types. /\ GoodBackend(backend) /\ backend \in BackendType /\ backend.epoch \in Nat /\ calls \in Nat
            /\ calls + 1 \in Nat /\ op \in OpType
            /\ backend.pressed \in SUBSET Inputs
    BY DEF IInv, TypeInv, GoodBackend, BackendType, GoodOp
  <1>1. ASSUME NEW i \in Inputs, NEW down \in BOOLEAN, KeyOrButton(i, down) PROVE IInv'
    <2>1. PICK t : t = Acquired \o Presses(backend, i, down, "key")
      OBVIOUS
    <2>2. /\ toHost' = toHost \o t /\ UNCHANGED <<op, host, toDaemon, app>> /\ calls' = calls + 1
          /\ backend' = Pressed(backend, i, down) /\ op = NoOp
      BY <1>1, <2>1 DEF KeyOrButton, Send, Call, Ready
    <2>3. Sendable(t, backend.epoch, backend.pressed, backend'.pressed) /\ t \in Seq(Calm)
      BY <1>types, <2>1, <2>2, KeySent
    <2>4. GoodBackend(backend') /\ backend'.epoch = backend.epoch
      BY <1>types, <2>2, PressedIs
    <2>5. GoodOp(op', backend'.pressed) /\ op'.kind # "paste"
      BY <2>2, NoOpIsGood
    <2>6. backend.epoch <= backend'.epoch /\ backend'.epoch <= backend.epoch
      BY <1>types, <2>4
    <2> QED BY <2>2, <2>3, <2>4, <2>5, <2>6, KeepsCalm
  <1>2. ASSUME NEW b \in Buttons, Click(b) PROVE IInv'
    <2> DEFINE down == Pressed(backend, b, TRUE)
               up == Pressed(down, b, FALSE)
    <2>1. PICK t : t = Acquired \o Presses(backend, b, TRUE, "key") \o Acquired \o Presses(down, b, FALSE, "key")
      OBVIOUS
    <2>2. /\ toHost' = toHost \o t /\ UNCHANGED <<op, host, toDaemon, app>> /\ calls' = calls + 1
          /\ backend' = up /\ op = NoOp
      BY <1>2, <2>1 DEF Click, Send, Call, Ready
    <2>3. /\ GoodBackend(up) /\ up.epoch = backend.epoch
          /\ Sendable(t, backend.epoch, backend.pressed, up.pressed) /\ t \in Seq(Calm)
      BY <1>types, <2>1, ClickSent
    <2> HIDE DEF up, down
    <2>4. /\ GoodBackend(backend') /\ backend'.epoch = backend.epoch
          /\ Sendable(t, backend.epoch, backend.pressed, backend'.pressed)
      BY <2>2, <2>3
    <2>5. GoodOp(op', backend'.pressed) /\ op'.kind # "paste"
      BY <2>2, NoOpIsGood
    <2>6. backend.epoch <= backend'.epoch /\ backend'.epoch <= backend.epoch
      BY <1>types, <2>4
    <2> QED BY <2>2, <2>3, <2>4, <2>5, <2>6, KeepsCalm
  <1>3. ASSUME NEW text \in UNION {[1..n -> Characters] : n \in 1..TextLength}, Type(text) PROVE IInv'
    <2>1. text \in Seq(Characters) /\ text # <<>>
      <3>1. PICK n \in 1..TextLength : text \in [1..n -> Characters]
        OBVIOUS
      <3>2. n \in Nat /\ n >= 1
        OBVIOUS
      <3> QED BY <3>1, <3>2
    <2>2. /\ toHost' = toHost /\ UNCHANGED <<backend, host, toDaemon, app>> /\ calls' = calls + 1
          /\ op' = [kind |-> "type", text |-> text, offered |-> "no", token |-> calls + 1]
      BY <1>3 DEF Type, Call
    <2>3. GoodOp(op', backend.pressed) /\ op'.kind # "paste"
      BY <1>types, <2>1, <2>2 DEF GoodOp, OpType
    <2> QED BY <1>types, <2>2, <2>3, KeepsStill
  <1>4. ASSUME Paste PROVE IInv'
    <2>1. PICK t : t = Acquired \o Offered(calls + 1)
      OBVIOUS
    <2>2. /\ toHost' = toHost \o t /\ UNCHANGED <<backend, host, toDaemon, app>> /\ calls' = calls + 1
          /\ op' = [kind |-> "paste", text |-> <<>>, offered |-> "no", token |-> calls + 1]
          /\ backend.pressed \cap Keys = {}
      BY <1>4, <2>1 DEF Paste, Send, Call
    <2>3. /\ Sendable(t, backend.epoch, backend.pressed, backend.pressed)
          /\ \A n \in 1..Len(t) : ~ChordPress(t[n])
          /\ \A n \in 1..Len(t) : t[n].type = "offer" => t[n].token = calls + 1 /\ t[n].epoch = backend.epoch
      BY <1>types, <2>1, OfferedSent
    <2>4. GoodOp(op', backend'.pressed)
      <3>1. <<>> \in Seq(Characters)
        OBVIOUS
      <3> QED BY <1>types, <2>2, <3>1 DEF GoodOp, OpType
    <2>5. OperationStep(t)
      BY <2>2, <2>3 DEF OperationStep
    <2>6. backend.epoch <= backend'.epoch /\ backend'.epoch <= backend.epoch
      BY <1>types, <2>2
    <2>7. DaemonSends(t)
      BY <1>types, <2>2, <2>3, <2>4, <2>5, <2>6 DEF DaemonSends
    <2> QED BY <2>7, DaemonKeeps
  <1>devices. /\ \A t \in {Acquired \o <<[type |-> "create"]>> \o Mods({}),
                           Acquired \o <<[type |-> "create"], [type |-> "destroy"]>>} :
                    t \in Seq(Plain) /\ \A n \in 1..Len(t) : t[n].type = "acquire" => t[n].epoch = backend.epoch
              /\ \A t \in {<<>>, Revoke \o <<[type |-> "destroy"]>>} :
                    t \in Seq(Plain) /\ \A n \in 1..Len(t) : t[n].type # "acquire"
    BY <1>types, DevicesSent
  <1>released. PICK r : r = [backend EXCEPT !.pressed = {}, !.mods = {}]
    OBVIOUS
  <1>5. Released(backend) = r /\ r \in BackendType /\ r.pressed = {} /\ r.mods = {}
    BY <1>types, <1>released, ReleasedIs DEF BackendType
  <1>6. ASSUME RevokeInput PROVE IInv'
    BY <1>5, <1>6, <1>devices, RevokingKeeps DEF RevokeInput
  <1>7. ASSUME Pause PROVE IInv'
    <2>1. PICK b : b = [r EXCEPT !.paused = TRUE]
      OBVIOUS
    <2>2. b \in BackendType /\ b.pressed = {} /\ b.mods = {}
      BY <1>5, <2>1 DEF BackendType
    <2>3. Revoking(1, <<>>, b)
      BY <1>5, <1>7, <2>1 DEF Pause
    <2> QED BY <1>devices, <2>2, <2>3, RevokingKeeps
  <1>8. ASSUME Resume PROVE IInv'
    <2>1. /\ backend' = [backend EXCEPT !.paused = FALSE]
          /\ UNCHANGED <<op, calls, toHost, host, toDaemon, app>>
      BY <1>8 DEF Resume
    <2>2. GoodBackend(backend') /\ backend'.pressed = backend.pressed /\ backend'.epoch = backend.epoch
      BY <1>types, <2>1 DEF GoodBackend, BackendType
    <2>3. GoodOp(op', backend.pressed)
      BY <2>1 DEF IInv, TypeInv
    <2> QED BY <2>1, <2>2, <2>3, KeepsStill
  <1>9. ASSUME Destroy PROVE IInv'
    <2>1. PICK b : b = [r EXCEPT !.created = FALSE, !.paused = TRUE, !.mods = {}]
      OBVIOUS
    <2>2. b \in BackendType /\ b.pressed = {} /\ b.mods = {}
      BY <1>5, <2>1 DEF BackendType
    <2>3. Revoking(2, Revoke \o <<[type |-> "destroy"]>>, b)
      BY <1>5, <1>9, <2>1 DEF Destroy
    <2> QED BY <1>devices, <2>2, <2>3, RevokingKeeps
  <1>10. ASSUME Create PROVE IInv'
    <2>1. PICK t \in {Acquired \o <<[type |-> "create"]>> \o Mods({}),
                      Acquired \o <<[type |-> "create"], [type |-> "destroy"]>>} :
             /\ toHost' = toHost \o t /\ UNCHANGED <<op, host, toDaemon, app>> /\ calls' = calls + 1
             /\ backend' \in {backend, [backend EXCEPT !.created = TRUE, !.paused = FALSE]}
      BY <1>10 DEF Create, Send, Call
    <2>2. Sendable(t, backend.epoch, backend.pressed, backend.pressed) /\ t \in Seq(Calm)
      BY <1>devices, PlainSent
    <2>3. GoodBackend(backend') /\ backend'.pressed = backend.pressed /\ backend'.epoch = backend.epoch
      BY <1>types, <2>1 DEF GoodBackend, BackendType
    <2>4. GoodOp(op', backend'.pressed)
      BY <2>1, <2>3 DEF IInv, TypeInv
    <2>5. backend.epoch <= backend'.epoch /\ backend'.epoch <= backend.epoch
      BY <1>types, <2>3
    <2> QED BY <2>1, <2>2, <2>3, <2>4, <2>5, KeepsCalm
  <1> QED BY <1>1, <1>2, <1>3, <1>4, <1>6, <1>7, <1>8, <1>9, <1>10 DEF Methods

LEMMA TurnKeeps ==
    ASSUME IInv, Turn
    PROVE  IInv'
  <1>types. /\ GoodBackend(backend) /\ backend \in BackendType /\ backend.epoch \in Nat /\ calls \in Nat
            /\ op \in OpType /\ GoodOp(op, backend.pressed) /\ toDaemon \in Seq(Events)
    BY DEF IInv, TypeInv, GoodBackend, BackendType, GoodOp
  <1>epoch. backend.epoch <= backend.epoch
    BY <1>types
  <1>1. ASSUME AdvanceTyping PROVE IInv'
    <2>1. PICK t : t = Acquired \o Typed(Head(op.text))
      OBVIOUS
    <2>2. /\ toHost' = toHost \o t /\ UNCHANGED <<backend, calls, host, toDaemon, app>>
          /\ op' = IF Len(op.text) = 1 THEN NoOp ELSE [op EXCEPT !.text = Tail(@)]
          /\ op.kind = "type"
      BY <1>1, <2>1 DEF AdvanceTyping, Send
    <2>3. op.text \in Seq(Characters) /\ op.text # <<>>
      BY <1>types, <2>2 DEF GoodOp, OpType
    <2>4. /\ Head(op.text) \in Characters /\ Tail(op.text) \in Seq(Characters)
          /\ Len(op.text) # 1 => Tail(op.text) # <<>>
      <3>1. PICK s \in Seq(Characters) : s = op.text
        BY <2>3
      <3>2. /\ Tail(s) \in Seq(Characters)
            /\ Len(s) \in Nat \ {0}
            /\ Len(Tail(s)) = Len(s) - 1
            /\ \A n \in 1..(Len(s) - 1) : Tail(s)[n] = s[n + 1]
            /\ Head(s) = s[1] /\ Head(s) \in Characters
        BY <2>3, <3>1, Rest
      <3>3. Len(s) # 1 => Len(Tail(s)) # 0
        BY <3>2
      <3>4. Len(s) # 1 => Tail(s) # <<>>
        BY <3>3
      <3> QED BY <3>1, <3>2, <3>4
    <2>5. Sendable(t, backend.epoch, backend.pressed, backend.pressed) /\ t \in Seq(Calm)
      BY <1>types, <2>1, <2>4, TypedSent
    <2>6. GoodOp(op', backend'.pressed) /\ op'.kind # "paste"
      <3>1. CASE Len(op.text) = 1
        BY <2>2, <3>1, NoOpIsGood
      <3>2. CASE Len(op.text) # 1
        <4>1. op' = [op EXCEPT !.text = Tail(op.text)]
          BY <2>2, <3>2
        <4>2. op' \in OpType /\ op'.text = Tail(op.text) /\ op'.kind = "type"
          BY <1>types, <2>2, <2>4, <4>1 DEF OpType
        <4> QED BY <2>4, <3>2, <4>2 DEF GoodOp
      <3> QED BY <3>1, <3>2
    <2> QED BY <1>types, <1>epoch, <2>2, <2>5, <2>6, KeepsCalm
  <1>2. ASSUME AdvancePaste PROVE IInv'
    <2>1. CASE op.offered = "yes"
      <3>1. /\ toHost' = toHost \o Chord.sent /\ backend' = Chord.after
            /\ op' = [op EXCEPT !.offered = "used"]
            /\ UNCHANGED <<calls, host, toDaemon, app>>
            /\ op.kind = "paste"
        BY <1>2, <2>1 DEF AdvancePaste, Send
      <3>2. backend.pressed \cap Keys = {}
        BY <1>types, <3>1 DEF GoodOp
      <3>3. /\ GoodBackend(Chord.after) /\ Chord.after.epoch = backend.epoch
            /\ Sendable(Chord.sent, backend.epoch, backend.pressed, Chord.after.pressed)
            /\ Chord.sent \in Seq(Unoffered)
            /\ Chord.after.pressed \cap Keys = {}
        BY <1>types, <3>2, ChordSent
      <3>4. PICK t : t = Chord.sent
        OBVIOUS
      <3>5. \A n \in 1..Len(t) : t[n].type # "offer"
        BY <3>3, <3>4, OfCalm
      <3>6. op' \in OpType /\ op'.kind = "paste" /\ op'.token = op.token /\ op'.offered = "used"
        BY <1>types, <3>1 DEF OpType
      <3>7. GoodOp(op', backend'.pressed)
        BY <3>1, <3>3, <3>6 DEF GoodOp
      <3>8. OperationStep(t)
        BY <3>1, <3>3, <3>5, <3>6 DEF OperationStep
      <3>9. Sendable(t, backend.epoch, backend.pressed, backend'.pressed) /\ GoodBackend(backend')
            /\ backend.epoch <= backend'.epoch /\ backend'.epoch <= backend.epoch
        BY <1>epoch, <3>1, <3>3, <3>4
      <3>10. DaemonSends(t)
        BY <2>1, <3>1, <3>4, <3>5, <3>7, <3>8, <3>9 DEF DaemonSends
      <3> QED BY <3>10, DaemonKeeps
    <2>2. CASE op.offered # "yes"
      <3>1. op' = NoOp /\ UNCHANGED <<toHost, backend, calls, host, toDaemon, app>>
        BY <1>2, <2>2 DEF AdvancePaste
      <3>2. GoodOp(op', backend.pressed) /\ op'.kind # "paste"
        BY <3>1, NoOpIsGood
      <3> QED BY <1>types, <3>1, <3>2, KeepsStill
    <2> QED BY <2>1, <2>2
  <1>3. ASSUME OperationEnds PROVE IInv'
    <2>1. op' = NoOp /\ UNCHANGED <<toHost, backend, calls, host, toDaemon, app>>
      BY <1>3 DEF OperationEnds
    <2>2. GoodOp(op', backend.pressed) /\ op'.kind # "paste"
      BY <2>1, NoOpIsGood
    <2> QED BY <1>types, <2>1, <2>2, KeepsStill
  <1>4. ASSUME Dispatch PROVE IInv'
    <2>1. PICK event : event = Head(toDaemon)
      OBVIOUS
    <2>2. /\ toDaemon # <<>> /\ toDaemon' = Tail(toDaemon) /\ UNCHANGED <<calls, host, app>>
          /\ \/ event.type = "state" /\ Synced(event)
             \/ /\ event.type = "offered"
                /\ op' = IF event.token = op.token THEN [op EXCEPT !.offered = event.answer] ELSE op
                /\ UNCHANGED <<backend, toHost>>
      BY <1>4, <2>1 DEF Dispatch
    <2>3. event \in Events /\ 1 \in 1..Len(toDaemon) /\ event = toDaemon[1]
      BY <1>types, <2>1, <2>2
    <2>4. CASE event.type = "state" /\ event.epoch > backend.epoch
      <3>1. PICK t : t = Releases(backend)
        OBVIOUS
      <3>2. PICK r : r = [backend EXCEPT !.pressed = {}, !.mods = {}]
        OBVIOUS
      <3>3. Released(backend) = r /\ r \in BackendType /\ r.pressed = {} /\ r.mods = {}
        BY <1>types, <3>2, ReleasedIs DEF BackendType
      <3>4. /\ op' = NoOp /\ toHost' = toHost \o t
            /\ backend' = [r EXCEPT !.epoch = event.epoch, !.humanActive = event.active]
        BY <2>2, <2>4, <3>1, <3>3 DEF Synced, Send
      <3>5. event.epoch \in Nat /\ event.active \in BOOLEAN /\ event.epoch <= host.epoch
        BY <2>3, <2>4 DEF Events, IInv, EpochInv
      <3>6. /\ backend' \in BackendType /\ backend'.pressed = {} /\ backend'.mods = {}
            /\ backend'.epoch = event.epoch
        BY <3>3, <3>4, <3>5 DEF BackendType
      <3>7. GoodBackend(backend')
        BY <3>6, EmptyIsGood
      <3>8. Sendable(t, backend.epoch, backend.pressed, {}) /\ t \in Seq(Calm)
        BY <1>types, <3>1, ReleasesSent
      <3>9. GoodOp(op', backend'.pressed) /\ op'.kind # "paste"
        BY <3>4, NoOpIsGood
      <3>10. backend.epoch <= backend'.epoch /\ backend'.epoch <= host.epoch
        BY <1>types, <2>4, <3>5, <3>6
      <3> QED BY <2>2, <3>4, <3>6, <3>7, <3>8, <3>9, <3>10, KeepsCalm
    <2>5. CASE event.type = "state" /\ ~(event.epoch > backend.epoch)
      <3>1. /\ backend' = [backend EXCEPT !.humanActive = event.active]
            /\ UNCHANGED <<op, toHost>>
        BY <2>2, <2>5 DEF Synced
      <3>2. event.active \in BOOLEAN
        BY <2>3, <2>5 DEF Events
      <3>3. GoodBackend(backend') /\ backend'.pressed = backend.pressed /\ backend'.epoch = backend.epoch
        BY <1>types, <3>1, <3>2 DEF GoodBackend, BackendType
      <3> QED BY <1>types, <2>2, <3>1, <3>3, KeepsStill
    <2>6. CASE event.type = "offered"
      <3>1. /\ op' = IF event.token = op.token THEN [op EXCEPT !.offered = event.answer] ELSE op
            /\ UNCHANGED <<backend, toHost>>
        BY <2>2, <2>6
      <3>2. event.answer \in {"yes", "refused"}
        BY <2>3, <2>6 DEF Events
      <3>3. CASE event.token = op.token
        <4>1. op' = [op EXCEPT !.offered = event.answer]
          BY <3>1, <3>3
        <4>2. op' \in OpType /\ op'.kind = op.kind /\ op'.token = op.token /\ op'.text = op.text
              /\ op'.offered = event.answer
          BY <1>types, <3>2, <4>1 DEF OpType
        <4>3. GoodOp(op', backend.pressed)
          BY <1>types, <4>2 DEF GoodOp
        <4>4. op'.offered = "yes" => Answers(Head(toDaemon), op.token)
          BY <2>1, <2>6, <3>3, <4>2 DEF Answers
        <4> QED BY <1>types, <2>2, <3>1, <4>2, <4>3, <4>4, KeepsStill
      <3>4. CASE event.token # op.token
        BY <1>types, <2>2, <3>1, <3>4, KeepsStill
      <3> QED BY <3>3, <3>4
    <2> QED BY <2>2, <2>4, <2>5, <2>6
  <1>5. ASSUME HumanForgotten PROVE IInv'
    <2>1. /\ backend' = [backend EXCEPT !.humanActive = FALSE]
          /\ UNCHANGED <<op, calls, toHost, host, toDaemon, app>>
      BY <1>5 DEF HumanForgotten
    <2>2. GoodBackend(backend') /\ backend'.pressed = backend.pressed /\ backend'.epoch = backend.epoch
      BY <1>types, <2>1 DEF GoodBackend, BackendType
    <2> QED BY <1>types, <2>1, <2>2, KeepsStill
  <1> QED BY <1>1, <1>2, <1>3, <1>4, <1>5 DEF Turn

----------------------------------------------------------------------------
(* Steps of the compositor.                                                *)

\* Taking a request leaves the rest of them, and what is known of the epochs.
LEMMA Taken ==
    ASSUME IInv, toHost # <<>>, toHost' = Tail(toHost), backend' = backend,
           host'.epoch = host.epoch + Rev(Head(toHost)), host'.epoch \in Nat
    PROVE  /\ Head(toHost) = toHost[1] /\ Head(toHost) \in Requests /\ 1 \in 1..Len(toHost)
           /\ toHost' \in Seq(Requests)
           /\ \A n \in 1..Len(toHost') : \E m \in 1..Len(toHost) : toHost'[n] = toHost[m]
           /\ \E c : Levels(c, toHost', host'.epoch, backend'.epoch)
  <1>1. toHost \in Seq(Requests) /\ host.epoch \in Nat /\ backend.epoch \in Nat
    BY DEF IInv, TypeInv, GoodBackend, BackendType, HostType
  <1>2. /\ Tail(toHost) \in Seq(Requests)
        /\ Len(toHost) \in Nat \ {0}
        /\ Len(Tail(toHost)) = Len(toHost) - 1
        /\ \A n \in 1..(Len(toHost) - 1) : Tail(toHost)[n] = toHost[n + 1]
        /\ Head(toHost) = toHost[1] /\ Head(toHost) \in Requests
    BY <1>1, Rest
  <1>3. \A n \in 1..(Len(toHost) - 1) : n + 1 \in 1..Len(toHost)
    BY <1>2
  <1>4. \A n \in 1..Len(toHost') : \E m \in 1..Len(toHost) : toHost'[n] = toHost[m]
    BY <1>2, <1>3
  <1>5. PICK c : Levels(c, toHost, host.epoch, backend.epoch)
    BY DEF IInv, EpochInv
  <1>6. host'.epoch = host.epoch + Rev(toHost[1])
    BY <1>2
  <1>7. \E d : Levels(d, Tail(toHost), host'.epoch, backend.epoch)
    BY <1>1, <1>5, <1>6, LevelsTail
  <1> QED BY <1>2, <1>4, <1>7

\* An event of the compositor goes behind those on their way.
LEMMA Volunteered ==
    ASSUME NEW s \in Seq(Events), NEW e \in Events, NEW s2, s2 = s \/ s2 = Append(s, e)
    PROVE  /\ s2 \in Seq(Events)
           /\ \A n \in 1..Len(s2) : (\E m \in 1..Len(s) : s2[n] = s[m]) \/ s2[n] = e
  <1>1. CASE s2 = s
    BY <1>1
  <1>2. CASE s2 = Append(s, e)
    <2>1. /\ Append(s, e) \in Seq(Events)
          /\ Len(Append(s, e)) = Len(s) + 1
          /\ \A n \in 1..Len(s) : Append(s, e)[n] = s[n]
          /\ Append(s, e)[Len(s) + 1] = e
      BY Added
    <2>2. Len(s) \in Nat
      OBVIOUS
    <2>3. \A n \in 1..(Len(s) + 1) : n \in 1..Len(s) \/ n = Len(s) + 1
      BY <2>2
    <2> QED BY <1>2, <2>1, <2>3
  <1> QED BY <1>1, <1>2

\* What the compositor does to the seat, e being what it may tell of it.
SeatStep(e) ==
    /\ UNCHANGED <<backend, op, calls>>
    /\ host' \in HostType /\ app' \in AppType
    /\ host'.epoch > host.epoch \/ (host'.epoch = host.epoch /\ (host.offer => host'.offer))
    /\ ~host'.allowed => host'.held = {}
    /\ host'.allowed => /\ host'.quiet /\ ~host'.humanHolds /\ host'.epoch <= backend.epoch
                        /\ host'.epoch = host.epoch
    /\ SeatInv' /\ ReadAsMeant' /\ ChordFindsOffer'
    /\ e \in Events
    /\ toDaemon' = toDaemon \/ toDaemon' = Append(toDaemon, e)
    /\ e.type = "state" => e.epoch <= host'.epoch
    /\ e.type = "offered" => e.token <= calls
    /\ op.kind = "paste" /\ Answers(e, op.token) => Valid(backend.epoch, host'.epoch, host'.offer)

LEMMA SeatKeeps ==
    ASSUME IInv, NEW e, SeatStep(e), toHost' \in Seq(Requests),
           \A n \in 1..Len(toHost') : \E m \in 1..Len(toHost) : toHost'[n] = toHost[m],
           \E c : Levels(c, toHost', host'.epoch, backend'.epoch),
           QueueInv', Remembered(host'.held, backend'.pressed, toHost'),
           host'.allowed => \A n \in 1..Len(toHost') : toHost'[n].type = "acquire" => host'.epoch <= toHost'[n].epoch
    PROVE  IInv'
  <1>0. TypeInv /\ EpochInv /\ PasteInv
    BY DEF IInv
  <1>1. /\ backend' = backend /\ op' = op /\ calls' = calls
        /\ host' \in HostType /\ app' \in AppType
        /\ host'.epoch > host.epoch \/ (host'.epoch = host.epoch /\ (host.offer => host'.offer))
        /\ ~host'.allowed => host'.held = {}
        /\ host'.allowed => host'.quiet /\ ~host'.humanHolds /\ host'.epoch <= backend.epoch
        /\ SeatInv' /\ ReadAsMeant' /\ ChordFindsOffer'
        /\ e \in Events
        /\ toDaemon' = toDaemon \/ toDaemon' = Append(toDaemon, e)
        /\ e.type = "state" => e.epoch <= host'.epoch
        /\ e.type = "offered" => e.token <= calls
        /\ op.kind = "paste" /\ Answers(e, op.token) => Valid(backend.epoch, host'.epoch, host'.offer)
    BY DEF SeatStep
  <1>types. /\ backend.epoch \in Nat /\ host.epoch \in Nat /\ host'.epoch \in Nat /\ toDaemon \in Seq(Events)
    BY <1>0, <1>1 DEF TypeInv, GoodBackend, BackendType, HostType
  <1>2. /\ toDaemon' \in Seq(Events)
        /\ \A n \in 1..Len(toDaemon') : (\E m \in 1..Len(toDaemon) : toDaemon'[n] = toDaemon[m]) \/ toDaemon'[n] = e
    BY <1>1, <1>types, Volunteered
  <1>3. TypeInv'
    BY <1>0, <1>1, <1>2 DEF TypeInv
  <1>4. HoldInv'
    BY <1>1 DEF HoldInv
  <1>5. EpochInv'
    <2>1. \A n \in 1..Len(toDaemon') : toDaemon'[n].type = "state" => toDaemon'[n].epoch <= host'.epoch
      <3> SUFFICES ASSUME NEW n \in 1..Len(toDaemon'), toDaemon'[n].type = "state"
                   PROVE  toDaemon'[n].epoch <= host'.epoch
        OBVIOUS
      <3>1. CASE \E m \in 1..Len(toDaemon) : toDaemon'[n] = toDaemon[m]
        <4>1. PICK m \in 1..Len(toDaemon) : toDaemon'[n] = toDaemon[m]
          BY <3>1
        <4>2. toDaemon[m].epoch <= host.epoch
          BY <1>0, <4>1 DEF EpochInv
        <4>3. toDaemon[m] \in Events
          BY <1>types, ElementsOf
        <4>4. toDaemon[m].epoch \in Nat
          BY <4>1, <4>3 DEF Events
        <4> QED BY <1>1, <1>types, <4>1, <4>2, <4>4
      <3>2. CASE toDaemon'[n] = e
        BY <1>1, <3>2
      <3> QED BY <1>2, <3>1, <3>2
    <2> QED BY <1>1, <2>1 DEF EpochInv
  <1>6. PasteInv'
    <2>1. Valid(backend.epoch, host.epoch, host.offer) => Valid(backend.epoch, host'.epoch, host'.offer)
      BY <1>1, <1>types, ValidKept
    <2>2. op.kind = "paste" =>
            /\ op.offered = "yes" => Valid(backend.epoch, host'.epoch, host'.offer)
            /\ \A n \in 1..Len(toDaemon') :
                   Answers(toDaemon'[n], op.token) => Valid(backend.epoch, host'.epoch, host'.offer)
            /\ \A n \in 1..Len(toHost') :
                   toHost'[n].type = "offer" /\ toHost'[n].token = op.token => toHost'[n].epoch = backend.epoch
      <3> SUFFICES ASSUME op.kind = "paste"
                   PROVE  /\ op.offered = "yes" => Valid(backend.epoch, host'.epoch, host'.offer)
                          /\ \A n \in 1..Len(toDaemon') :
                                 Answers(toDaemon'[n], op.token) => Valid(backend.epoch, host'.epoch, host'.offer)
                          /\ \A n \in 1..Len(toHost') :
                                 toHost'[n].type = "offer" /\ toHost'[n].token = op.token
                                 => toHost'[n].epoch = backend.epoch
        OBVIOUS
      <3>1. /\ op.offered = "yes" => Valid(backend.epoch, host.epoch, host.offer)
            /\ \A n \in 1..Len(toDaemon) :
                   Answers(toDaemon[n], op.token) => Valid(backend.epoch, host.epoch, host.offer)
            /\ \A n \in 1..Len(toHost) :
                   toHost[n].type = "offer" /\ toHost[n].token = op.token => toHost[n].epoch = backend.epoch
        BY <1>0 DEF PasteInv
      <3>2. op.offered = "yes" => Valid(backend.epoch, host'.epoch, host'.offer)
        BY <2>1, <3>1
      <3>3. ASSUME NEW n \in 1..Len(toDaemon'), Answers(toDaemon'[n], op.token)
            PROVE  Valid(backend.epoch, host'.epoch, host'.offer)
        BY <1>1, <1>2, <2>1, <3>1, <3>3
      <3>4. ASSUME NEW n \in 1..Len(toHost'), toHost'[n].type = "offer", toHost'[n].token = op.token
            PROVE  toHost'[n].epoch = backend.epoch
        <4>1. PICK m \in 1..Len(toHost) : toHost'[n] = toHost[m]
          OBVIOUS
        <4> QED BY <3>1, <3>4, <4>1
      <3> QED BY <3>2, <3>3, <3>4
    <2>3. \A n \in 1..Len(toHost') : toHost'[n].type = "offer" => toHost'[n].token <= calls
      <3> SUFFICES ASSUME NEW n \in 1..Len(toHost') PROVE toHost'[n].type = "offer" => toHost'[n].token <= calls
        OBVIOUS
      <3>1. PICK m \in 1..Len(toHost) : toHost'[n] = toHost[m]
        OBVIOUS
      <3> QED BY <1>0, <3>1 DEF PasteInv
    <2>4. \A n \in 1..Len(toDaemon') : toDaemon'[n].type = "offered" => toDaemon'[n].token <= calls
      BY <1>0, <1>1, <1>2 DEF PasteInv
    <2> QED BY <1>1, <2>2, <2>3, <2>4 DEF PasteInv
  <1> QED BY <1>1, <1>3, <1>4, <1>5, <1>6 DEF IInv

LEMMA TakeKeeps ==
    ASSUME IInv, NEW e, SeatStep(e), toHost # <<>>, toHost' = Tail(toHost), NEW r, r = Head(toHost),
           host'.epoch = host.epoch + Rev(r),
           \A i \in host'.held : (i \in host.held /\ ~Ends(r, i)) \/ (Press(r) /\ r.code = i),
           r.type = "modifiers" => host'.vk = r.mods,
           r.type = "modifiers" /\ (host.allowed => host.offer) => (host'.allowed => host'.offer),
           r.type = "acquire" /\ Valid(r.epoch, host.epoch, host.offer) => (host'.allowed => host'.offer),
           host'.allowed => host.allowed \/ (r.type = "acquire" /\ r.epoch = host'.epoch)
    PROVE  IInv'
  <1>1. /\ toHost \in Seq(Requests) /\ host.epoch \in Nat /\ backend.epoch \in Nat /\ host'.epoch \in Nat
        /\ backend' = backend
        /\ host'.allowed => host'.epoch = host.epoch
        /\ host'.epoch > host.epoch \/ (host'.epoch = host.epoch /\ (host.offer => host'.offer))
    BY DEF IInv, TypeInv, GoodBackend, BackendType, HostType, SeatStep
  <1>2. /\ r = toHost[1] /\ r \in Requests /\ 1 \in 1..Len(toHost)
        /\ toHost' \in Seq(Requests)
        /\ \A n \in 1..Len(toHost') : \E m \in 1..Len(toHost) : toHost'[n] = toHost[m]
        /\ \E c : Levels(c, toHost', host'.epoch, backend'.epoch)
    BY <1>1, Taken
  <1>3. /\ Announced(toHost, host.vk) /\ Chords(toHost, host.epoch, host.offer, host.allowed)
        /\ Sorted(toHost, backend.epoch) /\ Remembered(host.held, backend.pressed, toHost)
    BY DEF IInv, QueueInv, HoldInv
  <1>4. /\ Announced(Tail(toHost), host'.vk)
        /\ Chords(Tail(toHost), host'.epoch, host'.offer, host'.allowed)
        /\ Sorted(Tail(toHost), backend.epoch)
    <2>1. /\ toHost[1].type = "modifiers" => host'.vk = toHost[1].mods
          /\ toHost[1].type = "modifiers" /\ (host.allowed => host.offer) => (host'.allowed => host'.offer)
          /\ toHost[1].type = "acquire" /\ Valid(toHost[1].epoch, host.epoch, host.offer)
                => (host'.allowed => host'.offer)
      BY <1>2
    <2>2. PICK epoch2, vk2, offer2, allowed2 :
             /\ epoch2 = host'.epoch /\ vk2 = host'.vk /\ offer2 = host'.offer /\ allowed2 = host'.allowed
             /\ epoch2 \in Nat
      BY <1>1
    <2>3. /\ toHost[1].type = "modifiers" => vk2 = toHost[1].mods
          /\ toHost[1].type = "modifiers" /\ (host.allowed => host.offer) => (allowed2 => offer2)
          /\ toHost[1].type = "acquire" /\ Valid(toHost[1].epoch, host.epoch, host.offer) => (allowed2 => offer2)
          /\ epoch2 > host.epoch \/ (epoch2 = host.epoch /\ (host.offer => offer2))
      BY <1>1, <2>1, <2>2
    <2>4. /\ Announced(Tail(toHost), vk2)
          /\ Chords(Tail(toHost), epoch2, offer2, allowed2)
          /\ Sorted(Tail(toHost), backend.epoch)
      <3>1. PICK q, vk, epoch, offer, allowed, p :
               /\ q = toHost /\ vk = host.vk /\ epoch = host.epoch /\ offer = host.offer
               /\ allowed = host.allowed /\ p = backend.epoch
        OBVIOUS
      <3>2. /\ q \in Seq(Requests) /\ q # <<>> /\ epoch \in Nat
            /\ q[1].type = "modifiers" => vk2 = q[1].mods
            /\ q[1].type = "modifiers" /\ (allowed => offer) => (allowed2 => offer2)
            /\ q[1].type = "acquire" /\ Valid(q[1].epoch, epoch, offer) => (allowed2 => offer2)
            /\ epoch2 > epoch \/ (epoch2 = epoch /\ (offer => offer2))
            /\ Announced(q, vk) /\ Chords(q, epoch, offer, allowed) /\ Sorted(q, p)
        BY <1>1, <1>3, <2>3, <3>1
      <3>3. /\ Announced(Tail(q), vk2)
            /\ Chords(Tail(q), epoch2, offer2, allowed2)
            /\ Sorted(Tail(q), p)
        BY ONLY <2>2, <3>2, QueueTail
      <3> QED BY <3>1, <3>3
    <2> QED BY <2>2, <2>4
  <1>5. QueueInv'
    BY <1>1, <1>4 DEF QueueInv
  <1>6. Remembered(host'.held, backend.pressed, Tail(toHost))
    BY <1>1, <1>2, <1>3, RememberedTail
  <1>7. Remembered(host'.held, backend'.pressed, toHost')
    BY <1>1, <1>6
  <1>8. ASSUME host'.allowed, NEW n \in 1..Len(toHost'), toHost'[n].type = "acquire"
        PROVE  host'.epoch <= toHost'[n].epoch
    <2>1. PICK m \in 1..Len(toHost) : toHost'[n] = toHost[m]
      BY <1>2
    <2>2. CASE host.allowed
      BY <1>1, <1>8, <2>1, <2>2 DEF IInv, EpochInv
    <2>3. CASE r.type = "acquire" /\ r.epoch = host'.epoch
      <3>1. 1 <= m
        OBVIOUS
      <3>2. toHost[1].epoch <= toHost[m].epoch
        BY <1>2, <1>3, <1>8, <2>1, <2>3, <3>1 DEF Sorted
      <3> QED BY <1>2, <2>1, <2>3, <3>2
    <2> QED BY <1>8, <2>2, <2>3
  <1> QED BY <1>2, <1>5, <1>7, <1>8, SeatKeeps

LEMMA ActKeeps ==
    ASSUME IInv, NEW e, SeatStep(e), toHost' = toHost,
           host'.held \subseteq host.held, host'.vk = host.vk, host'.allowed => host.allowed,
           (host.allowed => host.offer) => (host'.allowed => host'.offer)
    PROVE  IInv'
  <1>1. /\ toHost \in Seq(Requests) /\ host.epoch \in Nat /\ backend.epoch \in Nat /\ host'.epoch \in Nat
        /\ backend' = backend
        /\ host'.allowed => host'.epoch = host.epoch
        /\ host'.epoch > host.epoch \/ (host'.epoch = host.epoch /\ (host.offer => host'.offer))
    BY DEF IInv, TypeInv, GoodBackend, BackendType, HostType, SeatStep
  <1>2. /\ Announced(toHost, host.vk) /\ Chords(toHost, host.epoch, host.offer, host.allowed)
        /\ Sorted(toHost, backend.epoch) /\ Remembered(host.held, backend.pressed, toHost)
    BY DEF IInv, QueueInv, HoldInv
  <1>3. Chords(toHost, host'.epoch, host'.offer, host'.allowed)
    BY <1>1, <1>2, QueueStays
  <1>4. QueueInv'
    BY <1>1, <1>2, <1>3 DEF QueueInv
  <1>5. Remembered(host'.held, backend'.pressed, toHost')
    <2>1. Remembered(host'.held, backend.pressed, toHost)
      BY <1>2, RememberedLess
    <2> QED BY <1>1, <2>1
  <1>6. \E c : Levels(c, toHost', host'.epoch, backend'.epoch)
    <2>1. PICK c : Levels(c, toHost, host.epoch, backend.epoch)
      BY DEF IInv, EpochInv
    <2>2. host.epoch <= host'.epoch
      BY <1>1
    <2>3. \E d : Levels(d, toHost, host'.epoch, backend.epoch)
      BY <1>1, <2>1, <2>2, LevelsRise
    <2> QED BY <1>1, <2>3
  <1>7. ASSUME host'.allowed, NEW n \in 1..Len(toHost'), toHost'[n].type = "acquire"
        PROVE  host'.epoch <= toHost'[n].epoch
    BY <1>1, <1>7 DEF IInv, EpochInv
  <1>8. toHost' \in Seq(Requests) /\ \A n \in 1..Len(toHost') : \E m \in 1..Len(toHost) : toHost'[n] = toHost[m]
    BY <1>1
  <1> QED BY <1>4, <1>5, <1>6, <1>7, <1>8, SeatKeeps

\* What is known of the seat and of the request at the head of the queue.
LEMMA SeatIs ==
    ASSUME IInv
    PROVE  /\ host \in HostType /\ app \in AppType /\ backend.epoch \in Nat /\ host.epoch \in Nat
           /\ toHost \in Seq(Requests) /\ backend.pressed \in SUBSET Inputs
           /\ ~host.allowed => host.held = {} /\ ~host.offer /\ host.keyboard = "other"
           /\ host.allowed => host.quiet /\ ~host.humanHolds /\ host.epoch <= backend.epoch
           /\ host.keyboard = "agent" => app.mods = host.vk
           /\ app.read.seen = app.read.meant /\ (app.read.of = "chord" => app.read.offer)
  BY DEF IInv, TypeInv, HoldInv, EpochInv, SeatInv, ReadAsMeant, ChordFindsOffer, HostType, GoodBackend, BackendType

LEMMA HeadIs ==
    ASSUME IInv, toHost # <<>>, NEW r, r = Head(toHost)
    PROVE  /\ r \in Requests /\ r = toHost[1] /\ 1 \in 1..Len(toHost)
           /\ r.type = "acquire" => r.epoch <= backend.epoch /\ r.epoch <= host.epoch
           /\ host.allowed /\ r.type = "acquire" => r.epoch = host.epoch
           /\ KeyPress(r) => host.vk = r.meant
           /\ ChordPress(r) => (host.allowed => host.offer)
           /\ r.type = "offer" => r.token <= calls
           /\ r.type = "offer" /\ op.kind = "paste" /\ r.token = op.token => r.epoch = backend.epoch
  <1>1. toHost \in Seq(Requests) /\ host.epoch \in Nat
    BY SeatIs
  <1>2. r \in Requests /\ r = toHost[1] /\ 1 \in 1..Len(toHost)
    BY <1>1
  <1>3. r.type = "acquire" => r.epoch <= backend.epoch
    BY <1>2 DEF IInv, QueueInv, Sorted
  <1>4. r.type = "acquire" => r.epoch <= host.epoch
    <2>1. PICK c : Levels(c, toHost, host.epoch, backend.epoch)
      BY DEF IInv, EpochInv
    <2>2. c[1] = host.epoch /\ \A n \in 1..Len(toHost) : toHost[n].type = "acquire" => toHost[n].epoch <= c[n]
      BY <2>1, Zenon DEF Levels
    <2> QED BY <1>2, <2>2
  <1>5. host.allowed /\ r.type = "acquire" => r.epoch = host.epoch
    <2>1. host.allowed /\ r.type = "acquire" => host.epoch <= r.epoch
      BY <1>2 DEF IInv, EpochInv
    <2>2. r.type = "acquire" => r.epoch \in Nat
      BY <1>2 DEF Requests, Strokes
    <2> QED BY <1>1, <1>4, <2>1, <2>2
  <1>6. KeyPress(r) => host.vk = r.meant
    BY <1>2 DEF IInv, QueueInv, Announced
  <1>7. ChordPress(r) => (host.allowed => host.offer)
    BY <1>2 DEF IInv, QueueInv, Chords
  <1>8. /\ r.type = "offer" => r.token <= calls
        /\ r.type = "offer" /\ op.kind = "paste" /\ r.token = op.token => r.epoch = backend.epoch
    BY <1>2 DEF IInv, PasteInv
  <1> QED BY <1>2, <1>3, <1>4, <1>5, <1>6, <1>7, <1>8

\* The state of the seat, as an event.
LEMMA StateIs ==
    ASSUME NEW h \in HostType
    PROVE  State(h) \in Events /\ State(h).type = "state" /\ State(h).epoch = h.epoch
  BY DEF State, Events, HostType

LEMMA AcquireKeeps ==
    ASSUME IInv, HostAcquire
    PROVE  IInv'
  <1>1. PICK r : r = Head(toHost)
    OBVIOUS
  <1>2. PICK granted \in BOOLEAN : granted = (r.epoch = host.epoch /\ host.quiet /\ ~host.humanHolds)
    OBVIOUS
  <1>3. /\ toHost # <<>> /\ r.type = "acquire" /\ toHost' = Tail(toHost)
        /\ host' = [host EXCEPT !.allowed = granted, !.offer = host.offer /\ granted]
        /\ toDaemon' = toDaemon \/ toDaemon' = Append(toDaemon, State(host'))
        /\ UNCHANGED <<backend, op, calls, app>>
    BY <1>1, <1>2 DEF HostAcquire, Take
  <1>4. /\ host \in HostType /\ app \in AppType /\ host.epoch \in Nat
        /\ ~host.allowed => host.held = {} /\ ~host.offer /\ host.keyboard = "other"
        /\ host.allowed => host.quiet /\ ~host.humanHolds /\ host.epoch <= backend.epoch
        /\ host.keyboard = "agent" => app.mods = host.vk
        /\ app.read.seen = app.read.meant /\ (app.read.of = "chord" => app.read.offer)
    BY SeatIs
  <1>5. /\ r \in Requests
        /\ r.epoch <= backend.epoch
        /\ host.allowed => r.epoch = host.epoch
    BY <1>1, <1>3, HeadIs
  <1>6. /\ host' \in HostType /\ host'.epoch = host.epoch /\ host'.allowed = granted
        /\ host'.offer = (host.offer /\ granted) /\ host'.held = host.held /\ host'.vk = host.vk
        /\ host'.quiet = host.quiet /\ host'.humanHolds = host.humanHolds /\ host'.keyboard = host.keyboard
    BY <1>3, <1>4 DEF HostType
  <1>7. host.allowed => granted
    BY <1>2, <1>4, <1>5
  <1>8. SeatInv' /\ ReadAsMeant' /\ ChordFindsOffer'
    BY <1>3, <1>4, <1>6, <1>7 DEF SeatInv, ReadAsMeant, ChordFindsOffer
  <1>9. PICK e : e = State(host')
    OBVIOUS
  <1>10. e \in Events /\ e.type = "state" /\ e.epoch <= host'.epoch
    BY <1>4, <1>6, <1>9, StateIs
  <1>11. SeatStep(e)
    BY <1>2, <1>3, <1>4, <1>5, <1>6, <1>7, <1>8, <1>9, <1>10 DEF SeatStep, Answers
  <1>12. Rev(r) = 0 /\ host'.epoch = host.epoch + Rev(r)
    BY <1>3, <1>4, <1>6 DEF Rev
  <1>13. \A i \in host'.held : i \in host.held /\ ~Ends(r, i)
    BY <1>3, <1>6 DEF Ends
  <1>14. Valid(r.epoch, host.epoch, host.offer) => (host'.allowed => host'.offer)
    BY <1>2, <1>6 DEF Valid
  <1>15. host'.allowed => r.epoch = host'.epoch
    BY <1>2, <1>6
  <1> QED BY <1>1, <1>3, <1>11, <1>12, <1>13, <1>14, <1>15, TakeKeeps

LEMMA RevokedIs ==
    ASSUME host \in HostType, app \in AppType
    PROVE  /\ RevokedSeat(host) \in HostType
           /\ RevokedSeat(host).epoch = host.epoch + 1 /\ RevokedSeat(host).vk = host.vk
           /\ ~RevokedSeat(host).allowed /\ ~RevokedSeat(host).offer
           /\ RevokedSeat(host).held = {} /\ RevokedSeat(host).keyboard = "other"
           /\ RevokedApp(host) \in AppType /\ RevokedApp(host).read = app.read
  <1>1. host.epoch \in Nat
    BY DEF HostType
  <1>2. PICK e \in Nat : e = host.epoch + 1
    BY <1>1
  <1>3. PICK h : h = RevokedSeat(host)
    OBVIOUS
  <1>4. h = [host EXCEPT !.allowed = FALSE, !.epoch = e, !.held = {}, !.offer = FALSE, !.keyboard = "other"]
    BY <1>2, <1>3 DEF RevokedSeat
  <1>5. /\ h \in HostType /\ h.epoch = e /\ h.vk = host.vk
        /\ ~h.allowed /\ ~h.offer /\ h.held = {} /\ h.keyboard = "other"
    BY <1>4 DEF HostType
  <1>6. RevokedApp(host) \in AppType /\ RevokedApp(host).read = app.read
    <2>1. PICK m \in SUBSET Modifiers : m = HumanModifiers(host)
      BY DEF HumanModifiers
    <2>2. RevokedApp(host) = [app EXCEPT !.down = {}, !.mods = m]
      BY <2>1 DEF RevokedApp
    <2> QED BY <2>2 DEF AppType
  <1> QED BY <1>2, <1>3, <1>5, <1>6

LEMMA RevokeKeeps ==
    ASSUME IInv, HostRevoke
    PROVE  IInv'
  <1>1. PICK r : r = Head(toHost)
    OBVIOUS
  <1>2. /\ toHost # <<>> /\ r.type = "revoke" /\ toHost' = Tail(toHost)
        /\ host' = RevokedSeat(host) /\ app' = RevokedApp(host)
        /\ toDaemon' = Append(toDaemon, State(host'))
        /\ UNCHANGED <<backend, op, calls>>
    BY <1>1 DEF HostRevoke, Take
  <1>3. /\ host \in HostType /\ app \in AppType /\ host.epoch \in Nat
        /\ app.read.seen = app.read.meant /\ (app.read.of = "chord" => app.read.offer)
    BY SeatIs
  <1>4. /\ host' \in HostType /\ host'.epoch = host.epoch + 1
        /\ ~host'.allowed /\ ~host'.offer /\ host'.held = {} /\ host'.keyboard = "other"
        /\ app' \in AppType /\ app'.read = app.read
    BY <1>2, <1>3, RevokedIs
  <1>5. SeatInv' /\ ReadAsMeant' /\ ChordFindsOffer'
    BY <1>3, <1>4 DEF SeatInv, ReadAsMeant, ChordFindsOffer
  <1>6. PICK e : e = State(host')
    OBVIOUS
  <1>7. e \in Events /\ e.type = "state" /\ e.epoch <= host'.epoch
    BY <1>3, <1>4, <1>6, StateIs
  <1>8. host'.epoch > host.epoch
    BY <1>3, <1>4
  <1>9. SeatStep(e)
    BY <1>2, <1>4, <1>5, <1>6, <1>7, <1>8 DEF SeatStep, Answers
  <1>10. host'.epoch = host.epoch + Rev(r)
    BY <1>2, <1>4 DEF Rev
  <1> QED BY <1>1, <1>2, <1>4, <1>9, <1>10, TakeKeeps

\* An event is at hand for a step that tells of nothing.
LEMMA AnyEvent ==
    ASSUME IInv
    PROVE  \E e \in Events : e.type = "state" /\ e.epoch <= host.epoch
  <1>1. host \in HostType /\ host.epoch \in Nat
    BY SeatIs
  <1>2. State(host) \in Events /\ State(host).type = "state" /\ State(host).epoch <= host.epoch
    BY <1>1, StateIs
  <1> QED BY <1>2

LEMMA ModifiersKeep ==
    ASSUME IInv, HostModifiers
    PROVE  IInv'
  <1>1. PICK r : r = Head(toHost)
    OBVIOUS
  <1>2. PICK told \in BOOLEAN : told = (r.mods # host.vk /\ host.allowed)
    OBVIOUS
  <1>3. /\ toHost # <<>> /\ r.type = "modifiers" /\ toHost' = Tail(toHost)
        /\ host' = [host EXCEPT !.vk = r.mods, !.keyboard = IF told THEN "agent" ELSE host.keyboard]
        /\ app' = [app EXCEPT !.mods = IF told THEN r.mods ELSE app.mods]
        /\ UNCHANGED <<backend, op, calls, toDaemon>>
    BY <1>1, <1>2 DEF HostModifiers, Take
  <1>4. /\ host \in HostType /\ app \in AppType /\ host.epoch \in Nat
        /\ ~host.allowed => host.held = {} /\ ~host.offer /\ host.keyboard = "other"
        /\ host.allowed => host.quiet /\ ~host.humanHolds /\ host.epoch <= backend.epoch
        /\ host.keyboard = "agent" => app.mods = host.vk
        /\ app.read.seen = app.read.meant /\ (app.read.of = "chord" => app.read.offer)
    BY SeatIs
  <1>5. r.mods \in SUBSET Modifiers
    <2>1. r \in Requests
      BY <1>1, <1>3, HeadIs
    <2> QED BY <1>3, <2>1 DEF Requests, Strokes
  <1>6. /\ host' \in HostType /\ host'.epoch = host.epoch /\ host'.allowed = host.allowed
        /\ host'.offer = host.offer /\ host'.held = host.held /\ host'.vk = r.mods
        /\ host'.quiet = host.quiet /\ host'.humanHolds = host.humanHolds
        /\ host'.keyboard = IF told THEN "agent" ELSE host.keyboard
    BY <1>3, <1>4, <1>5 DEF HostType
  <1>7. /\ app' \in AppType /\ app'.read = app.read
        /\ app'.mods = IF told THEN r.mods ELSE app.mods
    BY <1>3, <1>4, <1>5 DEF AppType
  <1>8. SeatInv' /\ ReadAsMeant' /\ ChordFindsOffer'
    BY <1>2, <1>4, <1>6, <1>7 DEF SeatInv, ReadAsMeant, ChordFindsOffer
  <1>9. PICK e \in Events : e.type = "state" /\ e.epoch <= host.epoch
    BY AnyEvent
  <1>10. SeatStep(e)
    BY <1>3, <1>4, <1>6, <1>7, <1>8, <1>9 DEF SeatStep, Answers
  <1>11. host'.epoch = host.epoch + Rev(r)
    BY <1>3, <1>4, <1>6 DEF Rev
  <1>12. \A i \in host'.held : i \in host.held /\ ~Ends(r, i)
    BY <1>3, <1>6 DEF Ends
  <1> QED BY <1>1, <1>3, <1>6, <1>10, <1>11, <1>12, TakeKeeps

LEMMA InputKeeps ==
    ASSUME IInv, HostInput
    PROVE  IInv'
  <1>1. PICK r : r = Head(toHost)
    OBVIOUS
  <1>2. toHost # <<>> /\ r.type = "input" /\ toHost' = Tail(toHost) /\ UNCHANGED <<backend, op, calls, toDaemon>>
    BY <1>1 DEF HostInput, Take
  <1>3. /\ host \in HostType /\ app \in AppType /\ host.epoch \in Nat
        /\ ~host.allowed => host.held = {} /\ ~host.offer /\ host.keyboard = "other"
        /\ host.allowed => host.quiet /\ ~host.humanHolds /\ host.epoch <= backend.epoch
        /\ host.keyboard = "agent" => app.mods = host.vk
        /\ app.read.seen = app.read.meant /\ (app.read.of = "chord" => app.read.offer)
    BY SeatIs
  <1>4. /\ r \in Requests
        /\ KeyPress(r) => host.vk = r.meant
        /\ ChordPress(r) => (host.allowed => host.offer)
    BY <1>1, <1>2, HeadIs
  <1>5. /\ r.code \in Inputs /\ r.down \in BOOLEAN /\ r.meant \in SUBSET Modifiers
        /\ r.of \in {"key", "text", "chord", "release"}
    BY <1>2, <1>4 DEF Requests, Strokes
  <1>6. PICK e \in Events : e.type = "state" /\ e.epoch <= host.epoch
    BY AnyEvent
  <1>7. host.epoch = host.epoch + Rev(r)
    BY <1>2, <1>3 DEF Rev
  <1>8. CASE ~host.allowed
    <2>1. host' = host /\ app' = app
      BY <1>8 DEF HostInput
    <2>2. SeatInv' /\ ReadAsMeant' /\ ChordFindsOffer'
      BY <1>3, <2>1 DEF SeatInv, ReadAsMeant, ChordFindsOffer
    <2>3. SeatStep(e)
      BY <1>2, <1>3, <1>6, <1>8, <2>1, <2>2 DEF SeatStep, Answers
    <2> QED BY <1>1, <1>2, <1>3, <1>7, <1>8, <2>1, <2>3, TakeKeeps
  <1>9. CASE host.allowed
    <2>1. PICK key \in BOOLEAN : key <=> (r.code \in Keys)
      OBVIOUS
    <2>2. PICK mods : mods = IF key THEN ModsWith ELSE app.mods
      OBVIOUS
    <2>3. mods \in SUBSET Modifiers /\ (key => mods = host.vk) /\ (~key => mods = app.mods)
      BY <1>3, <2>2 DEF ModsWith, HostType, AppType
    <2>4. PICK held : held = Toggled(host.held, r.code, r.down)
      OBVIOUS
    <2>5. PICK down : down = Toggled(app.down, r.code, r.down)
      OBVIOUS
    <2>6. PICK read : read = IF key /\ r.down /\ r.code \notin app.down
                             THEN [of |-> r.of, seen |-> mods, meant |-> r.meant, offer |-> host.offer]
                             ELSE app.read
      OBVIOUS
    <2>7. /\ host' = [host EXCEPT !.held = held, !.keyboard = IF key THEN "agent" ELSE host.keyboard]
          /\ app' = [app EXCEPT !.down = down, !.mods = mods, !.read = read]
      BY <1>1, <1>9, <2>1, <2>2, <2>4, <2>5, <2>6 DEF HostInput
    <2>8. held \in SUBSET Inputs /\ down \in SUBSET Inputs
      BY <1>3, <1>5, <2>4, <2>5 DEF Toggled, HostType, AppType
    <2>9. /\ read \in ReadType /\ read.seen = read.meant
          /\ read.of = "chord" => read.offer
      <3>1. CASE key /\ r.down /\ r.code \notin app.down
        <4>1. read = [of |-> r.of, seen |-> mods, meant |-> r.meant, offer |-> host.offer]
          BY <2>6, <3>1
        <4>2. KeyPress(r)
          BY <1>2, <2>1, <3>1 DEF KeyPress, Press
        <4>3. mods = r.meant
          BY <1>4, <2>3, <3>1, <4>2
        <4>4. r.of = "chord" => host.offer
          BY <1>4, <1>9, <4>2 DEF ChordPress
        <4>5. host.offer \in BOOLEAN
          BY <1>3 DEF HostType
        <4> QED BY <1>5, <2>3, <4>1, <4>3, <4>4, <4>5 DEF ReadType
      <3>2. CASE ~(key /\ r.down /\ r.code \notin app.down)
        <4>1. read = app.read
          BY <2>6, <3>2
        <4> QED BY <1>3, <4>1 DEF AppType
      <3> QED BY <3>1, <3>2
    <2>10. /\ host' \in HostType /\ host'.epoch = host.epoch /\ host'.allowed = host.allowed
           /\ host'.offer = host.offer /\ host'.held = held /\ host'.vk = host.vk
           /\ host'.quiet = host.quiet /\ host'.humanHolds = host.humanHolds
           /\ host'.keyboard = IF key THEN "agent" ELSE host.keyboard
      BY <1>3, <2>7, <2>8 DEF HostType
    <2>11. app' \in AppType /\ app'.read = read /\ app'.mods = mods
      BY <1>3, <2>3, <2>7, <2>8, <2>9 DEF AppType
    <2>12. SeatInv' /\ ReadAsMeant' /\ ChordFindsOffer'
      BY <1>3, <1>9, <2>3, <2>9, <2>10, <2>11 DEF SeatInv, ReadAsMeant, ChordFindsOffer
    <2>13. SeatStep(e)
      BY <1>2, <1>3, <1>6, <1>9, <2>10, <2>11, <2>12 DEF SeatStep, Answers
    <2>14. \A i \in host'.held : (i \in host.held /\ ~Ends(r, i)) \/ (Press(r) /\ r.code = i)
      BY <1>2, <1>5, <2>4, <2>10 DEF Toggled, Ends, Press
    <2> QED BY <1>1, <1>2, <1>7, <1>9, <2>10, <2>13, <2>14, TakeKeeps
  <1> QED BY <1>8, <1>9

LEMMA OfferKeeps ==
    ASSUME IInv, HostOffer
    PROVE  IInv'
  <1>1. PICK r : r = Head(toHost)
    OBVIOUS
  <1>2. PICK accepted \in BOOLEAN : accepted <=> host.allowed /\ r.epoch = host.epoch
    OBVIOUS
  <1>3. PICK e : e = [type |-> "offered", token |-> r.token, answer |-> IF accepted THEN "yes" ELSE "refused"]
    OBVIOUS
  <1>4. PICK offer \in BOOLEAN : offer <=> host.offer \/ accepted
    OBVIOUS
  <1>5. /\ toHost # <<>> /\ r.type = "offer" /\ toHost' = Tail(toHost)
        /\ UNCHANGED <<backend, op, calls, app>>
    BY <1>1 DEF HostOffer, Take
  <1>6. /\ host \in HostType /\ app \in AppType /\ host.epoch \in Nat
        /\ ~host.allowed => host.held = {} /\ ~host.offer /\ host.keyboard = "other"
        /\ host.allowed => host.quiet /\ ~host.humanHolds /\ host.epoch <= backend.epoch
        /\ host.keyboard = "agent" => app.mods = host.vk
        /\ app.read.seen = app.read.meant /\ (app.read.of = "chord" => app.read.offer)
    BY SeatIs
  <1>7. toDaemon' = Append(toDaemon, e)
    BY <1>1, <1>2, <1>3 DEF HostOffer
  <1>8. host' = [host EXCEPT !.offer = offer]
    <2>1. host.offer \in BOOLEAN
      BY <1>6 DEF HostType
    <2>2. PICK o \in BOOLEAN : o = (host.offer \/ (host.allowed /\ Head(toHost).epoch = host.epoch))
      BY <2>1, Zenon
    <2>3. o = offer
      BY <1>1, <1>2, <1>4, <2>2
    <2>4. host' = [host EXCEPT !.offer = host.offer \/ (host.allowed /\ Head(toHost).epoch = host.epoch)]
      BY DEF HostOffer
    <2> QED BY <2>2, <2>3, <2>4
  <1>9. /\ r \in Requests
        /\ r.token <= calls
        /\ op.kind = "paste" /\ r.token = op.token => r.epoch = backend.epoch
    BY <1>1, <1>5, HeadIs
  <1>10. /\ host' \in HostType /\ host'.epoch = host.epoch /\ host'.allowed = host.allowed
         /\ host'.offer = offer /\ host'.held = host.held /\ host'.vk = host.vk
         /\ host'.quiet = host.quiet /\ host'.humanHolds = host.humanHolds
         /\ host'.keyboard = host.keyboard
    BY <1>6, <1>8 DEF HostType
  <1>11. e \in Events /\ e.type = "offered" /\ e.token = r.token /\ (e.answer = "yes" => accepted)
    BY <1>3, <1>5, <1>9 DEF Events, Requests, Strokes
  <1>12. op.kind = "paste" /\ Answers(e, op.token) => Valid(backend.epoch, host'.epoch, host'.offer)
    <2>1. op.kind = "paste" /\ Answers(e, op.token) => backend.epoch = host.epoch /\ offer
      BY <1>2, <1>4, <1>9, <1>11 DEF Answers
    <2> QED BY <1>6, <1>10, <2>1 DEF Valid
  <1>13. SeatInv' /\ ReadAsMeant' /\ ChordFindsOffer'
    BY <1>2, <1>4, <1>5, <1>6, <1>10 DEF SeatInv, ReadAsMeant, ChordFindsOffer
  <1>14. SeatStep(e)
    BY <1>4, <1>5, <1>6, <1>7, <1>9, <1>10, <1>11, <1>12, <1>13 DEF SeatStep
  <1>15. host'.epoch = host.epoch + Rev(r)
    BY <1>5, <1>6, <1>10 DEF Rev
  <1>16. \A i \in host'.held : i \in host.held /\ ~Ends(r, i)
    BY <1>5, <1>10 DEF Ends
  <1> QED BY <1>1, <1>5, <1>10, <1>14, <1>15, <1>16, TakeKeeps

LEMMA DevicesKeep ==
    ASSUME IInv, HostDevices
    PROVE  IInv'
  <1>1. PICK r : r = Head(toHost)
    OBVIOUS
  <1>2. /\ toHost # <<>> /\ r.type \in {"create", "destroy"} /\ toHost' = Tail(toHost)
        /\ host' = [host EXCEPT !.vk = {}, !.keyboard = "other"]
        /\ app' = [app EXCEPT !.mods = IF host.allowed THEN {} ELSE app.mods]
        /\ UNCHANGED <<backend, op, calls, toDaemon>>
    BY <1>1 DEF HostDevices, Take
  <1>3. /\ host \in HostType /\ app \in AppType /\ host.epoch \in Nat
        /\ ~host.allowed => host.held = {} /\ ~host.offer /\ host.keyboard = "other"
        /\ host.allowed => host.quiet /\ ~host.humanHolds /\ host.epoch <= backend.epoch
        /\ app.read.seen = app.read.meant /\ (app.read.of = "chord" => app.read.offer)
    BY SeatIs
  <1>4. /\ host' \in HostType /\ host'.epoch = host.epoch /\ host'.allowed = host.allowed
        /\ host'.offer = host.offer /\ host'.held = host.held
        /\ host'.quiet = host.quiet /\ host'.humanHolds = host.humanHolds
        /\ host'.keyboard = "other"
    BY <1>2, <1>3 DEF HostType
  <1>5. app' \in AppType /\ app'.read = app.read
    BY <1>2, <1>3 DEF AppType
  <1>6. SeatInv' /\ ReadAsMeant' /\ ChordFindsOffer'
    BY <1>3, <1>4, <1>5 DEF SeatInv, ReadAsMeant, ChordFindsOffer
  <1>7. PICK e \in Events : e.type = "state" /\ e.epoch <= host.epoch
    BY AnyEvent
  <1>8. SeatStep(e)
    BY <1>2, <1>3, <1>4, <1>5, <1>6, <1>7 DEF SeatStep, Answers
  <1>9. host'.epoch = host.epoch + Rev(r)
    BY <1>2, <1>3, <1>4 DEF Rev
  <1>10. \A i \in host'.held : i \in host.held /\ ~Ends(r, i)
    BY <1>2, <1>4 DEF Ends
  <1> QED BY <1>1, <1>2, <1>4, <1>8, <1>9, <1>10, TakeKeeps

LEMMA HumanKeeps ==
    ASSUME IInv, NEW holds \in BOOLEAN, HumanActs(holds)
    PROVE  IInv'
  <1>1. /\ host \in HostType /\ app \in AppType /\ host.epoch \in Nat
        /\ ~host.allowed => host.held = {} /\ ~host.offer /\ host.keyboard = "other"
        /\ app.read.seen = app.read.meant /\ (app.read.of = "chord" => app.read.offer)
    BY SeatIs
  <1>2. PICK takeover \in BOOLEAN : takeover <=> host.allowed \/ host.quiet
    OBVIOUS
  <1>3. PICK h0 : h0 = IF takeover THEN RevokedSeat(host) ELSE host
    OBVIOUS
  <1>4. PICK a0 : a0 = IF takeover THEN RevokedApp([h0 EXCEPT !.quiet = FALSE, !.humanHolds = holds]) ELSE app
    OBVIOUS
  <1>5. PICK h : h = [h0 EXCEPT !.quiet = FALSE, !.humanHolds = holds]
    OBVIOUS
  <1>6. PICK m : m = HumanModifiers(h)
    OBVIOUS
  <1>7. /\ \E told \in BOOLEAN : host' = [h EXCEPT !.unsaid = ~told]
        /\ toDaemon' = toDaemon \/ toDaemon' = Append(toDaemon, State(h))
        /\ app' = [a0 EXCEPT !.mods = m]
        /\ UNCHANGED <<backend, op, calls, toHost>>
    BY <1>2, <1>3, <1>4, <1>5, <1>6 DEF HumanActs
  <1>8. /\ h0 \in HostType /\ h0.vk = host.vk /\ h0.held \subseteq host.held
        /\ ~h0.allowed /\ ~h0.offer /\ h0.held = {} /\ h0.keyboard = "other"
        /\ h0.epoch > host.epoch \/ (h0.epoch = host.epoch /\ (host.offer => h0.offer))
    <2>1. CASE takeover
      <3>1. /\ h0 \in HostType /\ h0.epoch = host.epoch + 1 /\ h0.vk = host.vk
            /\ ~h0.allowed /\ ~h0.offer /\ h0.held = {} /\ h0.keyboard = "other"
        BY <1>1, <1>3, <2>1, RevokedIs
      <3> QED BY <1>1, <3>1
    <2>2. CASE ~takeover
      BY <1>1, <1>2, <1>3, <2>2
    <2> QED BY <2>1, <2>2
  <1>9. /\ h \in HostType /\ h.vk = host.vk /\ h.epoch = h0.epoch
        /\ ~h.allowed /\ ~h.offer /\ h.held = {} /\ h.keyboard = "other"
    BY <1>5, <1>8 DEF HostType
  <1>10. m \in SUBSET Modifiers
    BY <1>6 DEF HumanModifiers
  <1>11. a0 \in AppType /\ a0.read = app.read
    <2>1. CASE takeover
      <3>1. a0 = [app EXCEPT !.down = {}, !.mods = m]
        BY <1>4, <1>5, <1>6, <2>1 DEF RevokedApp
      <3> QED BY <1>1, <1>10, <3>1 DEF AppType
    <2>2. CASE ~takeover
      BY <1>1, <1>4, <2>2
    <2> QED BY <2>1, <2>2
  <1>12. app' \in AppType /\ app'.read = app.read
    BY <1>7, <1>10, <1>11 DEF AppType
  <1>13. /\ host' \in HostType /\ host'.vk = host.vk /\ host'.epoch = h0.epoch
         /\ ~host'.allowed /\ ~host'.offer /\ host'.held = {} /\ host'.keyboard = "other"
    <2>1. PICK told \in BOOLEAN : host' = [h EXCEPT !.unsaid = ~told]
      BY <1>7
    <2>2. PICK unsaid \in BOOLEAN : unsaid = ~told
      OBVIOUS
    <2>3. host' = [h EXCEPT !.unsaid = unsaid]
      BY <2>1, <2>2
    <2> QED BY <1>9, <2>3 DEF HostType
  <1>14. SeatInv' /\ ReadAsMeant' /\ ChordFindsOffer'
    BY <1>1, <1>12, <1>13 DEF SeatInv, ReadAsMeant, ChordFindsOffer
  <1>15. PICK e : e = State(h)
    OBVIOUS
  <1>16. e \in Events /\ e.type = "state" /\ e.epoch <= host'.epoch
    <2>1. e \in Events /\ e.type = "state" /\ e.epoch = h.epoch /\ h.epoch \in Nat
      BY <1>9, <1>15, StateIs DEF HostType
    <2> QED BY <1>9, <1>13, <2>1
  <1>17. SeatStep(e)
    BY <1>7, <1>8, <1>12, <1>13, <1>14, <1>15, <1>16 DEF SeatStep, Answers
  <1> QED BY <1>7, <1>13, <1>17, ActKeeps

LEMMA QuietKeeps ==
    ASSUME IInv, QuietElapses
    PROVE  IInv'
  <1>1. /\ ~host.quiet /\ host' = [host EXCEPT !.quiet = TRUE, !.unsaid = FALSE]
        /\ toDaemon' = Append(toDaemon, State(host'))
        /\ UNCHANGED <<backend, op, calls, toHost, app>>
    BY DEF QuietElapses
  <1>2. /\ host \in HostType /\ app \in AppType /\ host.epoch \in Nat
        /\ ~host.allowed => host.held = {} /\ ~host.offer /\ host.keyboard = "other"
        /\ host.allowed => host.quiet
        /\ app.read.seen = app.read.meant /\ (app.read.of = "chord" => app.read.offer)
    BY SeatIs
  <1>3. /\ host' \in HostType /\ host'.epoch = host.epoch /\ host'.allowed = host.allowed
        /\ host'.offer = host.offer /\ host'.held = host.held /\ host'.vk = host.vk
        /\ host'.keyboard = host.keyboard
    BY <1>1, <1>2 DEF HostType
  <1>4. SeatInv' /\ ReadAsMeant' /\ ChordFindsOffer'
    BY <1>1, <1>2, <1>3 DEF SeatInv, ReadAsMeant, ChordFindsOffer
  <1>5. PICK e : e = State(host')
    OBVIOUS
  <1>6. e \in Events /\ e.type = "state" /\ e.epoch <= host'.epoch
    BY <1>2, <1>3, <1>5, StateIs
  <1>7. SeatStep(e)
    BY <1>1, <1>2, <1>3, <1>4, <1>5, <1>6 DEF SeatStep, Answers
  <1> QED BY <1>1, <1>3, <1>7, ActKeeps

LEMMA TimeoutKeeps ==
    ASSUME IInv, HoldTimeoutExpired
    PROVE  IInv'
  <1>1. /\ host' = RevokedSeat(host) /\ app' = RevokedApp(host)
        /\ toDaemon' = Append(toDaemon, State(host'))
        /\ UNCHANGED <<backend, op, calls, toHost>>
    BY DEF HoldTimeoutExpired
  <1>2. /\ host \in HostType /\ app \in AppType /\ host.epoch \in Nat
        /\ app.read.seen = app.read.meant /\ (app.read.of = "chord" => app.read.offer)
    BY SeatIs
  <1>3. /\ host' \in HostType /\ host'.epoch = host.epoch + 1 /\ host'.vk = host.vk
        /\ ~host'.allowed /\ ~host'.offer /\ host'.held = {} /\ host'.keyboard = "other"
        /\ app' \in AppType /\ app'.read = app.read
    BY <1>1, <1>2, RevokedIs
  <1>4. SeatInv' /\ ReadAsMeant' /\ ChordFindsOffer'
    BY <1>2, <1>3 DEF SeatInv, ReadAsMeant, ChordFindsOffer
  <1>5. PICK e : e = State(host')
    OBVIOUS
  <1>6. e \in Events /\ e.type = "state" /\ e.epoch <= host'.epoch /\ host'.epoch > host.epoch
    BY <1>2, <1>3, <1>5, StateIs
  <1>7. SeatStep(e)
    BY <1>1, <1>3, <1>4, <1>5, <1>6 DEF SeatStep, Answers
  <1> QED BY <1>1, <1>3, <1>7, ActKeeps

LEMMA CompositorKeeps ==
    ASSUME IInv, Compositor
    PROVE  IInv'
  BY AcquireKeeps, RevokeKeeps, ModifiersKeep, InputKeeps, OfferKeeps, DevicesKeep, HumanKeeps, QuietKeeps,
     TimeoutKeeps DEF Compositor

----------------------------------------------------------------------------
(* The theorems.                                                           *)

LEMMA InitHolds ==
    ASSUME Init
    PROVE  IInv
  <1>1. /\ backend = [epoch |-> 1, created |-> FALSE, paused |-> TRUE, humanActive |-> FALSE,
                      pressed |-> {}, mods |-> {}]
        /\ op = NoOp /\ calls = 0 /\ toHost = <<>> /\ toDaemon = <<>>
        /\ host = [epoch |-> 1, allowed |-> FALSE, quiet |-> TRUE, humanHolds |-> FALSE,
                   unsaid |-> FALSE, held |-> {}, offer |-> FALSE, vk |-> {}, keyboard |-> "other"]
        /\ app = [down |-> {}, mods |-> {},
                  read |-> [of |-> "nothing", seen |-> {}, meant |-> {}, offer |-> FALSE]]
    BY DEF Init
  <1>2. /\ backend \in BackendType /\ backend.pressed = {} /\ backend.mods = {} /\ backend.epoch = 1
    BY <1>1 DEF BackendType
  <1>3. GoodBackend(backend)
    BY <1>2, EmptyIsGood
  <1>4. GoodOp(op, backend.pressed) /\ op.kind = "none"
    BY <1>1, NoOpIsGood
  <1>5. /\ host \in HostType /\ host.epoch = 1 /\ ~host.allowed /\ ~host.offer /\ host.held = {}
        /\ host.keyboard = "other"
    BY <1>1 DEF HostType
  <1>6. app \in AppType /\ app.read.seen = app.read.meant /\ app.read.of = "nothing"
    BY <1>1 DEF AppType, ReadType
  <1>7. toHost \in Seq(Requests) /\ Len(toHost) = 0 /\ toDaemon \in Seq(Events) /\ Len(toDaemon) = 0
    BY <1>1
  <1>8. TypeInv
    BY <1>1, <1>3, <1>4, <1>5, <1>6, <1>7 DEF TypeInv
  <1>9. HoldInv
    BY <1>5, <1>7 DEF HoldInv, Remembered
  <1>10. QueueInv
    BY <1>7 DEF QueueInv, Announced, Chords, Sorted
  <1>11. EpochInv
    <2>1. PICK c : c = [n \in 1..1 |-> 1]
      OBVIOUS
    <2>2. c \in [1..(Len(toHost) + 1) -> Nat] /\ c[1] = 1 /\ c[Len(toHost) + 1] = 1
      BY <1>7, <2>1
    <2>3. \A n \in 1..(Len(toHost) + 1) : 1 <= c[n]
      BY <1>7, <2>1
    <2>4. Levels(c, toHost, host.epoch, backend.epoch)
      BY <1>2, <1>5, <1>7, <2>2, <2>3 DEF Levels
    <2> QED BY <1>5, <1>7, <2>4 DEF EpochInv
  <1>12. SeatInv
    BY <1>5 DEF SeatInv
  <1>13. PasteInv
    BY <1>4, <1>7 DEF PasteInv
  <1>14. ReadAsMeant /\ ChordFindsOffer
    BY <1>6 DEF ReadAsMeant, ChordFindsOffer
  <1> QED BY <1>8, <1>9, <1>10, <1>11, <1>12, <1>13, <1>14 DEF IInv

LEMMA StutterKeeps ==
    ASSUME IInv, UNCHANGED vars
    PROVE  IInv'
  <1>1. /\ backend' = backend /\ op' = op /\ calls' = calls /\ toHost' = toHost /\ host' = host
        /\ toDaemon' = toDaemon /\ app' = app
    BY DEF vars
  <1>2. PICK e \in Events : e.type = "state" /\ e.epoch <= host.epoch
    BY AnyEvent
  <1>3. /\ host \in HostType /\ app \in AppType /\ host.epoch \in Nat
        /\ ~host.allowed => host.held = {} /\ ~host.offer /\ host.keyboard = "other"
        /\ host.allowed => host.quiet /\ ~host.humanHolds /\ host.epoch <= backend.epoch
        /\ host.keyboard = "agent" => app.mods = host.vk
        /\ app.read.seen = app.read.meant /\ (app.read.of = "chord" => app.read.offer)
    BY SeatIs
  <1>4. SeatInv' /\ ReadAsMeant' /\ ChordFindsOffer'
    BY <1>1, <1>3 DEF SeatInv, ReadAsMeant, ChordFindsOffer
  <1>5. SeatStep(e)
    BY <1>1, <1>2, <1>3, <1>4 DEF SeatStep, Answers
  <1> QED BY <1>1, <1>5, ActKeeps

LEMMA StepKeeps ==
    ASSUME IInv, [Next]_vars
    PROVE  IInv'
  BY MethodsKeep, TurnKeeps, CompositorKeeps, StutterKeeps DEF Next

\* What the invariant says of the holds, in the words of the property.
LEMMA HoldsAre ==
    ASSUME IInv
    PROVE  HoldsAreRemembered
  <1>1. toHost \in Seq(Requests) /\ host.held \in SUBSET Inputs
    BY SeatIs DEF HostType
  <1>2. Remembered(host.held, backend.pressed, toHost)
    BY DEF IInv, HoldInv
  <1>3. \A i \in host.held : i \in backend.pressed \/ EndsBehind(toHost, 0, i)
    BY <1>2 DEF Remembered
  <1>4. DOMAIN toHost = 1..Len(toHost)
    BY <1>1
  <1>5. ASSUME NEW i \in host.held, EndsBehind(toHost, 0, i)
        PROVE  \E n \in DOMAIN toHost :
                   \/ toHost[n].type = "revoke"
                   \/ toHost[n].type = "input" /\ toHost[n].code = i /\ ~toHost[n].down
    BY <1>4, <1>5 DEF EndsBehind, Ends
  <1> QED BY <1>1, <1>3, <1>5 DEF HoldsAreRemembered

\* The state of both ends and of the two queues keeps its types, and the parts
\* of the inductive invariant hold: what the compositor holds is remembered or
\* about to be let go of, modifiers are announced right ahead of their keys, no
\* acquire runs ahead of the revocations on their way.
THEOREM InvariantHolds == Spec => []IInv
  <1>1. Init => IInv
    BY InitHolds
  <1>2. IInv /\ [Next]_vars => IInv'
    BY StepKeeps
  <1> QED BY <1>1, <1>2, PTL DEF Spec

\* A key is read by the application under the modifiers its caller meant,
\* whatever takeovers, refusals and revocations meet its modifiers half way.
THEOREM KeysAreReadAsMeant == Spec => []ReadAsMeant
  <1>1. IInv => ReadAsMeant
    BY DEF IInv
  <1> QED BY <1>1, InvariantHolds, PTL

\* What the compositor holds for the agent the backend remembers, so that its
\* release_all names it, unless what ends the hold is on its way.
THEOREM HoldsStayRemembered == Spec => []HoldsAreRemembered
  <1>1. IInv => HoldsAreRemembered
    BY HoldsAre
  <1> QED BY <1>1, InvariantHolds, PTL

\* The key of a paste chord is read while the text offered for it is still on
\* offer.
THEOREM ChordsFindTheOffer == Spec => []ChordFindsOffer
  <1>1. IInv => ChordFindsOffer
    BY DEF IInv
  <1> QED BY <1>1, InvariantHolds, PTL

=============================================================================
