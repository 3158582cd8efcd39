------------------------------ MODULE Hud_proofs ------------------------------
(***************************************************************************)
(* Theorems about Hud, for any number of slots, connections and others,    *)
(* any size of the accept batch, and whatever the others ask for.  Why the *)
(* button tells the truth: a request that the HUD gave up is whole, so     *)
(* that poll finds it in whatever slot it is (CallInv); when poll finds    *)
(* the call the HUD waits in, it has therefore found all earlier ones, and *)
(* none is left in the backlog, though their slots may come later          *)
(* (LastInv); so what is under way when a request for the state is         *)
(* answered is served before that turn ends (TruthInv).  The button can    *)
(* only be clicked then, which is why clicks are served in their order     *)
(* (ClicksInv).                                                            *)
(***************************************************************************)
EXTENDS Hud, TLAPS, Integers, FiniteSetTheorems, FunctionTheorems, SequenceTheorems,
        WellFoundedInduction

Statuses == [kind : {"status"}, paused : BOOLEAN]
Replies == {None, [kind |-> "other"]} \cup Statuses
ConnType == [peer : {"hud", "other"}, asks : SUBSET Methods, whole : BOOLEAN, left : BOOLEAN,
             reply : Replies]
ClientType == [conn : Connections \cup {0}, response : Replies]
SeatType == [created : BOOLEAN, paused : BOOLEAN]
HudType == [known : BOOLEAN, paused : BOOLEAN, doing : {"idle", "clicked", "click", "status"},
            call : Connections \cup {0}]

TypeInv ==
    /\ conns \in [Connections -> ConnType \cup {Absent}]
    /\ backlog \in Seq(Connections)
    /\ clients \in [Slots -> ClientType]
    /\ turn \in {"poll", "serve", "over"} /\ ready \subseteq Slots
    /\ quit \in BOOLEAN /\ fresh \in BOOLEAN
    /\ seat \in SeatType /\ (seat.paused \/ seat.created)
    /\ hud \in HudType

\* What the daemon holds is open, and in one place; only the HUD looks at what
\* the daemon holds no longer.
HeldInv ==
    /\ \A n \in 1..Len(backlog) : backlog[n] \in Opened
    /\ \A m, n \in 1..Len(backlog) : backlog[m] = backlog[n] => m = n
    /\ \A i \in Slots : Used(i) => clients[i].conn \in Opened
    /\ \A i, j \in Slots : Used(i) /\ clients[i].conn = clients[j].conn => i = j
    /\ \A i \in Slots, n \in 1..Len(backlog) : clients[i].conn # backlog[n]
    /\ \A c \in Opened : conns[c].peer = "hud" \/ Held(c)

\* Connections of the HUD, by their places.
HudIn(i) == Used(i) /\ conns[clients[i].conn].peer = "hud"
HudAt(n) == conns[backlog[n]].peer = "hud"
ClickIn(i) == HudIn(i) /\ conns[clients[i].conn].asks # {"collaboration.status"}
ClickAt(n) == HudAt(n) /\ conns[backlog[n]].asks # {"collaboration.status"}

\* All of them are served before the turn ends.
AllImminent ==
    /\ \A i \in Slots : HudIn(i) => turn = "serve" /\ i \in ready
    /\ \A n \in 1..Len(backlog) : ~HudAt(n)

\* Their responses are taken at once, and what poll found of them was whole.
ServedInv ==
    /\ \A i \in Slots : HudIn(i) => ~Answered(i)
    /\ turn = "serve" => \A i \in ready : Used(i) /\ (HudIn(i) => Peer(i).whole)

\* The call the HUD waits in, and what it can be told; those it gave up are
\* whole.
CallInv ==
    /\ hud.doing \in {"click", "status"} <=> hud.call # 0
    /\ hud.call # 0 =>
        /\ hud.call \in Opened
        /\ conns[hud.call].peer = "hud"
        /\ ~conns[hud.call].left
        /\ conns[hud.call].reply # None => conns[hud.call].whole
    /\ hud.doing = "status" =>
        /\ conns[hud.call].asks = {"collaboration.status"}
        /\ conns[hud.call].reply \in {None} \cup Statuses
    /\ \A c \in Opened : conns[c].peer = "hud" /\ c # hud.call => conns[c].whole /\ conns[c].left

\* The call the HUD waits in is accepted after all others of the HUD, and is not
\* served in a turn that leaves one of them out.
LastInv ==
    hud.call # 0 =>
        /\ \A n \in 1..Len(backlog), j \in Slots : HudAt(n) => clients[j].conn # hud.call
        /\ \A m, n \in 1..Len(backlog) : HudAt(m) /\ backlog[n] = hud.call => m <= n
        /\ turn = "serve" =>
             \A j \in ready, i \in Slots : clients[j].conn = hud.call /\ HudIn(i) => i \in ready

\* What the HUD was told, or shows.
TruthInv ==
    turn # "over" =>
        /\ hud.doing = "status" /\ conns[hud.call].reply # None =>
            AllImminent /\ (fresh => conns[hud.call].reply.paused = seat.paused)
        /\ hud.doing = "idle" /\ hud.known =>
            AllImminent /\ (fresh => hud.paused = seat.paused)

\* There is one click at most in slots and one in the backlog, and both only
\* while the first is about to be served.
ClicksInv ==
    /\ \A i, j \in Slots : ClickIn(i) /\ ClickIn(j) => i = j
    /\ \A m, n \in 1..Len(backlog) : ClickAt(m) /\ ClickAt(n) => m = n
    /\ \A i \in Slots, n \in 1..Len(backlog) : ClickIn(i) /\ ClickAt(n) => turn = "serve" /\ i \in ready

IInv == TypeInv /\ HeldInv /\ ServedInv /\ CallInv /\ LastInv /\ TruthInv /\ ClicksInv

----------------------------------------------------------------------------
(* Least elements, and the places of free slots.                           *)

Less == {p \in Nat \X Nat : p[1] < p[2]}

LEMMA LessIsWellFounded == IsWellFoundedOn(Less, Nat)
  BY NatLessThanWellFounded DEF Less, OpToRel

LEMMA Least ==
    ASSUME NEW S \in SUBSET Nat, S # {}
    PROVE  Min(S) \in S /\ \A n \in S : Min(S) <= n
  <1>1. PICK m \in S : \A n \in S : <<n, m>> \notin Less
    BY LessIsWellFounded, WFMin
  <1>2. ASSUME NEW n \in S PROVE m <= n
    <2>1. <<n, m>> \in Nat \X Nat /\ <<n, m>>[1] = n /\ <<n, m>>[2] = m
      OBVIOUS
    <2>2. ~(n < m)
      BY <1>1, <2>1 DEF Less
    <2> QED BY <2>2
  <1> QED BY <1>2 DEF Min

LEMMA LeastOfTwo ==
    ASSUME NEW a \in Nat, NEW b \in Nat
    PROVE  Min({a, b}) \in Nat /\ Min({a, b}) <= a /\ Min({a, b}) <= b
  BY Least

LEMMA Sizes == MaxClients \in Nat \ {0} /\ MaxConnections \in Nat \ {0} /\ AcceptBatch \in Nat
  BY ServerAssumption

LEMMA FreeIsFinite ==
    /\ IsFiniteSet(FreeSlots)
    /\ Cardinality(FreeSlots) \in Nat
  <1>1. IsFiniteSet(Slots)
    BY FS_Interval, Sizes DEF Slots
  <1>2. FreeSlots \in SUBSET Slots
    BY DEF FreeSlots
  <1> QED BY <1>1, <1>2, FS_Subset, FS_CardinalityType

LEMMA PlaceIsOne ==
    ASSUME NEW i \in FreeSlots
    PROVE  Place(i) \in 1..Cardinality(FreeSlots)
  <1> DEFINE T == {j \in FreeSlots : j <= i}
  <1>1. T \in SUBSET FreeSlots
    OBVIOUS
  <1>2. i \in T
    BY DEF FreeSlots, Slots
  <1>3. IsFiniteSet(T) /\ Cardinality(T) <= Cardinality(FreeSlots)
    BY <1>1, FreeIsFinite, FS_Subset
  <1>4. Cardinality(T) \in Nat /\ Cardinality(T) # 0
    BY <1>2, <1>3, FS_CardinalityType, FS_EmptySet
  <1> QED BY <1>3, <1>4, FreeIsFinite DEF Place

\* The later the slot, the later its connection.
LEMMA PlacesInOrder ==
    ASSUME NEW i \in FreeSlots, NEW j \in FreeSlots, i < j
    PROVE  Place(i) < Place(j)
  <1> DEFINE T(k) == {f \in FreeSlots : f <= k}
  <1>0. i \in Int /\ j \in Int /\ \A f \in FreeSlots : f \in Int
    BY Sizes DEF FreeSlots, Slots
  <1>1. T(i) \in SUBSET T(j)
    <2>1. ASSUME NEW f \in FreeSlots, f <= i PROVE f <= j
      BY <1>0, <2>1
    <2> QED BY <2>1
  <1>2. j \in T(j) /\ j \notin T(i)
    BY <1>0
  <1>3. T(j) \in SUBSET FreeSlots
    OBVIOUS
  <1>4. IsFiniteSet(T(j))
    BY <1>3, FreeIsFinite, FS_Subset
  <1>5. Cardinality(T(i)) <= Cardinality(T(j)) /\ (Cardinality(T(j)) = Cardinality(T(i)) => T(j) = T(i))
    BY <1>1, <1>4, FS_Subset
  <1>6. Cardinality(T(i)) \in Nat /\ Cardinality(T(j)) \in Nat
    BY <1>1, <1>4, FS_Subset, FS_CardinalityType
  <1>7. T(j) # T(i)
    BY <1>2
  <1> HIDE DEF T
  <1>8. Cardinality(T(i)) < Cardinality(T(j))
    BY <1>5, <1>6, <1>7
  <1> QED BY <1>8 DEF T, Place

\* Every place up to the last one is some slot's.
LEMMA PlacesAreTaken ==
    ASSUME NEW n \in 1..Cardinality(FreeSlots)
    PROVE  \E i \in FreeSlots : Place(i) = n
  <1> DEFINE N == 1..Cardinality(FreeSlots)
             f == [i \in FreeSlots |-> Place(i)]
  <1>1. f \in [FreeSlots -> N]
    BY PlaceIsOne
  <1>2. ASSUME NEW i \in FreeSlots, NEW j \in FreeSlots, f[i] = f[j]
        PROVE  i = j
    <2>1. Place(i) = Place(j) /\ Place(i) \in Int /\ i \in Int /\ j \in Int
      BY <1>2, PlaceIsOne DEF FreeSlots, Slots
    <2> QED BY <2>1, PlacesInOrder
  <1>3. f \in Injection(FreeSlots, N)
    BY <1>1, <1>2 DEF Injection, IsInjective
  <1>4. IsFiniteSet(N) /\ Cardinality(N) = Cardinality(FreeSlots)
    BY FreeIsFinite, FS_Interval
  <1>5. f \in Surjection(FreeSlots, N)
    BY <1>3, <1>4, FS_Injection
  <1>6. \E i \in FreeSlots : f[i] = n
    BY <1>5 DEF Surjection
  <1> QED BY <1>6

----------------------------------------------------------------------------
(* A new connection.                                                       *)

LEMMA AbsentIsNone == Absent \notin ConnType /\ None \in Replies /\ Absent.peer = "none"
  BY DEF ConnType, Absent, Replies

LEMMA OpenIsTyped ==
    ASSUME TypeInv
    PROVE  \A c \in Opened : c \in Connections /\ c # 0 /\ c \in Nat /\ conns[c] \in ConnType
  BY Sizes DEF TypeInv, Opened, Connections

\* What taking connection c leaves.
NewConnection(c, peer, asks, whole) ==
    /\ c \in Connections /\ c \notin Opened /\ c # 0
    /\ conns'[c] = [peer |-> peer, asks |-> asks, whole |-> whole, left |-> FALSE, reply |-> None]
    /\ conns'[c] \in ConnType
    /\ \A d \in Connections \ {c} : conns'[d] = conns[d]
    /\ conns' \in [Connections -> ConnType \cup {Absent}]
    /\ Opened' = Opened \cup {c}
    /\ backlog' \in Seq(Connections) /\ Len(backlog') = Len(backlog) + 1 /\ Len(backlog) \in Nat
    /\ backlog'[Len(backlog) + 1] = c
    /\ \A n \in 1..Len(backlog) : backlog'[n] = backlog[n]
    /\ 1..Len(backlog') = 1..Len(backlog) \cup {Len(backlog) + 1}

LEMMA ConnectionIsNew ==
    ASSUME TypeInv, HeldInv, NEW c, NEW peer \in {"hud", "other"}, NEW asks \in SUBSET Methods,
           NEW whole \in BOOLEAN, Connect(c, peer, asks, whole)
    PROVE  NewConnection(c, peer, asks, whole)
  <1> DEFINE S == Connections \ Opened
             r == [peer |-> peer, asks |-> asks, whole |-> whole, left |-> FALSE, reply |-> None]
  <1>1. S \in SUBSET Nat /\ S # {} /\ c = Min(S)
    BY Sizes DEF Connect, Connections
  <1>2. c \in S
    BY <1>1, Least
  <1>3. r \in ConnType
    BY AbsentIsNone DEF ConnType
  <1>4. conns' = [conns EXCEPT ![c] = r] /\ conns \in [Connections -> ConnType \cup {Absent}]
    BY DEF Connect, TypeInv
  <1>5. c \in Connections /\ c \notin Opened /\ c # 0
    BY <1>2, Sizes DEF Connections
  <1> HIDE DEF r, S
  <1>6. conns'[c] = r /\ \A d \in Connections \ {c} : conns'[d] = conns[d]
    BY <1>4, <1>5
  <1>7. conns' \in [Connections -> ConnType \cup {Absent}]
    BY <1>3, <1>4
  <1>8. Opened' = Opened \cup {c}
    <2>1. conns'[c] # Absent
      BY <1>3, <1>6, AbsentIsNone
    <2> QED BY <1>5, <1>6, <2>1 DEF Opened
  <1>9. /\ backlog' \in Seq(Connections) /\ Len(backlog') = Len(backlog) + 1 /\ Len(backlog) \in Nat
        /\ backlog'[Len(backlog) + 1] = c
        /\ \A n \in 1..Len(backlog) : backlog'[n] = backlog[n]
    BY <1>5 DEF Connect, TypeInv
  <1>10. 1..Len(backlog') = 1..Len(backlog) \cup {Len(backlog) + 1}
    BY <1>9
  <1> QED BY <1>3, <1>5, <1>6, <1>7, <1>8, <1>9, <1>10 DEF r, NewConnection

\* What was held is held, where it was.
LEMMA HeldIsHeld ==
    ASSUME TypeInv
    PROVE  \A c : Held(c) <=> (\E n \in 1..Len(backlog) : backlog[n] = c) \/ \E i \in Slots : clients[i].conn = c
  BY DEF Held, ToSet, TypeInv

LEMMA ConnectHolds ==
    ASSUME TypeInv, HeldInv, ServedInv,
           NEW c, NEW peer \in {"hud", "other"}, NEW asks \in SUBSET Methods,
           NEW whole \in BOOLEAN, Connect(c, peer, asks, whole),
           UNCHANGED <<clients, loopVars, seatVars>>, hud' \in HudType
    PROVE  /\ TypeInv' /\ HeldInv' /\ ServedInv'
           /\ \A i \in Slots : (HudIn(i)' <=> HudIn(i)) /\ (ClickIn(i)' <=> ClickIn(i))
           /\ \A n \in 1..Len(backlog) : (HudAt(n)' <=> HudAt(n)) /\ (ClickAt(n)' <=> ClickAt(n))
           /\ HudAt(Len(backlog))' <=> peer = "hud"
           /\ ClickAt(Len(backlog))' <=> peer = "hud" /\ asks # {"collaboration.status"}
  <1>new. /\ c \in Connections /\ c \notin Opened /\ c # 0
          /\ conns'[c] = [peer |-> peer, asks |-> asks, whole |-> whole, left |-> FALSE, reply |-> None]
          /\ \A d \in Connections \ {c} : conns'[d] = conns[d]
          /\ conns' \in [Connections -> ConnType \cup {Absent}]
          /\ Opened' = Opened \cup {c}
          /\ backlog' \in Seq(Connections) /\ Len(backlog') = Len(backlog) + 1 /\ Len(backlog) \in Nat
          /\ backlog'[Len(backlog) + 1] = c
          /\ \A n \in 1..Len(backlog) : backlog'[n] = backlog[n]
          /\ 1..Len(backlog') = 1..Len(backlog) \cup {Len(backlog) + 1}
    <2>1. NewConnection(c, peer, asks, whole)
      BY ConnectionIsNew
    <2> QED BY <2>1 DEF NewConnection
  <1>same. UNCHANGED <<clients, turn, ready, pending, quit, seat, fresh>>
    BY DEF loopVars, seatVars
  <1>1. TypeInv'
    BY <1>new, <1>same DEF TypeInv
  <1>2. /\ \A n \in 1..Len(backlog) : backlog[n] \in Opened /\ backlog[n] # c /\ backlog[n] \in Connections
        /\ \A i \in Slots : Used(i) => clients[i].conn \in Opened /\ clients[i].conn # c
                                       /\ clients[i].conn \in Connections
    BY <1>new, OpenIsTyped DEF HeldInv
  <1>3. HeldInv'
    <2>1. \A n \in 1..Len(backlog') : backlog'[n] \in Opened'
      BY <1>new, <1>2
    <2>2. \A m, n \in 1..Len(backlog') : backlog'[m] = backlog'[n] => m = n
      BY <1>new, <1>2 DEF HeldInv
    <2>3. \A i \in Slots : Used(i)' => clients'[i].conn \in Opened'
      BY <1>new, <1>same, <1>2 DEF Used
    <2>4. \A i, j \in Slots : Used(i)' /\ clients'[i].conn = clients'[j].conn => i = j
      BY <1>same DEF HeldInv, Used
    <2>5. \A i \in Slots, n \in 1..Len(backlog') : clients'[i].conn # backlog'[n]
      BY <1>new, <1>same, <1>2 DEF HeldInv, Used
    <2>6. \A d \in Opened' : conns'[d].peer = "hud" \/ Held(d)'
      <3>1. ASSUME NEW d \in Opened, conns[d].peer = "hud" \/ Held(d)
            PROVE  conns'[d].peer = "hud" \/ Held(d)'
        <4>1. d # c /\ conns'[d] = conns[d]
          BY <1>new, OpenIsTyped
        <4>2. Held(d) => Held(d)'
          BY <1>new, <1>same, <1>1, HeldIsHeld DEF Held, ToSet, TypeInv
        <4> QED BY <3>1, <4>1, <4>2
      <3>2. Held(c)'
        BY <1>new DEF Held, ToSet
      <3> QED BY <1>new, <3>1, <3>2 DEF HeldInv
    <2> QED BY <2>1, <2>2, <2>3, <2>4, <2>5, <2>6 DEF HeldInv, Used
  <1>4. \A i \in Slots : (HudIn(i)' <=> HudIn(i)) /\ (ClickIn(i)' <=> ClickIn(i))
    BY <1>new, <1>same, <1>2 DEF HudIn, ClickIn, Used
  <1>5. \A n \in 1..Len(backlog) : (HudAt(n)' <=> HudAt(n)) /\ (ClickAt(n)' <=> ClickAt(n))
    BY <1>new, <1>2 DEF HudAt, ClickAt
  <1>6. /\ HudAt(Len(backlog))' <=> peer = "hud"
        /\ ClickAt(Len(backlog))' <=> peer = "hud" /\ asks # {"collaboration.status"}
    BY <1>new DEF HudAt, ClickAt
  <1>7. ServedInv'
    <2>1. \A i \in Slots : HudIn(i)' => ~Answered(i)'
      BY <1>same, <1>4 DEF ServedInv, Answered
    <2>2. ASSUME turn' = "serve", NEW i \in ready'
          PROVE  Used(i)' /\ (HudIn(i)' => Peer(i)'.whole)
      <3>1. i \in Slots /\ Used(i) /\ (HudIn(i) => Peer(i).whole)
        BY <1>same, <2>2 DEF ServedInv, TypeInv
      <3>2. Peer(i)' = Peer(i)
        BY <1>new, <1>same, <1>2, <3>1 DEF Peer
      <3> QED BY <1>4, <1>same, <3>1, <3>2 DEF Used
    <2> QED BY <2>1, <2>2 DEF ServedInv
  <1> QED BY <1>1, <1>3, <1>4, <1>5, <1>6, <1>7

----------------------------------------------------------------------------
(* The HUD.                                                                *)

LEMMA CallHolds ==
    ASSUME IInv, NEW asks \in SUBSET Methods, NEW doing \in {"click", "status"},
           doing = "status" => asks = {"collaboration.status"},
           hud.call = 0, doing = "click" => AllImminent,
           \E c \in Connections :
               /\ Connect(c, "hud", asks, FALSE)
               /\ hud' = [hud EXCEPT !.doing = doing, !.call = c],
           UNCHANGED <<clients, loopVars, seatVars>>
    PROVE  IInv'
  <1>1. PICK c \in Connections : Connect(c, "hud", asks, FALSE) /\ hud' = [hud EXCEPT !.doing = doing, !.call = c]
    OBVIOUS
  <1>2. TypeInv /\ HeldInv /\ ServedInv /\ CallInv /\ ClicksInv
    BY DEF IInv
  <1>3. hud' \in HudType /\ hud'.doing = doing /\ hud'.call = c
    BY <1>1, <1>2 DEF TypeInv, HudType
  <1>new. /\ c \notin Opened /\ c # 0
          /\ conns'[c] = [peer |-> "hud", asks |-> asks, whole |-> FALSE, left |-> FALSE, reply |-> None]
          /\ \A d \in Connections \ {c} : conns'[d] = conns[d]
          /\ Opened' = Opened \cup {c}
          /\ backlog' \in Seq(Connections) /\ Len(backlog') = Len(backlog) + 1 /\ Len(backlog) \in Nat
          /\ backlog'[Len(backlog) + 1] = c
          /\ \A n \in 1..Len(backlog) : backlog'[n] = backlog[n]
          /\ 1..Len(backlog') = 1..Len(backlog) \cup {Len(backlog) + 1}
    <2>1. NewConnection(c, "hud", asks, FALSE)
      BY <1>1, <1>2, ConnectionIsNew
    <2> QED BY <2>1 DEF NewConnection
  <1>4. /\ TypeInv' /\ HeldInv' /\ ServedInv'
        /\ \A i \in Slots : (HudIn(i)' <=> HudIn(i)) /\ (ClickIn(i)' <=> ClickIn(i))
        /\ \A n \in 1..Len(backlog) : (HudAt(n)' <=> HudAt(n)) /\ (ClickAt(n)' <=> ClickAt(n))
        /\ ClickAt(Len(backlog))' <=> asks # {"collaboration.status"}
    BY <1>1, <1>2, <1>3, ConnectHolds
  <1>5. CallInv'
    <2>1. \A d \in Opened : d \in Connections \ {c} /\ d # 0
      BY <1>2, <1>new, OpenIsTyped
    <2>2. \A d \in Opened' : conns'[d].peer = "hud" /\ d # c => conns'[d].whole /\ conns'[d].left
      BY <1>2, <1>new, <2>1 DEF CallInv
    <2> QED BY <1>new, <1>3, <2>2 DEF CallInv
  <1>6. LastInv'
    <2>1. \A j \in Slots : clients'[j].conn # c
      BY <1>2, <1>new DEF HeldInv, Used
    <2>2. \A n \in 1..Len(backlog') : backlog'[n] = c => n = Len(backlog')
      BY <1>2, <1>new DEF HeldInv
    <2>3. \A m \in 1..Len(backlog') : m <= Len(backlog')
      BY <1>new
    <2>4. ready' \subseteq Slots
      BY <1>4 DEF TypeInv
    <2> QED BY <1>3, <2>1, <2>2, <2>3, <2>4 DEF LastInv
  <1>7. TruthInv'
    BY <1>new, <1>3 DEF TruthInv
  <1>8. ClicksInv'
    <2>1. turn' = turn /\ ready' = ready
      BY DEF loopVars
    <2>2. CASE doing = "click"
      <3>1. \A n \in 1..Len(backlog) : ~ClickAt(n)'
        BY <1>4, <2>2 DEF AllImminent, ClickAt
      <3>2. \A i \in Slots : ClickIn(i)' => turn' = "serve" /\ i \in ready'
        BY <1>4, <2>1, <2>2 DEF AllImminent, ClickIn
      <3>3. \A n \in 1..Len(backlog') : ClickAt(n)' => n = Len(backlog')
        BY <1>new, <3>1
      <3> QED BY <1>2, <1>4, <3>2, <3>3 DEF ClicksInv
    <2>3. CASE doing = "status"
      <3>1. \A n \in 1..Len(backlog') : ClickAt(n)' => n \in 1..Len(backlog) /\ ClickAt(n)
        <4>1. ~ClickAt(Len(backlog))'
          BY <1>4, <2>3
        <4>2. \A n : n = Len(backlog') => ~ClickAt(n)'
          BY <4>1 DEF ClickAt, HudAt
        <4> QED BY <1>4, <1>new, <4>2
      <3> QED BY <1>2, <1>4, <2>1, <3>1 DEF ClicksInv
    <2> QED BY <2>2, <2>3
  <1> QED BY <1>4, <1>5, <1>6, <1>7, <1>8 DEF IInv

LEMMA HudCalls ==
    ASSUME IInv, PollState \/ ControlClicked
    PROVE  IInv'
  <1>0. hud.doing \in {"idle", "clicked"} => hud.call = 0
    BY DEF IInv, CallInv
  <1>1. CASE PollState
    BY <1>0, <1>1, CallHolds DEF PollState, Call, Methods
  <1>2. CASE ControlClicked
    <2>1. PICK m \in {"seat.resume", "seat.pause"} : Call(m, "click")
      BY <1>2 DEF ControlClicked
    <2>2. {m} \in SUBSET Methods
      BY DEF Methods, Writes
    <2>3. turn # "over"
      BY <2>1 DEF Call, Connect
    <2>4. AllImminent /\ hud.call = 0
      BY <1>0, <1>2, <2>3 DEF IInv, TruthInv, ControlClicked
    <2> QED BY <2>1, <2>2, <2>4, CallHolds DEF Call
  <1> QED BY <1>1, <1>2

LEMMA OthersConnect ==
    ASSUME IInv, OtherConnects
    PROVE  IInv'
  <1>1. PICK c \in Connections, whole \in BOOLEAN : Connect(c, "other", OtherMethods, whole)
    BY DEF OtherConnects
  <1>2. TypeInv /\ HeldInv /\ ServedInv /\ CallInv /\ LastInv /\ ClicksInv /\ hud' = hud
    BY DEF IInv, OtherConnects
  <1>3. hud' \in HudType /\ OtherMethods \in SUBSET Methods
    BY <1>2, ServerAssumption DEF TypeInv
  <1>new. /\ c \notin Opened /\ c # 0
          /\ conns'[c] = [peer |-> "other", asks |-> OtherMethods, whole |-> whole, left |-> FALSE, reply |-> None]
          /\ \A d \in Connections \ {c} : conns'[d] = conns[d]
          /\ Opened' = Opened \cup {c}
          /\ backlog' \in Seq(Connections) /\ Len(backlog') = Len(backlog) + 1 /\ Len(backlog) \in Nat
          /\ backlog'[Len(backlog) + 1] = c
          /\ \A n \in 1..Len(backlog) : backlog'[n] = backlog[n]
          /\ 1..Len(backlog') = 1..Len(backlog) \cup {Len(backlog) + 1}
    <2>1. NewConnection(c, "other", OtherMethods, whole)
      BY <1>1, <1>2, <1>3, ConnectionIsNew
    <2> QED BY <2>1 DEF NewConnection
  <1>same. UNCHANGED <<clients, turn, ready, pending, quit, seat, fresh>>
    BY DEF OtherConnects, loopVars, seatVars
  <1>4. /\ TypeInv' /\ HeldInv' /\ ServedInv'
        /\ \A i \in Slots : (HudIn(i)' <=> HudIn(i)) /\ (ClickIn(i)' <=> ClickIn(i))
        /\ \A n \in 1..Len(backlog) : (HudAt(n)' <=> HudAt(n)) /\ (ClickAt(n)' <=> ClickAt(n))
        /\ ~HudAt(Len(backlog))' /\ ~ClickAt(Len(backlog))'
    BY <1>1, <1>2, <1>3, ConnectHolds DEF OtherConnects
  <1>5. \A n \in 1..Len(backlog') :
          /\ HudAt(n)' => n \in 1..Len(backlog) /\ HudAt(n)
          /\ ClickAt(n)' => n \in 1..Len(backlog) /\ ClickAt(n)
    BY <1>4, <1>new
  <1>6. hud.call # 0 => hud.call \in Opened /\ hud.call # c /\ conns'[hud.call] = conns[hud.call]
    BY <1>2, <1>new, OpenIsTyped DEF CallInv
  <1>7. CallInv'
    <2>1. \A d \in Opened : d \in Connections \ {c}
      BY <1>2, <1>new, OpenIsTyped
    <2>2. \A d \in Opened' : conns'[d].peer = "hud" /\ d # hud.call => conns'[d].whole /\ conns'[d].left
      BY <1>2, <1>new, <2>1 DEF CallInv
    <2> QED BY <1>2, <1>6, <1>new, <2>2 DEF CallInv
  <1>8. LastInv'
    <2> SUFFICES ASSUME hud.call # 0 PROVE LastInv'
      BY <1>2 DEF LastInv
    <2>1. hud.call # c
      BY <1>2, <1>6, <1>new DEF CallInv
    <2>2. \A n \in 1..Len(backlog') : backlog'[n] = hud.call => n \in 1..Len(backlog) /\ backlog[n] = hud.call
      BY <1>new, <2>1
    <2>3. ready \subseteq Slots
      BY <1>2 DEF TypeInv
    <2> QED BY <1>2, <1>4, <1>5, <1>same, <2>2, <2>3 DEF LastInv
  <1>9. AllImminent => AllImminent'
    BY <1>4, <1>5, <1>same DEF AllImminent
  <1>10. TruthInv'
    BY <1>2, <1>6, <1>same, <1>9 DEF TruthInv, IInv, CallInv
  <1>11. ClicksInv'
    BY <1>2, <1>4, <1>5, <1>same DEF ClicksInv
  <1> QED BY <1>4, <1>7, <1>8, <1>10, <1>11 DEF IInv

----------------------------------------------------------------------------
(* A connection changes at its peer's end only.                            *)

\* Of d nothing the daemon goes by changes but that it sends the rest, or it is
\* not held and vanishes.
SameTo(d) ==
    /\ conns'[d] \in ConnType
    /\ conns'[d].peer = conns[d].peer /\ conns'[d].asks = conns[d].asks
    /\ conns[d].whole => conns'[d].whole

LEMMA PeersChange ==
    ASSUME TypeInv, HeldInv, ServedInv, ClicksInv,
           UNCHANGED <<backlog, clients, loopVars, seatVars>>, hud' \in HudType,
           conns' \in [Connections -> ConnType \cup {Absent}],
           \A d \in Connections : conns[d] = Absent => conns'[d] = Absent,
           \A d \in Opened : SameTo(d) \/ (~Held(d) /\ conns'[d] = Absent)
    PROVE  /\ TypeInv' /\ HeldInv' /\ ServedInv' /\ ClicksInv'
           /\ \A i \in Slots : HudIn(i)' <=> HudIn(i)
           /\ \A n \in 1..Len(backlog) : HudAt(n)' <=> HudAt(n)
           /\ AllImminent' <=> AllImminent
           /\ \A d \in Opened' : d \in Opened /\ SameTo(d)
  <1>same. UNCHANGED <<backlog, clients, turn, ready, pending, quit, seat, fresh>>
    BY DEF loopVars, seatVars
  <1>1. TypeInv'
    BY <1>same DEF TypeInv
  <1>2. /\ \A n \in 1..Len(backlog) : backlog[n] \in Opened /\ Held(backlog[n])
        /\ \A i \in Slots : Used(i) => clients[i].conn \in Opened /\ Held(clients[i].conn)
    BY HeldIsHeld DEF HeldInv
  <1>3. \A d \in Opened :
          Held(d) =>
            /\ d \in Opened' /\ conns'[d].peer = conns[d].peer /\ conns'[d].asks = conns[d].asks
            /\ conns[d].whole => conns'[d].whole
    BY AbsentIsNone DEF SameTo, Opened
  <1>4. \A d \in Opened' : d \in Opened /\ SameTo(d)
    BY AbsentIsNone DEF Opened
  <1>5. \A c : Held(c)' <=> Held(c)
    BY <1>same DEF Held
  <1>6. HeldInv'
    <2>1. \A n \in 1..Len(backlog') : backlog'[n] \in Opened'
      BY <1>same, <1>2, <1>3
    <2>2. \A i \in Slots : Used(i)' => clients'[i].conn \in Opened'
      BY <1>same, <1>2, <1>3 DEF Used
    <2>3. \A d \in Opened' : conns'[d].peer = "hud" \/ Held(d)'
      BY <1>4, <1>5 DEF SameTo, HeldInv
    <2>4. \A i, j \in Slots : Used(i)' /\ clients'[i].conn = clients'[j].conn => i = j
      BY <1>same DEF HeldInv, Used
    <2> QED BY <1>same, <2>1, <2>2, <2>3, <2>4 DEF HeldInv
  <1>7. \A i \in Slots : (HudIn(i)' <=> HudIn(i)) /\ (ClickIn(i)' <=> ClickIn(i))
    BY <1>same, <1>2, <1>3 DEF HudIn, ClickIn, Used
  <1>8. \A n \in 1..Len(backlog) : (HudAt(n)' <=> HudAt(n)) /\ (ClickAt(n)' <=> ClickAt(n))
    BY <1>same, <1>2, <1>3 DEF HudAt, ClickAt
  <1>9. ServedInv'
    <2>1. \A i \in Slots : HudIn(i)' => ~Answered(i)'
      BY <1>same, <1>7 DEF ServedInv, Answered
    <2>2. ASSUME turn' = "serve", NEW i \in ready'
          PROVE  Used(i)' /\ (HudIn(i)' => Peer(i)'.whole)
      <3>1. i \in Slots /\ Used(i) /\ (HudIn(i) => Peer(i).whole)
        BY <1>same, <2>2 DEF ServedInv, TypeInv
      <3>2. Peer(i).whole => Peer(i)'.whole
        BY <1>same, <1>2, <1>3, <3>1 DEF Peer
      <3> QED BY <1>7, <1>same, <3>1, <3>2 DEF Used
    <2> QED BY <2>1, <2>2 DEF ServedInv
  <1>10. ClicksInv'
    BY <1>7, <1>8, <1>same DEF ClicksInv
  <1>11. AllImminent' <=> AllImminent
    BY <1>7, <1>8, <1>same DEF AllImminent
  <1> QED BY <1>1, <1>4, <1>6, <1>7, <1>8, <1>9, <1>10, <1>11

\* What is left of the HUD's call when it hangs up.
LEMMA HangingUp ==
    ASSUME TypeInv, HeldInv, ServedInv, CallInv, hud.call # 0, conns' = HungUpOn(hud.call),
           Held(hud.call) => conns[hud.call].whole
    PROVE  /\ conns' \in [Connections -> ConnType \cup {Absent}]
           /\ \A d \in Connections : conns[d] = Absent => conns'[d] = Absent
           /\ \A d \in Opened : SameTo(d) \/ (~Held(d) /\ conns'[d] = Absent)
           /\ \A d \in Opened \ {hud.call} : conns'[d] = conns[d]
           /\ hud.call \in Opened' => conns'[hud.call].whole /\ conns'[hud.call].left
  <1> DEFINE c == hud.call
  <1>1. c \in Opened /\ c \in Connections /\ conns[c] \in ConnType /\ conns[c] # Absent
    BY OpenIsTyped DEF CallInv, Opened
  <1>2. conns \in [Connections -> ConnType \cup {Absent}]
    BY DEF TypeInv
  <1>3. \A d \in Opened : d \in Connections /\ (SameTo(d) \/ conns'[d] # conns[d])
    BY OpenIsTyped DEF SameTo
  <1>c. Held(c) => conns[c].whole
    OBVIOUS
  <1>g. c = hud.call
    OBVIOUS
  <1> HIDE DEF c
  <1>4. CASE Held(c)
    <2>1. conns' = [conns EXCEPT ![c].left = TRUE]
      BY <1>4 DEF HungUpOn, c
    <2>2. /\ conns'[c] = [conns[c] EXCEPT !.left = TRUE]
          /\ \A d \in Connections \ {c} : conns'[d] = conns[d]
      BY <1>1, <1>2, <2>1
    <2>3. /\ conns'[c] \in ConnType /\ conns'[c].peer = conns[c].peer /\ conns'[c].whole = conns[c].whole
          /\ conns'[c].asks = conns[c].asks /\ conns'[c].left
      BY <1>1, <2>2 DEF ConnType
    <2>4. conns' \in [Connections -> ConnType \cup {Absent}]
      BY <1>1, <1>2, <2>1, <2>2, <2>3
    <2>5. SameTo(c) /\ conns'[c].whole
      BY <1>4, <1>c, <2>3 DEF SameTo
    <2> QED BY <1>1, <1>3, <1>g, <2>2, <2>3, <2>4, <2>5 DEF Opened
  <1>5. CASE ~Held(c)
    <2>1. conns' = [conns EXCEPT ![c] = Absent]
      BY <1>5 DEF HungUpOn, c
    <2>2. conns'[c] = Absent /\ \A d \in Connections \ {c} : conns'[d] = conns[d]
      BY <1>1, <1>2, <2>1
    <2>3. conns' \in [Connections -> ConnType \cup {Absent}]
      BY <1>2, <2>1
    <2> QED BY <1>1, <1>3, <1>5, <1>g, <2>2, <2>3 DEF Opened
  <1> QED BY <1>4, <1>5

LEMMA HudReturns ==
    ASSUME IInv, ClickReturns \/ StatusReturns \/ StatusFails
    PROVE  IInv'
  <1>0. TypeInv /\ HeldInv /\ ServedInv /\ CallInv /\ LastInv /\ TruthInv /\ ClicksInv
    BY DEF IInv
  <1>1. /\ hud.doing \in {"click", "status"} /\ hud.call # 0 /\ conns' = HungUpOn(hud.call)
        /\ Answer # None \/ Unanswered
        /\ UNCHANGED <<backlog, clients, loopVars, seatVars>>
    BY <1>0 DEF ClickReturns, StatusReturns, StatusFails, CallInv
  <1>w. Held(hud.call) => conns[hud.call].whole
    BY <1>0, <1>1 DEF Answer, Unanswered, CallInv
  <1>2. /\ hud' \in HudType /\ hud'.doing \in {"clicked", "idle"} /\ hud'.call = 0
        /\ hud'.doing = "idle" /\ hud'.known =>
              /\ hud.doing = "status" /\ conns[hud.call].reply # None
              /\ hud'.paused = conns[hud.call].reply.paused
    <2>1. hud \in HudType
      BY <1>0 DEF TypeInv
    <2>2. CASE ClickReturns
      BY <2>1, <2>2 DEF ClickReturns, HudType
    <2>3. CASE StatusReturns
      <3>1. Answer.paused \in BOOLEAN
        BY <1>0, <2>3 DEF StatusReturns, Answer, CallInv, Statuses
      <3>2. /\ hud' = [hud EXCEPT !.doing = "idle", !.call = 0, !.known = TRUE, !.paused = Answer.paused]
            /\ hud.doing = "status" /\ Answer # None
        BY <2>3 DEF StatusReturns
      <3> QED BY <2>1, <3>1, <3>2 DEF HudType, Answer
    <2>4. CASE StatusFails
      BY <2>1, <2>4 DEF StatusFails, HudType
    <2> QED BY <2>2, <2>3, <2>4
  <1>h. /\ conns' \in [Connections -> ConnType \cup {Absent}]
        /\ \A d \in Connections : conns[d] = Absent => conns'[d] = Absent
        /\ \A d \in Opened : SameTo(d) \/ (~Held(d) /\ conns'[d] = Absent)
        /\ \A d \in Opened \ {hud.call} : conns'[d] = conns[d]
        /\ hud.call \in Opened' => conns'[hud.call].whole /\ conns'[hud.call].left
    BY <1>0, <1>1, <1>w, HangingUp
  <1>3. /\ TypeInv' /\ HeldInv' /\ ServedInv' /\ ClicksInv' /\ (AllImminent' <=> AllImminent)
        /\ \A d \in Opened' : d \in Opened
    BY <1>0, <1>1, <1>2, <1>h, PeersChange
  <1>4. CallInv' /\ LastInv'
    <2>1. \A d \in Opened' : conns'[d].peer = "hud" => conns'[d].whole /\ conns'[d].left
      <3> SUFFICES ASSUME NEW d \in Opened', conns'[d].peer = "hud" PROVE conns'[d].whole /\ conns'[d].left
        OBVIOUS
      <3>1. CASE d = hud.call
        BY <1>h, <3>1
      <3>2. CASE d # hud.call
        BY <1>0, <1>3, <1>h, <3>2 DEF CallInv
      <3> QED BY <3>1, <3>2
    <2> QED BY <1>2, <2>1 DEF CallInv, LastInv
  <1>5. TruthInv'
    <2>1. turn' = turn /\ fresh' = fresh /\ seat' = seat
      BY <1>1 DEF loopVars, seatVars
    <2> QED BY <1>0, <1>2, <1>3, <2>1 DEF TruthInv
  <1> QED BY <1>3, <1>4, <1>5 DEF IInv

\* A peer sends the rest of its request, the HUD of the one it waits in, or one
\* of the others leaves.
LEMMA PeersGoOn ==
    ASSUME IInv, Sending \/ OtherLeaves
    PROVE  IInv'
  <1>0. TypeInv /\ HeldInv /\ ServedInv /\ CallInv /\ LastInv /\ TruthInv /\ ClicksInv
    BY DEF IInv
  <1>1. PICK c \in Opened : \/ conns' = [conns EXCEPT ![c].whole = TRUE]
                            \/ conns[c].peer = "other" /\ conns' = [conns EXCEPT ![c].left = TRUE]
    <2>1. CASE Sending
      BY <2>1 DEF Sending, SendRest
    <2>2. CASE OtherLeaves
      BY <2>2 DEF OtherLeaves
    <2> QED BY <2>1, <2>2
  <1>2. UNCHANGED <<backlog, clients, loopVars, seatVars, hud>>
    BY DEF Sending, SendRest, OtherLeaves
  <1>3. /\ c \in Connections /\ conns[c] \in ConnType /\ conns[c] # Absent
        /\ conns \in [Connections -> ConnType \cup {Absent}]
    BY <1>0, OpenIsTyped DEF TypeInv, Opened
  <1>4. /\ conns'[c] \in ConnType /\ conns'[c].peer = conns[c].peer /\ conns'[c].asks = conns[c].asks
        /\ conns'[c].reply = conns[c].reply /\ (conns[c].whole => conns'[c].whole)
        /\ conns[c].peer = "hud" => conns'[c].whole /\ conns'[c].left = conns[c].left
        /\ \A d \in Connections \ {c} : conns'[d] = conns[d]
        /\ conns' \in [Connections -> ConnType \cup {Absent}]
    <2>1. CASE conns' = [conns EXCEPT ![c].whole = TRUE]
      <3>1. conns'[c] = [conns[c] EXCEPT !.whole = TRUE] /\ \A d \in Connections \ {c} : conns'[d] = conns[d]
        BY <1>3, <2>1
      <3>2. /\ conns'[c] \in ConnType /\ conns'[c].peer = conns[c].peer /\ conns'[c].asks = conns[c].asks
            /\ conns'[c].reply = conns[c].reply /\ conns'[c].whole /\ conns'[c].left = conns[c].left
        BY <1>3, <3>1 DEF ConnType
      <3> QED BY <1>3, <2>1, <3>1, <3>2
    <2>2. CASE conns[c].peer = "other" /\ conns' = [conns EXCEPT ![c].left = TRUE]
      <3>1. conns'[c] = [conns[c] EXCEPT !.left = TRUE] /\ \A d \in Connections \ {c} : conns'[d] = conns[d]
        BY <1>3, <2>2
      <3>2. /\ conns'[c] \in ConnType /\ conns'[c].peer = conns[c].peer /\ conns'[c].asks = conns[c].asks
            /\ conns'[c].reply = conns[c].reply /\ conns'[c].whole = conns[c].whole
        BY <1>3, <3>1 DEF ConnType
      <3> QED BY <1>3, <2>2, <3>1, <3>2
    <2> QED BY <1>1, <2>1, <2>2
  <1>5. \A d \in Opened : SameTo(d)
    BY <1>0, <1>4, OpenIsTyped DEF SameTo
  <1>6. hud' \in HudType /\ hud' = hud
    BY <1>0, <1>2 DEF TypeInv
  <1>7. /\ TypeInv' /\ HeldInv' /\ ServedInv' /\ ClicksInv'
        /\ \A i \in Slots : HudIn(i)' <=> HudIn(i)
        /\ \A n \in 1..Len(backlog) : HudAt(n)' <=> HudAt(n)
        /\ AllImminent' <=> AllImminent
        /\ \A d \in Opened' : d \in Opened /\ SameTo(d)
    BY <1>0, <1>2, <1>3, <1>4, <1>5, <1>6, PeersChange
  <1>8. hud.call # 0 =>
          /\ hud.call \in Opened' /\ conns'[hud.call].peer = conns[hud.call].peer
          /\ conns'[hud.call].asks = conns[hud.call].asks
          /\ conns'[hud.call].reply = conns[hud.call].reply
          /\ ~conns'[hud.call].left
          /\ conns[hud.call].whole => conns'[hud.call].whole
    <2> SUFFICES ASSUME hud.call # 0
                 PROVE  /\ hud.call \in Opened' /\ conns'[hud.call].peer = conns[hud.call].peer
                        /\ conns'[hud.call].asks = conns[hud.call].asks
                        /\ conns'[hud.call].reply = conns[hud.call].reply
                        /\ ~conns'[hud.call].left
                        /\ conns[hud.call].whole => conns'[hud.call].whole
      OBVIOUS
    <2>1. hud.call \in Opened /\ conns[hud.call].peer = "hud" /\ ~conns[hud.call].left /\ hud.call \in Connections
      BY <1>0, OpenIsTyped DEF CallInv
    <2>2. CASE hud.call = c
      BY <1>4, <2>1, <2>2, AbsentIsNone DEF Opened
    <2>3. CASE hud.call # c
      BY <1>4, <2>1, <2>3 DEF Opened
    <2> QED BY <2>2, <2>3
  <1>9. CallInv'
    <2>1. \A d \in Opened' : conns'[d].peer = "hud" /\ d # hud.call => conns'[d].whole /\ conns'[d].left
      <3> SUFFICES ASSUME NEW d \in Opened', conns'[d].peer = "hud", d # hud.call
                   PROVE  conns'[d].whole /\ conns'[d].left
        OBVIOUS
      <3>1. d \in Opened /\ conns[d].peer = "hud" /\ d \in Connections
        BY <1>0, <1>7, OpenIsTyped DEF SameTo
      <3>2. conns[d].whole /\ conns[d].left
        BY <1>0, <3>1 DEF CallInv
      <3> QED BY <1>4, <3>1, <3>2
    <2> QED BY <1>0, <1>6, <1>8, <2>1 DEF CallInv
  <1>10. LastInv'
    <2>1. turn' = turn /\ ready' = ready /\ ready \subseteq Slots
      BY <1>0, <1>2 DEF loopVars, TypeInv
    <2> QED BY <1>0, <1>2, <1>6, <1>7, <2>1 DEF LastInv
  <1>11. TruthInv'
    <2>1. turn' = turn /\ fresh' = fresh /\ seat' = seat
      BY <1>2 DEF loopVars, seatVars
    <2> QED BY <1>0, <1>6, <1>7, <1>8, <2>1 DEF TruthInv, CallInv
  <1> QED BY <1>7, <1>9, <1>10, <1>11 DEF IInv

----------------------------------------------------------------------------
(* The daemon's turn.                                                      *)

LEMMA PollReturns ==
    ASSUME IInv, Woken
    PROVE  IInv'
  <1>0. TypeInv /\ HeldInv /\ ServedInv /\ CallInv /\ LastInv /\ TruthInv /\ ClicksInv
    BY DEF IInv
  <1>1. /\ turn = "poll" /\ turn' = "serve" /\ ready' = Pollable
        /\ UNCHANGED <<conns, backlog, clients, hud, quit, seat, fresh>>
    BY DEF Woken, Poll, seatVars
  <1>2. Pollable \subseteq Slots /\ \A i \in Pollable : Used(i)
    BY DEF Pollable, Readable, Writable
  <1>3. TypeInv'
    BY <1>0, <1>1, <1>2 DEF TypeInv
  <1>4. UNCHANGED Opened /\ \A c : Held(c)' <=> Held(c)
    BY <1>1 DEF Opened, Held
  <1>5. HeldInv'
    BY <1>0, <1>1, <1>4 DEF HeldInv, Used
  <1>6. \A i \in Slots :
          /\ (HudIn(i)' <=> HudIn(i)) /\ (ClickIn(i)' <=> ClickIn(i))
          /\ (Used(i)' <=> Used(i)) /\ (Answered(i)' <=> Answered(i)) /\ Peer(i)' = Peer(i)
    BY <1>1 DEF HudIn, ClickIn, Used, Answered, Peer
  <1>7. \A n \in 1..Len(backlog) : (HudAt(n)' <=> HudAt(n)) /\ (ClickAt(n)' <=> ClickAt(n))
    BY <1>1 DEF HudAt, ClickAt
  <1>8. ServedInv'
    <2>1. ASSUME NEW i \in Pollable, HudIn(i) PROVE Peer(i).whole
      <3>1. Used(i) /\ ~Answered(i) /\ Peer(i).peer = "hud" /\ i \in Slots
        BY <1>0, <1>2, <2>1 DEF HudIn, ServedInv, Peer
      <3>2. Peer(i).whole \/ Peer(i).left
        BY <2>1, <3>1 DEF Pollable, Readable, Writable
      <3>3. clients[i].conn \in Opened
        BY <1>0, <3>1 DEF HeldInv
      <3> QED BY <1>0, <3>1, <3>2, <3>3 DEF CallInv, Peer, Used
    <2> QED BY <1>0, <1>1, <1>2, <1>6, <2>1 DEF ServedInv
  <1>9. CallInv'
    BY <1>0, <1>1, <1>4 DEF CallInv
  <1>10. LastInv'
    \* Poll that finds the call finds all others of the HUD.
    <2>1. ASSUME NEW j \in Pollable, NEW i \in Slots, hud.call # 0, clients[j].conn = hud.call, HudIn(i)
          PROVE  i \in Pollable
      <3>1. CASE i = j
        BY <2>1, <3>1
      <3>2. CASE i # j
        <4>1. Used(i) /\ ~Answered(i) /\ clients[i].conn \in Opened /\ Peer(i).peer = "hud"
          BY <1>0, <2>1 DEF HudIn, ServedInv, HeldInv, Peer
        <4>2. clients[i].conn # hud.call
          BY <1>0, <1>2, <2>1, <3>2, <4>1 DEF HeldInv
        <4>3. Peer(i).whole
          BY <1>0, <4>1, <4>2 DEF CallInv, Peer
        <4> QED BY <4>1, <4>3 DEF Pollable, Readable
      <3> QED BY <3>1, <3>2
    <2> QED BY <1>0, <1>1, <1>2, <1>6, <1>7, <2>1 DEF LastInv
  <1>11. TruthInv'
    BY <1>0, <1>1, <1>6, <1>7 DEF TruthInv, AllImminent
  <1>12. ClicksInv'
    BY <1>0, <1>1, <1>6, <1>7 DEF ClicksInv
  <1> QED BY <1>3, <1>5, <1>8, <1>9, <1>10, <1>11, <1>12 DEF IInv

\* What closing connections D with a last response r, or none, leaves of them.
ClosedOnly(D, r) ==
    /\ conns' \in [Connections -> ConnType \cup {Absent}]
    /\ \A d \in Opened' :
         /\ d \in Opened
         /\ conns'[d].peer = conns[d].peer /\ conns'[d].asks = conns[d].asks
         /\ conns'[d].left = conns[d].left /\ conns'[d].whole = conns[d].whole
         /\ d \in D => conns[d].peer = "hud" /\ conns'[d].reply = r
    /\ \A d \in Opened \ D : d \in Opened' /\ conns'[d] = conns[d]
    /\ \A d \in Opened : conns[d].peer = "hud" /\ ~conns[d].left => d \in Opened'

LEMMA Closing ==
    ASSUME TypeInv, NEW D \in SUBSET Opened, NEW r \in Replies,
           conns' = [c \in Connections |-> IF c \in D THEN Closed(c, r) ELSE conns[c]]
    PROVE  ClosedOnly(D, r)
  <1>1. \A d \in D : d \in Connections /\ conns[d] \in ConnType /\ conns[d] # Absent
    BY OpenIsTyped, AbsentIsNone
  <1>2. ASSUME NEW d \in D
        PROVE  /\ conns[d].peer = "hud" /\ ~conns[d].left => conns'[d] # Absent
               /\ conns'[d] # Absent =>
                    /\ conns'[d] \in ConnType
                    /\ conns'[d].peer = conns[d].peer /\ conns'[d].asks = conns[d].asks
                    /\ conns'[d].left = conns[d].left /\ conns'[d].whole = conns[d].whole
                    /\ conns[d].peer = "hud" /\ conns'[d].reply = r
    <2>1. conns'[d] = Closed(d, r)
      BY <1>1
    <2>2. CASE conns[d].peer = "hud" /\ ~conns[d].left
      <3>1. conns'[d] = [conns[d] EXCEPT !.reply = r]
        BY <2>1, <2>2 DEF Closed
      <3>2. conns[d] \in ConnType
        BY <1>1
      <3>3. /\ conns'[d] \in ConnType
            /\ conns'[d].peer = conns[d].peer /\ conns'[d].asks = conns[d].asks
            /\ conns'[d].left = conns[d].left /\ conns'[d].whole = conns[d].whole
            /\ conns'[d].reply = r
        BY <3>1, <3>2 DEF ConnType
      <3> QED BY <2>2, <3>3, AbsentIsNone
    <2>3. CASE ~(conns[d].peer = "hud" /\ ~conns[d].left)
      BY <2>1, <2>3 DEF Closed
    <2> QED BY <2>2, <2>3
  <1>3. \A d \in Connections \ D : conns'[d] = conns[d]
    OBVIOUS
  <1>4. conns' \in [Connections -> ConnType \cup {Absent}]
    <2>1. \A d \in Connections : conns'[d] \in ConnType \cup {Absent}
      BY <1>2, <1>3 DEF TypeInv
    <2> QED BY <2>1
  <1>5. \A d \in Opened' : d \in Opened /\ conns'[d] # Absent /\ d \in Connections
    BY <1>3 DEF Opened
  <1>6. \A d \in Opened : d \in Connections /\ conns[d] # Absent
    BY DEF Opened
  <1>7. \A d \in Opened \ D : d \in Opened' /\ conns'[d] = conns[d]
    BY <1>3, <1>6 DEF Opened
  <1>8. \A d \in Opened : conns[d].peer = "hud" /\ ~conns[d].left => d \in Opened'
    BY <1>2, <1>6, <1>7 DEF Opened
  <1>9. ASSUME NEW d \in Opened'
        PROVE  /\ d \in Opened
               /\ conns'[d].peer = conns[d].peer /\ conns'[d].asks = conns[d].asks
               /\ conns'[d].left = conns[d].left /\ conns'[d].whole = conns[d].whole
               /\ d \in D => conns[d].peer = "hud" /\ conns'[d].reply = r
    <2>1. d \in Opened /\ conns'[d] # Absent
      BY <1>5
    <2>2. CASE d \in D
      BY <1>2, <2>1, <2>2
    <2>3. CASE d \notin D
      BY <1>7, <2>1, <2>3
    <2> QED BY <2>2, <2>3
  <1> QED BY <1>4, <1>7, <1>8, <1>9 DEF ClosedOnly

LEMMA CallStays ==
    ASSUME TypeInv, CallInv, NEW D \in SUBSET Opened, NEW r \in Replies,
           conns' = [c \in Connections |-> IF c \in D THEN Closed(c, r) ELSE conns[c]],
           hud' = hud, hud.doing = "status" /\ hud.call \in D => r \in {None} \cup Statuses,
           hud.call \in D /\ r # None => conns[hud.call].whole
    PROVE  /\ CallInv'
           /\ hud.call # 0 => IF hud.call \in D THEN conns'[hud.call].reply = r
                              ELSE conns'[hud.call] = conns[hud.call]
  <1>0. ClosedOnly(D, r)
    BY Closing
  <1>1. hud.call # 0 => hud.call \in Opened /\ hud.call \in Opened'
    BY <1>0 DEF ClosedOnly, CallInv
  <1>2. hud.call # 0 =>
            /\ conns'[hud.call].peer = conns[hud.call].peer /\ conns'[hud.call].asks = conns[hud.call].asks
            /\ conns'[hud.call].left = conns[hud.call].left
            /\ conns'[hud.call].whole = conns[hud.call].whole
            /\ hud.call \in D => conns'[hud.call].reply = r
            /\ hud.call \notin D => conns'[hud.call] = conns[hud.call]
    BY <1>0, <1>1 DEF ClosedOnly
  <1>3. \A d \in Opened' : conns'[d].peer = "hud" /\ d # hud.call => conns'[d].whole /\ conns'[d].left
    BY <1>0 DEF ClosedOnly, CallInv
  <1> QED BY <1>1, <1>2, <1>3 DEF CallInv

LEMMA DaemonBreaks ==
    ASSUME IInv, Break, hud' = hud
    PROVE  IInv'
  <1>0. TypeInv /\ HeldInv /\ ServedInv /\ CallInv /\ LastInv /\ TruthInv /\ ClicksInv
    BY DEF IInv
  <1> DEFINE D == {c \in Connections : Held(c)}
  <1>1. /\ turn' = "over" /\ clients' = [i \in Slots |-> NoClient] /\ backlog' = <<>>
        /\ conns' = [c \in Connections |-> IF c \in D THEN Closed(c, None) ELSE conns[c]]
        /\ UNCHANGED <<ready, quit, seat, fresh>>
    BY DEF Break, ClosedUnanswered, seatVars
  <1>2. D \in SUBSET Opened
    <2>1. ASSUME NEW c \in Connections, Held(c) PROVE c \in Opened
      <3>1. c # 0
        BY Sizes DEF Connections
      <3> QED BY <1>0, <2>1, <3>1, HeldIsHeld DEF HeldInv, Used
    <2> QED BY <2>1
  <1>3. None \in Replies
    BY DEF Replies
  <1>4. /\ conns' \in [Connections -> ConnType \cup {Absent}]
        /\ \A d \in Opened' : d \in Opened /\ conns'[d].peer = conns[d].peer /\ conns'[d].whole = conns[d].whole
                              /\ (d \in D => conns[d].peer = "hud")
    <2>1. ClosedOnly(D, None)
      <3> HIDE DEF D
      <3> QED BY <1>0, <1>1, <1>2, <1>3, Closing
    <2> QED BY <2>1 DEF ClosedOnly
  <1>5. CallInv'
    BY <1>0, <1>1, <1>2, <1>3, CallStays
  <1>6. TypeInv'
    <2>1. NoClient \in ClientType
      BY <1>3 DEF NoClient, ClientType
    <2>2. clients' \in [Slots -> ClientType] /\ backlog' \in Seq(Connections)
      BY <1>1, <2>1
    <2>3. hud' \in HudType /\ ready' \subseteq Slots
      BY <1>0, <1>1 DEF TypeInv
    <2> QED BY <1>0, <1>1, <1>4, <2>2, <2>3 DEF TypeInv
  <1>7. \A i \in Slots : ~Used(i)'
    BY <1>1 DEF Used, NoClient
  <1>8. Len(backlog') = 0
    BY <1>1
  <1>9. HeldInv'
    <2>1. \A d \in Opened' : conns'[d].peer = "hud" \/ Held(d)'
      <3>1. \A d \in Opened' : d \in Connections
        BY DEF Opened
      <3> QED BY <1>0, <1>4, <3>1 DEF HeldInv
    <2>2. \A n \in 1..Len(backlog') : FALSE
      BY <1>8
    <2>3. \A i, j \in Slots : Used(i)' /\ clients'[i].conn = clients'[j].conn => i = j
      BY <1>7
    <2> QED BY <1>7, <2>1, <2>2, <2>3 DEF HeldInv
  <1>10. ServedInv'
    BY <1>1, <1>7 DEF ServedInv, HudIn
  <1>11. LastInv' /\ ClicksInv'
    <2>1. \A n \in 1..Len(backlog') : FALSE
      BY <1>8
    <2>2. \A i \in Slots : ~HudIn(i)' /\ ~ClickIn(i)'
      BY <1>7 DEF HudIn, ClickIn
    <2> QED BY <1>1, <2>1, <2>2 DEF LastInv, ClicksInv
  <1>12. TruthInv'
    BY <1>1 DEF TruthInv
  <1> QED BY <1>5, <1>6, <1>9, <1>10, <1>11, <1>12 DEF IInv

LEMMA SeatAfterIs ==
    ASSUME TypeInv, NEW method \in Methods, Accepted(method)
    PROVE  SeatAfter(method) \in SeatType /\ (SeatAfter(method).paused \/ SeatAfter(method).created)
  <1>0. seat \in SeatType /\ (seat.paused \/ seat.created)
    BY DEF TypeInv
  <1>1. CASE method = "seat.create"
    BY <1>0, <1>1 DEF SeatAfter, SeatType
  <1>2. CASE method \in {"seat.destroy", "shutdown"}
    BY <1>0, <1>2 DEF SeatAfter, SeatType
  <1>3. CASE method = "seat.pause"
    BY <1>0, <1>3 DEF SeatAfter, SeatType
  <1>4. CASE method = "seat.resume"
    BY <1>0, <1>4 DEF SeatAfter, SeatType, Accepted
  <1>5. CASE method = "collaboration.status"
    BY <1>0, <1>5 DEF SeatAfter
  <1> QED BY <1>1, <1>2, <1>3, <1>4, <1>5 DEF Methods, Writes

LEMMA ExecuteTyped ==
    ASSUME TypeInv, NEW c, NEW method \in Methods, Execute(c, method)
    PROVE  /\ seat' \in SeatType /\ (seat'.paused \/ seat'.created)
           /\ quit' \in BOOLEAN /\ fresh' \in BOOLEAN
           /\ Response(method) \in Replies
  <1>1. seat' \in SeatType /\ (seat'.paused \/ seat'.created)
    BY SeatAfterIs DEF Execute, TypeInv
  <1>2. quit' \in BOOLEAN
    BY DEF Execute, TypeInv
  <1>3. fresh' \in BOOLEAN
    <2>1. CASE conns[c].peer = "hud" /\ ~conns[c].left
      BY <2>1 DEF Execute, TypeInv
    <2>2. CASE ~(conns[c].peer = "hud" /\ ~conns[c].left)
      BY <2>2 DEF Execute, TypeInv
    <2> QED BY <2>1, <2>2
  <1>4. Response(method) \in Replies
    BY DEF Response, Replies, Statuses, TypeInv, SeatType
  <1> QED BY <1>1, <1>2, <1>3, <1>4

\* A slot is served, and its connection closed.
LEMMA SlotCloses ==
    ASSUME TypeInv, HeldInv, ServedInv, CallInv, LastInv, ClicksInv,
           NEW i \in Slots, turn = "serve", i \in ready, ready' = ready \ {i},
           NEW r \in Replies,
           clients' = [clients EXCEPT ![i] = NoClient],
           conns' = [conns EXCEPT ![clients[i].conn] = Closed(clients[i].conn, r)],
           UNCHANGED <<backlog, turn, hud>>,
           hud.doing = "status" /\ hud.call = clients[i].conn => r \in {None} \cup Statuses,
           hud.call = clients[i].conn /\ r # None => conns[hud.call].whole,
           seat' \in SeatType, seat'.paused \/ seat'.created, quit' \in BOOLEAN, fresh' \in BOOLEAN
    PROVE  /\ TypeInv' /\ HeldInv' /\ ServedInv' /\ CallInv' /\ LastInv' /\ ClicksInv'
           /\ hud.call # 0 => IF hud.call = clients[i].conn THEN conns'[hud.call].reply = r
                              ELSE conns'[hud.call] = conns[hud.call]
           /\ \A j \in Slots : HudIn(j)' => j # i /\ HudIn(j)
           /\ \A n \in 1..Len(backlog) : HudAt(n)' => HudAt(n)
  <1> DEFINE c == clients[i].conn
  <1>1. Used(i) /\ c \in Opened /\ c \in Connections
    BY OpenIsTyped DEF ServedInv, HeldInv
  <1>2. PICK D \in SUBSET Opened : D = {c}
    BY <1>1
  <1>3. conns' = [d \in Connections |-> IF d \in D THEN Closed(d, r) ELSE conns[d]]
    BY <1>1, <1>2 DEF TypeInv
  <1>4. /\ conns' \in [Connections -> ConnType \cup {Absent}]
        /\ \A d \in Opened' :
             /\ d \in Opened
             /\ conns'[d].peer = conns[d].peer /\ conns'[d].whole = conns[d].whole
             /\ conns'[d].asks = conns[d].asks
             /\ d \in D => conns[d].peer = "hud"
        /\ \A d \in Opened \ D : d \in Opened' /\ conns'[d] = conns[d]
    <2>1. ClosedOnly(D, r)
      BY <1>2, <1>3, Closing
    <2> QED BY <2>1 DEF ClosedOnly
  <1>5. /\ CallInv'
        /\ hud.call # 0 => IF hud.call = c THEN conns'[hud.call].reply = r
                           ELSE conns'[hud.call] = conns[hud.call]
    <2>1. /\ CallInv'
          /\ hud.call # 0 => IF hud.call \in D THEN conns'[hud.call].reply = r
                             ELSE conns'[hud.call] = conns[hud.call]
      <3>1. /\ hud' = hud /\ (hud.doing = "status" /\ hud.call \in D => r \in {None} \cup Statuses)
            /\ hud.call \in D /\ r # None => conns[hud.call].whole
        BY <1>2
      <3> QED BY <1>2, <1>3, <3>1, CallStays, ZenonT(60)
    <2> QED BY <1>2, <2>1
  <1>6. /\ clients'[i] = NoClient /\ ~Used(i)'
        /\ \A j \in Slots \ {i} : clients'[j] = clients[j] /\ (Used(j)' <=> Used(j))
    BY DEF TypeInv, Used, NoClient
  <1>7. TypeInv'
    <2>1. NoClient \in ClientType
      BY DEF NoClient, ClientType, Replies
    <2>2. clients' \in [Slots -> ClientType]
      BY <2>1 DEF TypeInv
    <2> QED BY <1>4, <2>2 DEF TypeInv
  <1>8. \A j \in Slots \ {i} : Used(j) => clients[j].conn \in Opened \ D
    BY <1>1, <1>2 DEF HeldInv
  <1>9. \A n \in 1..Len(backlog) : backlog[n] \in Opened \ D
    BY <1>1, <1>2 DEF HeldInv
  <1>10. HeldInv'
    <2>1. \A n \in 1..Len(backlog') : backlog'[n] \in Opened'
      BY <1>4, <1>9
    <2>2. \A j \in Slots : Used(j)' => clients'[j].conn \in Opened'
      BY <1>4, <1>6, <1>8
    <2>3. \A j, k \in Slots : Used(j)' /\ clients'[j].conn = clients'[k].conn => j = k
      BY <1>6 DEF HeldInv, Used
    <2>4. \A j \in Slots, n \in 1..Len(backlog') : clients'[j].conn # backlog'[n]
      <3>1. \A n \in 1..Len(backlog) : backlog[n] # 0
        BY <1>9, OpenIsTyped
      <3>2. clients'[i].conn = 0
        BY <1>6 DEF NoClient
      <3> QED BY <1>6, <3>1, <3>2 DEF HeldInv
    <2>5. \A d \in Opened' : conns'[d].peer = "hud" \/ Held(d)'
      <3> SUFFICES ASSUME NEW d \in Opened', conns'[d].peer # "hud" PROVE Held(d)'
        OBVIOUS
      <3>1. d \in Opened /\ d \notin D /\ conns[d].peer # "hud"
        BY <1>4
      <3>2. Held(d)
        BY <3>1 DEF HeldInv
      <3>3. CASE \E n \in 1..Len(backlog) : backlog[n] = d
        BY <3>3 DEF Held, ToSet, TypeInv
      <3>4. CASE \E j \in Slots : clients[j].conn = d
        BY <1>2, <1>6, <3>1, <3>4 DEF Held
      <3> QED BY <3>2, <3>3, <3>4, HeldIsHeld
    <2> QED BY <2>1, <2>2, <2>3, <2>4, <2>5 DEF HeldInv, Used
  <1>11. \A j \in Slots : (HudIn(j)' => j # i /\ HudIn(j)) /\ (ClickIn(j)' => j # i /\ ClickIn(j))
    BY <1>4, <1>6, <1>8 DEF HudIn, ClickIn, Used
  <1>12. \A n \in 1..Len(backlog) : (HudAt(n)' => HudAt(n)) /\ (ClickAt(n)' => ClickAt(n))
    BY <1>4, <1>9 DEF HudAt, ClickAt
  <1>13. ServedInv'
    <2>1. \A j \in Slots : HudIn(j)' => ~Answered(j)'
      BY <1>6, <1>11 DEF ServedInv, Answered
    <2>2. ASSUME NEW j \in ready'
          PROVE  Used(j)' /\ (HudIn(j)' => Peer(j)'.whole)
      <3>1. j \in Slots \ {i} /\ Used(j) /\ (HudIn(j) => Peer(j).whole)
        BY DEF ServedInv, TypeInv
      <3>2. Peer(j)' = Peer(j)
        BY <1>4, <1>6, <1>8, <3>1 DEF Peer
      <3> QED BY <1>6, <1>11, <3>1, <3>2
    <2> QED BY <2>1, <2>2 DEF ServedInv
  <1>14. LastInv'
    <2> SUFFICES ASSUME hud.call # 0 PROVE LastInv'
      BY DEF LastInv
    <2>1. \A j \in Slots : clients'[j].conn = hud.call => j # i /\ clients[j].conn = hud.call
      BY <1>6 DEF NoClient
    <2>2. ready \subseteq Slots
      BY DEF TypeInv
    <2> QED BY <1>11, <1>12, <2>1, <2>2 DEF LastInv
  <1>15. ClicksInv'
    BY <1>11, <1>12 DEF ClicksInv
  <1> QED BY <1>5, <1>7, <1>10, <1>11, <1>12, <1>13, <1>14, <1>15

\* The rest of a response has to wait: not one of the HUD's.
LEMMA SlotWaits ==
    ASSUME TypeInv, HeldInv, ServedInv, CallInv, LastInv, ClicksInv,
           NEW i \in Slots, turn = "serve", i \in ready, ready' = ready \ {i},
           NEW r \in Replies, conns[clients[i].conn].peer # "hud",
           clients' = [clients EXCEPT ![i].response = r],
           UNCHANGED <<conns, backlog, turn, hud>>,
           seat' \in SeatType, seat'.paused \/ seat'.created, quit' \in BOOLEAN, fresh' \in BOOLEAN
    PROVE  /\ TypeInv' /\ HeldInv' /\ ServedInv' /\ CallInv' /\ LastInv' /\ ClicksInv'
           /\ \A j \in Slots : HudIn(j)' => j # i /\ HudIn(j)
           /\ \A n \in 1..Len(backlog) : HudAt(n)' => HudAt(n)
  <1>1. clients \in [Slots -> ClientType]
    BY DEF TypeInv
  <1>2. clients'[i] = [clients[i] EXCEPT !.response = r] /\ \A j \in Slots \ {i} : clients'[j] = clients[j]
    BY <1>1
  <1>3. clients'[i].conn = clients[i].conn /\ clients'[i] \in ClientType
    BY <1>1, <1>2 DEF ClientType
  <1>4. /\ clients' \in [Slots -> ClientType]
        /\ \A j \in Slots : clients'[j].conn = clients[j].conn /\ (Used(j)' <=> Used(j))
    BY <1>1, <1>2, <1>3 DEF Used
  <1>5. TypeInv'
    BY <1>4 DEF TypeInv
  <1>6. Opened' = Opened /\ \A c : Held(c)' <=> Held(c)
    BY <1>4 DEF Opened, Held
  <1>7. HeldInv'
    BY <1>4, <1>6 DEF HeldInv
  <1>8. /\ \A j \in Slots : (HudIn(j)' => j # i /\ HudIn(j)) /\ (ClickIn(j)' => j # i /\ ClickIn(j))
        /\ \A n \in 1..Len(backlog) : (HudAt(n)' => HudAt(n)) /\ (ClickAt(n)' => ClickAt(n))
    BY <1>4 DEF HudIn, HudAt, ClickIn, ClickAt
  <1>9. ServedInv'
    <2>1. \A j \in Slots : HudIn(j)' => ~Answered(j)'
      BY <1>2, <1>8 DEF ServedInv, Answered
    <2>2. \A j \in ready' : Used(j)' /\ (HudIn(j)' => Peer(j)'.whole)
      BY <1>4, <1>8 DEF ServedInv, TypeInv, Peer
    <2> QED BY <2>1, <2>2 DEF ServedInv
  <1>10. CallInv'
    BY <1>6 DEF CallInv
  <1>11. LastInv'
    <2>1. ready \subseteq Slots
      BY DEF TypeInv
    <2> QED BY <1>4, <1>8, <2>1 DEF LastInv
  <1>12. ClicksInv'
    BY <1>8 DEF ClicksInv
  <1> QED BY <1>5, <1>7, <1>8, <1>9, <1>10, <1>11, <1>12

LEMMA DaemonServes ==
    ASSUME IInv, Serve, hud' = hud
    PROVE  IInv'
  <1>0. TypeInv /\ HeldInv /\ ServedInv /\ CallInv /\ LastInv /\ TruthInv /\ ClicksInv
    BY DEF IInv
  <1> DEFINE i == Min(ready)
             c == clients[i].conn
  <1>1. /\ turn = "serve" /\ ready # {} /\ ready' = ready \ {i}
        /\ UNCHANGED <<backlog, turn, pending, hud>>
        /\ \/ Answered(i) /\ Write(i, clients[i].response) /\ UNCHANGED seatVars
           \/ ~Answered(i) /\ ~conns[c].whole /\ HangUp(i)
           \/ /\ ~Answered(i) /\ conns[c].whole
              /\ \E method \in conns[c].asks : Execute(c, method) /\ Write(i, Response(method))
    BY DEF Serve
  <1>2. i \in ready /\ \A j \in ready : i <= j
    <2>1. ready \in SUBSET Nat
      BY <1>0, Sizes DEF TypeInv, Slots
    <2> QED BY <1>1, <2>1, Least
  <1> HIDE DEF i, c
  <1>3. i \in Slots /\ Used(i) /\ c \in Opened /\ conns[c] \in ConnType /\ clients[i] \in ClientType
        /\ c = clients[i].conn
    BY <1>0, <1>1, <1>2, OpenIsTyped DEF TypeInv, ServedInv, HeldInv, c
  <1>4. conns[c].peer = "hud" => HudIn(i) /\ ~Answered(i) /\ conns[c].whole
    BY <1>0, <1>1, <1>2, <1>3 DEF HudIn, ServedInv, Peer
  <1>5. hud.doing = "status" => hud.call # 0
    BY <1>0 DEF CallInv
  <1>none. None \in Replies
    BY DEF Replies
  \* A request that the HUD does not wait for: another's, or one it gave up.
  <1>6. ASSUME c # hud.call, NEW r \in Replies, fresh' => fresh /\ seat' = seat,
               seat' \in SeatType, seat'.paused \/ seat'.created, quit' \in BOOLEAN, fresh' \in BOOLEAN,
               Write(i, r) \/ HangUp(i)
        PROVE  IInv'
    <2>1. /\ TypeInv' /\ HeldInv' /\ ServedInv' /\ CallInv' /\ LastInv' /\ ClicksInv'
          /\ \A j \in Slots : HudIn(j)' => j # i /\ HudIn(j)
          /\ \A n \in 1..Len(backlog) : HudAt(n)' => HudAt(n)
          /\ hud.call # 0 => conns'[hud.call] = conns[hud.call]
      <3>1. ASSUME NEW answer \in Replies, clients' = [clients EXCEPT ![i] = NoClient],
                   conns' = [conns EXCEPT ![c] = Closed(c, answer)]
            PROVE  <2>1!1 /\ <2>1!2 /\ <2>1!3 /\ <2>1!4
        BY <1>0, <1>1, <1>2, <1>3, <1>6, <3>1, SlotCloses
      <3>2. CASE HangUp(i)
        BY <1>3, <1>none, <3>1, <3>2 DEF HangUp
      <3>3. CASE Write(i, r)
        <4>1. CASE clients' = [clients EXCEPT ![i] = NoClient] /\ conns' = [conns EXCEPT ![c] = Closed(c, r)]
          BY <1>6, <3>1, <4>1
        <4>2. CASE conns[c].peer # "hud" /\ clients' = [clients EXCEPT ![i].response = r] /\ UNCHANGED conns
          BY <1>0, <1>1, <1>2, <1>3, <1>6, <4>2, SlotWaits
        <4> QED BY <1>3, <3>3, <4>1, <4>2 DEF Write
      <3> QED BY <1>6, <3>2, <3>3
    <2>2. AllImminent => AllImminent'
      BY <1>1, <2>1 DEF AllImminent
    <2>3. TruthInv'
      BY <1>0, <1>1, <1>5, <1>6, <2>1, <2>2 DEF TruthInv
    <2> QED BY <2>1, <2>3 DEF IInv
  <1>7. CASE c # hud.call
    <2>1. seat \in SeatType /\ (seat.paused \/ seat.created) /\ quit \in BOOLEAN /\ fresh \in BOOLEAN
      BY <1>0 DEF TypeInv
    <2>2. CASE Answered(i) /\ Write(i, clients[i].response) /\ UNCHANGED seatVars
      <3>1. clients[i].response \in Replies
        BY <1>3 DEF ClientType
      <3> QED BY <1>6, <1>7, <2>1, <2>2, <3>1 DEF seatVars
    <2>3. CASE HangUp(i)
      BY <1>6, <1>7, <1>none, <2>1, <2>3 DEF HangUp, seatVars
    <2>4. CASE \E method \in conns[c].asks : Execute(c, method) /\ Write(i, Response(method))
      <3>1. PICK method \in conns[c].asks : Execute(c, method) /\ Write(i, Response(method))
        BY <2>4
      <3>2. method \in Methods
        BY <1>3 DEF ConnType
      <3>3. /\ seat' \in SeatType /\ (seat'.paused \/ seat'.created)
            /\ quit' \in BOOLEAN /\ fresh' \in BOOLEAN
            /\ Response(method) \in Replies
        BY <1>0, <3>1, <3>2, ExecuteTyped
      <3>4. ~(conns[c].peer = "hud" /\ ~conns[c].left)
        BY <1>0, <1>3, <1>7 DEF CallInv
      <3>5. fresh' => fresh /\ seat' = seat
        BY <3>1, <3>4 DEF Execute
      <3> QED BY <1>6, <1>7, <3>1, <3>3, <3>5
    <2> QED BY <1>1, <2>2, <2>3, <2>4
  <1>8. CASE c = hud.call
    <2>0. c # 0 /\ conns[c].peer = "hud" /\ ~conns[c].left
      BY <1>0, <1>3, <1>8, OpenIsTyped DEF CallInv
    <2>1. PICK method \in conns[c].asks : Execute(c, method) /\ Write(i, Response(method))
      BY <1>1, <1>4, <2>0
    <2>2. method \in Methods
      BY <1>3 DEF ConnType
    <2>3. /\ seat' \in SeatType /\ (seat'.paused \/ seat'.created)
          /\ quit' \in BOOLEAN /\ fresh' \in BOOLEAN
          /\ Response(method) \in Replies
      BY <1>0, <2>1, <2>2, ExecuteTyped
    <2>4. clients' = [clients EXCEPT ![i] = NoClient] /\ conns' = [conns EXCEPT ![c] = Closed(c, Response(method))]
      BY <1>3, <2>0, <2>1 DEF Write
    <2>5. hud.doing = "status" =>
            /\ seat' = seat
            /\ Response(method) = [kind |-> "status", paused |-> seat.paused]
            /\ Response(method) \in Statuses
      <3> SUFFICES ASSUME hud.doing = "status"
                   PROVE  /\ seat' = seat
                          /\ Response(method) = [kind |-> "status", paused |-> seat.paused]
                          /\ Response(method) \in Statuses
        OBVIOUS
      <3>1. method = "collaboration.status"
        BY <1>0, <1>8, <2>1 DEF CallInv
      <3>2. seat' = seat
        BY <2>1, <3>1 DEF Execute, SeatAfter
      <3>3. Response(method) = [kind |-> "status", paused |-> seat.paused]
        BY <3>1 DEF Response
      <3>4. seat.paused \in BOOLEAN
        BY <1>0 DEF TypeInv, SeatType
      <3> QED BY <3>2, <3>3, <3>4 DEF Statuses
    <2>6. /\ TypeInv' /\ HeldInv' /\ ServedInv' /\ CallInv' /\ LastInv' /\ ClicksInv'
          /\ hud.call # 0 => IF hud.call = c THEN conns'[hud.call].reply = Response(method)
                             ELSE conns'[hud.call] = conns[hud.call]
          /\ \A j \in Slots : HudIn(j)' => j # i /\ HudIn(j)
          /\ \A n \in 1..Len(backlog) : HudAt(n)' => HudAt(n)
      <3>1. hud.call = clients[i].conn /\ Response(method) # None => conns[hud.call].whole
        BY <1>4, <1>8, <2>0
      <3> QED BY <1>0, <1>1, <1>2, <1>3, <1>8, <2>3, <2>4, <2>5, <3>1, SlotCloses
    <2>7. TruthInv'
      <3>1. hud.doing # "idle"
        BY <1>0, <1>8, <2>0 DEF CallInv
      <3>2. CASE hud.doing = "status"
        <4>1. \A j \in Slots : HudIn(j)' => turn' = "serve" /\ j \in ready'
          BY <1>0, <1>1, <1>2, <1>3, <1>8, <2>0, <2>6 DEF LastInv
        <4>2. \A n \in 1..Len(backlog') : ~HudAt(n)'
          BY <1>0, <1>1, <1>3, <1>8, <2>0, <2>6 DEF LastInv
        <4>3. conns'[hud.call].reply.paused = seat'.paused
          BY <1>8, <2>0, <2>5, <2>6, <3>2
        <4> QED BY <1>1, <3>1, <4>1, <4>2, <4>3 DEF TruthInv, AllImminent
      <3>3. CASE hud.doing # "status"
        BY <1>1, <3>1, <3>3 DEF TruthInv
      <3> QED BY <3>2, <3>3
    <2> QED BY <2>6, <2>7 DEF IInv
  <1> QED BY <1>7, <1>8

----------------------------------------------------------------------------
(* The end of a turn.                                                      *)

\* Of size connections that are accepted the first so many get a slot, some
\* slots are given up, and the connections closed are those of these slots and
\* of the rest, in a daemon that stops all that wait.
Seats(i, seated) == i \in FreeSlots /\ Place(i) <= seated
Keeps(i, dropped) == Used(i) /\ i \notin dropped
Refused(n, size, seated) == n > seated /\ (n <= size \/ turn' = "over")

TurnOf(size, seated, dropped, D) ==
    /\ turn = "serve" /\ ready = {} /\ turn' \in {"poll", "over"}
    /\ UNCHANGED <<ready, quit, seat, fresh>>
    /\ seated <= size /\ size <= Len(backlog) /\ seated <= Cardinality(FreeSlots)
    /\ clients' \in [Slots -> ClientType]
    /\ \A i \in Slots :
         /\ Keeps(i, dropped) => clients'[i] = clients[i]
         /\ Seats(i, seated) => clients'[i].conn = backlog[Place(i)] /\ clients'[i].response = None
         /\ ~Keeps(i, dropped) /\ ~Seats(i, seated) => clients'[i].conn = 0
    /\ backlog' \in Seq(Connections)
    /\ Len(backlog') = IF turn' = "over" THEN 0 ELSE Len(backlog) - size
    /\ \A n \in 1..Len(backlog') : backlog'[n] = backlog[n + size]
    /\ conns' = [c \in Connections |-> IF c \in D THEN Closed(c, None) ELSE conns[c]]
    /\ \A d \in D : \/ \E i \in dropped : Used(i) /\ clients[i].conn = d
                    \/ \E n \in 1..Len(backlog) : backlog[n] = d /\ Refused(n, size, seated)
    /\ \A i \in dropped : clients[i].conn \in D
    /\ \A n \in 1..Len(backlog) : Refused(n, size, seated) => backlog[n] \in D

LEMMA TurnIs ==
    ASSUME TypeInv, HeldInv, NEW late, EndTurn(late)
    PROVE  \E size \in Nat, seated \in Nat, dropped \in SUBSET Slots, D \in SUBSET Opened :
               TurnOf(size, seated, dropped, D)
  <1> DEFINE size == IF pending /\ ~quit THEN Min({AcceptBatch, Len(backlog)}) ELSE 0
             seated == Min({size, Cardinality(FreeSlots)})
             dropped == {i \in Slots : Used(i) /\ Expired(i, late)}
             ends == quit /\ \A i \in Slots : Used(i) => i \in dropped
             D == {clients[i].conn : i \in dropped}
                  \cup {backlog[n] : n \in seated + 1 .. IF ends THEN Len(backlog) ELSE size}
             after == [i \in Slots |->
                          CASE i \in dropped -> NoClient
                            [] i \in FreeSlots /\ Place(i) <= seated -> NewClient(backlog[Place(i)])
                            [] OTHER -> clients[i]]
  <1>1. /\ turn = "serve" /\ ready = {} /\ turn' = IF ends THEN "over" ELSE "poll"
        /\ clients' = after
        /\ backlog' = IF ends THEN <<>> ELSE SubSeq(backlog, size + 1, Len(backlog))
        /\ conns' = [c \in Connections |-> IF c \in D THEN Closed(c, None) ELSE conns[c]]
        /\ UNCHANGED <<ready, quit, seat, fresh>>
    BY DEF EndTurn, ClosedUnanswered, seatVars
  <1>2. Len(backlog) \in Nat /\ backlog \in Seq(Connections) /\ AcceptBatch \in Nat
    BY Sizes DEF TypeInv
  <1>3. size \in Nat /\ size <= Len(backlog)
    BY <1>2, LeastOfTwo
  <1> HIDE DEF size
  <1>4. seated \in Nat /\ seated <= size /\ seated <= Cardinality(FreeSlots)
    BY <1>3, FreeIsFinite, LeastOfTwo
  <1> HIDE DEF seated
  <1>5. dropped \in SUBSET Slots /\ \A i \in dropped : Used(i)
    OBVIOUS
  <1> HIDE DEF dropped
  <1>6. turn' \in {"poll", "over"} /\ (turn' = "over" <=> ends)
    BY <1>1
  <1>7. \A n \in 1..Len(backlog) : n \in Nat /\ n >= 1 /\ n <= Len(backlog)
    BY <1>2
  <1>8. \A n \in 1..Len(backlog) :
          Refused(n, size, seated) <=> n \in seated + 1 .. IF ends THEN Len(backlog) ELSE size
    BY <1>2, <1>3, <1>4, <1>6, <1>7 DEF Refused
  <1>9. \A n \in seated + 1 .. IF ends THEN Len(backlog) ELSE size : n \in 1..Len(backlog)
    BY <1>2, <1>3, <1>4
  <1> HIDE DEF ends
  <1>10. /\ \A d \in D : \/ \E i \in dropped : Used(i) /\ clients[i].conn = d
                         \/ \E n \in 1..Len(backlog) : backlog[n] = d /\ Refused(n, size, seated)
         /\ \A i \in dropped : clients[i].conn \in D
         /\ \A n \in 1..Len(backlog) : Refused(n, size, seated) => backlog[n] \in D
    BY <1>5, <1>8, <1>9
  <1> HIDE DEF D
  <1>11. D \in SUBSET Opened
    BY <1>5, <1>10 DEF HeldInv
  <1>12. \A i \in Slots : Seats(i, seated) => Place(i) \in 1..Len(backlog) /\ i \notin dropped
    <2> SUFFICES ASSUME NEW i \in Slots, Seats(i, seated)
                 PROVE  Place(i) \in 1..Len(backlog) /\ i \notin dropped
      OBVIOUS
    <2>1. i \in FreeSlots /\ Place(i) <= seated /\ ~Used(i)
      BY DEF Seats, FreeSlots
    <2>2. Place(i) \in 1..Cardinality(FreeSlots) /\ Cardinality(FreeSlots) \in Nat
      BY <2>1, PlaceIsOne, FreeIsFinite
    <2> QED BY <1>2, <1>3, <1>4, <1>5, <2>1, <2>2
  <1>13. NoClient \in ClientType /\ NoClient.conn = 0
    BY DEF NoClient, ClientType, Replies
  <1>14. \A c \in Connections : NewClient(c) \in ClientType /\ NewClient(c).conn = c /\ NewClient(c).response = None
    BY DEF NewClient, NoClient, ClientType, Replies
  <1>15. \A i \in Slots :
           /\ Keeps(i, dropped) => clients'[i] = clients[i]
           /\ Seats(i, seated) => clients'[i] = NewClient(backlog[Place(i)])
           /\ i \in dropped => clients'[i] = NoClient
           /\ ~Seats(i, seated) /\ i \notin dropped => clients'[i] = clients[i]
    <2> SUFFICES ASSUME NEW i \in Slots
                 PROVE /\ Keeps(i, dropped) => clients'[i] = clients[i]
                       /\ Seats(i, seated) => clients'[i] = NewClient(backlog[Place(i)])
                       /\ i \in dropped => clients'[i] = NoClient
                       /\ ~Seats(i, seated) /\ i \notin dropped => clients'[i] = clients[i]
      OBVIOUS
    <2>1. clients'[i] = CASE i \in dropped -> NoClient
                          [] i \in FreeSlots /\ Place(i) <= seated -> NewClient(backlog[Place(i)])
                          [] OTHER -> clients[i]
      BY <1>1
    <2>2. CASE i \in dropped
      <3>1. ~Seats(i, seated) /\ ~Keeps(i, dropped)
        BY <1>12, <2>2 DEF Keeps
      <3>2. ~(i \in FreeSlots /\ Place(i) <= seated)
        BY <3>1 DEF Seats
      <3> QED BY <2>1, <2>2, <3>1, <3>2
    <2>3. CASE Seats(i, seated)
      <3>1. i \notin dropped /\ ~Keeps(i, dropped) /\ i \in FreeSlots /\ Place(i) <= seated
        BY <1>12, <2>3 DEF Seats, Keeps, FreeSlots
      <3> QED BY <2>1, <2>3, <3>1
    <2>4. CASE i \notin dropped /\ ~Seats(i, seated)
      <3>1. ~(i \in FreeSlots /\ Place(i) <= seated)
        BY <2>4 DEF Seats
      <3> QED BY <2>1, <2>4, <3>1
    <2> QED BY <2>2, <2>3, <2>4
  <1>16. \A i \in Slots :
           /\ Keeps(i, dropped) => clients'[i] = clients[i]
           /\ Seats(i, seated) => clients'[i].conn = backlog[Place(i)] /\ clients'[i].response = None
           /\ ~Keeps(i, dropped) /\ ~Seats(i, seated) => clients'[i].conn = 0
    <2> SUFFICES ASSUME NEW i \in Slots
                 PROVE /\ Seats(i, seated) => clients'[i].conn = backlog[Place(i)] /\ clients'[i].response = None
                       /\ ~Keeps(i, dropped) /\ ~Seats(i, seated) => clients'[i].conn = 0
      BY <1>15
    <2>1. Seats(i, seated) => clients'[i].conn = backlog[Place(i)] /\ clients'[i].response = None
      <3>1. Seats(i, seated) => backlog[Place(i)] \in Connections
        BY <1>2, <1>12
      <3> QED BY <1>14, <1>15, <3>1
    <2>2. ASSUME ~Keeps(i, dropped), ~Seats(i, seated) PROVE clients'[i].conn = 0
      <3>1. CASE i \in dropped
        BY <1>13, <1>15, <3>1
      <3>2. CASE i \notin dropped
        BY <1>15, <2>2, <3>2 DEF Keeps, Used
      <3> QED BY <3>1, <3>2
    <2> QED BY <2>1, <2>2
  <1>17. clients' \in [Slots -> ClientType]
    <2>1. \A i \in Slots : clients'[i] \in ClientType
      <3> SUFFICES ASSUME NEW i \in Slots PROVE clients'[i] \in ClientType
        OBVIOUS
      <3>1. Seats(i, seated) => backlog[Place(i)] \in Connections
        BY <1>2, <1>12
      <3>2. clients[i] \in ClientType
        BY DEF TypeInv
      <3> QED BY <1>13, <1>14, <1>15, <3>1, <3>2
    <2> HIDE DEF after
    <2>2. DOMAIN clients' = Slots /\ clients' = [i \in Slots |-> clients'[i]]
      BY <1>1 DEF after
    <2> QED BY <2>1, <2>2
  <1>18. /\ backlog' \in Seq(Connections)
         /\ Len(backlog') = IF turn' = "over" THEN 0 ELSE Len(backlog) - size
         /\ \A n \in 1..Len(backlog') : backlog'[n] = backlog[n + size]
    <2>1. CASE ends
      <3>1. backlog' = <<>> /\ Len(backlog') = 0
        BY <1>1, <2>1
      <3> QED BY <1>6, <2>1, <3>1
    <2>2. CASE ~ends
      <3>1. backlog' = SubSeq(backlog, size + 1, Len(backlog))
        BY <1>1, <2>2
      <3>2. \A n \in size + 1 .. Len(backlog) : backlog[n] \in Connections
        BY <1>2, <1>3
      <3>3. size + 1 \in Int /\ Len(backlog) \in Int
        BY <1>2, <1>3
      <3>4. /\ backlog' \in Seq(Connections)
            /\ Len(backlog') = IF size + 1 <= Len(backlog) THEN Len(backlog) - (size + 1) + 1 ELSE 0
            /\ \A n \in 1 .. Len(backlog) - (size + 1) + 1 : backlog'[n] = backlog[size + 1 + n - 1]
        BY <3>1, <3>2, <3>3, SubSeqProperties
      <3>5. Len(backlog') = Len(backlog) - size
        BY <1>2, <1>3, <3>4
      <3>6. \A n \in 1..Len(backlog') : backlog'[n] = backlog[n + size]
        <4> SUFFICES ASSUME NEW n \in 1..Len(backlog') PROVE backlog'[n] = backlog[n + size]
          OBVIOUS
        <4>1. n \in 1 .. Len(backlog) - (size + 1) + 1 /\ size + 1 + n - 1 = n + size
          BY <1>2, <1>3, <3>5
        <4> QED BY <3>4, <4>1
      <3> QED BY <1>6, <2>2, <3>4, <3>5, <3>6
    <2> QED BY <2>1, <2>2
  <1>19. TurnOf(size, seated, dropped, D)
    BY <1>1, <1>3, <1>4, <1>6, <1>10, <1>16, <1>17, <1>18 DEF TurnOf
  <1> QED BY <1>3, <1>4, <1>5, <1>11, <1>19

LEMMA DaemonEndsTurn ==
    ASSUME IInv, NEW late, EndTurn(late), hud' = hud
    PROVE  IInv'
  <1>0. TypeInv /\ HeldInv /\ ServedInv /\ CallInv /\ LastInv /\ TruthInv /\ ClicksInv
    BY DEF IInv
  <1>1. PICK size \in Nat, seated \in Nat, dropped \in SUBSET Slots, D \in SUBSET Opened :
               TurnOf(size, seated, dropped, D)
    BY <1>0, TurnIs
  <1>2. /\ turn = "serve" /\ ready = {} /\ turn' \in {"poll", "over"}
        /\ UNCHANGED <<ready, quit, seat, fresh>>
        /\ seated <= size /\ size <= Len(backlog) /\ seated <= Cardinality(FreeSlots)
        /\ backlog' \in Seq(Connections) /\ Len(backlog) \in Nat
        /\ Len(backlog') = IF turn' = "over" THEN 0 ELSE Len(backlog) - size
    BY <1>0, <1>1 DEF TurnOf, TypeInv
  <1>3. None \in Replies /\ None \in {None} \cup Statuses
    BY DEF Replies
  <1>4. conns' = [c \in Connections |-> IF c \in D THEN Closed(c, None) ELSE conns[c]]
    BY <1>1 DEF TurnOf
  <1>5. /\ conns' \in [Connections -> ConnType \cup {Absent}]
        /\ \A d \in Opened' :
             /\ d \in Opened
             /\ conns'[d].peer = conns[d].peer /\ conns'[d].asks = conns[d].asks
             /\ d \in D => conns[d].peer = "hud" /\ conns'[d].reply = None
        /\ \A d \in Opened \ D : d \in Opened' /\ conns'[d] = conns[d]
    <2>1. ClosedOnly(D, None)
      BY <1>0, <1>3, <1>4, Closing
    <2> QED BY <2>1 DEF ClosedOnly
  <1>6. /\ CallInv'
        /\ hud.call # 0 => IF hud.call \in D THEN conns'[hud.call].reply = None
                           ELSE conns'[hud.call] = conns[hud.call]
    BY <1>0, <1>3, <1>4, CallStays
  \* A slot keeps its connection, or gets one that waited, or is free.
  <1>7. ASSUME NEW i \in Slots, Keeps(i, dropped)
        PROVE  /\ clients'[i] = clients[i] /\ Used(i) /\ clients[i].conn \in Opened \ D
               /\ \A n \in 1..Len(backlog) : backlog[n] # clients[i].conn
    <2>1. Used(i) /\ i \notin dropped /\ clients'[i] = clients[i]
      BY <1>1, <1>7 DEF Keeps, TurnOf
    <2>2. \A n \in 1..Len(backlog) : backlog[n] # clients[i].conn
      BY <1>0 DEF HeldInv
    <2>3. \A j \in dropped : Used(j) /\ clients[j].conn = clients[i].conn => FALSE
      BY <1>0, <2>1 DEF HeldInv
    <2>4. clients[i].conn \notin D
      BY <1>1, <2>2, <2>3 DEF TurnOf
    <2> QED BY <1>0, <2>1, <2>2, <2>4 DEF HeldInv
  <1>8. ASSUME NEW n \in 1..Len(backlog), ~Refused(n, size, seated)
        PROVE  backlog[n] \in Opened \ D
    <2>1. \A m \in 1..Len(backlog) : backlog[m] = backlog[n] => m = n
      BY <1>0 DEF HeldInv
    <2>2. \A j \in dropped : clients[j].conn # backlog[n]
      BY <1>0 DEF HeldInv
    <2>3. backlog[n] \notin D
      BY <1>1, <1>8, <2>1, <2>2 DEF TurnOf
    <2> QED BY <1>0, <2>3 DEF HeldInv
  <1>9. ASSUME NEW i \in Slots, Seats(i, seated)
        PROVE  /\ i \in FreeSlots /\ Place(i) \in 1..Len(backlog) /\ Place(i) <= seated
               /\ clients'[i].conn = backlog[Place(i)] /\ clients'[i].response = None
               /\ backlog[Place(i)] \in Opened \ D
    <2>1. i \in FreeSlots /\ Place(i) <= seated
      BY <1>9 DEF Seats
    <2>2. Place(i) \in 1..Cardinality(FreeSlots) /\ Cardinality(FreeSlots) \in Nat
      BY <2>1, PlaceIsOne, FreeIsFinite
    <2>3. Place(i) \in 1..Len(backlog)
      BY <1>2, <2>1, <2>2
    <2>4. ~Refused(Place(i), size, seated)
      BY <2>1, <2>2 DEF Refused
    <2> QED BY <1>1, <1>8, <1>9, <2>1, <2>3, <2>4 DEF TurnOf
  <1>10. ASSUME NEW n \in 1..Len(backlog')
         PROVE  /\ n \in Nat /\ n >= 1 /\ n + size \in 1..Len(backlog) /\ turn' = "poll"
                /\ backlog'[n] = backlog[n + size] /\ backlog[n + size] \in Opened \ D
    <2>1. turn' # "over"
      BY <1>2
    <2>2. n \in Nat /\ n >= 1 /\ n + size \in 1..Len(backlog)
      BY <1>2, <2>1
    <2>3. backlog'[n] = backlog[n + size]
      BY <1>1 DEF TurnOf
    <2>4. ~(n + size <= size)
      BY <2>2
    <2>5. ~Refused(n + size, size, seated)
      BY <2>1, <2>4 DEF Refused
    <2> QED BY <1>2, <1>8, <2>1, <2>2, <2>3, <2>5
  <1>11. ASSUME NEW i \in Slots, clients'[i].conn # 0
         PROVE  Keeps(i, dropped) \/ Seats(i, seated)
    BY <1>1, <1>11 DEF TurnOf
  <1>12. TypeInv'
    <2>1. hud' \in HudType /\ clients' \in [Slots -> ClientType]
      BY <1>0, <1>1 DEF TypeInv, TurnOf
    <2> QED BY <1>0, <1>2, <1>5, <2>1 DEF TypeInv
  <1>13. HeldInv'
    <2>1. \A n \in 1..Len(backlog') : backlog'[n] \in Opened'
      BY <1>5, <1>10
    <2>2. \A m, n \in 1..Len(backlog') : backlog'[m] = backlog'[n] => m = n
      <3> SUFFICES ASSUME NEW m \in 1..Len(backlog'), NEW n \in 1..Len(backlog'), backlog'[m] = backlog'[n]
                   PROVE  m = n
        OBVIOUS
      <3>1. m + size = n + size
        BY <1>0, <1>10 DEF HeldInv
      <3> QED BY <1>10, <3>1
    <2>3. \A i \in Slots : Used(i)' => clients'[i].conn \in Opened'
      BY <1>5, <1>7, <1>9, <1>11 DEF Used
    <2>4. \A i, j \in Slots : Used(i)' /\ clients'[i].conn = clients'[j].conn => i = j
      <3> SUFFICES ASSUME NEW i \in Slots, NEW j \in Slots, clients'[i].conn # 0,
                          clients'[i].conn = clients'[j].conn
                   PROVE  i = j
        BY DEF Used
      <3>1. CASE Keeps(i, dropped) /\ Keeps(j, dropped)
        BY <1>0, <1>7, <3>1 DEF HeldInv
      <3>2. CASE Seats(i, seated) /\ Seats(j, seated)
        <4>1. Place(i) = Place(j) /\ i \in FreeSlots /\ j \in FreeSlots /\ Place(i) \in Int
          BY <1>0, <1>9, <3>2 DEF HeldInv
        <4>2. i \in Int /\ j \in Int
          BY DEF Slots
        <4> QED BY <4>1, <4>2, PlacesInOrder
      <3>3. CASE Keeps(i, dropped) /\ Seats(j, seated)
        BY <1>7, <1>9, <3>3
      <3>4. CASE Seats(i, seated) /\ Keeps(j, dropped)
        BY <1>7, <1>9, <3>4
      <3> QED BY <1>11, <3>1, <3>2, <3>3, <3>4
    <2>5. \A i \in Slots, n \in 1..Len(backlog') : clients'[i].conn # backlog'[n]
      <3> SUFFICES ASSUME NEW i \in Slots, NEW n \in 1..Len(backlog'), clients'[i].conn = backlog'[n]
                   PROVE  FALSE
        OBVIOUS
      <3>1. clients'[i].conn # 0
        BY <1>0, <1>10, OpenIsTyped
      <3>2. CASE Keeps(i, dropped)
        BY <1>7, <1>10, <3>2
      <3>3. CASE Seats(i, seated)
        <4>0. /\ backlog[Place(i)] = backlog[n + size]
              /\ Place(i) \in 1..Len(backlog) /\ n + size \in 1..Len(backlog)
          BY <1>9, <1>10, <3>3
        <4>1. Place(i) = n + size
          BY <1>0, <4>0 DEF HeldInv
        <4>2. Place(i) <= size /\ Place(i) \in Nat
          BY <1>2, <1>9, <3>3
        <4> QED BY <1>10, <4>1, <4>2
      <3> QED BY <1>11, <3>1, <3>2, <3>3
    <2>6. \A d \in Opened' : conns'[d].peer = "hud" \/ Held(d)'
      <3> SUFFICES ASSUME NEW d \in Opened', conns'[d].peer # "hud" PROVE Held(d)'
        OBVIOUS
      <3>1. d \in Opened /\ d \notin D /\ conns[d].peer # "hud" /\ d # 0
        BY <1>0, <1>5, OpenIsTyped
      <3>2. Held(d)
        BY <1>0, <3>1 DEF HeldInv
      <3>3. CASE \E i \in Slots : clients[i].conn = d
        <4>1. PICK i \in Slots : clients[i].conn = d
          BY <3>3
        <4>2. Keeps(i, dropped)
          BY <1>1, <3>1, <4>1 DEF Keeps, Used, TurnOf
        <4>3. clients'[i].conn = d
          BY <1>7, <4>1, <4>2
        <4> QED BY <4>3 DEF Held
      <3>4. CASE \E n \in 1..Len(backlog) : backlog[n] = d
        <4>1. PICK n \in 1..Len(backlog) : backlog[n] = d
          BY <3>4
        <4>2. ~Refused(n, size, seated)
          BY <1>1, <3>1, <4>1 DEF TurnOf
        <4>3. CASE n <= seated
          <5>1. n \in 1..Cardinality(FreeSlots)
            BY <1>2, <4>3, FreeIsFinite
          <5>2. PICK i \in FreeSlots : Place(i) = n
            BY <5>1, PlacesAreTaken
          <5>3. i \in Slots /\ Seats(i, seated)
            BY <4>3, <5>2 DEF Seats, FreeSlots
          <5>4. clients'[i].conn = d
            BY <1>9, <4>1, <5>2, <5>3
          <5> QED BY <5>3, <5>4 DEF Held
        <4>4. CASE ~(n <= seated)
          <5>1. n > size /\ turn' # "over"
            BY <1>2, <4>2, <4>4 DEF Refused
          <5>2. n - size \in 1..Len(backlog') /\ (n - size) + size = n
            BY <1>2, <5>1
          <5>3. backlog'[n - size] = d
            BY <1>10, <4>1, <5>2
          <5> QED BY <1>2, <5>2, <5>3 DEF Held, ToSet
        <4> QED BY <4>3, <4>4
      <3> QED BY <1>0, <3>2, <3>3, <3>4, HeldIsHeld
    <2> QED BY <2>1, <2>2, <2>3, <2>4, <2>5, <2>6 DEF HeldInv, Used
  \* A slot keeps what it had, or has what waited at its place.
  <1>14. ASSUME NEW i \in Slots, HudIn(i)'
         PROVE  \/ Keeps(i, dropped) /\ HudIn(i) /\ (ClickIn(i)' => ClickIn(i))
                \/ Seats(i, seated) /\ HudAt(Place(i)) /\ (ClickIn(i)' => ClickAt(Place(i)))
    <2>1. CASE Keeps(i, dropped)
      BY <1>5, <1>7, <1>14, <2>1 DEF HudIn, ClickIn
    <2>2. CASE Seats(i, seated)
      BY <1>5, <1>9, <1>14, <2>2 DEF HudIn, HudAt, ClickIn, ClickAt
    <2> QED BY <1>11, <1>14, <2>1, <2>2 DEF HudIn, Used
  <1>15. \A i \in Slots : ClickIn(i)' => HudIn(i)'
    BY DEF ClickIn
  <1>16. ASSUME NEW n \in 1..Len(backlog'), HudAt(n)'
         PROVE  HudAt(n + size) /\ (ClickAt(n)' => ClickAt(n + size))
    BY <1>5, <1>10, <1>16 DEF HudAt, ClickAt
  <1>17. ServedInv'
    <2>1. \A i \in Slots : HudIn(i)' => ~Answered(i)'
      BY <1>0, <1>7, <1>9, <1>14 DEF ServedInv, Answered
    <2> QED BY <1>2, <2>1 DEF ServedInv
  <1>18. LastInv'
    <2> SUFFICES ASSUME hud.call # 0 PROVE LastInv'
      BY DEF LastInv
    <2>0. hud.call \in Opened' /\ conns'[hud.call].peer = "hud"
      BY <1>0, <1>6 DEF CallInv
    <2>1. \A n \in 1..Len(backlog'), j \in Slots : HudAt(n)' => clients'[j].conn # hud.call
      <3> SUFFICES ASSUME NEW n \in 1..Len(backlog'), NEW j \in Slots, HudAt(n)', clients'[j].conn = hud.call
                   PROVE  FALSE
        OBVIOUS
      <3>1. HudAt(n + size) /\ n + size \in 1..Len(backlog) /\ n \in Nat /\ n >= 1
        BY <1>10, <1>16
      <3>2. CASE Keeps(j, dropped)
        BY <1>0, <1>7, <3>1, <3>2 DEF LastInv
      <3>3. CASE Seats(j, seated)
        <4>1. Place(j) \in 1..Len(backlog) /\ Place(j) <= seated /\ backlog[Place(j)] = hud.call
          BY <1>9, <3>3
        <4>2. n + size <= Place(j)
          BY <1>0, <3>1, <4>1 DEF LastInv
        <4> QED BY <1>2, <3>1, <4>1, <4>2
      <3> QED BY <1>11, <3>2, <3>3
    <2>2. \A m, n \in 1..Len(backlog') : HudAt(m)' /\ backlog'[n] = hud.call => m <= n
      <3> SUFFICES ASSUME NEW m \in 1..Len(backlog'), NEW n \in 1..Len(backlog'), HudAt(m)',
                          backlog'[n] = hud.call
                   PROVE  m <= n
        OBVIOUS
      <3>1. /\ HudAt(m + size) /\ m + size \in 1..Len(backlog) /\ m \in Nat
            /\ n + size \in 1..Len(backlog) /\ n \in Nat /\ backlog[n + size] = hud.call
        BY <1>10, <1>16
      <3>2. m + size <= n + size
        BY <1>0, <3>1 DEF LastInv
      <3> QED BY <3>1, <3>2
    <2> QED BY <1>2, <2>1, <2>2 DEF LastInv
  \* What was about to be served has been.
  <1>19. AllImminent => AllImminent'
    <2> SUFFICES ASSUME AllImminent PROVE AllImminent'
      OBVIOUS
    <2>1. \A i \in Slots : ~HudIn(i)'
      BY <1>2, <1>9, <1>14 DEF AllImminent
    <2>2. \A n \in 1..Len(backlog') : ~HudAt(n)'
      BY <1>10, <1>16 DEF AllImminent
    <2> QED BY <2>1, <2>2 DEF AllImminent
  <1>20. TruthInv'
    <2>1. hud.doing = "status" => hud.call # 0
      BY <1>0 DEF CallInv
    <2> QED BY <1>0, <1>2, <1>6, <1>19, <2>1 DEF TruthInv
  <1>21. ClicksInv'
    <2>0. ~\E i \in Slots, n \in 1..Len(backlog) : ClickIn(i) /\ ClickAt(n)
      BY <1>0, <1>2 DEF ClicksInv
    <2>1. ASSUME NEW i \in Slots, ClickIn(i)'
          PROVE  \/ Keeps(i, dropped) /\ ClickIn(i)
                 \/ Seats(i, seated) /\ ClickAt(Place(i)) /\ i \in FreeSlots /\ Place(i) <= seated
                    /\ Place(i) \in 1..Len(backlog)
      BY <1>9, <1>14, <1>15, <2>1
    <2>2. ASSUME NEW n \in 1..Len(backlog'), ClickAt(n)'
          PROVE  ClickAt(n + size) /\ n + size \in 1..Len(backlog) /\ n \in Nat /\ n >= 1
      BY <1>10, <1>16, <2>2 DEF ClickAt
    <2>3. ASSUME NEW i \in Slots, NEW j \in Slots, ClickIn(i)', ClickIn(j)'
          PROVE  i = j
      <3>1. CASE ClickIn(i) /\ ClickIn(j)
        BY <1>0, <3>1 DEF ClicksInv
      <3>2. CASE /\ Seats(i, seated) /\ ClickAt(Place(i)) /\ i \in FreeSlots /\ Place(i) \in 1..Len(backlog)
                 /\ Seats(j, seated) /\ ClickAt(Place(j)) /\ j \in FreeSlots /\ Place(j) \in 1..Len(backlog)
        <4>1. Place(i) = Place(j) /\ Place(i) \in Int
          BY <1>0, <3>2 DEF ClicksInv
        <4>2. i \in Int /\ j \in Int
          BY DEF Slots
        <4> QED BY <3>2, <4>1, <4>2, PlacesInOrder
      <3> QED BY <2>0, <2>1, <2>3, <3>1, <3>2
    <2>4. ASSUME NEW m \in 1..Len(backlog'), NEW n \in 1..Len(backlog'), ClickAt(m)', ClickAt(n)'
          PROVE  m = n
      <3>1. m + size = n + size
        BY <1>0, <2>2, <2>4 DEF ClicksInv
      <3> QED BY <2>2, <2>4, <3>1
    <2>5. ASSUME NEW i \in Slots, NEW n \in 1..Len(backlog'), ClickIn(i)', ClickAt(n)'
          PROVE  FALSE
      <3>1. ClickAt(n + size) /\ n + size \in 1..Len(backlog) /\ n \in Nat /\ n >= 1
        BY <2>2, <2>5
      <3>2. Seats(i, seated) /\ ClickAt(Place(i)) /\ Place(i) <= seated /\ Place(i) \in 1..Len(backlog)
        BY <2>0, <2>1, <2>5, <3>1
      <3>3. Place(i) = n + size
        BY <1>0, <3>1, <3>2 DEF ClicksInv
      <3> QED BY <1>2, <3>1, <3>2, <3>3
    <2> QED BY <2>3, <2>4, <2>5 DEF ClicksInv
  <1> QED BY <1>6, <1>12, <1>13, <1>17, <1>18, <1>20, <1>21 DEF IInv

----------------------------------------------------------------------------

LEMMA Unchanged ==
    ASSUME IInv, UNCHANGED vars
    PROVE  IInv'
  <1>1. UNCHANGED <<conns, backlog, clients, turn, ready, quit, seat, fresh, hud>>
    BY DEF vars, serverVars, loopVars, seatVars
  <1>2. TypeInv /\ HeldInv /\ ServedInv /\ CallInv /\ LastInv /\ TruthInv /\ ClicksInv
    BY DEF IInv
  <1>3. TypeInv'
    BY <1>1, <1>2 DEF TypeInv
  <1>4. Opened' = Opened /\ \A c : Held(c)' <=> Held(c)
    BY <1>1 DEF Opened, Held
  <1>5. HeldInv'
    BY <1>1, <1>2, <1>4 DEF HeldInv, Used
  <1>6. ServedInv'
    BY <1>1, <1>2, <1>4 DEF ServedInv, HudIn, Used, Answered, Peer
  <1>7. CallInv'
    BY <1>1, <1>2, <1>4 DEF CallInv
  <1>8. LastInv'
    BY <1>1, <1>2 DEF LastInv, HudIn, HudAt, Used
  <1>9. TruthInv'
    BY <1>1, <1>2 DEF TruthInv, AllImminent, HudIn, HudAt, Used
  <1>10. ClicksInv'
    BY <1>1, <1>2 DEF ClicksInv, ClickIn, ClickAt, HudIn, HudAt, Used
  <1> QED BY <1>3, <1>5, <1>6, <1>7, <1>8, <1>9, <1>10 DEF IInv

LEMMA Begins == Init => IInv
  <1> SUFFICES ASSUME Init PROVE IInv
    OBVIOUS
  <1>1. /\ conns = [c \in Connections |-> Absent] /\ backlog = <<>> /\ clients = [i \in Slots |-> NoClient]
        /\ turn = "poll" /\ ready = {} /\ quit = FALSE /\ fresh = FALSE
        /\ seat \in {[created |-> b, paused |-> ~b] : b \in BOOLEAN}
        /\ hud = [known |-> FALSE, paused |-> FALSE, doing |-> "idle", call |-> 0]
    BY DEF Init, ServerInit
  <1>2. Opened = {} /\ Len(backlog) = 0 /\ \A i \in Slots : ~Used(i)
    BY <1>1 DEF Opened, Used, NoClient
  <1>3. TypeInv
    <2>1. NoClient \in ClientType
      BY DEF NoClient, ClientType, Replies
    <2>2. seat \in SeatType /\ (seat.paused \/ seat.created)
      <3>1. PICK b \in BOOLEAN : seat = [created |-> b, paused |-> ~b]
        BY <1>1
      <3>2. (~b) \in BOOLEAN /\ seat.created = b /\ seat.paused = ~b
        BY <3>1
      <3>3. seat \in SeatType
        BY <3>1, <3>2 DEF SeatType
      <3> QED BY <3>2, <3>3
    <2>3. hud \in HudType
      BY <1>1 DEF HudType
    <2>4. /\ conns \in [Connections -> ConnType \cup {Absent}]
          /\ clients \in [Slots -> ClientType] /\ backlog \in Seq(Connections)
      BY <1>1, <2>1
    <2>5. turn \in {"poll", "serve", "over"} /\ ready \subseteq Slots /\ quit \in BOOLEAN /\ fresh \in BOOLEAN
      BY <1>1
    <2> QED BY <2>2, <2>3, <2>4, <2>5 DEF TypeInv
  <1>4. \A n \in 1..Len(backlog) : FALSE
    BY <1>2
  <1>5. HeldInv
    BY <1>2, <1>4 DEF HeldInv
  <1>6. ServedInv
    BY <1>1, <1>2 DEF ServedInv, HudIn
  <1>7. CallInv /\ LastInv /\ TruthInv
    BY <1>1, <1>2 DEF CallInv, LastInv, TruthInv
  <1>8. ClicksInv
    BY <1>2, <1>4 DEF ClicksInv, ClickIn, HudIn
  <1> QED BY <1>3, <1>5, <1>6, <1>7, <1>8 DEF IInv

\* In every reachable state connections are in one place each; a request that the
\* HUD gave up is whole; the one it waits in is behind all others of the HUD when
\* it is accepted, and poll does not find it in a turn that leaves one of them
\* out; so when the HUD is told of the state, and while the button can be clicked,
\* any other is served in the same turn, and at most one click is ahead of the one
\* made then (native/agentseatd.c, run_server and client_read;
\* native/agentseat-eye.c, rpc_call, poll_state and control_clicked).
THEOREM HudInvariant == Spec => []IInv
  <1>1. Init => IInv
    BY Begins
  <1>2. IInv /\ [Next]_vars => IInv'
    <2> SUFFICES ASSUME IInv, [Next]_vars PROVE IInv'
      OBVIOUS
    <2>1. CASE Serve /\ UNCHANGED hud
      BY <2>1, DaemonServes
    <2>2. ASSUME NEW late, Turn(late) PROVE IInv'
      BY <2>2, DaemonEndsTurn DEF Turn
    <2>3. CASE Loop
      BY <2>1, <2>2, <2>3 DEF Loop
    <2>4. CASE Woken
      BY <2>4, PollReturns
    <2>5. CASE Break /\ UNCHANGED hud
      BY <2>5, DaemonBreaks
    <2>6. CASE Sending \/ OtherLeaves
      BY <2>6, PeersGoOn
    <2>7. CASE PollState \/ ControlClicked
      BY <2>7, HudCalls
    <2>8. CASE ClickReturns \/ StatusReturns \/ StatusFails
      BY <2>8, HudReturns
    <2>9. CASE OtherConnects
      BY <2>9, OthersConnect
    <2>10. CASE UNCHANGED vars
      BY <2>10, Unchanged
    <2> QED BY <2>3, <2>4, <2>5, <2>6, <2>7, <2>8, <2>9, <2>10 DEF Next
  <1> QED BY <1>1, <1>2, PTL DEF Spec

LEMMA TruthIsTold == IInv => ButtonTellsTheTruth
  <1> SUFFICES ASSUME IInv PROVE ButtonTellsTheTruth
    OBVIOUS
  <1>1. TypeInv /\ HeldInv /\ ServedInv /\ TruthInv
    BY DEF IInv
  <1>2. ServerTypeOK
    <2>1. \A c \in Opened : conns[c].peer = "hud" \/ Held(c)
      BY <1>1 DEF HeldInv
    <2>2. \A c \in Opened : conns[c].reply.kind \in {"none", "status", "other"}
      <3> SUFFICES ASSUME NEW c \in Opened PROVE conns[c].reply.kind \in {"none", "status", "other"}
        OBVIOUS
      <3>1. conns[c].reply \in Replies
        BY <1>1, OpenIsTyped DEF ConnType
      <3> QED BY <3>1 DEF Replies, Statuses, None
    <2>3. ToSet(backlog) \subseteq Opened
      BY <1>1 DEF ToSet, HeldInv, TypeInv
    <2>4. \A i \in Slots : clients[i].conn \in {0} \cup Opened
      BY <1>1 DEF HeldInv, Used
    <2> QED BY <1>1, <2>1, <2>2, <2>3, <2>4 DEF ServerTypeOK, TypeInv
  <1>3. ASSUME hud.doing = "idle" /\ hud.known /\ turn # "over", NEW c \in Opened, ClickUnderWay(c)
        PROVE  Imminent(c)
    <2>1. conns[c].peer = "hud" /\ Held(c)
      BY <1>3 DEF ClickUnderWay, Unheard
    <2>2. AllImminent
      BY <1>1, <1>3 DEF TruthInv
    <2>3. \A n \in 1..Len(backlog) : backlog[n] # c
      BY <2>1, <2>2 DEF AllImminent, HudAt
    <2>4. PICK i \in Slots : clients[i].conn = c
      BY <1>1, <2>1, <2>3, HeldIsHeld
    <2>5. HudIn(i)
      BY <1>1, <2>1, <2>4, OpenIsTyped DEF HudIn, Used
    <2> QED BY <1>1, <2>2, <2>4, <2>5 DEF AllImminent, ServedInv, Peer, Imminent
  <1> QED BY <1>1, <1>2, <1>3 DEF ButtonTellsTheTruth, TruthInv

\* When the button of the HUD can be clicked, a click that it gave up is carried
\* out before this turn of the daemon ends, if ever, and the button shows whether
\* the seat is paused unless such a click or somebody else changed that since:
\* however many slots there are and connections come, whoever takes the others,
\* and however late the daemon is (native/agentseat-eye.c, control_clicked and
\* poll_state; native/agentseatd.c, run_server).
THEOREM ButtonIsTrue == Spec => []ButtonTellsTheTruth
  BY HudInvariant, TruthIsTold, PTL

\* Where a click that is under way waits.
LEMMA ClickIsSomewhere ==
    ASSUME IInv, NEW c \in Opened, ClickUnderWay(c)
    PROVE  \/ \E i \in Slots : clients[i].conn = c /\ ClickIn(i)
           \/ \E n \in 1..Len(backlog) : backlog[n] = c /\ ClickAt(n)
  <1>1. TypeInv /\ Held(c) /\ c # 0
    BY OpenIsTyped DEF IInv, ClickUnderWay, Unheard
  <1> QED BY <1>1, HeldIsHeld DEF ClickUnderWay, ClickIn, ClickAt, HudIn, HudAt, Used

LEMMA OneIsImminent ==
    ASSUME IInv, NEW c \in Opened, NEW d \in Opened, NEW i \in Slots, NEW n \in 1..Len(backlog),
           clients[i].conn = c, ClickIn(i), backlog[n] = d, ClickAt(n)
    PROVE  Imminent(c) /\ d \in ToSet(backlog)
  <1>1. TypeInv /\ ServedInv /\ ClicksInv
    BY DEF IInv
  <1>2. turn = "serve" /\ i \in ready /\ HudIn(i)
    BY <1>1 DEF ClicksInv, ClickIn
  <1>3. d \in ToSet(backlog)
    BY <1>1 DEF ToSet, TypeInv
  <1> QED BY <1>1, <1>2, <1>3 DEF ServedInv, Peer, Imminent

LEMMA TakenInOrder == IInv => ClicksInOrder
  <1> SUFFICES ASSUME IInv, NEW c \in Opened, NEW d \in Opened, ClickUnderWay(c), ClickUnderWay(d), c # d
               PROVE  \/ Imminent(c) /\ d \in ToSet(backlog)
                      \/ Imminent(d) /\ c \in ToSet(backlog)
    BY DEF ClicksInOrder
  <1>1. ClicksInv
    BY DEF IInv
  <1>2. /\ \/ \E i \in Slots : clients[i].conn = c /\ ClickIn(i)
           \/ \E n \in 1..Len(backlog) : backlog[n] = c /\ ClickAt(n)
        /\ \/ \E i \in Slots : clients[i].conn = d /\ ClickIn(i)
           \/ \E n \in 1..Len(backlog) : backlog[n] = d /\ ClickAt(n)
    BY ClickIsSomewhere
  <1>3. CASE /\ \E i \in Slots : clients[i].conn = c /\ ClickIn(i)
             /\ \E n \in 1..Len(backlog) : backlog[n] = d /\ ClickAt(n)
    BY <1>3, OneIsImminent
  <1>4. CASE /\ \E i \in Slots : clients[i].conn = d /\ ClickIn(i)
             /\ \E n \in 1..Len(backlog) : backlog[n] = c /\ ClickAt(n)
    BY <1>4, OneIsImminent
  <1> QED BY <1>1, <1>2, <1>3, <1>4 DEF ClicksInv

\* Clicks take effect in the order they were made: of two that are under way one
\* is carried out in this turn and the other not accepted yet, however many slots
\* there are, whichever of them are free and however many connections a turn
\* accepts (native/agentseat-eye.c, control_clicked; native/agentseatd.c,
\* run_server).
THEOREM ClicksAreInOrder == Spec => []ClicksInOrder
  BY HudInvariant, TakenInOrder, PTL

=============================================================================
