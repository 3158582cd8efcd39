------------------------- MODULE ControlGate_proofs -------------------------
(***************************************************************************)
(* Theorems about ControlGate, for every set of controllers, every width   *)
(* of the epoch and every bound.                                           *)
(*                                                                         *)
(* TypeOK and LinkInv are inductive by themselves.  They are then used as  *)
(* known invariants in the induction of PauseInv, which gives              *)
(* PauseAckSound, of KnowledgeInv, which gives NoStaleGrant, of Told,      *)
(* which with these two gives ViewsAgreeAtRest, and of LeaseInv, which     *)
(* gives HoldsImplyGate, DeliveryAuthorized and PermissionNotInherited.    *)
(***************************************************************************)
EXTENDS ControlGate, TLAPS

----------------------------------------------------------------------------
(* What ties the two ends of the connection together.                      *)

LinkInv ==
    /\ running => owned
    /\ ~owned => toComp = <<>> /\ ~allowed
    /\ ~running => toDaemon = <<>> /\ typing = 0 /\ ~pressed

----------------------------------------------------------------------------
(* Why a heartbeat may acknowledge a pause: epochs on their way to the      *)
(* compositor never exceed the daemon's, and a pause leaves them all behind. *)

AcquiresUpTo(q, e) ==
    \A i \in 1..Len(q) : q[i].kind = "acquire" => q[i].epoch <= e

EventsUpTo(q, e) == \A i \in 1..Len(q) : q[i].epoch <= e

\* The newest epoch the daemon can have asked for.
Ceiling == IF created /\ paused THEN controlEpoch - 1 ELSE controlEpoch

PauseInv ==
    running =>
        /\ seen.epoch <= epoch
        /\ EventsUpTo(toDaemon, epoch)
        /\ phase # "poll" => seen.epoch <= controlEpoch
        /\ AcquiresUpTo(toComp, Ceiling)
        /\ allowed => epoch <= Ceiling

----------------------------------------------------------------------------
(* Why no request queued before a takeover reopens the gate after it.       *)

\* How far a request moves the count of revocations.
Weight(m) == IF m.kind = "revoke" THEN 1 ELSE 0

\* The stamp of the i-th request, or of the next one to be sent.
StampAt(q, s, i) == IF i <= Len(q) THEN q[i].stamp ELSE s

\* The stamps in the queue count the revocations from those done to those sent.
Stamps(q, d, s) ==
    /\ d <= s
    /\ StampAt(q, s, 1) = d
    /\ \A i \in 1..Len(q) :
        /\ StampAt(q, s, i + 1) = StampAt(q, s, i) + Weight(q[i])
        /\ q[i].stamp + Weight(q[i]) <= s

\* An epoch e, known when k takeovers were known, lies behind the compositor's
\* epoch c by at least the takeovers t that happened since, once the
\* revocations still to come (x of them) are counted in.  An epoch that
\* stopped counting proves nothing.
Behind(e, k, c, t, x) == c < EpochMax => e + (t - k) <= c + x

Claims(q, c, t, d) ==
    \A i \in 1..Len(q) :
        /\ q[i].known <= t
        /\ q[i].kind = "acquire" =>
            Behind(q[i].epoch, q[i].known, c, t, q[i].stamp - d)

Heard(s, c, t) == s.known <= t /\ Behind(s.epoch, s.known, c, t, 0)

Reports(s, q, c, t) ==
    /\ Heard(s, c, t)
    /\ \A i \in 1..Len(q) : Heard(q[i], c, t) /\ s.known <= q[i].known
    /\ \A i, j \in 1..Len(q) : i <= j => q[i].known <= q[j].known

QueueInv(q, c, t, d, s) == Stamps(q, d, s) /\ Claims(q, c, t, d)

KnowledgeInv ==
    /\ NoStaleGrant
    /\ QueueInv(toComp, epoch, takeovers, revsDone, revsSent)
    /\ running =>
        /\ Reports(seen, toDaemon, epoch, takeovers)
        /\ Behind(controlEpoch, seen.known, epoch, takeovers, revsSent - revsDone)

----------------------------------------------------------------------------
(* Types.                                                                  *)

USE NoWriterAssumption, EpochAssumption, BoundsAssumption

\* The wire never enlarges an epoch.
LEMMA WireBound ==
    ASSUME NEW e \in Nat
    PROVE  Wire(e) \in Nat /\ Wire(e) <= e
<1> DEFINE n == EpochMax + 1
<1>1. n \in Nat /\ n > 0
  OBVIOUS
<1>2. e % n \in 0..(n - 1) /\ e = n * (e \div n) + (e % n) /\ e \div n \in Int
  BY <1>1
<1> HIDE DEF n
<1>3. n * (e \div n) >= 0
  <2>1. CASE e \div n >= 0
    BY <2>1, <1>1, <1>2
  <2>2. CASE e \div n <= -1
    <3> DEFINE k == e \div n
    <3>1. n * k <= -n
      <4> HIDE DEF k
      <4>1. k \in Int /\ k <= -1
        BY <2>2, <1>2 DEF k
      <4> QED BY <4>1, <1>1
    <3> QED BY <3>1, <1>1, <1>2
  <2> QED BY <2>1, <2>2, <1>2
<1> QED BY <1>1, <1>2, <1>3 DEF Wire, n

\* What the daemon puts on the wire are requests.
LEMMA Stability ==
    /\ CompTypes /\ UNCHANGED compVars => CompTypes'
    /\ LinkTypes /\ UNCHANGED <<toComp, toDaemon>> => LinkTypes'
    /\ SeatTypes /\ UNCHANGED seatVars => SeatTypes'
    /\ LeaseTypes /\ UNCHANGED leaseVars => LeaseTypes'
    /\ DaemonTypes /\ UNCHANGED daemonVars => DaemonTypes'
    /\ GhostTypes /\ UNCHANGED ghostVars => GhostTypes'
<1>1. CompTypes /\ UNCHANGED compVars => CompTypes'
  BY DEF CompTypes, compVars
<1>2. LinkTypes /\ UNCHANGED <<toComp, toDaemon>> => LinkTypes'
  BY DEF LinkTypes
<1>3. SeatTypes /\ UNCHANGED seatVars => SeatTypes'
  BY DEF SeatTypes, seatVars
<1>4. LeaseTypes /\ UNCHANGED leaseVars => LeaseTypes'
  BY DEF LeaseTypes, leaseVars
<1>5. DaemonTypes /\ UNCHANGED daemonVars => DaemonTypes'
  BY DEF DaemonTypes, SeatTypes, LeaseTypes, daemonVars
<1>6. GhostTypes /\ UNCHANGED ghostVars => GhostTypes'
  BY DEF GhostTypes, ghostVars
<1> QED BY <1>1, <1>2, <1>3, <1>4, <1>5, <1>6

\* What the daemon puts on the wire are requests.
LEMMA RequestTypes ==
    ASSUME TypeOK, NEW e \in Nat, NEW r \in Nat, NEW k \in Kinds
    PROVE  Request(k, e, r) \in RequestType
BY DEF TypeOK, DaemonTypes, LeaseTypes, Request, RequestType, StateType, CurrentLease

LEMMA QueueTypes ==
    ASSUME TypeOK, NEW q \in Seq(RequestType), NEW e \in Nat, NEW r \in Nat
    PROVE  /\ AcquireGate(q, e) \in Seq(RequestType)
           /\ PressEvent(q) \in Seq(RequestType)
           /\ ReleaseEvent(q, r) \in Seq(RequestType)
           /\ RevokeRequest(q, r) \in Seq(RequestType)
           /\ ReleaseAll(q, r) \in Seq(RequestType)
<1>1. \A k \in Kinds, f, s \in Nat : Request(k, f, s) \in RequestType
  BY RequestTypes
<1>2. revsSent \in Nat
  BY DEF TypeOK, GhostTypes
<1> QED
  BY <1>1, <1>2 DEF AcquireGate, PressEvent, ReleaseEvent, RevokeRequest, ReleaseAll, Kinds

LEMMA RevokedType == TypeOK => Revoked \in Seq(RequestType)
<1> SUFFICES ASSUME TypeOK
             PROVE  Revoked \in Seq(RequestType)
  OBVIOUS
<1>1. toComp \in Seq(RequestType) /\ revsSent \in Nat /\ revsSent + 1 \in Nat
  BY DEF TypeOK, LinkTypes, GhostTypes
<1>2. RevokeRequest(toComp, revsSent) \in Seq(RequestType)
  BY <1>1, QueueTypes
<1> QED BY <1>1, <1>2, QueueTypes DEF Revoked

\* The pieces that the actions are made of.
LEMMA SendStateTypes ==
    ASSUME TypeOK, CompTypes', takeovers' \in Nat, NEW held \in BOOLEAN, SendState(held)
    PROVE  toDaemon' \in Seq(StateType)
<1> DEFINE e == [epoch |-> epoch', allowed |-> allowed', quiet |-> quiet',
                 held |-> held, known |-> takeovers']
<1>1. e \in StateType
  BY DEF StateType, CompTypes
<1>2. toDaemon' = Append(toDaemon, e) \/ toDaemon' = toDaemon
  BY DEF SendState
<1> HIDE DEF e
<1> QED BY <1>1, <1>2 DEF TypeOK, LinkTypes

LEMMA ControlRevokeTypes ==
    ASSUME TypeOK, ControlRevoke
    PROVE  /\ epoch' \in 1..EpochMax
           /\ allowed' \in BOOLEAN
           /\ virtualHeld' \in BOOLEAN
           /\ grant' \in [known : Nat, lease : Nat]
<1>1. epoch' \in 1..EpochMax
  BY DEF TypeOK, CompTypes, ControlRevoke, Bump
<1>2. grant' \in [known : Nat, lease : Nat]
  BY DEF ControlRevoke, NoGrant
<1> QED BY <1>1, <1>2 DEF ControlRevoke

LEMMA DropWriterTypes ==
    ASSUME TypeOK, DropWriter
    PROVE  /\ writer' \in Controllers \cup {NoWriter}
           /\ leaseLive' \in BOOLEAN
           /\ typing' \in Nat
           /\ pressed' \in BOOLEAN
BY DEF DropWriter

LEMMA RevokeInputTypes ==
    ASSUME TypeOK, RevokeInput, SeatTypes', phase' \in {"top", "poll", "serve"}
    PROVE  TypeOK'
<1>1. CompTypes'
  BY Stability DEF TypeOK, RevokeInput
<1>2. LinkTypes'
  BY RevokedType DEF TypeOK, LinkTypes, RevokeInput
<1>3. LeaseTypes' /\ typing' \in Nat /\ pressed' \in BOOLEAN
  BY DropWriterTypes DEF TypeOK, DaemonTypes, LeaseTypes, RevokeInput
<1>4. DaemonTypes'
  BY <1>3 DEF TypeOK, DaemonTypes, RevokeInput
<1>5. GhostTypes'
  BY DEF TypeOK, GhostTypes, RevokeInput
<1> QED BY <1>1, <1>2, <1>4, <1>5 DEF TypeOK

LEMMA QueueHead ==
    ASSUME TypeOK, toComp # <<>>
    PROVE  Head(toComp) \in RequestType /\ Tail(toComp) \in Seq(RequestType)
BY DEF TypeOK, LinkTypes

LEMMA CompositorTypes == TypeOK /\ Compositor => TypeOK'
<1> SUFFICES ASSUME TypeOK, Compositor
             PROVE  TypeOK'
  OBVIOUS
<1> USE DEF TypeOK
<1>1. CASE ProcessAcquire
  <2>1. toComp # <<>> /\ toComp' = Tail(toComp)
    BY <1>1 DEF ProcessAcquire, Pending
  <2>2. CompTypes'
    BY <1>1 DEF ProcessAcquire, Granted, CompTypes
  <2>3. GhostTypes'
    BY <1>1, <2>1, QueueHead DEF ProcessAcquire, GhostTypes, RequestType, NoGrant
  <2>4. LinkTypes'
    <3>1. takeovers' \in Nat /\ humanHeld \in BOOLEAN
      BY <2>3 DEF GhostTypes, CompTypes
    <3>2. SendState(humanHeld) \/ UNCHANGED toDaemon
      BY <1>1 DEF ProcessAcquire
    <3> QED BY <2>1, <2>2, <3>1, <3>2, QueueHead, SendStateTypes DEF LinkTypes
  <2>5. DaemonTypes'
    BY <1>1, Stability DEF ProcessAcquire
  <2> QED BY <2>2, <2>3, <2>4, <2>5
<1>2. CASE ProcessStaleAcquire
  <2>1. toComp # <<>> /\ toComp' = Tail(toComp)
    BY <1>2 DEF ProcessStaleAcquire, Pending
  <2>2. CompTypes' /\ GhostTypes'
    BY <1>2, ControlRevokeTypes DEF ProcessStaleAcquire, CompTypes, GhostTypes
  <2>3. LinkTypes'
    <3>1. takeovers' \in Nat /\ humanHeld \in BOOLEAN
      BY <2>2 DEF GhostTypes, CompTypes
    <3> QED BY <1>2, <2>1, <2>2, <3>1, QueueHead, SendStateTypes
        DEF LinkTypes, ProcessStaleAcquire
  <2>4. DaemonTypes'
    BY <1>2, Stability DEF ProcessStaleAcquire
  <2> QED BY <2>2, <2>3, <2>4
<1>3. CASE ProcessRevoke
  <2>1. toComp # <<>> /\ toComp' = Tail(toComp)
    BY <1>3 DEF ProcessRevoke, Pending
  <2>2. CompTypes' /\ GhostTypes'
    BY <1>3, ControlRevokeTypes DEF ProcessRevoke, CompTypes, GhostTypes
  <2>3. LinkTypes'
    <3>1. takeovers' \in Nat /\ humanHeld \in BOOLEAN
      BY <2>2 DEF GhostTypes, CompTypes
    <3> QED BY <1>3, <2>1, <2>2, <3>1, QueueHead, SendStateTypes
        DEF LinkTypes, ProcessRevoke
  <2>4. DaemonTypes'
    BY <1>3, Stability DEF ProcessRevoke
  <2> QED BY <2>2, <2>3, <2>4
<1>4. CASE ProcessPress \/ ProcessRelease
  <2>1. toComp # <<>> /\ toComp' = Tail(toComp) /\ UNCHANGED toDaemon
    BY <1>4 DEF ProcessPress, ProcessRelease, Pending
  <2>2. virtualHeld' \in BOOLEAN
    BY <1>4 DEF ProcessPress, ProcessRelease
  <2>3. CompTypes'
    BY <1>4, <2>2 DEF ProcessPress, ProcessRelease, CompTypes
  <2>4. LinkTypes'
    BY <2>1, QueueHead DEF LinkTypes
  <2>5. DaemonTypes' /\ GhostTypes'
    BY <1>4, Stability DEF ProcessPress, ProcessRelease
  <2> QED BY <2>3, <2>4, <2>5
<1>5. CASE Human
  <2>1. CASE HumanUnplug
    <3>1. CompTypes'
      BY <2>1 DEF HumanUnplug, CompTypes
    <3> QED BY <2>1, <3>1, Stability DEF HumanUnplug
  <2>2. ASSUME NEW held \in BOOLEAN, humanHeld' \in BOOLEAN, ReportHumanActivity(held)
        PROVE  TypeOK'
    <3>1. CASE Takeover
      <4>1. ControlRevoke /\ takeovers' = takeovers + 1 /\ SendState(held)
        BY <2>2, <3>1 DEF ReportHumanActivity
      <4>2. CompTypes' /\ GhostTypes'
        <5>1. CompTypes'
          BY <2>2, <4>1, ControlRevokeTypes DEF ReportHumanActivity, CompTypes
        <5>2. GhostTypes'
          BY <2>2, <4>1, ControlRevokeTypes DEF ReportHumanActivity, GhostTypes
        <5> QED BY <5>1, <5>2
      <4>3. LinkTypes'
        <5>1. takeovers' \in Nat
          BY <4>2 DEF GhostTypes
        <5> QED BY <2>2, <4>1, <4>2, <5>1, SendStateTypes DEF ReportHumanActivity, LinkTypes
      <4>4. DaemonTypes'
        BY <2>2, Stability DEF ReportHumanActivity
      <4> QED BY <4>2, <4>3, <4>4
    <3>2. CASE ~Takeover
      <4>1. CompTypes' /\ GhostTypes'
        BY <2>2, <3>2 DEF ReportHumanActivity, CompTypes, GhostTypes
      <4>2. LinkTypes'
        <5>1. takeovers' \in Nat
          BY <4>1 DEF GhostTypes
        <5> QED BY <2>2, <4>1, <5>1, SendStateTypes DEF ReportHumanActivity, LinkTypes
      <4>3. DaemonTypes'
        BY <2>2, Stability DEF ReportHumanActivity
      <4> QED BY <4>1, <4>2, <4>3
    <3> QED BY <3>1, <3>2
  <2>3. humanHeld \in BOOLEAN
    BY DEF CompTypes
  <2>4. CASE HumanKey
    BY <2>2, <2>4 DEF HumanKey
  <2>5. CASE HumanTouch
    BY <2>2, <2>3, <2>5 DEF HumanTouch
  <2>6. CASE HumanWheel
    BY <2>2, <2>3, <2>6 DEF HumanWheel
  <2> QED BY <1>5, <2>1, <2>4, <2>5, <2>6 DEF Human
<1>6. CASE HoldTimeoutExpired
  <2>1. CompTypes' /\ GhostTypes'
    BY <1>6, ControlRevokeTypes DEF HoldTimeoutExpired, CompTypes, GhostTypes
  <2>2. LinkTypes'
    <3>1. takeovers' \in Nat /\ humanHeld \in BOOLEAN
      BY <2>1 DEF GhostTypes, CompTypes
    <3> QED BY <1>6, <2>1, <3>1, SendStateTypes DEF HoldTimeoutExpired, LinkTypes
  <2>3. DaemonTypes'
    BY <1>6, Stability DEF HoldTimeoutExpired
  <2> QED BY <2>1, <2>2, <2>3
<1>7. CASE QuietElapses
  <2>1. CompTypes'
    BY <1>7 DEF QuietElapses, CompTypes
  <2> QED BY <1>7, <2>1, Stability DEF QuietElapses
<1>8. CASE ControlQuietTimer
  <2>1. CompTypes' /\ GhostTypes'
    BY <1>8 DEF ControlQuietTimer, CompTypes, GhostTypes, ghostVars
  <2>2. LinkTypes'
    <3>1. takeovers' \in Nat /\ humanHeld \in BOOLEAN
      BY <2>1 DEF GhostTypes, CompTypes
    <3> QED BY <1>8, <2>1, <3>1, SendStateTypes DEF ControlQuietTimer, LinkTypes
  <2>3. DaemonTypes'
    BY <1>8, Stability DEF ControlQuietTimer
  <2> QED BY <2>1, <2>2, <2>3
<1>9. CASE ControlResourceDestroy
  <2>1. CompTypes' /\ GhostTypes'
    <3>1. CompTypes'
      BY <1>9, ControlRevokeTypes DEF ControlResourceDestroy, CompTypes
    <3>2. GhostTypes'
      BY <1>9, ControlRevokeTypes DEF ControlResourceDestroy, GhostTypes
    <3> QED BY <3>1, <3>2
  <2>2. LinkTypes'
    BY <1>9 DEF ControlResourceDestroy, LinkTypes
  <2>3. DaemonTypes'
    BY <1>9, Stability DEF ControlResourceDestroy
  <2> QED BY <2>1, <2>2, <2>3
<1> QED
  BY <1>1, <1>2, <1>3, <1>4, <1>5, <1>6, <1>7, <1>8, <1>9 DEF Compositor, ProcessRequest

LEMMA SentTypes ==
    ASSUME TypeOK, InputSent, toComp' \in Seq(RequestType), pressed' \in BOOLEAN
    PROVE  TypeOK'
<1>1. CompTypes' /\ GhostTypes' /\ SeatTypes' /\ LeaseTypes'
  BY Stability DEF InputSent, TypeOK, DaemonTypes
<1>2. LinkTypes'
  BY DEF InputSent, TypeOK, LinkTypes
<1>3. DaemonTypes'
  BY <1>1 DEF InputSent, TypeOK, DaemonTypes
<1> QED BY <1>1, <1>2, <1>3 DEF TypeOK

LEMMA DaemonNumbers ==
    TypeOK => /\ controlEpoch \in Nat /\ typing \in Nat /\ seen.epoch \in Nat
              /\ Wire(controlEpoch) \in Nat /\ Wire(typing) \in Nat
<1> SUFFICES ASSUME TypeOK
             PROVE  /\ controlEpoch \in Nat /\ typing \in Nat /\ seen.epoch \in Nat
                    /\ Wire(controlEpoch) \in Nat /\ Wire(typing) \in Nat
  OBVIOUS
<1>1. controlEpoch \in Nat /\ typing \in Nat
  BY DEF TypeOK, DaemonTypes
<1>2. seen.epoch \in Nat
  BY DEF TypeOK, DaemonTypes, StateType
<1> QED BY <1>1, <1>2, WireBound

LEMMA ServeTypes == TypeOK /\ Serve => TypeOK'
<1> SUFFICES ASSUME TypeOK, Serve
             PROVE  TypeOK'
  OBVIOUS
<1> USE DEF TypeOK
<1>types. /\ toComp \in Seq(RequestType) /\ revsSent \in Nat /\ revsSent + 1 \in Nat
          /\ controlEpoch \in Nat /\ seen.epoch \in Nat /\ Wire(controlEpoch) \in Nat
  BY DaemonNumbers DEF LinkTypes, GhostTypes
<1>phase. phase \in {"top", "poll", "serve"} /\ SeatTypes
  BY DEF DaemonTypes
<1>1. ASSUME NEW c \in Controllers, AcquireControl(c)
      PROVE  TypeOK'
  <2>1. LeaseTypes'
    BY <1>1 DEF AcquireControl, DaemonTypes, LeaseTypes
  <2>2. CompTypes' /\ LinkTypes' /\ SeatTypes' /\ GhostTypes'
    BY <1>1, <1>phase, Stability DEF AcquireControl
  <2>3. DaemonTypes'
    BY <1>1, <2>1, <2>2 DEF AcquireControl, DaemonTypes
  <2> QED BY <2>2, <2>3
<1>2. ASSUME NEW c \in Controllers, ReleaseControl(c)
      PROVE  TypeOK'
  BY <1>2, <1>phase, Stability, RevokeInputTypes DEF ReleaseControl
<1>3. ASSUME NEW c \in Controllers, SendMotion(c)
      PROVE  TypeOK'
  <2>1. toComp' \in Seq(RequestType)
    BY <1>3, <1>types, QueueTypes DEF SendMotion
  <2>2. pressed' \in BOOLEAN
    BY <1>3 DEF SendMotion, DaemonTypes
  <2> QED BY <1>3, <2>1, <2>2, SentTypes DEF SendMotion
<1>4. ASSUME NEW c \in Controllers, SendPress(c)
      PROVE  TypeOK'
  <2>1. AcquireGate(toComp, Wire(controlEpoch)) \in Seq(RequestType)
    BY <1>types, QueueTypes
  <2>2. toComp' \in Seq(RequestType)
    BY <1>4, <1>types, <2>1, QueueTypes DEF SendPress
  <2>3. pressed' \in BOOLEAN
    BY <1>4 DEF SendPress
  <2> QED BY <1>4, <2>2, <2>3, SentTypes DEF SendPress
<1>5. ASSUME NEW c \in Controllers, SendRelease(c)
      PROVE  TypeOK'
  <2>1. AcquireGate(toComp, Wire(controlEpoch)) \in Seq(RequestType)
    BY <1>types, QueueTypes
  <2>2. toComp' \in Seq(RequestType)
    BY <1>5, <1>types, <2>1, QueueTypes DEF SendRelease
  <2>3. pressed' \in BOOLEAN
    BY <1>5 DEF SendRelease
  <2> QED BY <1>5, <2>2, <2>3, SentTypes DEF SendRelease
<1>6. ASSUME NEW c \in Controllers, SendClick(c)
      PROVE  TypeOK'
  <2> DEFINE Ask(q) == AcquireGate(q, Wire(controlEpoch))
             down == IF pressed THEN Ask(toComp) ELSE PressEvent(Ask(toComp))
  <2>1. Ask(toComp) \in Seq(RequestType)
    BY <1>types, QueueTypes
  <2>2. down \in Seq(RequestType)
    BY <2>1, QueueTypes
  <2>3. Ask(down) \in Seq(RequestType)
    <3> HIDE DEF down
    <3> QED BY <2>2, <1>types, QueueTypes
  <2>4. toComp' = ReleaseEvent(Ask(down), revsSent)
    BY <1>6 DEF SendClick
  <2>5. toComp' \in Seq(RequestType)
    <3> HIDE DEF down, Ask
    <3> QED BY <2>3, <2>4, <1>types, QueueTypes
  <2>6. pressed' \in BOOLEAN
    BY <1>6 DEF SendClick
  <2> QED BY <1>6, <2>5, <2>6, SentTypes DEF SendClick
<1>7. ASSUME NEW c \in Controllers, StartTyping(c)
      PROVE  TypeOK'
  <2>1. CompTypes' /\ GhostTypes' /\ SeatTypes' /\ LeaseTypes' /\ LinkTypes'
    BY <1>7, Stability DEF StartTyping, DaemonTypes
  <2>2. DaemonTypes'
    BY <1>7, <2>1 DEF StartTyping, DaemonTypes
  <2> QED BY <2>1, <2>2
<1>8. CASE CancelOperation \/ ReleaseWindow
  BY <1>8, <1>phase, Stability, RevokeInputTypes DEF CancelOperation, ReleaseWindow
<1>9. CASE Pause
  <2>1. SeatTypes'
    BY <1>9, <1>phase DEF Pause, SeatTypes
  <2> QED BY <1>9, <1>phase, <2>1, RevokeInputTypes DEF Pause
<1>10. CASE Resume
  <2>1. SeatTypes'
    BY <1>10, <1>phase DEF Resume, SeatTypes
  <2>2. CompTypes' /\ GhostTypes' /\ LeaseTypes' /\ LinkTypes'
    BY <1>10, Stability DEF Resume, DaemonTypes
  <2>3. DaemonTypes'
    BY <1>10, <2>1, <2>2 DEF Resume, DaemonTypes
  <2> QED BY <2>2, <2>3
<1>11. CASE CreateSeat
  <2>1. SeatTypes'
    BY <1>11, <1>phase DEF CreateSeat, SeatTypes
  <2>2. CompTypes' /\ GhostTypes' /\ LeaseTypes'
    BY <1>11, Stability DEF CreateSeat, DaemonTypes
  <2>3. LinkTypes'
    BY <1>11, <1>types, QueueTypes DEF CreateSeat, LinkTypes
  <2>4. DaemonTypes'
    BY <1>11, <2>1, <2>2 DEF CreateSeat, DaemonTypes
  <2> QED BY <2>2, <2>3, <2>4
<1>12. CASE DestroySeat
  <2>1. SeatTypes'
    BY <1>12, <1>phase DEF DestroySeat, SeatTypes
  <2>2. CompTypes'
    BY <1>12, Stability DEF DestroySeat
  <2>3. LinkTypes'
    BY <1>12, <1>types, RevokedType, QueueTypes DEF DestroySeat, LinkTypes
  <2>4. LeaseTypes' /\ typing' \in Nat /\ pressed' \in BOOLEAN
    BY <1>12, DropWriterTypes DEF DestroySeat, DaemonTypes, LeaseTypes
  <2>5. DaemonTypes'
    BY <1>12, <2>1, <2>4 DEF DestroySeat, DaemonTypes
  <2>6. GhostTypes'
    BY <1>12 DEF DestroySeat, GhostTypes
  <2> QED BY <2>2, <2>3, <2>5, <2>6
<1>13. CASE Shutdown
  <2>1. SeatTypes' /\ pressed' \in BOOLEAN
    BY <1>13, <1>phase DEF Shutdown, SeatTypes, DaemonTypes
  <2>2. CompTypes' /\ LeaseTypes'
    BY <1>13, Stability DEF Shutdown, DaemonTypes
  <2>3. LinkTypes'
    BY <1>13, <1>types, RevokedType DEF Shutdown, SeatDestroyed, LinkTypes
  <2>4. DaemonTypes'
    BY <1>13, <2>1, <2>2 DEF Shutdown, DaemonTypes
  <2>5. GhostTypes'
    BY <1>13 DEF Shutdown, SeatDestroyed, GhostTypes
  <2> QED BY <2>2, <2>3, <2>4, <2>5
<1> QED
  BY <1>1, <1>2, <1>3, <1>4, <1>5, <1>6, <1>7, <1>8, <1>9, <1>10, <1>11, <1>12, <1>13
  DEF Serve

LEMMA TurnTypes ==
    ASSUME TypeOK, EndTurn, toComp' \in Seq(RequestType), typing' \in Nat, pressed' \in BOOLEAN
    PROVE  TypeOK'
<1>1. CompTypes' /\ GhostTypes' /\ SeatTypes' /\ LeaseTypes'
  BY Stability DEF EndTurn, TypeOK, DaemonTypes
<1>2. LinkTypes'
  BY DEF EndTurn, TypeOK, LinkTypes
<1>3. DaemonTypes'
  BY <1>1 DEF EndTurn, TypeOK, DaemonTypes
<1> QED BY <1>1, <1>2, <1>3 DEF TypeOK

LEMMA GoneTypes ==
    ASSUME TypeOK, DaemonGone, toComp' \in Seq(RequestType), revsSent' \in Nat
    PROVE  TypeOK'
<1>1. CompTypes'
  BY Stability DEF DaemonGone, TypeOK
<1>2. LinkTypes'
  BY DEF DaemonGone, LinkTypes
<1>3. SeatTypes' /\ LeaseTypes'
  BY DEF DaemonGone, SeatTypes, LeaseTypes
<1>4. seen' \in StateType
  BY DEF DaemonGone, NothingSeen, StateType
<1>5. running' \in BOOLEAN /\ phase' \in {"top", "poll", "serve"} /\ pressed' \in BOOLEAN
  BY DEF DaemonGone
<1>6. controlEpoch' \in Nat /\ typing' \in Nat
  BY DEF DaemonGone
<1>7. GhostTypes'
  BY DEF DaemonGone, TypeOK, GhostTypes
<1> QED BY <1>1, <1>2, <1>3, <1>4, <1>5, <1>6, <1>7 DEF TypeOK, DaemonTypes

LEMMA LoopTypes == TypeOK /\ Daemon /\ ~Serve => TypeOK'
<1> SUFFICES ASSUME TypeOK, Daemon, ~Serve
             PROVE  TypeOK'
  OBVIOUS
<1> USE DEF TypeOK
<1>types. /\ toComp \in Seq(RequestType) /\ revsSent \in Nat /\ revsSent + 1 \in Nat
          /\ controlEpoch \in Nat /\ typing \in Nat /\ seen.epoch \in Nat
          /\ Wire(typing) \in Nat
  BY DaemonNumbers DEF LinkTypes, GhostTypes
<1>1. CASE ExpireWriter
  <2>1. CASE writer # NoWriter /\ ~leaseLive
    <3>1. RevokeInput /\ UNCHANGED seatVars /\ phase' = "poll"
      BY <1>1, <2>1 DEF ExpireWriter
    <3> QED BY <3>1, Stability, RevokeInputTypes DEF DaemonTypes
  <2>2. CASE ~(writer # NoWriter /\ ~leaseLive)
    <3>1. CompTypes' /\ GhostTypes' /\ SeatTypes' /\ LeaseTypes' /\ LinkTypes'
      BY <1>1, <2>2, Stability DEF ExpireWriter, DaemonTypes
    <3>2. DaemonTypes'
      BY <1>1, <2>2, <3>1 DEF ExpireWriter, DaemonTypes
    <3> QED BY <3>1, <3>2
  <2> QED BY <2>1, <2>2
<1>2. CASE ControlState
  <2>1. CompTypes' /\ GhostTypes' /\ SeatTypes' /\ LeaseTypes'
    BY <1>2, Stability DEF ControlState, DaemonTypes
  <2>2. LinkTypes' /\ seen' \in StateType
    BY <1>2 DEF ControlState, LinkTypes
  <2>3. DaemonTypes'
    BY <1>2, <2>1, <2>2 DEF ControlState, DaemonTypes
  <2> QED BY <2>1, <2>2, <2>3
<1>3. CASE SyncControlState
  <2>1. CompTypes' /\ GhostTypes' /\ SeatTypes'
    BY <1>3, Stability DEF SyncControlState, DaemonTypes
  <2>2. LinkTypes'
    BY <1>3, <1>types, QueueTypes DEF SyncControlState, LinkTypes
  <2>3. /\ writer' \in Controllers \cup {NoWriter} /\ leaseLive' \in BOOLEAN
        /\ typing' \in Nat /\ pressed' \in BOOLEAN
    <3>1. CASE seen.epoch > controlEpoch
      BY <1>3, <3>1, DropWriterTypes DEF SyncControlState
    <3>2. CASE ~(seen.epoch > controlEpoch)
      BY <1>3, <3>2 DEF SyncControlState, DaemonTypes, LeaseTypes
    <3> QED BY <3>1, <3>2
  <2>4. controlEpoch' \in Nat
    BY <1>3, <1>types DEF SyncControlState
  <2>5. DaemonTypes'
    BY <1>3, <2>1, <2>3, <2>4 DEF SyncControlState, DaemonTypes, LeaseTypes
  <2> QED BY <2>1, <2>2, <2>5
<1>4. CASE AdvanceIdle
  <2>1. typing' \in Nat /\ pressed' \in BOOLEAN
    BY <1>4, <1>types DEF AdvanceIdle, DaemonTypes
  <2> QED BY <1>4, <1>types, <2>1, TurnTypes DEF AdvanceIdle
<1>5. CASE TypeCodepoint
  <2>1. typing' \in Nat /\ pressed' \in BOOLEAN
    BY <1>5, <1>types DEF TypeCodepoint, DaemonTypes
  <2>2. AcquireGate(toComp, Wire(typing)) \in Seq(RequestType)
    BY <1>types, QueueTypes
  <2>3. PressEvent(AcquireGate(toComp, Wire(typing))) \in Seq(RequestType)
    BY <2>2, <1>types, QueueTypes
  <2>4. toComp' \in Seq(RequestType)
    BY <1>5, <2>3, <1>types, QueueTypes DEF TypeCodepoint
  <2> QED BY <1>5, <2>1, <2>4, TurnTypes DEF TypeCodepoint
<1>6. CASE TypeCodepointFails
  <2>1. typing' \in Nat /\ pressed' \in BOOLEAN
    BY <1>6 DEF TypeCodepointFails
  <2>2. AcquireGate(toComp, Wire(typing)) \in Seq(RequestType)
    BY <1>types, QueueTypes
  <2>3. toComp' \in Seq(RequestType)
    BY <1>6, <2>2, <1>types, QueueTypes DEF TypeCodepointFails
  <2> QED BY <1>6, <2>1, <2>3, TurnTypes DEF TypeCodepointFails
<1>7. CASE LeaseRunsOut
  <2>1. LeaseTypes'
    BY <1>7 DEF LeaseRunsOut, DaemonTypes, LeaseTypes
  <2>2. CompTypes' /\ GhostTypes' /\ SeatTypes' /\ LinkTypes'
    BY <1>7, Stability DEF LeaseRunsOut, DaemonTypes
  <2>3. DaemonTypes'
    BY <1>7, <2>1, <2>2 DEF LeaseRunsOut, DaemonTypes
  <2> QED BY <2>2, <2>3
<1>8. CASE DaemonQuietElapses
  <2>1. seen' \in StateType
    BY <1>8 DEF DaemonQuietElapses, DaemonTypes, StateType
  <2>2. CompTypes' /\ GhostTypes' /\ SeatTypes' /\ LeaseTypes' /\ LinkTypes'
    BY <1>8, Stability DEF DaemonQuietElapses, DaemonTypes
  <2>3. DaemonTypes'
    BY <1>8, <2>1, <2>2 DEF DaemonQuietElapses, DaemonTypes
  <2> QED BY <2>2, <2>3
<1>9. CASE Exit
  <2>1. toComp' \in Seq(RequestType) /\ revsSent' \in Nat
    BY <1>9, <1>types, RevokedType DEF Exit, SeatDestroyed
  <2> QED BY <1>9, <2>1, GoneTypes DEF Exit
<1>10. CASE Crash
  BY <1>10, <1>types, GoneTypes DEF Crash
<1>11. CASE StartDaemon
  <2>1. CompTypes' /\ LinkTypes'
    BY <1>11 DEF StartDaemon, CompTypes, LinkTypes
  <2>2. SeatTypes' /\ LeaseTypes'
    BY <1>11, Stability DEF StartDaemon, DaemonTypes
  <2>3. seen' \in StateType /\ controlEpoch' \in Nat
    BY <1>11 DEF StartDaemon, StateType, CompTypes, GhostTypes
  <2>4. DaemonTypes'
    BY <1>11, <2>2, <2>3 DEF StartDaemon, DaemonTypes
  <2>5. GhostTypes'
    BY <1>11 DEF StartDaemon, GhostTypes
  <2> QED BY <2>1, <2>4, <2>5
<1> QED
  BY <1>1, <1>2, <1>3, <1>4, <1>5, <1>6, <1>7, <1>8, <1>9, <1>10, <1>11
  DEF Daemon, AdvanceTyping

LEMMA InitTypes == Init => TypeOK
<1> SUFFICES ASSUME Init
             PROVE  TypeOK
  OBVIOUS
<1>1. CompTypes
  <2>1. epoch \in 1..EpochMax
    BY DEF Init
  <2>2. /\ allowed \in BOOLEAN /\ quiet \in BOOLEAN /\ timer \in BOOLEAN
        /\ humanHeld \in BOOLEAN /\ virtualHeld \in BOOLEAN /\ owned \in BOOLEAN
    BY DEF Init
  <2> QED BY <2>1, <2>2 DEF CompTypes
<1>2. LinkTypes
  BY DEF Init, LinkTypes
<1>3. SeatTypes /\ LeaseTypes
  BY DEF Init, SeatTypes, LeaseTypes
<1>4. seen \in StateType
  BY DEF Init, NothingSeen, StateType
<1>5. DaemonTypes
  BY <1>3, <1>4 DEF Init, DaemonTypes
<1>6. grant \in [known : Nat, lease : Nat]
  BY DEF Init, NoGrant
<1>7. GhostTypes
  BY <1>6 DEF Init, GhostTypes
<1> QED BY <1>1, <1>2, <1>5, <1>7 DEF TypeOK

\* Every variable keeps its type, and the epoch saturates at its width.
THEOREM TypeCorrect == Spec => []TypeOK
<1>1. TypeOK /\ UNCHANGED vars => TypeOK'
  BY Stability DEF TypeOK, vars
<1>2. TypeOK /\ [Next]_vars => TypeOK'
  BY <1>1, CompositorTypes, ServeTypes, LoopTypes DEF Next, Daemon
<1> QED
  BY InitTypes, <1>2, PTL DEF Spec

----------------------------------------------------------------------------
(* The link.                                                               *)

LEMMA LinkCompositor == TypeOK /\ LinkInv /\ Compositor => LinkInv'
<1> SUFFICES ASSUME TypeOK, LinkInv, Compositor
             PROVE  LinkInv'
  OBVIOUS
<1> USE DEF LinkInv
<1>1. CASE ProcessRequest
  <2>1. owned /\ UNCHANGED owned /\ UNCHANGED daemonVars
    BY <1>1 DEF ProcessRequest, ProcessAcquire, ProcessStaleAcquire, ProcessRevoke,
       ProcessPress, ProcessRelease, Pending
  <2>2. ~running => UNCHANGED toDaemon
    BY <1>1 DEF ProcessRequest, ProcessAcquire, ProcessStaleAcquire, ProcessRevoke,
       ProcessPress, ProcessRelease, SendState
  <2> QED BY <2>1, <2>2 DEF daemonVars
<1>2. CASE Human \/ HoldTimeoutExpired
  <2>1. UNCHANGED <<owned, toComp, daemonVars>>
    BY <1>2 DEF Human, HumanKey, HumanTouch, HumanWheel, HumanUnplug, ReportHumanActivity,
       HoldTimeoutExpired
  <2>2. allowed' => allowed
    BY <1>2 DEF Human, HumanKey, HumanTouch, HumanWheel, HumanUnplug, ReportHumanActivity,
       HoldTimeoutExpired, ControlRevoke
  <2>3. ~running => UNCHANGED toDaemon
    BY <1>2 DEF Human, HumanKey, HumanTouch, HumanWheel, HumanUnplug, ReportHumanActivity,
       HoldTimeoutExpired, SendState
  <2> QED BY <2>1, <2>2, <2>3 DEF daemonVars
<1>3. CASE QuietElapses \/ ControlQuietTimer
  BY <1>3 DEF QuietElapses, ControlQuietTimer, SendState, daemonVars
<1>4. CASE ControlResourceDestroy
  BY <1>4 DEF ControlResourceDestroy, ControlRevoke, daemonVars
<1> QED BY <1>1, <1>2, <1>3, <1>4 DEF Compositor

LEMMA LinkDaemon == TypeOK /\ LinkInv /\ Daemon => LinkInv'
<1> SUFFICES ASSUME TypeOK, LinkInv, Daemon
             PROVE  LinkInv'
  OBVIOUS
<1> USE DEF LinkInv
<1>1. CASE Serve
  <2>1. running /\ UNCHANGED running
    BY <1>1 DEF Serve, Turn, AcquireControl, ReleaseControl, SendMotion, SendPress,
       SendRelease, SendClick, StartTyping, InputAdmitted, InputSent, CancelOperation,
       ReleaseWindow, Pause, RevokeInput, Resume, CreateSeat, DestroySeat, Shutdown
  <2>2. UNCHANGED compVars
    BY <1>1 DEF Serve, AcquireControl, ReleaseControl, SendMotion, SendPress,
       SendRelease, SendClick, StartTyping, InputSent, CancelOperation,
       ReleaseWindow, Pause, RevokeInput, Resume, CreateSeat, DestroySeat, Shutdown
  <2> QED BY <2>1, <2>2 DEF compVars
<1>2. CASE ExpireWriter \/ ControlState \/ SyncControlState \/ AdvanceTyping
  <2>1. running /\ UNCHANGED running /\ UNCHANGED compVars
    BY <1>2 DEF ExpireWriter, RevokeInput, ControlState, SyncControlState, AdvanceTyping,
       AdvanceIdle, TypeCodepoint, TypeCodepointFails, EndTurn, Turn
  <2> QED BY <2>1 DEF compVars
<1>3. CASE LeaseRunsOut \/ DaemonQuietElapses
  BY <1>3 DEF LeaseRunsOut, DaemonQuietElapses, compVars
<1>4. CASE Exit \/ Crash
  <2>1. running /\ ~running' /\ UNCHANGED compVars
    BY <1>4 DEF Exit, Crash, Turn, DaemonGone
  <2>2. toDaemon' = <<>> /\ typing' = 0 /\ ~pressed'
    BY <1>4 DEF Exit, Crash, DaemonGone
  <2> QED BY <2>1, <2>2 DEF compVars
<1>5. CASE StartDaemon
  BY <1>5 DEF StartDaemon
<1> QED BY <1>1, <1>2, <1>3, <1>4, <1>5 DEF Daemon

\* A daemon alone can ask, and what it asks is lost with its connection.
THEOREM Linked == Spec => []LinkInv
<1>1. Init => LinkInv
  BY DEF Init, LinkInv
<1>2. LinkInv /\ UNCHANGED vars => LinkInv'
  BY DEF LinkInv, vars, compVars, daemonVars
<1>3. TypeOK /\ LinkInv /\ [Next]_vars => LinkInv'
  BY <1>2, LinkCompositor, LinkDaemon DEF Next
<1> QED
  BY <1>1, <1>3, TypeCorrect, PTL DEF Spec

----------------------------------------------------------------------------
(* Two invariants that need little more than the link.                     *)

LEMMA CompositorLeavesDaemon == Compositor => UNCHANGED daemonVars
BY DEF Compositor, ProcessRequest, ProcessAcquire, ProcessStaleAcquire, ProcessRevoke,
   ProcessPress, ProcessRelease, Human, HumanKey, HumanTouch, HumanWheel, HumanUnplug,
   ReportHumanActivity, HoldTimeoutExpired, QuietElapses, ControlQuietTimer,
   ControlResourceDestroy

LEMMA DaemonLeavesGate == Daemon => UNCHANGED <<epoch, allowed, quiet, humanHeld, virtualHeld>>
<1> SUFFICES ASSUME Daemon
             PROVE  UNCHANGED <<epoch, allowed, quiet, humanHeld, virtualHeld>>
  OBVIOUS
<1>1. CASE Serve
  BY <1>1 DEF Serve, AcquireControl, ReleaseControl, SendMotion, SendPress,
     SendRelease, SendClick, StartTyping, InputSent, CancelOperation,
     ReleaseWindow, Pause, RevokeInput, Resume, CreateSeat, DestroySeat, Shutdown, compVars
<1>2. CASE ~Serve
  BY <1>2 DEF Daemon, ExpireWriter, RevokeInput, ControlState, SyncControlState, AdvanceTyping,
     AdvanceIdle, TypeCodepoint, TypeCodepointFails, EndTurn, LeaseRunsOut,
     DaemonQuietElapses, Exit, Crash, DaemonGone, StartDaemon, compVars
<1> QED BY <1>1, <1>2

\* A text operation or a remembered press always belongs to a writer, and a
\* text operation to the daemon's current epoch.
THEOREM WorkBelongs == Spec => []WorkBelongsToLease
<1>1. Init => WorkBelongsToLease
  BY DEF Init, WorkBelongsToLease
<1>2. TypeOK /\ LinkInv /\ WorkBelongsToLease /\ [Next]_vars => WorkBelongsToLease'
  <2> SUFFICES ASSUME TypeOK, LinkInv, WorkBelongsToLease, [Next]_vars
               PROVE  WorkBelongsToLease'
    OBVIOUS
  <2> USE DEF WorkBelongsToLease
  <2>1. CASE Compositor \/ UNCHANGED vars
    BY <2>1, CompositorLeavesDaemon DEF vars, daemonVars
  <2>2. CASE RevokeInput
    BY <2>2 DEF RevokeInput, DropWriter
  <2>3. ASSUME NEW c \in Controllers,
               \/ AcquireControl(c) \/ ReleaseControl(c) \/ SendMotion(c) \/ SendPress(c)
               \/ SendRelease(c) \/ SendClick(c) \/ StartTyping(c)
        PROVE  WorkBelongsToLease'
    <3>1. c # NoWriter
      OBVIOUS
    <3>2. CASE AcquireControl(c)
      BY <3>1, <3>2 DEF AcquireControl
    <3>3. CASE ReleaseControl(c)
      BY <2>2, <3>3 DEF ReleaseControl
    <3>4. CASE SendMotion(c) \/ SendPress(c) \/ SendRelease(c) \/ SendClick(c)
      BY <3>1, <3>4 DEF SendMotion, SendPress, SendRelease, SendClick, InputAdmitted,
         Authorized, InputSent, leaseVars
    <3>5. CASE StartTyping(c)
      BY <3>1, <3>5 DEF StartTyping, InputAdmitted, Authorized, leaseVars
    <3> QED BY <2>3, <3>2, <3>3, <3>4, <3>5
  <2>4. CASE CancelOperation \/ ReleaseWindow \/ Pause
    BY <2>2, <2>4 DEF CancelOperation, ReleaseWindow, Pause
  <2>5. CASE Resume \/ CreateSeat
    BY <2>5 DEF Resume, CreateSeat, leaseVars
  <2>6. CASE DestroySeat
    BY <2>6 DEF DestroySeat, DropWriter
  <2>7. CASE Shutdown
    BY <2>7 DEF Shutdown, leaseVars
  <2>8. CASE ExpireWriter
    BY <2>2, <2>8 DEF ExpireWriter, leaseVars
  <2>9. CASE ControlState \/ LeaseRunsOut \/ DaemonQuietElapses
    BY <2>9 DEF ControlState, LeaseRunsOut, DaemonQuietElapses, leaseVars
  <2>10. CASE SyncControlState
    BY <2>10 DEF SyncControlState, DropWriter
  <2>11. CASE AdvanceTyping
    BY <2>11 DEF AdvanceTyping, AdvanceIdle, TypeCodepoint, TypeCodepointFails, EndTurn,
       leaseVars
  <2>12. CASE Exit \/ Crash
    BY <2>12 DEF Exit, Crash, DaemonGone
  <2>13. CASE StartDaemon
    BY <2>13 DEF StartDaemon, LinkInv
  <2> QED
    BY <2>1, <2>3, <2>4, <2>5, <2>6, <2>7, <2>8, <2>9, <2>10, <2>11, <2>12, <2>13
    DEF Next, Daemon, Serve
<1> QED
  BY <1>1, <1>2, TypeCorrect, Linked, PTL DEF Spec

\* The gate is never open against a present human.
THEOREM QuietGate == Spec => []GateImpliesQuiet
<1>1. Init => GateImpliesQuiet
  BY DEF Init, GateImpliesQuiet
<1>2. GateImpliesQuiet /\ [Next]_vars => GateImpliesQuiet'
  <2> SUFFICES ASSUME GateImpliesQuiet, [Next]_vars
               PROVE  GateImpliesQuiet'
    OBVIOUS
  <2> USE DEF GateImpliesQuiet
  <2>1. CASE Daemon
    BY <2>1, DaemonLeavesGate
  <2>2. CASE ProcessRequest
    BY <2>2 DEF ProcessRequest, ProcessAcquire, Granted, ProcessStaleAcquire, ProcessRevoke,
       ProcessPress, ProcessRelease, ControlRevoke
  <2>3. CASE Human
    BY <2>3 DEF Human, HumanKey, HumanTouch, HumanWheel, HumanUnplug, ReportHumanActivity,
       Takeover, ControlRevoke
  <2>4. CASE HoldTimeoutExpired \/ QuietElapses \/ ControlQuietTimer \/ ControlResourceDestroy
    BY <2>4 DEF HoldTimeoutExpired, QuietElapses, ControlQuietTimer, ControlResourceDestroy,
       ControlRevoke
  <2> QED BY <2>1, <2>2, <2>3, <2>4 DEF Next, Compositor, vars, compVars
<1> QED
  BY <1>1, <1>2, PTL DEF Spec

----------------------------------------------------------------------------
(* The pause.                                                              *)

\* What a step of the compositor can do to the gate and to the connection.
LEMMA CompositorEffect ==
    ASSUME TypeOK, Compositor
    PROVE  /\ epoch <= epoch'
           /\ \/ UNCHANGED toComp
              \/ toComp # <<>> /\ toComp' = Tail(toComp)
              \/ toComp' = <<>>
           /\ \/ UNCHANGED toDaemon
              \/ \E m : /\ toDaemon' = Append(toDaemon, m)
                        /\ m \in StateType
                        /\ m.epoch = epoch'
                        /\ m.known = takeovers'
           /\ allowed' =>
                /\ epoch' = epoch
                /\ \/ allowed
                   \/ /\ toComp # <<>>
                      /\ Head(toComp).kind = "acquire"
                      /\ Head(toComp).epoch = epoch
<1>1. CompTypes' /\ takeovers' \in Nat /\ epoch \in 1..EpochMax
  BY CompositorTypes DEF TypeOK, GhostTypes, CompTypes
<1>2. ASSUME NEW held \in BOOLEAN, SendState(held)
      PROVE  \/ UNCHANGED toDaemon
             \/ \E m : /\ toDaemon' = Append(toDaemon, m)
                       /\ m \in StateType
                       /\ m.epoch = epoch'
                       /\ m.known = takeovers'
  <2> DEFINE m == [epoch |-> epoch', allowed |-> allowed', quiet |-> quiet',
                   held |-> held, known |-> takeovers']
  <2>1. m \in StateType
    BY <1>1, <1>2 DEF StateType, CompTypes
  <2>2. m.epoch = epoch' /\ m.known = takeovers'
    OBVIOUS
  <2>3. toDaemon' = Append(toDaemon, m) \/ UNCHANGED toDaemon
    BY <1>2 DEF SendState
  <2> HIDE DEF m
  <2> QED BY <2>1, <2>2, <2>3
<1>3. humanHeld \in BOOLEAN
  BY DEF TypeOK, CompTypes
<1>4. ControlRevoke => epoch <= epoch' /\ ~allowed'
  BY <1>1 DEF ControlRevoke, Bump
<1>5. CASE ProcessRequest
  <2>1. CASE ProcessAcquire
    <3>1. allowed' => /\ epoch' = epoch
                      /\ toComp # <<>>
                      /\ Head(toComp).kind = "acquire"
                      /\ Head(toComp).epoch = epoch
      BY <2>1 DEF ProcessAcquire, Granted, Pending
    <3> QED BY <1>1, <1>2, <1>3, <2>1, <3>1 DEF ProcessAcquire, Pending
  <2>2. CASE ProcessStaleAcquire \/ ProcessRevoke
    BY <1>2, <1>3, <1>4, <2>2 DEF ProcessStaleAcquire, ProcessRevoke, Pending
  <2>3. CASE ProcessPress \/ ProcessRelease
    BY <1>1, <2>3 DEF ProcessPress, ProcessRelease, Pending
  <2> QED BY <1>5, <2>1, <2>2, <2>3 DEF ProcessRequest
<1>6. CASE Human
  <2>1. ASSUME NEW held \in BOOLEAN, ReportHumanActivity(held)
        PROVE  /\ epoch <= epoch'
               /\ UNCHANGED toComp
               /\ SendState(held) \/ UNCHANGED toDaemon
               /\ allowed' => epoch' = epoch /\ allowed
    BY <1>1, <1>4, <2>1 DEF ReportHumanActivity
  <2>2. CASE HumanKey \/ HumanTouch \/ HumanWheel
    BY <1>2, <1>3, <2>1, <2>2 DEF HumanKey, HumanTouch, HumanWheel
  <2>3. CASE HumanUnplug
    BY <1>1, <2>3 DEF HumanUnplug
  <2> QED BY <1>6, <2>2, <2>3 DEF Human
<1>7. CASE HoldTimeoutExpired \/ ControlResourceDestroy
  BY <1>2, <1>3, <1>4, <1>7 DEF HoldTimeoutExpired, ControlResourceDestroy
<1>8. CASE QuietElapses \/ ControlQuietTimer
  BY <1>1, <1>2, <1>3, <1>8 DEF QuietElapses, ControlQuietTimer
<1> QED BY <1>5, <1>6, <1>7, <1>8 DEF Compositor

\* The queue with one more request.
LEMMA UpToRequests ==
    ASSUME TypeOK, NEW q \in Seq(RequestType), NEW e \in Int, AcquiresUpTo(q, e),
           NEW r \in Nat
    PROVE  /\ \A f \in Nat : f <= e => AcquiresUpTo(AcquireGate(q, f), e)
           /\ AcquiresUpTo(PressEvent(q), e)
           /\ AcquiresUpTo(ReleaseEvent(q, r), e)
           /\ AcquiresUpTo(RevokeRequest(q, r), e)
           /\ AcquiresUpTo(ReleaseAll(q, r), e)
<1>1. ASSUME NEW m, m.kind = "acquire" => m.epoch <= e
      PROVE  AcquiresUpTo(Append(q, m), e)
  BY <1>1 DEF AcquiresUpTo
<1> QED
  BY <1>1 DEF AcquireGate, PressEvent, ReleaseEvent, RevokeRequest, ReleaseAll, Request

LEMMA UpToRevoked ==
    ASSUME TypeOK, NEW e \in Int, AcquiresUpTo(toComp, e)
    PROVE  AcquiresUpTo(Revoked, e)
<1>1. toComp \in Seq(RequestType) /\ revsSent \in Nat /\ revsSent + 1 \in Nat
  BY DEF TypeOK, LinkTypes, GhostTypes
<1>2. /\ RevokeRequest(toComp, revsSent) \in Seq(RequestType)
      /\ AcquiresUpTo(RevokeRequest(toComp, revsSent), e)
  BY <1>1, QueueTypes, UpToRequests
<1> QED BY <1>1, <1>2, UpToRequests DEF Revoked

LEMMA UpToMore ==
    ASSUME NEW q \in Seq(RequestType), NEW e \in Int, NEW f \in Int, e <= f, AcquiresUpTo(q, e)
    PROVE  AcquiresUpTo(q, f)
<1> SUFFICES ASSUME NEW i \in 1..Len(q), q[i].kind = "acquire"
             PROVE  q[i].epoch <= f
  BY DEF AcquiresUpTo
<1>1. q[i].epoch \in Nat
  <2>1. q[i] \in RequestType
    OBVIOUS
  <2> QED BY <2>1 DEF RequestType
<1>2. q[i].epoch <= e
  BY DEF AcquiresUpTo
<1> QED BY <1>1, <1>2

LEMMA PauseCompositor == TypeOK /\ LinkInv /\ PauseInv /\ Compositor => PauseInv'
<1> SUFFICES ASSUME TypeOK, LinkInv, PauseInv, Compositor, running'
             PROVE  PauseInv'
  BY DEF PauseInv
<1>1. UNCHANGED <<running, phase, seen, controlEpoch, created, paused>>
  BY CompositorLeavesDaemon DEF daemonVars
<1>2. running /\ Ceiling' = Ceiling
  BY <1>1 DEF Ceiling
<1>3. /\ toComp \in Seq(RequestType) /\ toDaemon \in Seq(StateType)
      /\ epoch \in Int /\ epoch' \in Int /\ epoch <= epoch'
  BY CompositorEffect, CompositorTypes DEF TypeOK, LinkTypes, CompTypes
<1>4. seen.epoch \in Int /\ seen.epoch <= epoch
  BY <1>2, DaemonNumbers DEF PauseInv
<1>5. EventsUpTo(toDaemon', epoch')
  <2>1. EventsUpTo(toDaemon, epoch')
    <3> SUFFICES ASSUME NEW i \in 1..Len(toDaemon)
                 PROVE  toDaemon[i].epoch <= epoch'
      BY DEF EventsUpTo
    <3>1. toDaemon[i] \in StateType
      BY <1>3
    <3>2. toDaemon[i].epoch \in Nat
      BY <3>1 DEF StateType
    <3>3. toDaemon[i].epoch <= epoch
      BY <1>2 DEF PauseInv, EventsUpTo
    <3> QED BY <1>3, <3>2, <3>3
  <2>2. ASSUME NEW m, toDaemon' = Append(toDaemon, m), m.epoch = epoch'
        PROVE  EventsUpTo(toDaemon', epoch')
    BY <1>3, <2>1, <2>2 DEF EventsUpTo
  <2>3. CASE UNCHANGED toDaemon
    BY <2>1, <2>3
  <2> QED BY <2>2, <2>3, CompositorEffect
<1>6. AcquiresUpTo(toComp', Ceiling)
  <2>1. AcquiresUpTo(toComp, Ceiling)
    BY <1>2 DEF PauseInv
  <2>2. CASE toComp # <<>> /\ toComp' = Tail(toComp)
    BY <1>3, <2>1, <2>2 DEF AcquiresUpTo
  <2>3. CASE UNCHANGED toComp \/ toComp' = <<>>
    BY <2>1, <2>3 DEF AcquiresUpTo
  <2> QED BY <2>2, <2>3, CompositorEffect
<1>7. allowed' => epoch' <= Ceiling
  <2>1. CASE allowed
    BY <1>2, <2>1, CompositorEffect DEF PauseInv
  <2>2. ASSUME toComp # <<>>, Head(toComp).kind = "acquire", Head(toComp).epoch = epoch
        PROVE  epoch <= Ceiling
    <3>1. toComp[1].kind = "acquire" /\ toComp[1].epoch = epoch /\ 1 \in 1..Len(toComp)
      BY <1>3, <2>2
    <3> QED BY <1>2, <3>1 DEF PauseInv, AcquiresUpTo
  <2> QED BY <2>1, <2>2, CompositorEffect
<1> QED
  BY <1>1, <1>2, <1>3, <1>4, <1>5, <1>6, <1>7 DEF PauseInv

\* Whatever the daemon does, it is enough that nothing it asks for exceeds its
\* ceiling, and that its ceiling does not come down.
LEMMA PauseKept ==
    ASSUME TypeOK, TypeOK', PauseInv, Daemon, running, UNCHANGED <<running, toDaemon, seen>>,
           Ceiling <= Ceiling', AcquiresUpTo(toComp', Ceiling'),
           phase' # "poll" => seen.epoch <= controlEpoch'
    PROVE  PauseInv'
<1>1. UNCHANGED <<epoch, allowed>>
  BY DaemonLeavesGate
<1>2. Ceiling \in Int /\ Ceiling' \in Int /\ epoch \in Int
  BY DEF Ceiling, TypeOK, DaemonTypes, CompTypes
<1> QED BY <1>1, <1>2 DEF PauseInv

LEMMA PauseDaemon == TypeOK /\ TypeOK' /\ LinkInv /\ PauseInv /\ Daemon => PauseInv'
<1> SUFFICES ASSUME TypeOK, TypeOK', LinkInv, PauseInv, Daemon
             PROVE  PauseInv'
  OBVIOUS
<1>types. /\ toComp \in Seq(RequestType) /\ toDaemon \in Seq(StateType)
          /\ revsSent \in Nat /\ revsSent + 1 \in Nat
          /\ controlEpoch \in Nat /\ controlEpoch' \in Nat /\ seen.epoch \in Nat
          /\ Ceiling \in Int /\ Ceiling <= controlEpoch
          /\ Ceiling' \in Int /\ controlEpoch' - 1 <= Ceiling'
          /\ epoch \in Nat
  <2>1. /\ toComp \in Seq(RequestType) /\ toDaemon \in Seq(StateType)
        /\ revsSent \in Nat /\ revsSent + 1 \in Nat
    BY DEF TypeOK, LinkTypes, GhostTypes
  <2>2. controlEpoch \in Nat /\ controlEpoch' \in Nat /\ seen.epoch \in Nat /\ epoch \in Nat
    BY DaemonNumbers DEF TypeOK, CompTypes, DaemonTypes
  <2>3. /\ Ceiling \in Int /\ Ceiling <= controlEpoch
        /\ Ceiling' \in Int /\ controlEpoch' - 1 <= Ceiling'
    <3>1. Ceiling = controlEpoch \/ Ceiling = controlEpoch - 1
      BY DEF Ceiling
    <3>2. Ceiling' = controlEpoch' \/ Ceiling' = controlEpoch' - 1
      BY DEF Ceiling
    <3> QED BY <2>2, <3>1, <3>2
  <2> QED BY <2>1, <2>2, <2>3
<1>serve. Turn("serve") => /\ running
                           /\ seen.epoch <= controlEpoch
                           /\ AcquiresUpTo(toComp, Ceiling)
                           /\ AcquiresUpTo(toComp, controlEpoch)
  BY <1>types, UpToMore DEF Turn, PauseInv
<1>wire. /\ Wire(controlEpoch) \in Nat /\ Wire(controlEpoch) <= controlEpoch
  BY <1>types, WireBound
<1>revoke. ASSUME running, RevokeInput,
                  phase' # "poll" => seen.epoch <= controlEpoch
           PROVE  PauseInv'
  <2>1. controlEpoch' = controlEpoch + 1 /\ toComp' = Revoked
        /\ UNCHANGED <<running, toDaemon, seen>>
    BY <1>revoke DEF RevokeInput
  <2>2. Ceiling <= Ceiling'
    BY <2>1, <1>types
  <2>3. AcquiresUpTo(Revoked, Ceiling)
    BY <1>revoke, <1>types, UpToRevoked DEF PauseInv
  <2>4. AcquiresUpTo(toComp', Ceiling')
    BY <2>1, <2>2, <2>3, <1>types, RevokedType, UpToMore
  <2>5. phase' # "poll" => seen.epoch <= controlEpoch'
    BY <1>revoke, <2>1, <1>types
  <2> QED BY <1>revoke, <2>1, <2>2, <2>4, <2>5, PauseKept
<1>sent. ASSUME Turn("serve"), Active, InputSent, AcquiresUpTo(toComp', controlEpoch)
         PROVE  PauseInv'
  <2>1. Ceiling = controlEpoch /\ Ceiling' = controlEpoch
    BY <1>sent DEF Active, InputSent, Ceiling, seatVars
  <2> QED BY <1>sent, <1>serve, <1>types, <2>1, PauseKept DEF InputSent
<1>1. ASSUME NEW c \in Controllers, AcquireControl(c) \/ StartTyping(c)
      PROVE  PauseInv'
  <2>1. /\ Turn("serve")
        /\ UNCHANGED <<running, phase, toDaemon, seen, controlEpoch, seatVars, toComp>>
    BY <1>1 DEF AcquireControl, StartTyping, InputAdmitted
  <2>2. Ceiling' = Ceiling
    BY <2>1 DEF Ceiling, seatVars
  <2> QED BY <1>serve, <1>types, <2>1, <2>2, PauseKept
<1>2. ASSUME NEW c \in Controllers, ReleaseControl(c)
      PROVE  PauseInv'
  BY <1>2, <1>revoke, <1>serve DEF ReleaseControl
<1>3. ASSUME NEW c \in Controllers, SendMotion(c)
      PROVE  PauseInv'
  <2>1. AcquiresUpTo(toComp', controlEpoch)
    BY <1>3, <1>serve, <1>types, <1>wire, UpToRequests DEF SendMotion, InputAdmitted
  <2> QED BY <1>3, <2>1, <1>sent DEF SendMotion, InputAdmitted
<1>4. ASSUME NEW c \in Controllers, SendPress(c)
      PROVE  PauseInv'
  <2> DEFINE asked == AcquireGate(toComp, Wire(controlEpoch))
  <2>1. asked \in Seq(RequestType) /\ AcquiresUpTo(asked, controlEpoch)
    BY <1>4, <1>serve, <1>types, <1>wire, UpToRequests, QueueTypes DEF SendPress, InputAdmitted
  <2>2. toComp' = asked \/ toComp' = PressEvent(asked)
    BY <1>4 DEF SendPress
  <2> HIDE DEF asked
  <2>3. AcquiresUpTo(toComp', controlEpoch)
    BY <2>1, <2>2, <1>types, UpToRequests
  <2> QED BY <1>4, <2>3, <1>sent DEF SendPress, InputAdmitted
<1>5. ASSUME NEW c \in Controllers, SendRelease(c)
      PROVE  PauseInv'
  <2> DEFINE asked == AcquireGate(toComp, Wire(controlEpoch))
  <2>1. asked \in Seq(RequestType) /\ AcquiresUpTo(asked, controlEpoch)
    BY <1>5, <1>serve, <1>types, <1>wire, UpToRequests, QueueTypes DEF SendRelease, InputAdmitted
  <2>2. toComp' = ReleaseAll(asked, revsSent)
    BY <1>5 DEF SendRelease
  <2> HIDE DEF asked
  <2>3. AcquiresUpTo(toComp', controlEpoch)
    BY <2>1, <2>2, <1>types, UpToRequests
  <2> QED BY <1>5, <2>3, <1>sent DEF SendRelease, InputAdmitted
<1>6. ASSUME NEW c \in Controllers, SendClick(c)
      PROVE  PauseInv'
  <2> DEFINE Ask(q) == AcquireGate(q, Wire(controlEpoch))
             down == IF pressed THEN Ask(toComp) ELSE PressEvent(Ask(toComp))
  <2>1. Ask(toComp) \in Seq(RequestType) /\ AcquiresUpTo(Ask(toComp), controlEpoch)
    BY <1>6, <1>serve, <1>types, <1>wire, UpToRequests, QueueTypes DEF SendClick, InputAdmitted
  <2>2. down \in Seq(RequestType) /\ AcquiresUpTo(down, controlEpoch)
    <3> DEFINE asked == Ask(toComp)
    <3> HIDE DEF Ask
    <3>1. down = asked \/ down = PressEvent(asked)
      OBVIOUS
    <3> HIDE DEF asked, down
    <3>2. asked \in Seq(RequestType) /\ AcquiresUpTo(asked, controlEpoch)
      BY <2>1 DEF asked
    <3>3. /\ PressEvent(asked) \in Seq(RequestType)
          /\ AcquiresUpTo(PressEvent(asked), controlEpoch)
      BY <3>2, <1>types, UpToRequests, QueueTypes
    <3> QED BY <3>1, <3>2, <3>3
  <2>3. toComp' = ReleaseEvent(Ask(down), revsSent)
    BY <1>6 DEF SendClick
  <2>4. Ask(down) \in Seq(RequestType) /\ AcquiresUpTo(Ask(down), controlEpoch)
    <3> HIDE DEF down
    <3> QED BY <2>2, <1>types, <1>wire, UpToRequests, QueueTypes
  <2>5. AcquiresUpTo(toComp', controlEpoch)
    <3> HIDE DEF down, Ask
    <3> QED BY <2>3, <2>4, <1>types, UpToRequests
  <2> QED BY <1>6, <2>5, <1>sent DEF SendClick, InputAdmitted
<1>7. CASE CancelOperation \/ ReleaseWindow \/ Pause
  BY <1>7, <1>revoke, <1>serve DEF CancelOperation, ReleaseWindow, Pause
<1>8. CASE Resume
  <2>1. /\ Turn("serve") /\ ~paused'
        /\ UNCHANGED <<running, phase, toDaemon, seen, controlEpoch, toComp>>
    BY <1>8 DEF Resume
  <2>2. Ceiling' = controlEpoch
    BY <2>1 DEF Ceiling
  <2> QED BY <1>serve, <1>types, <2>1, <2>2, PauseKept
<1>9. CASE CreateSeat
  <2>1. /\ Turn("serve") /\ toComp' = AcquireGate(toComp, seen.epoch)
        /\ UNCHANGED <<running, phase, toDaemon, seen, controlEpoch>>
    BY <1>9 DEF CreateSeat
  <2>2. Ceiling' = controlEpoch
    BY <1>9 DEF CreateSeat, Ceiling
  <2>3. AcquiresUpTo(toComp', controlEpoch)
    BY <2>1, <1>serve, <1>types, UpToRequests
  <2> QED BY <1>serve, <1>types, <2>1, <2>2, <2>3, PauseKept
<1>10. CASE DestroySeat
  <2>1. /\ Turn("serve") /\ controlEpoch' = controlEpoch + 1 /\ ~created'
        /\ toComp' = Revoked \/ toComp' = RevokeRequest(Revoked, revsSent + 1)
        /\ UNCHANGED <<running, phase, toDaemon, seen>>
    BY <1>10 DEF DestroySeat
  <2>2. Ceiling' = controlEpoch + 1
    BY <2>1 DEF Ceiling
  <2>3. AcquiresUpTo(toComp, controlEpoch + 1)
    BY <2>1, <1>serve, <1>types, UpToMore
  <2>4. AcquiresUpTo(Revoked, controlEpoch + 1)
    BY <2>3, <1>types, UpToRevoked
  <2>5. AcquiresUpTo(toComp', controlEpoch + 1)
    BY <2>1, <2>4, <1>types, RevokedType, UpToRequests
  <2> QED BY <1>serve, <1>types, <2>1, <2>2, <2>5, PauseKept
<1>11. CASE Shutdown
  <2>1. /\ Turn("serve") /\ ~created'
        /\ toComp' = Revoked \/ toComp' = toComp
        /\ UNCHANGED <<running, phase, toDaemon, seen, controlEpoch>>
    BY <1>11 DEF Shutdown, SeatDestroyed
  <2>2. Ceiling' = controlEpoch
    BY <2>1 DEF Ceiling
  <2>3. AcquiresUpTo(toComp', controlEpoch)
    BY <2>1, <1>serve, <1>types, UpToRevoked
  <2> QED BY <1>serve, <1>types, <2>1, <2>2, <2>3, PauseKept
<1>12. CASE ExpireWriter
  <2>1. running /\ phase' = "poll"
    BY <1>12 DEF ExpireWriter, Turn
  <2>2. CASE RevokeInput
    BY <2>1, <2>2, <1>revoke
  <2>3. CASE UNCHANGED <<running, toComp, toDaemon, seen, controlEpoch, seatVars>>
    <3>1. Ceiling' = Ceiling
      BY <2>3 DEF Ceiling, seatVars
    <3> QED BY <2>1, <2>3, <3>1, <1>types, PauseKept DEF PauseInv
  <2> QED BY <1>12, <2>2, <2>3 DEF ExpireWriter
<1>13. CASE ControlState
  <2>1. /\ running /\ running' /\ phase' = "poll" /\ toDaemon # <<>>
        /\ seen' = Head(toDaemon) /\ toDaemon' = Tail(toDaemon)
        /\ UNCHANGED <<toComp, controlEpoch, seatVars>>
    BY <1>13 DEF ControlState, Turn
  <2>2. Ceiling' = Ceiling
    BY <2>1 DEF Ceiling, seatVars
  <2>3. seen'.epoch <= epoch /\ EventsUpTo(toDaemon', epoch)
    BY <2>1, <1>types DEF PauseInv, EventsUpTo
  <2> QED BY <2>1, <2>2, <2>3, DaemonLeavesGate DEF PauseInv
<1>14. CASE SyncControlState
  <2>1. /\ running /\ UNCHANGED <<running, toDaemon, seen, seatVars>>
        /\ toComp' = ReleaseAll(toComp, revsSent) \/ toComp' = toComp
        /\ controlEpoch <= controlEpoch' /\ seen.epoch <= controlEpoch'
    BY <1>14, <1>types DEF SyncControlState, Turn
  <2>2. Ceiling <= Ceiling'
    <3>1. UNCHANGED <<created, paused>>
      BY <2>1 DEF seatVars
    <3>2. \/ Ceiling = controlEpoch /\ Ceiling' = controlEpoch'
          \/ Ceiling = controlEpoch - 1 /\ Ceiling' = controlEpoch' - 1
      BY <3>1 DEF Ceiling
    <3>3. controlEpoch <= controlEpoch'
      BY <2>1
    <3>4. controlEpoch \in Nat /\ controlEpoch' \in Nat
      BY <1>types
    <3> QED BY <3>2, <3>3, <3>4
  <2>3. AcquiresUpTo(toComp', Ceiling)
    BY <2>1, <1>types, UpToRequests DEF PauseInv
  <2>4. AcquiresUpTo(toComp', Ceiling')
    <3>1. toComp' \in Seq(RequestType)
      BY DEF TypeOK, LinkTypes
    <3> QED BY <2>2, <2>3, <3>1, <1>types, UpToMore
  <2> QED BY <2>1, <2>2, <2>4, PauseKept
<1>15. CASE AdvanceTyping
  <2>1. Turn("serve") /\ UNCHANGED <<running, toDaemon, seen, controlEpoch, seatVars>>
    BY <1>15 DEF AdvanceTyping, AdvanceIdle, TypeCodepoint, TypeCodepointFails, EndTurn
  <2>2. Ceiling' = Ceiling
    BY <2>1 DEF Ceiling, seatVars
  <2>3. CASE AdvanceIdle
    BY <2>1, <2>2, <2>3, <1>serve, <1>types, PauseKept DEF AdvanceIdle
  <2>4. CASE TypeCodepoint \/ TypeCodepointFails
    <3> DEFINE asked == AcquireGate(toComp, Wire(controlEpoch))
    <3>1. Ceiling = controlEpoch
      BY <2>4 DEF TypeCodepoint, TypeCodepointFails, MayType, Ceiling
    <3>2. asked \in Seq(RequestType) /\ AcquiresUpTo(asked, controlEpoch)
      BY <2>1, <1>serve, <1>types, <1>wire, UpToRequests, QueueTypes
    <3>3. \/ toComp' = ReleaseEvent(PressEvent(asked), revsSent)
          \/ toComp' = ReleaseAll(asked, revsSent)
      BY <2>4 DEF TypeCodepoint, TypeCodepointFails, MayType
    <3> HIDE DEF asked
    <3>4. PressEvent(asked) \in Seq(RequestType) /\ AcquiresUpTo(PressEvent(asked), controlEpoch)
      BY <3>2, <1>types, UpToRequests, QueueTypes
    <3>5. AcquiresUpTo(toComp', controlEpoch)
      BY <3>2, <3>3, <3>4, <1>types, UpToRequests
    <3> QED BY <2>1, <2>2, <3>1, <3>5, <1>serve, <1>types, PauseKept
  <2> QED BY <1>15, <2>3, <2>4 DEF AdvanceTyping
<1>16. CASE LeaseRunsOut
  <2>1. UNCHANGED <<running, phase, toComp, toDaemon, seen, controlEpoch, seatVars>>
    BY <1>16 DEF LeaseRunsOut
  <2>2. Ceiling' = Ceiling
    BY <2>1 DEF Ceiling, seatVars
  <2> QED BY <2>1, <2>2, DaemonLeavesGate DEF PauseInv
<1>17. CASE DaemonQuietElapses
  <2>1. UNCHANGED <<running, phase, toComp, toDaemon, controlEpoch, seatVars>>
    BY <1>17 DEF DaemonQuietElapses
  <2>2. seen'.epoch = seen.epoch
    BY <1>17 DEF DaemonQuietElapses, TypeOK, DaemonTypes, StateType
  <2>3. Ceiling' = Ceiling
    BY <2>1 DEF Ceiling, seatVars
  <2> QED BY <2>1, <2>2, <2>3, DaemonLeavesGate DEF PauseInv
<1>18. CASE Exit \/ Crash
  BY <1>18 DEF Exit, Crash, DaemonGone, PauseInv
<1>19. CASE StartDaemon
  <2>1. /\ seen'.epoch = epoch /\ controlEpoch' = epoch /\ ~allowed' /\ UNCHANGED epoch
        /\ toComp' = <<>> /\ toDaemon' = <<>>
    BY <1>19 DEF StartDaemon, LinkInv
  <2> QED BY <2>1, <1>types DEF PauseInv, AcquiresUpTo, EventsUpTo
<1> QED
  BY <1>1, <1>2, <1>3, <1>4, <1>5, <1>6, <1>7, <1>8, <1>9, <1>10, <1>11, <1>12, <1>13,
     <1>14, <1>15, <1>16, <1>17, <1>18, <1>19
  DEF Daemon, Serve

\* Epochs on the connection stay below the compositor's and the daemon's.
THEOREM PauseBounds == Spec => []PauseInv
<1>1. Init => PauseInv
  BY DEF Init, PauseInv
<1>2. PauseInv /\ UNCHANGED vars => PauseInv'
  BY DEF PauseInv, vars, compVars, daemonVars, Ceiling
<1>3. TypeOK /\ TypeOK' /\ LinkInv /\ PauseInv /\ [Next]_vars => PauseInv'
  BY <1>2, PauseCompositor, PauseDaemon DEF Next
<1> QED
  BY <1>1, <1>3, TypeCorrect, Linked, PTL DEF Spec

\* An acknowledged pause is real: the gate is closed and nothing under way
\* opens it.
THEOREM PauseAcknowledgement == Spec => []PauseAckSound
<1>1. TypeOK /\ PauseInv => PauseAckSound
  <2> SUFFICES ASSUME TypeOK, PauseInv, PauseAcknowledged
               PROVE  /\ ~allowed
                      /\ \A i \in 1..Len(toComp) :
                            toComp[i].kind = "acquire" => toComp[i].epoch < epoch
    BY DEF PauseAckSound
  <2>1. /\ epoch \in Nat /\ controlEpoch \in Nat /\ seen.epoch \in Nat
        /\ toComp \in Seq(RequestType)
    BY DaemonNumbers DEF TypeOK, CompTypes, LinkTypes
  <2>2. /\ controlEpoch <= epoch
        /\ Ceiling = controlEpoch - 1
        /\ AcquiresUpTo(toComp, Ceiling)
        /\ allowed => epoch <= Ceiling
    BY <2>1 DEF PauseInv, PauseAcknowledged, Turn, Ceiling
  <2>3. ASSUME NEW i \in 1..Len(toComp), toComp[i].kind = "acquire"
        PROVE  toComp[i].epoch < epoch
    <3>1. toComp[i] \in RequestType
      BY <2>1
    <3>2. toComp[i].epoch \in Nat
      BY <3>1 DEF RequestType
    <3>3. toComp[i].epoch <= Ceiling
      BY <2>2, <2>3 DEF AcquiresUpTo
    <3> QED BY <2>1, <2>2, <3>2, <3>3
  <2> QED BY <2>1, <2>2, <2>3
<1> QED
  BY <1>1, TypeCorrect, PauseBounds, PTL

----------------------------------------------------------------------------
(* The gate and what its holder knows.                                     *)

LEMMA EmptyQueue ==
    ASSUME NEW c \in Nat, NEW t \in Nat, NEW s \in Nat
    PROVE  QueueInv(<<>>, c, t, s, s)
BY DEF QueueInv, Stamps, StampAt, Claims

\* A request leaves with its weight.
LEMMA QueueTail ==
    ASSUME NEW q \in Seq(RequestType), q # <<>>,
           NEW c \in Nat, NEW t \in Nat, NEW d \in Nat, NEW s \in Nat,
           QueueInv(q, c, t, d, s)
    PROVE  /\ Stamps(Tail(q), d + Weight(Head(q)), s)
           /\ Weight(Head(q)) = 0 => Claims(Tail(q), c, t, d)
           /\ Head(q).stamp = d
           /\ d + Weight(Head(q)) <= s
<1>1. 1 \in 1..Len(q) /\ Head(q) = q[1] /\ Len(q) \in Nat /\ Len(q) > 0
  OBVIOUS
<1>2. Head(q).stamp = d
  BY <1>1 DEF QueueInv, Stamps, StampAt
<1>3. Weight(Head(q)) \in Nat /\ d + Weight(Head(q)) <= s
  BY <1>1, <1>2 DEF QueueInv, Stamps, Weight
<1>4. Tail(q) \in Seq(RequestType) /\ Len(Tail(q)) = Len(q) - 1
      /\ \A i \in 1..Len(Tail(q)) : Tail(q)[i] = q[i + 1] /\ i + 1 \in 1..Len(q)
  BY <1>1
<1>5. \A i \in 1..Len(q) : StampAt(Tail(q), s, i) = StampAt(q, s, i + 1)
  BY <1>1, <1>4 DEF StampAt
<1>6. Stamps(Tail(q), d + Weight(Head(q)), s)
  <2>1. StampAt(Tail(q), s, 1) = d + Weight(Head(q))
    BY <1>1, <1>5 DEF QueueInv, Stamps
  <2>2. ASSUME NEW i \in 1..Len(Tail(q))
        PROVE  /\ StampAt(Tail(q), s, i + 1) = StampAt(Tail(q), s, i) + Weight(Tail(q)[i])
               /\ Tail(q)[i].stamp + Weight(Tail(q)[i]) <= s
    <3>1. i + 1 \in 1..Len(q) /\ Tail(q)[i] = q[i + 1] /\ i \in 1..Len(q)
      BY <1>1, <1>4
    <3>2. /\ StampAt(q, s, (i + 1) + 1) = StampAt(q, s, i + 1) + Weight(q[i + 1])
          /\ q[i + 1].stamp + Weight(q[i + 1]) <= s
      BY <3>1 DEF QueueInv, Stamps
    <3> QED BY <1>5, <3>1, <3>2
  <2> QED BY <1>3, <2>1, <2>2 DEF Stamps
<1>7. Claims(Tail(q), c, t, d)
  BY <1>4 DEF QueueInv, Claims
<1> QED BY <1>2, <1>3, <1>6, <1>7

\* A request joins under the count of revocations sent so far.
LEMMA QueueAppend ==
    ASSUME NEW q \in Seq(RequestType), NEW m \in RequestType,
           NEW c \in Nat, NEW t \in Nat, NEW d \in Nat, NEW s \in Nat,
           QueueInv(q, c, t, d, s),
           m.stamp = s,
           m.known <= t,
           m.kind = "acquire" => Behind(m.epoch, m.known, c, t, s - d),
           NEW z, z = s + Weight(m)
    PROVE  QueueInv(Append(q, m), c, t, d, z)
<1> DEFINE a == Append(q, m)
           u == s + Weight(m)
<1>1. Weight(m) \in {0, 1} /\ u \in Nat /\ s <= u
  BY DEF Weight
<1>2. /\ Len(q) \in Nat /\ Len(a) = Len(q) + 1 /\ a[Len(q) + 1] = m
      /\ \A i \in 1..Len(q) : a[i] = q[i]
  OBVIOUS
<1>3. \A i \in 1..(Len(q) + 1) : StampAt(a, u, i) = StampAt(q, s, i)
  BY <1>2 DEF StampAt
<1>4. StampAt(a, u, Len(q) + 2) = u
  BY <1>2 DEF StampAt
<1>5. StampAt(q, s, Len(q) + 1) = s
  BY <1>2 DEF StampAt
<1> HIDE DEF a, u
<1>6. Stamps(a, d, u)
  <2>1. d <= u /\ StampAt(a, u, 1) = d
    BY <1>1, <1>2, <1>3 DEF QueueInv, Stamps
  <2>2. ASSUME NEW i \in 1..Len(q)
        PROVE  /\ StampAt(a, u, i + 1) = StampAt(a, u, i) + Weight(a[i])
               /\ a[i].stamp + Weight(a[i]) <= u
    <3>1. /\ StampAt(q, s, i + 1) = StampAt(q, s, i) + Weight(q[i])
          /\ q[i].stamp + Weight(q[i]) <= s
      BY DEF QueueInv, Stamps
    <3>2. q[i].stamp \in Nat /\ Weight(q[i]) \in Nat
      <4>1. q[i] \in RequestType
        OBVIOUS
      <4> QED BY <4>1 DEF RequestType, Weight
    <3>3. i \in 1..(Len(q) + 1) /\ i + 1 \in 1..(Len(q) + 1)
      BY <1>2
    <3> QED BY <1>1, <1>2, <1>3, <3>1, <3>2, <3>3
  <2>3. /\ StampAt(a, u, (Len(q) + 1) + 1) = StampAt(a, u, Len(q) + 1) + Weight(a[Len(q) + 1])
        /\ a[Len(q) + 1].stamp + Weight(a[Len(q) + 1]) <= u
    BY <1>1, <1>2, <1>3, <1>4, <1>5 DEF u
  <2>4. \A i \in 1..Len(a) : i \in 1..Len(q) \/ i = Len(q) + 1
    BY <1>2
  <2> QED BY <2>1, <2>2, <2>3, <2>4 DEF Stamps
<1>7. Claims(a, c, t, d)
  <2>1. \A i \in 1..Len(a) : i \in 1..Len(q) \/ i = Len(q) + 1
    BY <1>2
  <2> QED BY <1>2, <2>1 DEF QueueInv, Claims
<1> QED BY <1>6, <1>7 DEF QueueInv, a, u

\* The compositor's epoch, moved by one revocation.
LEMMA BehindMoves ==
    ASSUME NEW e \in Nat, NEW k \in Nat, NEW c \in Nat, NEW t \in Nat, NEW x \in Int,
           Behind(e, k, c, t, x),
           NEW b \in Nat, b < EpochMax => c < EpochMax /\ b = c + 1
    PROVE  /\ Behind(e, k, b, t + 1, x)
           /\ Behind(e, k, b, t, x - 1)
           /\ Behind(e, k, b, t, x)
BY DEF Behind

LEMMA ClaimsMove ==
    ASSUME NEW q \in Seq(RequestType),
           NEW c \in Nat, NEW t \in Nat, NEW d \in Nat, Claims(q, c, t, d),
           NEW b \in Nat, b < EpochMax => c < EpochMax /\ b = c + 1
    PROVE  Claims(q, b, t + 1, d) /\ Claims(q, b, t, d + 1)
<1> SUFFICES ASSUME NEW i \in 1..Len(q)
             PROVE  /\ q[i].known <= t /\ q[i].known <= t + 1
                    /\ q[i].kind = "acquire" =>
                        /\ Behind(q[i].epoch, q[i].known, b, t + 1, q[i].stamp - d)
                        /\ Behind(q[i].epoch, q[i].known, b, t, q[i].stamp - (d + 1))
  BY DEF Claims
<1>1. q[i] \in RequestType
  OBVIOUS
<1>2. q[i].epoch \in Nat /\ q[i].known \in Nat /\ q[i].stamp \in Nat
  BY <1>1 DEF RequestType
<1>3. /\ q[i].known <= t
      /\ q[i].kind = "acquire" => Behind(q[i].epoch, q[i].known, c, t, q[i].stamp - d)
  BY DEF Claims
<1>4. q[i].stamp - (d + 1) = (q[i].stamp - d) - 1 /\ q[i].stamp - d \in Int
  <2>1. PICK s \in Nat : s = q[i].stamp
    BY <1>2
  <2>2. s - (d + 1) = (s - d) - 1 /\ s - d \in Int
    OBVIOUS
  <2> QED BY <2>1, <2>2
<1>5. ASSUME q[i].kind = "acquire"
      PROVE  /\ Behind(q[i].epoch, q[i].known, b, t + 1, q[i].stamp - d)
             /\ Behind(q[i].epoch, q[i].known, b, t, q[i].stamp - (d + 1))
  <2> DEFINE x == q[i].stamp - d
  <2>1. x \in Int /\ Behind(q[i].epoch, q[i].known, c, t, x)
    BY <1>3, <1>4, <1>5
  <2>2. q[i].stamp - (d + 1) = x - 1
    BY <1>4
  <2> HIDE DEF x
  <2>3. Behind(q[i].epoch, q[i].known, b, t + 1, x) /\ Behind(q[i].epoch, q[i].known, b, t, x - 1)
    BY <1>2, <2>1, BehindMoves
  <2> QED BY <2>2, <2>3 DEF x
<1>6. q[i].known <= t + 1
  BY <1>2, <1>3
<1> QED BY <1>3, <1>5, <1>6

LEMMA ReportsMove ==
    ASSUME NEW s \in StateType, NEW q \in Seq(StateType),
           NEW c \in Nat, NEW t \in Nat, Reports(s, q, c, t),
           NEW b \in Nat, b < EpochMax => c < EpochMax /\ b = c + 1
    PROVE  Reports(s, q, b, t + 1) /\ Reports(s, q, b, t)
<1>1. ASSUME NEW m \in StateType, Heard(m, c, t)
      PROVE  Heard(m, b, t + 1) /\ Heard(m, b, t)
  <2>1. m.epoch \in Nat /\ m.known \in Nat
    BY DEF StateType
  <2>2. m.known <= t /\ Behind(m.epoch, m.known, c, t, 0)
    BY <1>1 DEF Heard
  <2>3. Behind(m.epoch, m.known, b, t + 1, 0) /\ Behind(m.epoch, m.known, b, t, 0)
    <3>1. 0 \in Int /\ 0 - 1 \in Int
      OBVIOUS
    <3>2. /\ Behind(m.epoch, m.known, b, t + 1, 0)
          /\ Behind(m.epoch, m.known, b, t, 0 - 1)
          /\ Behind(m.epoch, m.known, b, t, 0)
      BY <2>1, <2>2, <3>1, BehindMoves
    <3> QED BY <3>2
  <2>4. m.known <= t + 1
    BY <2>1, <2>2
  <2> QED BY <2>2, <2>3, <2>4 DEF Heard
<1> QED BY <1>1 DEF Reports

LEMMA ReportsAppend ==
    ASSUME NEW s \in StateType, NEW q \in Seq(StateType), NEW m \in StateType,
           NEW c \in Nat, NEW t \in Nat, Reports(s, q, c, t),
           m.epoch = c, m.known = t
    PROVE  Reports(s, Append(q, m), c, t)
<1>1. Heard(m, c, t)
  BY DEF Heard, Behind
<1>2. \A i \in 1..Len(q) : q[i].known <= t /\ s.known <= t
  BY DEF Reports, Heard
<1> DEFINE a == Append(q, m)
<1>3. /\ Len(a) = Len(q) + 1 /\ a[Len(q) + 1] = m
      /\ \A i \in 1..Len(q) : a[i] = q[i]
      /\ \A i \in 1..Len(a) : i \in 1..Len(q) \/ i = Len(q) + 1
  OBVIOUS
<1> HIDE DEF a
<1>4. Heard(s, c, t) /\ \A i \in 1..Len(a) : Heard(a[i], c, t) /\ s.known <= a[i].known
  BY <1>1, <1>2, <1>3 DEF Reports, Heard
<1>5. \A i, j \in 1..Len(a) : i <= j => a[i].known <= a[j].known
  BY <1>2, <1>3 DEF Reports
<1> QED BY <1>4, <1>5 DEF Reports, a

LEMMA ReportsHead ==
    ASSUME NEW s \in StateType, NEW q \in Seq(StateType), q # <<>>,
           NEW c \in Nat, NEW t \in Nat, Reports(s, q, c, t)
    PROVE  Reports(Head(q), Tail(q), c, t) /\ s.known <= Head(q).known
<1>1. 1 \in 1..Len(q) /\ Head(q) = q[1] /\ Len(q) \in Nat
      /\ Len(Tail(q)) = Len(q) - 1
      /\ \A i \in 1..Len(Tail(q)) : Tail(q)[i] = q[i + 1] /\ i + 1 \in 1..Len(q)
  OBVIOUS
<1>2. \A i \in 1..Len(Tail(q)) : Heard(Tail(q)[i], c, t) /\ Head(q).known <= Tail(q)[i].known
  BY <1>1 DEF Reports
<1>3. \A i, j \in 1..Len(Tail(q)) : i <= j => Tail(q)[i].known <= Tail(q)[j].known
  BY <1>1 DEF Reports
<1> QED BY <1>1, <1>2, <1>3 DEF Reports

\* What the daemon appends.
LEMMA QueueRequests ==
    ASSUME TypeOK, NEW q \in Seq(RequestType), NEW d \in Nat, NEW s \in Nat,
           QueueInv(q, epoch, takeovers, d, s), seen.known <= takeovers
    PROVE  /\ \A e \in Nat :
                (s = revsSent /\ Behind(e, seen.known, epoch, takeovers, s - d)) =>
                    QueueInv(AcquireGate(q, e), epoch, takeovers, d, s)
           /\ s = revsSent => QueueInv(PressEvent(q), epoch, takeovers, d, s)
           /\ QueueInv(ReleaseEvent(q, s), epoch, takeovers, d, s)
           /\ QueueInv(ReleaseAll(q, s), epoch, takeovers, d, s)
           /\ QueueInv(RevokeRequest(q, s), epoch, takeovers, d, s + 1)
<1>1. epoch \in Nat /\ takeovers \in Nat
  BY DEF TypeOK, CompTypes, GhostTypes
<1>2. ASSUME NEW m \in RequestType, m.stamp = s, m.known <= takeovers, m.kind # "revoke",
             m.kind = "acquire" => Behind(m.epoch, m.known, epoch, takeovers, s - d)
      PROVE  QueueInv(Append(q, m), epoch, takeovers, d, s)
  <2>1. s = s + Weight(m)
    BY <1>2 DEF Weight
  <2> QED BY <1>1, <1>2, <2>1, QueueAppend
<1>3. ASSUME NEW e \in Nat, s = revsSent,
             Behind(e, seen.known, epoch, takeovers, s - d)
      PROVE  QueueInv(AcquireGate(q, e), epoch, takeovers, d, s)
  <2>1. Request("acquire", e, revsSent) \in RequestType
    BY <1>3, RequestTypes DEF Kinds
  <2> QED BY <1>2, <1>3, <2>1 DEF AcquireGate, Request
<1>4. ASSUME s = revsSent
      PROVE  QueueInv(PressEvent(q), epoch, takeovers, d, s)
  <2>1. Request("press", 0, revsSent) \in RequestType
    BY <1>4, RequestTypes DEF Kinds
  <2> QED BY <1>2, <1>4, <2>1 DEF PressEvent, Request
<1>5. QueueInv(ReleaseEvent(q, s), epoch, takeovers, d, s)
  <2>1. Request("release", 0, s) \in RequestType
    BY RequestTypes DEF Kinds
  <2> QED BY <1>1, <1>2, <2>1 DEF ReleaseEvent, Request
<1>6. QueueInv(RevokeRequest(q, s), epoch, takeovers, d, s + 1)
  <2> DEFINE m == Request("revoke", 0, s)
  <2>1. m \in RequestType
    BY RequestTypes DEF Kinds
  <2>2. m.stamp = s /\ m.known = 0 /\ m.kind = "revoke" /\ Weight(m) = 1
    BY DEF Request, Weight
  <2> HIDE DEF m
  <2>3. PICK z : z = s + 1
    OBVIOUS
  <2>4. m.kind # "acquire" /\ m.known <= takeovers /\ z = s + Weight(m)
    BY <1>1, <2>2, <2>3
  <2>5. QueueInv(Append(q, m), epoch, takeovers, d, z)
    BY <1>1, <2>1, <2>2, <2>4, QueueAppend
  <2> QED BY <2>3, <2>5 DEF RevokeRequest, m
<1> QED BY <1>3, <1>4, <1>5, <1>6 DEF ReleaseAll

LEMMA QueueRevoked ==
    ASSUME TypeOK, NEW d \in Nat, seen.known <= takeovers,
           QueueInv(toComp, epoch, takeovers, d, revsSent)
    PROVE  QueueInv(Revoked, epoch, takeovers, d, revsSent + 1)
<1>1. toComp \in Seq(RequestType) /\ revsSent \in Nat /\ revsSent + 1 \in Nat
  BY DEF TypeOK, LinkTypes, GhostTypes
<1>2. /\ RevokeRequest(toComp, revsSent) \in Seq(RequestType)
      /\ QueueInv(RevokeRequest(toComp, revsSent), epoch, takeovers, d, revsSent + 1)
  BY <1>1, QueueTypes, QueueRequests
<1> QED BY <1>1, <1>2, QueueRequests DEF Revoked

\* The three ways in which a step of the compositor moves the counts, short of
\* losing the connection: nothing is revoked; a revocation the daemon did not ask
\* for; the one at the head of the queue, which it did ask for.
LEMMA GateMoves ==
    ASSUME TypeOK, Compositor, ~ControlResourceDestroy
    PROVE  /\ revsSent' = revsSent
           /\ \/ /\ UNCHANGED <<epoch, takeovers, revsDone>>
                 /\ \/ UNCHANGED toComp
                    \/ /\ toComp # <<>>
                       /\ Weight(Head(toComp)) = 0
                       /\ toComp' = Tail(toComp)
                 /\ allowed' =>
                    \/ allowed /\ UNCHANGED grant
                    \/ /\ toComp # <<>>
                       /\ Head(toComp).kind = "acquire"
                       /\ Head(toComp).epoch = epoch
                       /\ epoch # EpochMax
                       /\ grant'.known = Head(toComp).known
              \/ /\ epoch' = Bump
                 /\ ~allowed'
                 /\ takeovers' = takeovers + 1
                 /\ UNCHANGED revsDone
                 /\ \/ UNCHANGED toComp
                    \/ /\ toComp # <<>>
                       /\ Weight(Head(toComp)) = 0
                       /\ toComp' = Tail(toComp)
              \/ /\ epoch' = Bump
                 /\ ~allowed'
                 /\ UNCHANGED takeovers
                 /\ revsDone' = revsDone + 1
                 /\ toComp # <<>>
                 /\ Weight(Head(toComp)) = 1
                 /\ toComp' = Tail(toComp)
<1>1. CASE ProcessAcquire
  <2>1. /\ UNCHANGED <<epoch, takeovers, revsDone, revsSent>>
        /\ toComp # <<>> /\ toComp' = Tail(toComp) /\ Weight(Head(toComp)) = 0
    BY <1>1 DEF ProcessAcquire, Pending, Weight
  <2>2. allowed' => /\ Head(toComp).kind = "acquire"
                    /\ Head(toComp).epoch = epoch
                    /\ epoch # EpochMax
                    /\ grant' = [known |-> Head(toComp).known, lease |-> Head(toComp).lease]
    BY <1>1 DEF ProcessAcquire, Pending, Granted
  <2> QED BY <2>1, <2>2
<1>2. CASE ProcessStaleAcquire
  BY <1>2 DEF ProcessStaleAcquire, Pending, ControlRevoke, Weight
<1>3. CASE ProcessRevoke
  BY <1>3 DEF ProcessRevoke, Pending, ControlRevoke, Weight
<1>4. CASE ProcessPress \/ ProcessRelease
  BY <1>4 DEF ProcessPress, ProcessRelease, Pending, Weight, ghostVars
<1>5. CASE Human
  <2>1. ASSUME NEW held \in BOOLEAN, ReportHumanActivity(held)
        PROVE  /\ UNCHANGED <<toComp, revsSent, revsDone>>
               /\ \/ UNCHANGED <<epoch, takeovers, allowed, grant>>
                  \/ epoch' = Bump /\ ~allowed' /\ takeovers' = takeovers + 1
    BY <2>1 DEF ReportHumanActivity, ControlRevoke
  <2>2. humanHeld \in BOOLEAN
    BY DEF TypeOK, CompTypes
  <2>3. CASE HumanKey \/ HumanTouch \/ HumanWheel
    BY <2>1, <2>2, <2>3 DEF HumanKey, HumanTouch, HumanWheel
  <2>4. CASE HumanUnplug
    BY <2>4 DEF HumanUnplug, ghostVars
  <2> QED BY <1>5, <2>3, <2>4 DEF Human
<1>6. CASE HoldTimeoutExpired
  BY <1>6 DEF HoldTimeoutExpired, ControlRevoke
<1>7. CASE QuietElapses \/ ControlQuietTimer
  BY <1>7 DEF QuietElapses, ControlQuietTimer, ghostVars
<1> QED
  BY <1>1, <1>2, <1>3, <1>4, <1>5, <1>6, <1>7 DEF Compositor, ProcessRequest

LEMMA KnowledgeCompositor ==
    TypeOK /\ TypeOK' /\ LinkInv /\ KnowledgeInv /\ Compositor => KnowledgeInv'
<1> SUFFICES ASSUME TypeOK, TypeOK', LinkInv, KnowledgeInv, Compositor
             PROVE  KnowledgeInv'
  OBVIOUS
<1>types. /\ toComp \in Seq(RequestType) /\ toDaemon \in Seq(StateType)
          /\ epoch \in Nat /\ epoch <= EpochMax /\ epoch' \in Nat
          /\ takeovers \in Nat /\ revsSent \in Nat /\ revsDone \in Nat
          /\ takeovers' \in Nat
          /\ seen \in StateType /\ controlEpoch \in Nat
  BY DEF TypeOK, LinkTypes, CompTypes, GhostTypes, DaemonTypes
<1>known. seen.epoch \in Nat /\ seen.known \in Nat
  BY <1>types DEF StateType
<1>daemon. UNCHANGED <<running, seen, controlEpoch>>
  BY CompositorLeavesDaemon DEF daemonVars
<1>bump. epoch' = Bump => (epoch' < EpochMax => epoch < EpochMax /\ epoch' = epoch + 1)
  BY <1>types DEF Bump
<1>inv. /\ Stamps(toComp, revsDone, revsSent)
        /\ Claims(toComp, epoch, takeovers, revsDone)
        /\ NoStaleGrant
  BY DEF KnowledgeInv, QueueInv
<1>told. ASSUME running, Reports(seen, toDaemon, epoch', takeovers')
         PROVE  Reports(seen, toDaemon', epoch', takeovers')
  BY <1>told, <1>types, CompositorEffect, ReportsAppend
<1>1. CASE ControlResourceDestroy
  <2>1. ~running /\ toComp' = <<>> /\ revsDone' = revsSent /\ revsSent' = revsSent /\ ~allowed'
    BY <1>1 DEF ControlResourceDestroy, ControlRevoke
  <2>2. QueueInv(toComp', epoch', takeovers', revsDone', revsSent')
    BY <1>types, <2>1, EmptyQueue
  <2> QED BY <1>daemon, <2>1, <2>2 DEF KnowledgeInv, NoStaleGrant
<1>2. CASE ~ControlResourceDestroy /\ UNCHANGED <<epoch, takeovers, revsDone>>
  <2>1. /\ revsSent' = revsSent
        /\ UNCHANGED toComp \/ (toComp # <<>> /\ Weight(Head(toComp)) = 0 /\ toComp' = Tail(toComp))
        /\ allowed' =>
            \/ allowed /\ UNCHANGED grant
            \/ /\ toComp # <<>>
               /\ Head(toComp).kind = "acquire"
               /\ Head(toComp).epoch = epoch
               /\ epoch # EpochMax
               /\ grant'.known = Head(toComp).known
    BY <1>2, <1>types, GateMoves
  <2>2. QueueInv(toComp', epoch', takeovers', revsDone', revsSent')
    <3>1. CASE UNCHANGED toComp
      BY <1>2, <1>inv, <2>1, <3>1 DEF QueueInv
    <3>2. CASE toComp # <<>> /\ Weight(Head(toComp)) = 0 /\ toComp' = Tail(toComp)
      <4>1. revsDone + 0 = revsDone
        BY <1>types
      <4> QED BY <1>2, <1>types, <1>inv, <2>1, <3>2, <4>1, QueueTail DEF QueueInv
    <3> QED BY <2>1, <3>1, <3>2
  <2>3. NoStaleGrant'
    <3>1. CASE allowed /\ UNCHANGED grant
      BY <1>2, <1>inv, <3>1 DEF NoStaleGrant
    <3>2. ASSUME toComp # <<>>, Head(toComp).kind = "acquire", Head(toComp).epoch = epoch,
                 epoch # EpochMax
          PROVE  Head(toComp).known = takeovers
      <4> DEFINE m == Head(toComp)
      <4>1. 1 \in 1..Len(toComp) /\ m = toComp[1] /\ m \in RequestType
        BY <1>types, <3>2
      <4>2. m.known \in Nat /\ m.epoch \in Nat
        BY <4>1 DEF RequestType
      <4>3. m.stamp - revsDone = 0
        BY <1>types, <1>inv, <3>2, QueueTail DEF QueueInv
      <4>4. m.known <= takeovers /\ Behind(m.epoch, m.known, epoch, takeovers, 0)
        BY <1>inv, <3>2, <4>1, <4>3 DEF Claims
      <4>5. epoch < EpochMax
        BY <1>types, <3>2
      <4> QED BY <1>types, <3>2, <4>2, <4>4, <4>5 DEF Behind
    <3> QED BY <1>2, <2>1, <3>1, <3>2 DEF NoStaleGrant
  <2>4. running => Reports(seen, toDaemon', epoch', takeovers')
    BY <1>2, <1>told DEF KnowledgeInv
  <2> QED BY <1>2, <1>daemon, <2>1, <2>2, <2>3, <2>4 DEF KnowledgeInv
<1>3. CASE ~ControlResourceDestroy /\ epoch' = Bump /\ ~allowed'
           /\ takeovers' = takeovers + 1 /\ UNCHANGED revsDone
  <2>1. /\ revsSent' = revsSent
        /\ UNCHANGED toComp \/ (toComp # <<>> /\ Weight(Head(toComp)) = 0 /\ toComp' = Tail(toComp))
    BY <1>3, <1>types, GateMoves
  <2>2. Stamps(toComp', revsDone, revsSent) /\ Claims(toComp', epoch, takeovers, revsDone)
    <3>1. CASE UNCHANGED toComp
      BY <1>inv, <3>1
    <3>2. CASE toComp # <<>> /\ Weight(Head(toComp)) = 0 /\ toComp' = Tail(toComp)
      <4>1. revsDone + 0 = revsDone
        BY <1>types
      <4> QED BY <1>types, <1>inv, <3>2, <4>1, QueueTail DEF QueueInv
    <3> QED BY <2>1, <3>1, <3>2
  <2>3. toComp' \in Seq(RequestType)
    BY DEF TypeOK, LinkTypes
  <2>4. QueueInv(toComp', epoch', takeovers', revsDone', revsSent')
    BY <1>3, <1>types, <1>bump, <2>1, <2>2, <2>3, ClaimsMove DEF QueueInv
  <2>5. ASSUME running
        PROVE  /\ Reports(seen, toDaemon', epoch', takeovers')
               /\ Behind(controlEpoch, seen.known, epoch', takeovers', revsSent - revsDone)
    <3>1. /\ Reports(seen, toDaemon, epoch, takeovers)
          /\ Behind(controlEpoch, seen.known, epoch, takeovers, revsSent - revsDone)
      BY <2>5 DEF KnowledgeInv
    <3>2. Reports(seen, toDaemon, epoch', takeovers')
      BY <1>3, <1>types, <1>bump, <3>1, ReportsMove
    <3>3. revsSent - revsDone \in Int
      BY <1>types
    <3> QED BY <1>3, <1>types, <1>known, <1>bump, <1>told, <2>5, <3>1, <3>2, <3>3, BehindMoves
  <2> QED BY <1>3, <1>daemon, <2>1, <2>4, <2>5 DEF KnowledgeInv, NoStaleGrant
<1>4. CASE ~ControlResourceDestroy /\ epoch' = Bump /\ ~allowed' /\ UNCHANGED takeovers
           /\ revsDone' = revsDone + 1
  <2>1. /\ revsSent' = revsSent
        /\ toComp # <<>> /\ Weight(Head(toComp)) = 1 /\ toComp' = Tail(toComp)
    BY <1>4, <1>types, GateMoves
  <2>2. toComp' \in Seq(RequestType)
    BY DEF TypeOK, LinkTypes
  <2>3. Stamps(toComp', revsDone + 1, revsSent)
    BY <1>types, <1>inv, <2>1, QueueTail DEF QueueInv
  <2>4. Claims(toComp', epoch', takeovers, revsDone + 1)
    <3>1. Claims(toComp, epoch', takeovers, revsDone + 1)
      BY <1>4, <1>types, <1>bump, <1>inv, ClaimsMove
    <3> QED BY <1>types, <2>1, <3>1 DEF Claims
  <2>5. ASSUME running
        PROVE  /\ Reports(seen, toDaemon', epoch', takeovers')
               /\ Behind(controlEpoch, seen.known, epoch', takeovers', revsSent - revsDone')
    <3>1. /\ Reports(seen, toDaemon, epoch, takeovers)
          /\ Behind(controlEpoch, seen.known, epoch, takeovers, revsSent - revsDone)
      BY <2>5 DEF KnowledgeInv
    <3>2. Reports(seen, toDaemon, epoch', takeovers')
      BY <1>4, <1>types, <1>bump, <3>1, ReportsMove
    <3>3. revsSent - revsDone \in Int /\ revsSent - revsDone' = (revsSent - revsDone) - 1
      BY <1>4, <1>types
    <3> QED BY <1>4, <1>types, <1>known, <1>bump, <1>told, <2>5, <3>1, <3>2, <3>3, BehindMoves
  <2> QED BY <1>4, <1>daemon, <2>1, <2>3, <2>4, <2>5 DEF KnowledgeInv, NoStaleGrant, QueueInv
<1> QED
  BY <1>1, <1>2, <1>3, <1>4, GateMoves

LEMMA DaemonLeavesCounts == Daemon => UNCHANGED <<takeovers, revsDone, grant>>
<1> SUFFICES ASSUME Daemon
             PROVE  UNCHANGED <<takeovers, revsDone, grant>>
  OBVIOUS
<1>1. CASE Serve
  BY <1>1 DEF Serve, AcquireControl, ReleaseControl, SendMotion, SendPress,
     SendRelease, SendClick, StartTyping, InputSent, CancelOperation,
     ReleaseWindow, Pause, RevokeInput, Resume, CreateSeat, DestroySeat, Shutdown, ghostVars
<1>2. CASE ~Serve
  BY <1>2 DEF Daemon, ExpireWriter, RevokeInput, ControlState, SyncControlState, AdvanceTyping,
     AdvanceIdle, TypeCodepoint, TypeCodepointFails, EndTurn, LeaseRunsOut,
     DaemonQuietElapses, Exit, Crash, DaemonGone, StartDaemon, ghostVars
<1> QED BY <1>1, <1>2

LEMMA BehindKept ==
    ASSUME NEW e \in Nat, NEW f \in Nat, NEW k \in Nat, NEW c \in Nat, NEW t \in Nat,
           NEW d \in Nat, NEW r \in Nat, NEW s \in Nat,
           Behind(e, k, c, t, r - d), f + r <= e + s
    PROVE  Behind(f, k, c, t, s - d)
BY DEF Behind

LEMMA BehindEarlier ==
    ASSUME NEW e \in Nat, NEW f \in Nat, NEW k \in Nat, NEW c \in Nat, NEW t \in Nat,
           NEW x \in Int, Behind(e, k, c, t, x), f <= e
    PROVE  Behind(f, k, c, t, x)
BY DEF Behind

LEMMA BehindMore ==
    ASSUME NEW e \in Nat, NEW k \in Nat, NEW c \in Nat, NEW t \in Nat,
           NEW x \in Nat, Behind(e, k, c, t, 0)
    PROVE  Behind(e, k, c, t, x)
BY DEF Behind

\* It is enough that the queue stays sound and that the daemon counts its own
\* epoch up at most once for each revocation it sends.
LEMMA KnowledgeKept ==
    ASSUME TypeOK, TypeOK', KnowledgeInv, Daemon, running,
           UNCHANGED <<running, seen, toDaemon>>,
           controlEpoch' + revsSent <= controlEpoch + revsSent',
           QueueInv(toComp', epoch, takeovers, revsDone, revsSent')
    PROVE  KnowledgeInv'
<1>1. UNCHANGED <<epoch, allowed, takeovers, revsDone, grant>>
  BY DaemonLeavesGate, DaemonLeavesCounts
<1>2. /\ epoch \in Nat /\ takeovers \in Nat /\ revsDone \in Nat
      /\ revsSent \in Nat /\ revsSent' \in Nat
      /\ controlEpoch \in Nat /\ controlEpoch' \in Nat
  BY DEF TypeOK, CompTypes, GhostTypes, DaemonTypes
<1>3. seen.known \in Nat
  BY DEF TypeOK, DaemonTypes, StateType
<1>4. Behind(controlEpoch', seen.known, epoch, takeovers, revsSent' - revsDone)
  <2>1. Behind(controlEpoch, seen.known, epoch, takeovers, revsSent - revsDone)
    BY DEF KnowledgeInv
  <2>2. controlEpoch' + revsSent <= controlEpoch + revsSent'
    OBVIOUS
  <2> QED BY <1>2, <1>3, <2>1, <2>2, BehindKept
<1> QED BY <1>1, <1>4 DEF KnowledgeInv, NoStaleGrant

LEMMA KnowledgeDaemon ==
    TypeOK /\ TypeOK' /\ LinkInv /\ KnowledgeInv /\ Daemon => KnowledgeInv'
<1> SUFFICES ASSUME TypeOK, TypeOK', LinkInv, KnowledgeInv, Daemon
             PROVE  KnowledgeInv'
  OBVIOUS
<1>types. /\ toComp \in Seq(RequestType) /\ toDaemon \in Seq(StateType)
          /\ revsSent \in Nat /\ revsSent + 1 \in Nat /\ revsDone \in Nat
          /\ controlEpoch \in Nat /\ controlEpoch' \in Nat
          /\ epoch \in Nat /\ takeovers \in Nat /\ seen \in StateType
  BY DEF TypeOK, LinkTypes, GhostTypes, CompTypes, DaemonTypes
<1>known. seen.epoch \in Nat /\ seen.known \in Nat
  BY <1>types DEF StateType
<1>wire. Wire(controlEpoch) \in Nat /\ Wire(controlEpoch) <= controlEpoch
  BY <1>types, WireBound
<1>inv. /\ QueueInv(toComp, epoch, takeovers, revsDone, revsSent)
        /\ revsDone <= revsSent
        /\ running => /\ seen.known <= takeovers
                      /\ Heard(seen, epoch, takeovers)
                      /\ Behind(controlEpoch, seen.known, epoch, takeovers, revsSent - revsDone)
  BY DEF KnowledgeInv, QueueInv, Stamps, Reports, Heard
<1>ask. ASSUME running, NEW q \in Seq(RequestType),
               QueueInv(q, epoch, takeovers, revsDone, revsSent)
        PROVE  /\ AcquireGate(q, Wire(controlEpoch)) \in Seq(RequestType)
               /\ QueueInv(AcquireGate(q, Wire(controlEpoch)), epoch, takeovers, revsDone, revsSent)
  <2>1. Behind(Wire(controlEpoch), seen.known, epoch, takeovers, revsSent - revsDone)
    <3>1. Behind(controlEpoch, seen.known, epoch, takeovers, revsSent - revsDone)
      BY <1>ask, <1>inv
    <3>2. revsSent - revsDone \in Int
      BY <1>types
    <3> QED BY <1>types, <1>known, <1>wire, <3>1, <3>2, BehindEarlier
  <2> QED BY <1>ask, <1>types, <1>wire, <1>inv, <2>1, QueueTypes, QueueRequests
<1>edges. ASSUME running, NEW q \in Seq(RequestType),
                 QueueInv(q, epoch, takeovers, revsDone, revsSent)
          PROVE  /\ PressEvent(q) \in Seq(RequestType)
                 /\ QueueInv(PressEvent(q), epoch, takeovers, revsDone, revsSent)
                 /\ QueueInv(ReleaseEvent(q, revsSent), epoch, takeovers, revsDone, revsSent)
                 /\ QueueInv(ReleaseAll(q, revsSent), epoch, takeovers, revsDone, revsSent)
  BY <1>edges, <1>types, <1>inv, QueueTypes, QueueRequests
<1>revoked. running => QueueInv(Revoked, epoch, takeovers, revsDone, revsSent + 1)
  BY <1>types, <1>inv, QueueRevoked
<1>revoke. ASSUME running, RevokeInput
           PROVE  KnowledgeInv'
  <2>1. /\ controlEpoch' = controlEpoch + 1 /\ toComp' = Revoked /\ revsSent' = revsSent + 1
        /\ UNCHANGED <<running, toDaemon, seen>>
    BY <1>revoke DEF RevokeInput
  <2>2. controlEpoch' + revsSent <= controlEpoch + revsSent'
    BY <2>1, <1>types
  <2> QED BY <1>revoke, <1>revoked, <2>1, <2>2, KnowledgeKept
<1>quiet. ASSUME running, UNCHANGED <<running, seen, toDaemon, controlEpoch, revsSent>>,
                 QueueInv(toComp', epoch, takeovers, revsDone, revsSent)
          PROVE  KnowledgeInv'
  BY <1>quiet, <1>types, KnowledgeKept
<1>1. ASSUME NEW c \in Controllers, AcquireControl(c) \/ StartTyping(c)
      PROVE  KnowledgeInv'
  BY <1>1, <1>inv, <1>quiet DEF AcquireControl, StartTyping, InputAdmitted, Turn, ghostVars
<1>2. ASSUME NEW c \in Controllers, ReleaseControl(c)
      PROVE  KnowledgeInv'
  BY <1>2, <1>revoke DEF ReleaseControl, Turn
<1>sent. InputSent => UNCHANGED <<running, seen, toDaemon, controlEpoch, revsSent>>
  BY DEF InputSent, ghostVars
<1>3. ASSUME NEW c \in Controllers, SendMotion(c)
      PROVE  KnowledgeInv'
  BY <1>3, <1>types, <1>inv, <1>ask, <1>quiet, <1>sent DEF SendMotion, InputAdmitted, Turn
<1>4. ASSUME NEW c \in Controllers, SendPress(c)
      PROVE  KnowledgeInv'
  <2> DEFINE asked == AcquireGate(toComp, Wire(controlEpoch))
  <2>1. running /\ InputSent /\ (toComp' = asked \/ toComp' = PressEvent(asked))
    BY <1>4 DEF SendPress, InputAdmitted, Turn
  <2>2. asked \in Seq(RequestType) /\ QueueInv(asked, epoch, takeovers, revsDone, revsSent)
    BY <2>1, <1>types, <1>inv, <1>ask
  <2> HIDE DEF asked
  <2> QED BY <2>1, <2>2, <1>edges, <1>quiet, <1>sent
<1>5. ASSUME NEW c \in Controllers, SendRelease(c)
      PROVE  KnowledgeInv'
  <2> DEFINE asked == AcquireGate(toComp, Wire(controlEpoch))
  <2>1. running /\ InputSent /\ toComp' = ReleaseAll(asked, revsSent)
    BY <1>5 DEF SendRelease, InputAdmitted, Turn
  <2>2. asked \in Seq(RequestType) /\ QueueInv(asked, epoch, takeovers, revsDone, revsSent)
    BY <2>1, <1>types, <1>inv, <1>ask
  <2> HIDE DEF asked
  <2> QED BY <2>1, <2>2, <1>edges, <1>quiet, <1>sent
<1>6. ASSUME NEW c \in Controllers, SendClick(c)
      PROVE  KnowledgeInv'
  <2> DEFINE Ask(q) == AcquireGate(q, Wire(controlEpoch))
             asked == Ask(toComp)
             down == IF pressed THEN asked ELSE PressEvent(asked)
             again == Ask(down)
  <2>1. running /\ InputSent /\ toComp' = ReleaseEvent(again, revsSent)
    BY <1>6 DEF SendClick, InputAdmitted, Turn
  <2>2. asked \in Seq(RequestType) /\ QueueInv(asked, epoch, takeovers, revsDone, revsSent)
    BY <2>1, <1>types, <1>inv, <1>ask
  <2>3. down \in Seq(RequestType) /\ QueueInv(down, epoch, takeovers, revsDone, revsSent)
    <3>1. down = asked \/ down = PressEvent(asked)
      OBVIOUS
    <3> HIDE DEF asked, down
    <3> QED BY <2>1, <2>2, <3>1, <1>edges
  <2>4. again \in Seq(RequestType) /\ QueueInv(again, epoch, takeovers, revsDone, revsSent)
    <3> HIDE DEF down
    <3> QED BY <2>1, <2>3, <1>ask
  <2> HIDE DEF again
  <2> QED BY <2>1, <2>4, <1>edges, <1>quiet, <1>sent
<1>7. CASE CancelOperation \/ ReleaseWindow \/ Pause
  BY <1>7, <1>revoke DEF CancelOperation, ReleaseWindow, Pause, Turn
<1>8. CASE Resume
  BY <1>8, <1>inv, <1>quiet DEF Resume, Turn, ghostVars
<1>9. CASE CreateSeat
  <2>1. /\ running /\ toComp' = AcquireGate(toComp, seen.epoch)
        /\ UNCHANGED <<running, seen, toDaemon, controlEpoch, revsSent>>
    BY <1>9 DEF CreateSeat, Turn, ghostVars
  <2>2. Behind(seen.epoch, seen.known, epoch, takeovers, revsSent - revsDone)
    BY <2>1, <1>types, <1>known, <1>inv DEF Heard, Behind
  <2> QED BY <2>1, <2>2, <1>types, <1>known, <1>inv, <1>quiet, QueueRequests
<1>10. CASE DestroySeat
  <2>1. /\ running /\ controlEpoch' = controlEpoch + 1
        /\ UNCHANGED <<running, seen, toDaemon>>
        /\ \/ toComp' = Revoked /\ revsSent' = revsSent + 1
           \/ toComp' = RevokeRequest(Revoked, revsSent + 1) /\ revsSent' = revsSent + 2
    BY <1>10 DEF DestroySeat, Turn
  <2>2. controlEpoch' + revsSent <= controlEpoch + revsSent'
    BY <2>1, <1>types
  <2>3. QueueInv(RevokeRequest(Revoked, revsSent + 1), epoch, takeovers, revsDone, revsSent + 2)
    <3>1. (revsSent + 1) + 1 = revsSent + 2
      BY <1>types
    <3>2. QueueInv(RevokeRequest(Revoked, revsSent + 1), epoch, takeovers, revsDone,
                   (revsSent + 1) + 1)
      BY <2>1, <1>types, <1>inv, <1>revoked, RevokedType, QueueRequests
    <3> QED BY <3>1, <3>2
  <2> QED BY <2>1, <2>2, <2>3, <1>revoked, KnowledgeKept
<1>11. CASE Shutdown
  <2>1. /\ running /\ UNCHANGED <<running, seen, toDaemon, controlEpoch>>
        /\ \/ toComp' = Revoked /\ revsSent' = revsSent + 1
           \/ toComp' = toComp /\ revsSent' = revsSent
    BY <1>11 DEF Shutdown, SeatDestroyed, Turn
  <2>2. controlEpoch' + revsSent <= controlEpoch + revsSent'
    BY <2>1, <1>types
  <2> QED BY <2>1, <2>2, <1>inv, <1>revoked, KnowledgeKept
<1>12. CASE ExpireWriter
  <2>1. CASE RevokeInput
    BY <1>12, <2>1, <1>revoke DEF ExpireWriter, Turn
  <2>2. CASE ~RevokeInput
    BY <1>12, <2>2, <1>inv, <1>quiet DEF ExpireWriter, Turn, ghostVars
  <2> QED BY <2>1, <2>2
<1>13. CASE ControlState
  <2>1. /\ running /\ UNCHANGED <<running, controlEpoch, revsSent, toComp>> /\ toDaemon # <<>>
        /\ seen' = Head(toDaemon) /\ toDaemon' = Tail(toDaemon)
    BY <1>13 DEF ControlState, Turn, ghostVars
  <2>2. UNCHANGED <<epoch, allowed, takeovers, revsDone, grant>>
    BY DaemonLeavesGate, DaemonLeavesCounts
  <2>3. Reports(seen', toDaemon', epoch, takeovers) /\ seen.known <= seen'.known
    BY <2>1, <1>types, ReportsHead DEF KnowledgeInv
  <2>4. Behind(controlEpoch, seen'.known, epoch, takeovers, revsSent - revsDone)
    <3>1. seen'.known \in Nat /\ seen.known \in Nat /\ revsSent - revsDone \in Int
      BY <1>types DEF TypeOK, DaemonTypes, StateType
    <3>2. Behind(controlEpoch, seen.known, epoch, takeovers, revsSent - revsDone)
      BY <1>inv, <2>1
    <3> DEFINE x == revsSent - revsDone
               k == seen.known
               l == seen'.known
    <3>3. k \in Nat /\ l \in Nat /\ x \in Int /\ k <= l
      BY <2>3, <3>1
    <3>4. Behind(controlEpoch, k, epoch, takeovers, x)
      BY <3>2
    <3>5. controlEpoch \in Nat /\ epoch \in Nat /\ takeovers \in Nat
      BY <1>types
    <3> HIDE DEF x, k, l
    <3>6. Behind(controlEpoch, l, epoch, takeovers, x)
      BY <3>3, <3>4, <3>5 DEF Behind
    <3> QED BY <3>6 DEF x, l
  <2> QED BY <2>1, <2>2, <2>3, <2>4 DEF KnowledgeInv, NoStaleGrant
<1>14. CASE SyncControlState
  <2>1. /\ running /\ UNCHANGED <<running, seen, toDaemon, revsSent>>
        /\ \/ toComp' = ReleaseAll(toComp, revsSent) /\ controlEpoch' = seen.epoch
           \/ toComp' = toComp /\ controlEpoch' = controlEpoch
    BY <1>14 DEF SyncControlState, Turn, ghostVars
  <2>2. QueueInv(toComp', epoch, takeovers, revsDone, revsSent')
    BY <2>1, <1>types, <1>inv, <1>edges
  <2>3. UNCHANGED <<epoch, allowed, takeovers, revsDone, grant>>
    BY DaemonLeavesGate, DaemonLeavesCounts
  <2>4. Behind(controlEpoch', seen.known, epoch, takeovers, revsSent - revsDone)
    <3>1. CASE controlEpoch' = controlEpoch
      BY <2>1, <3>1, <1>inv
    <3>2. CASE controlEpoch' = seen.epoch
      <4>1. Behind(seen.epoch, seen.known, epoch, takeovers, 0)
        BY <2>1, <1>inv DEF Heard
      <4>2. revsSent - revsDone \in Nat
        BY <1>types, <1>inv
      <4>3. Behind(seen.epoch, seen.known, epoch, takeovers, revsSent - revsDone)
        BY <1>types, <1>known, <4>1, <4>2, BehindMore
      <4> QED BY <3>2, <4>3
    <3> QED BY <2>1, <3>1, <3>2
  <2> QED BY <2>1, <2>2, <2>3, <2>4 DEF KnowledgeInv, NoStaleGrant
<1>15. CASE AdvanceTyping
  <2>1. running /\ UNCHANGED <<running, seen, toDaemon, controlEpoch, revsSent>>
    BY <1>15 DEF AdvanceTyping, AdvanceIdle, TypeCodepoint, TypeCodepointFails, EndTurn,
       Turn, ghostVars
  <2>2. CASE AdvanceIdle
    BY <2>1, <2>2, <1>inv, <1>quiet DEF AdvanceIdle
  <2>3. CASE TypeCodepoint \/ TypeCodepointFails
    <3> DEFINE asked == AcquireGate(toComp, Wire(controlEpoch))
    <3>1. asked \in Seq(RequestType) /\ QueueInv(asked, epoch, takeovers, revsDone, revsSent)
      BY <2>1, <1>types, <1>inv, <1>ask
    <3>2. \/ toComp' = ReleaseEvent(PressEvent(asked), revsSent)
          \/ toComp' = ReleaseAll(asked, revsSent)
      BY <2>3 DEF TypeCodepoint, TypeCodepointFails, MayType
    <3> HIDE DEF asked
    <3>3. /\ PressEvent(asked) \in Seq(RequestType)
          /\ QueueInv(PressEvent(asked), epoch, takeovers, revsDone, revsSent)
      BY <2>1, <3>1, <1>edges
    <3> QED BY <2>1, <3>1, <3>2, <3>3, <1>edges, <1>quiet
  <2> QED BY <1>15, <2>2, <2>3 DEF AdvanceTyping
<1>16. CASE LeaseRunsOut
  <2>1. UNCHANGED <<running, toComp, toDaemon, seen, controlEpoch, ghostVars>>
    BY <1>16 DEF LeaseRunsOut
  <2> QED BY <2>1, DaemonLeavesGate DEF KnowledgeInv, NoStaleGrant, ghostVars
<1>17. CASE DaemonQuietElapses
  <2>1. running /\ UNCHANGED <<running, toComp, toDaemon, controlEpoch, ghostVars>>
    BY <1>17 DEF DaemonQuietElapses
  <2>2. seen'.epoch = seen.epoch /\ seen'.known = seen.known
    BY <1>17, <1>types DEF DaemonQuietElapses, StateType
  <2>3. Reports(seen', toDaemon, epoch, takeovers)
    BY <2>1, <2>2 DEF KnowledgeInv, Reports, Heard
  <2> QED BY <2>1, <2>2, <2>3, DaemonLeavesGate DEF KnowledgeInv, NoStaleGrant, ghostVars
<1>18. CASE Exit \/ Crash
  <2>1. /\ running /\ ~running'
        /\ \/ toComp' = Revoked /\ revsSent' = revsSent + 1
           \/ toComp' = toComp /\ revsSent' = revsSent
    BY <1>18 DEF Exit, Crash, DaemonGone, SeatDestroyed, Turn
  <2>2. UNCHANGED <<epoch, allowed, takeovers, revsDone, grant>>
    BY DaemonLeavesGate, DaemonLeavesCounts
  <2> QED BY <2>1, <2>2, <1>inv, <1>revoked DEF KnowledgeInv, NoStaleGrant
<1>19. CASE StartDaemon
  <2>1. /\ seen'.epoch = epoch /\ seen'.known = takeovers /\ controlEpoch' = epoch
        /\ toComp' = toComp /\ toDaemon' = <<>> /\ revsSent' = revsSent
    BY <1>19 DEF StartDaemon, LinkInv
  <2>2. UNCHANGED <<epoch, allowed, takeovers, revsDone, grant>>
    BY DaemonLeavesGate, DaemonLeavesCounts
  <2>3. Reports(seen', toDaemon', epoch, takeovers)
    BY <2>1, <1>types DEF Reports, Heard, Behind
  <2>4. Behind(epoch, takeovers, epoch, takeovers, revsSent - revsDone)
    BY <1>types, <1>inv DEF Behind
  <2> QED BY <2>1, <2>2, <2>3, <2>4 DEF KnowledgeInv, NoStaleGrant
<1> QED
  BY <1>1, <1>2, <1>3, <1>4, <1>5, <1>6, <1>7, <1>8, <1>9, <1>10, <1>11, <1>12, <1>13,
     <1>14, <1>15, <1>16, <1>17, <1>18, <1>19
  DEF Daemon, Serve

\* Requests and reports lag behind the compositor by the takeovers they do not
\* know of.
THEOREM Knowledge == Spec => []KnowledgeInv
<1>1. Init => KnowledgeInv
  <2>1. Init => QueueInv(toComp, epoch, takeovers, revsDone, revsSent)
    BY EmptyQueue DEF Init
  <2> QED BY <2>1 DEF Init, KnowledgeInv, NoStaleGrant
<1>2. KnowledgeInv /\ UNCHANGED vars => KnowledgeInv'
  BY DEF KnowledgeInv, NoStaleGrant, vars, compVars, daemonVars, ghostVars
<1>3. TypeOK /\ TypeOK' /\ LinkInv /\ KnowledgeInv /\ [Next]_vars => KnowledgeInv'
  BY <1>2, KnowledgeCompositor, KnowledgeDaemon DEF Next
<1> QED
  BY <1>1, <1>3, TypeCorrect, Linked, PTL DEF Spec

\* The gate is never open on the strength of a request that was sent before
\* its sender knew of a takeover.
THEOREM GrantsAreFresh == Spec => []NoStaleGrant
<1>1. KnowledgeInv => NoStaleGrant
  BY DEF KnowledgeInv
<1> QED
  BY <1>1, Knowledge, PTL

----------------------------------------------------------------------------
(* Why the two sides agree when nothing is under way.                      *)

\* The last state event: the youngest on its way, or the one kept.
Latest == IF toDaemon = <<>> THEN seen ELSE toDaemon[Len(toDaemon)]

Told == running => Latest.epoch = epoch /\ Latest.allowed = allowed

LEMMA LatestSent ==
    ASSUME TypeOK, NEW held, owned, running, SendState(held),
           UNCHANGED <<running, seen>>
    PROVE  Told'
<1> DEFINE m == [epoch |-> epoch', allowed |-> allowed', quiet |-> quiet',
                 held |-> held, known |-> takeovers']
<1>1. toDaemon' = Append(toDaemon, m)
  BY DEF SendState
<1>2. m.epoch = epoch' /\ m.allowed = allowed'
  OBVIOUS
<1> HIDE DEF m
<1>3. toDaemon' # <<>> /\ toDaemon'[Len(toDaemon')] = m
  BY <1>1 DEF TypeOK, LinkTypes
<1> QED BY <1>2, <1>3 DEF Told, Latest

LEMMA ToldCompositor == TypeOK /\ LinkInv /\ Told /\ Compositor => Told'
<1> SUFFICES ASSUME TypeOK, LinkInv, Told, Compositor, running'
             PROVE  Told'
  BY DEF Told
<1>1. running /\ owned /\ UNCHANGED <<running, seen>>
  BY CompositorLeavesDaemon DEF LinkInv, daemonVars
<1>2. UNCHANGED <<epoch, allowed, toDaemon>> => Told'
  BY <1>1 DEF Told, Latest
<1>3. (\E held \in BOOLEAN : SendState(held)) => Told'
  BY <1>1, LatestSent
<1>4. humanHeld \in BOOLEAN
  BY DEF TypeOK, CompTypes
<1>5. CASE ProcessRequest
  BY <1>2, <1>3, <1>4, <1>5 DEF ProcessRequest, ProcessAcquire, ProcessStaleAcquire,
     ProcessRevoke, ProcessPress, ProcessRelease
<1>6. CASE Human
  BY <1>2, <1>3, <1>4, <1>6 DEF Human, HumanKey, HumanTouch, HumanWheel, HumanUnplug,
     ReportHumanActivity
<1>7. CASE HoldTimeoutExpired \/ QuietElapses \/ ControlQuietTimer
  BY <1>2, <1>3, <1>4, <1>7 DEF HoldTimeoutExpired, QuietElapses, ControlQuietTimer
<1>8. CASE ControlResourceDestroy
  BY <1>1, <1>8 DEF ControlResourceDestroy
<1> QED BY <1>5, <1>6, <1>7, <1>8 DEF Compositor

LEMMA ToldDaemon == TypeOK /\ LinkInv /\ Told /\ Daemon => Told'
<1> SUFFICES ASSUME TypeOK, LinkInv, Told, Daemon, running'
             PROVE  Told'
  BY DEF Told
<1>1. UNCHANGED <<epoch, allowed>>
  BY DaemonLeavesGate
<1>2. UNCHANGED <<running, seen, toDaemon>> => Told'
  BY <1>1 DEF Told, Latest
<1>3. CASE Serve
  BY <1>2, <1>3 DEF Serve, AcquireControl, ReleaseControl, SendMotion, SendPress,
     SendRelease, SendClick, StartTyping, InputSent, CancelOperation,
     ReleaseWindow, Pause, RevokeInput, Resume, CreateSeat, DestroySeat, Shutdown
<1>4. CASE ExpireWriter \/ SyncControlState \/ AdvanceTyping \/ LeaseRunsOut
  BY <1>2, <1>4 DEF ExpireWriter, RevokeInput, SyncControlState, AdvanceTyping,
     AdvanceIdle, TypeCodepoint, TypeCodepointFails, EndTurn, LeaseRunsOut
<1>5. CASE ControlState
  <2>1. /\ running /\ toDaemon # <<>> /\ toDaemon \in Seq(StateType)
        /\ seen' = Head(toDaemon) /\ toDaemon' = Tail(toDaemon)
    BY <1>5 DEF ControlState, Turn, TypeOK, LinkTypes
  <2>2. Latest = toDaemon[Len(toDaemon)]
    BY <2>1 DEF Latest
  <2>3. CASE Len(toDaemon) = 1
    <3>1. toDaemon' = <<>> /\ seen' = toDaemon[1]
      BY <2>1, <2>3
    <3> QED BY <1>1, <2>1, <2>2, <2>3, <3>1 DEF Told, Latest
  <2>4. CASE Len(toDaemon) # 1
    <3>1. /\ toDaemon' # <<>> /\ Len(toDaemon') = Len(toDaemon) - 1
          /\ toDaemon'[Len(toDaemon')] = toDaemon[Len(toDaemon)]
      <4>1. Len(toDaemon) \in Nat /\ Len(toDaemon) > 1
        <5>1. \A q \in Seq(StateType) : q # <<>> => Len(q) \in Nat /\ Len(q) > 0
          OBVIOUS
        <5>2. Len(toDaemon) \in Nat /\ Len(toDaemon) > 0
          BY <2>1, <5>1
        <5>3. \A n \in Nat : n > 0 /\ n # 1 => n > 1
          OBVIOUS
        <5> QED BY <2>4, <5>2, <5>3
      <4>2. /\ Len(toDaemon') = Len(toDaemon) - 1
            /\ \A i \in 1..Len(toDaemon') : toDaemon'[i] = toDaemon[i + 1]
        BY <2>1
      <4>3. (Len(toDaemon) - 1) + 1 = Len(toDaemon)
        BY <4>1
      <4> QED BY <4>1, <4>2, <4>3
    <3> QED BY <1>1, <2>1, <2>2, <3>1 DEF Told, Latest
  <2> QED BY <2>3, <2>4
<1>6. CASE DaemonQuietElapses
  <2>1. /\ running /\ UNCHANGED toDaemon
        /\ seen'.epoch = seen.epoch /\ seen'.allowed = seen.allowed
    <3>1. seen \in StateType /\ seen' = [seen EXCEPT !.quiet = TRUE]
      BY <1>6 DEF DaemonQuietElapses, TypeOK, DaemonTypes
    <3>2. seen'.epoch = seen.epoch /\ seen'.allowed = seen.allowed
      BY <3>1 DEF StateType
    <3> QED BY <1>6, <3>2 DEF DaemonQuietElapses
  <2> QED BY <1>1, <2>1 DEF Told, Latest
<1>7. CASE Exit \/ Crash
  BY <1>7 DEF Exit, Crash, DaemonGone
<1>8. CASE StartDaemon
  <2>1. toDaemon' = <<>> /\ seen'.epoch = epoch /\ seen'.allowed = allowed
    BY <1>8 DEF StartDaemon, LinkInv
  <2> QED BY <1>1, <2>1 DEF Told, Latest
<1> QED BY <1>3, <1>4, <1>5, <1>6, <1>7, <1>8 DEF Daemon

\* No change of the gate goes unannounced: when nothing is under way, the
\* daemon's epoch and permission are the compositor's.
THEOREM ViewsAgree == Spec => []ViewsAgreeAtRest
<1>1. Init => Told
  BY DEF Init, Told
<1>2. Told /\ UNCHANGED vars => Told'
  BY DEF Told, Latest, vars, compVars, daemonVars
<1>3. TypeOK /\ LinkInv /\ Told /\ [Next]_vars => Told'
  BY <1>2, ToldCompositor, ToldDaemon DEF Next
<1>4. TypeOK /\ PauseInv /\ KnowledgeInv /\ Told => ViewsAgreeAtRest
  <2> SUFFICES ASSUME TypeOK, PauseInv, KnowledgeInv, Told, AtRest, epoch < EpochMax
               PROVE  seen.epoch = epoch /\ controlEpoch = epoch /\ seen.allowed = allowed
    BY DEF ViewsAgreeAtRest
  <2>1. running /\ phase = "serve" /\ toComp = <<>> /\ toDaemon = <<>>
    BY DEF AtRest, Turn
  <2>2. /\ epoch \in Nat /\ controlEpoch \in Nat /\ takeovers \in Nat
        /\ revsSent \in Nat /\ revsDone \in Nat /\ seen.known \in Nat /\ seen.epoch \in Nat
    BY DEF TypeOK, CompTypes, DaemonTypes, GhostTypes, StateType
  <2>3. seen.epoch = epoch /\ seen.allowed = allowed
    BY <2>1 DEF Told, Latest
  <2>4. epoch <= controlEpoch
    BY <2>1, <2>3 DEF PauseInv
  <2>5. revsSent = revsDone
    BY <2>1 DEF KnowledgeInv, QueueInv, Stamps, StampAt
  <2>6. seen.known <= takeovers /\ controlEpoch + (takeovers - seen.known) <= epoch + 0
    BY <2>1, <2>2, <2>5 DEF KnowledgeInv, Reports, Heard, Behind
  <2> QED BY <2>2, <2>3, <2>4, <2>6
<1> QED
  BY <1>1, <1>3, <1>4, TypeCorrect, Linked, PauseBounds, Knowledge, PTL DEF Spec

----------------------------------------------------------------------------
(* Why permission is not handed on from one lease to the next.             *)

\* A lease has a number, and it dies with the daemon, as the seat does.
SeatInv ==
    /\ writer # NoWriter => nextLease > 0
    /\ ~running => writer = NoWriter /\ ~created
    /\ ~created => paused

\* A request that may still open the gate for a lease: its epoch is the one
\* the compositor will have reached when the revocations before it are done.
\* (stamp - d is how many they are.)
Alive(m, c, d) ==
    /\ m.kind = "acquire"
    /\ m.lease # 0
    /\ c < EpochMax
    /\ m.epoch = c + (m.stamp - d)

\* Such a request behind the last revocation is the present holder's.
HolderKnown ==
    running =>
        \A i \in 1..Len(toComp) :
            (Alive(toComp[i], epoch, revsDone) /\ toComp[i].stamp = revsSent) =>
                created /\ CurrentLease = toComp[i].lease /\ Wire(controlEpoch) = toComp[i].epoch

\* Whoever asks after it, with no revocation between, asks for the same.
OneLease ==
    \A i, j \in 1..Len(toComp) :
        ( /\ i < j
          /\ Alive(toComp[i], epoch, revsDone)
          /\ toComp[j].kind = "acquire"
          /\ toComp[j].stamp = toComp[i].stamp ) =>
            toComp[j].lease = toComp[i].lease /\ toComp[j].epoch = toComp[i].epoch

\* Once it has opened the gate the same holds of what follows it.
OpenQueue ==
    (allowed /\ grant.lease # 0) =>
        \A j \in 1..Len(toComp) :
            (toComp[j].kind = "acquire" /\ toComp[j].stamp = revsDone) =>
                toComp[j].lease = grant.lease /\ toComp[j].epoch = epoch

OpenHolder ==
    (allowed /\ grant.lease # 0 /\ revsSent = revsDone /\ running) =>
        created /\ CurrentLease = grant.lease /\ Wire(controlEpoch) = epoch

\* An edge follows the request for the gate it relies on.
Presses ==
    \A i \in 1..Len(toComp) :
        toComp[i].kind = "press" =>
            /\ toComp[i].lease # 0
            /\ i = 1 => (allowed => grant.known = toComp[i].known /\ grant.lease = toComp[i].lease)
            /\ i > 1 => /\ toComp[i - 1].kind = "acquire"
                        /\ toComp[i - 1].known = toComp[i].known
                        /\ toComp[i - 1].lease = toComp[i].lease

GateHeld ==
    /\ allowed => epoch < EpochMax
    /\ virtualHeld => allowed /\ grant.lease # 0

\* A lease that outlives its seat (shutdown ends the one and not the other)
\* finds the gate already moved on.
SeatlessLease ==
    (running /\ ~created /\ writer # NoWriter /\ epoch < EpochMax) =>
        controlEpoch < epoch + (revsSent - revsDone)

LeaseInv ==
    /\ HolderKnown
    /\ OneLease
    /\ OpenQueue
    /\ OpenHolder
    /\ Presses
    /\ GateHeld
    /\ SeatlessLease

\* The seat and the lease, for as long as the daemon lives.
THEOREM SeatKept == Spec => []SeatInv
<1>1. Init => SeatInv
  BY DEF Init, SeatInv
<1>2. TypeOK /\ SeatInv /\ [Next]_vars => SeatInv'
  <2> SUFFICES ASSUME TypeOK, SeatInv, [Next]_vars
               PROVE  SeatInv'
    OBVIOUS
  <2> USE DEF SeatInv
  <2>1. CASE Compositor \/ UNCHANGED vars
    BY <2>1, CompositorLeavesDaemon DEF vars, daemonVars
  <2>2. nextLease \in Nat
    BY DEF TypeOK, DaemonTypes, LeaseTypes
  <2>4. ASSUME NEW c \in Controllers, AcquireControl(c)
        PROVE  SeatInv'
    BY <2>2, <2>4 DEF AcquireControl, Turn, seatVars
  <2>5. ASSUME NEW c \in Controllers,
               SendMotion(c) \/ SendPress(c) \/ SendRelease(c) \/ SendClick(c) \/ StartTyping(c)
        PROVE  SeatInv'
    BY <2>5 DEF SendMotion, SendPress, SendRelease, SendClick, StartTyping, InputSent,
       seatVars, leaseVars
  <2>6. ASSUME NEW c \in Controllers, ReleaseControl(c)
        PROVE  SeatInv'
    BY <2>6 DEF ReleaseControl, RevokeInput, DropWriter, Turn, seatVars
  <2>7. CASE CancelOperation \/ ReleaseWindow \/ Pause
    BY <2>7 DEF CancelOperation, ReleaseWindow, Pause, RevokeInput, DropWriter, Turn, seatVars
  <2>8. CASE Resume \/ CreateSeat
    BY <2>8 DEF Resume, CreateSeat, leaseVars, Turn
  <2>9. CASE DestroySeat \/ Shutdown
    BY <2>9 DEF DestroySeat, Shutdown, DropWriter, leaseVars, Turn
  <2>10. CASE ExpireWriter
    BY <2>10 DEF ExpireWriter, RevokeInput, DropWriter, Turn, seatVars, leaseVars
  <2>11. CASE ControlState \/ SyncControlState
    BY <2>11 DEF ControlState, SyncControlState, DropWriter, Turn, seatVars, leaseVars
  <2>12. CASE AdvanceTyping
    BY <2>12 DEF AdvanceTyping, AdvanceIdle, TypeCodepoint, TypeCodepointFails, EndTurn,
       seatVars, leaseVars
  <2>13. CASE LeaseRunsOut \/ DaemonQuietElapses
    BY <2>13 DEF LeaseRunsOut, DaemonQuietElapses, seatVars, leaseVars
  <2>14. CASE Exit \/ Crash
    BY <2>14 DEF Exit, Crash, DaemonGone
  <2>15. CASE StartDaemon
    BY <2>15 DEF StartDaemon, seatVars, leaseVars
  <2> QED
    BY <2>1, <2>4, <2>5, <2>6, <2>7, <2>8, <2>9, <2>10, <2>11, <2>12, <2>13, <2>14, <2>15
    DEF Next, Daemon, Serve
<1> QED
  BY <1>1, <1>2, TypeCorrect, PTL DEF Spec

\* What a request for the gate carries: the present lease and the daemon's
\* epoch, or the compositor's when the seat is being made.
Asked(m) ==
    /\ m.stamp = revsSent
    /\ m.lease = CurrentLease
    /\ \/ created /\ m.epoch = Wire(controlEpoch)
       \/ ~created /\ phase = "serve" /\ m.epoch = seen.epoch

\* The queue with what one step of the daemon adds to it.
Grown(p) ==
    /\ p \in Seq(RequestType)
    /\ Len(toComp) <= Len(p)
    /\ \A i \in 1..Len(toComp) : p[i] = toComp[i]
    /\ \A i \in 1..Len(p) :
        i > Len(toComp) =>
            /\ p[i].kind = "acquire" => Asked(p[i])
            /\ p[i].kind = "press" =>
                /\ p[i].lease # 0
                /\ i > 1
                /\ p[i - 1].kind = "acquire"
                /\ p[i - 1].known = p[i].known
                /\ p[i - 1].lease = p[i].lease

LEMMA GrownAppend ==
    ASSUME NEW p, Grown(p), toComp \in Seq(RequestType), NEW m \in RequestType,
           m.kind = "acquire" => Asked(m),
           m.kind = "press" =>
                /\ m.lease # 0
                /\ p # <<>>
                /\ p[Len(p)].kind = "acquire"
                /\ p[Len(p)].known = m.known
                /\ p[Len(p)].lease = m.lease
    PROVE  Grown(Append(p, m))
<1> DEFINE a == Append(p, m)
<1>1. p \in Seq(RequestType) /\ Len(p) \in Nat /\ Len(toComp) \in Nat /\ Len(toComp) <= Len(p)
  BY DEF Grown
<1>2. /\ a \in Seq(RequestType) /\ Len(a) = Len(p) + 1 /\ a[Len(p) + 1] = m
      /\ \A i \in 1..Len(p) : a[i] = p[i]
      /\ \A i \in 1..Len(a) : i \in 1..Len(p) \/ i = Len(p) + 1
  BY <1>1
<1>3. p # <<>> => Len(p) >= 1
  BY <1>1
<1> HIDE DEF a
<1>4. \A i \in 1..Len(toComp) : a[i] = toComp[i]
  BY <1>1, <1>2 DEF Grown
<1>5. ASSUME NEW i \in 1..Len(p), i > Len(toComp)
      PROVE  /\ a[i].kind = "acquire" => Asked(a[i])
             /\ a[i].kind = "press" =>
                /\ a[i].lease # 0
                /\ i > 1
                /\ a[i - 1].kind = "acquire"
                /\ a[i - 1].known = a[i].known
                /\ a[i - 1].lease = a[i].lease
  <2>1. i > 1 => i - 1 \in 1..Len(p)
    BY <1>1
  <2> QED BY <1>2, <1>5, <2>1 DEF Grown
<1>6. /\ a[Len(p) + 1].kind = "acquire" => Asked(a[Len(p) + 1])
      /\ a[Len(p) + 1].kind = "press" =>
            /\ a[Len(p) + 1].lease # 0
            /\ Len(p) + 1 > 1
            /\ a[(Len(p) + 1) - 1].kind = "acquire"
            /\ a[(Len(p) + 1) - 1].known = a[Len(p) + 1].known
            /\ a[(Len(p) + 1) - 1].lease = a[Len(p) + 1].lease
  <2>1. (Len(p) + 1) - 1 = Len(p)
    BY <1>1
  <2>2. Len(p) >= 1 => a[Len(p)] = p[Len(p)] /\ Len(p) + 1 > 1
    BY <1>1, <1>2
  <2> QED BY <1>2, <1>3, <2>1, <2>2
<1>7. Len(toComp) <= Len(a)
  BY <1>1, <1>2
<1> QED BY <1>2, <1>4, <1>5, <1>6, <1>7 DEF Grown, a

\* The requests the daemon puts in the queue, one by one.
LEMMA GrownRequests ==
    ASSUME TypeOK, NEW p, Grown(p), NEW r \in Nat
    PROVE  /\ created => Grown(AcquireGate(p, Wire(controlEpoch)))
           /\ ~created /\ phase = "serve" => Grown(AcquireGate(p, seen.epoch))
           /\ created /\ CurrentLease # 0 =>
                Grown(PressEvent(AcquireGate(p, Wire(controlEpoch))))
           /\ Grown(ReleaseEvent(p, r))
           /\ Grown(RevokeRequest(p, r))
           /\ Grown(ReleaseAll(p, r))
<1>1. toComp \in Seq(RequestType) /\ revsSent \in Nat
      /\ Wire(controlEpoch) \in Nat /\ seen.epoch \in Nat
  BY DaemonNumbers DEF TypeOK, LinkTypes, GhostTypes
<1>2. ASSUME NEW k \in {"release", "revoke"}
      PROVE  Grown(Append(p, Request(k, 0, r)))
  <2>1. Request(k, 0, r) \in RequestType
    BY RequestTypes DEF Kinds
  <2>2. Request(k, 0, r).kind = k
    BY DEF Request
  <2> QED BY <1>1, <2>1, <2>2, GrownAppend
<1>3. ASSUME NEW e \in Nat,
             \/ created /\ e = Wire(controlEpoch)
             \/ ~created /\ phase = "serve" /\ e = seen.epoch
      PROVE  Grown(AcquireGate(p, e))
  <2> DEFINE m == Request("acquire", e, revsSent)
  <2>1. m \in RequestType
    BY <1>1, RequestTypes DEF Kinds
  <2>2. m.kind = "acquire" /\ m.stamp = revsSent /\ m.lease = CurrentLease /\ m.epoch = e
    BY DEF Request
  <2> HIDE DEF m
  <2>3. Asked(m)
    BY <1>3, <2>2 DEF Asked
  <2>4. Grown(Append(p, m))
    BY <1>1, <2>1, <2>2, <2>3, GrownAppend
  <2> QED BY <2>4 DEF AcquireGate, m
<1>4. ASSUME created, CurrentLease # 0
      PROVE  Grown(PressEvent(AcquireGate(p, Wire(controlEpoch))))
  <2> DEFINE a == AcquireGate(p, Wire(controlEpoch))
             m == Request("press", 0, revsSent)
  <2>1. m \in RequestType
    BY <1>1, RequestTypes DEF Kinds
  <2>2. Grown(a)
    BY <1>1, <1>3, <1>4
  <2>3. m.kind = "press" /\ m.known = seen.known /\ m.lease = CurrentLease
    BY DEF Request
  <2>4. /\ a # <<>> /\ a[Len(a)].kind = "acquire"
        /\ a[Len(a)].known = seen.known /\ a[Len(a)].lease = CurrentLease
    <3>1. p \in Seq(RequestType)
      BY DEF Grown
    <3>2. a # <<>> /\ a[Len(a)] = Request("acquire", Wire(controlEpoch), revsSent)
      BY <3>1 DEF AcquireGate
    <3> QED BY <3>2 DEF Request
  <2> HIDE DEF a, m
  <2>5. Grown(Append(a, m))
    BY <1>1, <1>4, <2>1, <2>2, <2>3, <2>4, GrownAppend
  <2> QED BY <2>5 DEF PressEvent, a, m
<1>5. Grown(ReleaseEvent(p, r)) /\ Grown(RevokeRequest(p, r))
  BY <1>2 DEF ReleaseEvent, RevokeRequest
<1>6. Grown(ReleaseAll(p, r))
  BY <1>5 DEF ReleaseAll
<1> QED BY <1>1, <1>3, <1>4, <1>5, <1>6

LEMMA GrownNot ==
    ASSUME TypeOK
    PROVE  Grown(toComp) /\ Grown(Revoked) /\ Grown(RevokeRequest(Revoked, revsSent + 1))
<1>1. toComp \in Seq(RequestType) /\ revsSent \in Nat /\ revsSent + 1 \in Nat
  BY DEF TypeOK, LinkTypes, GhostTypes
<1>2. Grown(toComp)
  BY <1>1 DEF Grown
<1>3. Grown(RevokeRequest(toComp, revsSent))
  BY <1>1, <1>2, GrownRequests
<1>4. Grown(Revoked)
  BY <1>1, <1>3, GrownRequests DEF Revoked
<1> QED BY <1>1, <1>2, <1>4, GrownRequests

\* The three ways in which a step of a living daemon moves its lease, its seat
\* and its epoch: it goes on as it is; it revokes; it follows a takeover.
GoesOn ==
    /\ UNCHANGED <<revsSent, controlEpoch>>
    /\ CurrentLease # 0 => CurrentLease' = CurrentLease
    /\ created => created'
    /\ ~created' => writer' = writer

Revokes ==
    /\ revsSent' > revsSent
    /\ \/ writer' = NoWriter
       \/ created /\ UNCHANGED controlEpoch

Follows ==
    /\ seen.epoch > controlEpoch
    /\ UNCHANGED <<revsSent, created>>
    /\ writer' = NoWriter
    /\ \A i \in 1..Len(toComp') : i > Len(toComp) => toComp'[i].kind = "release"

LEMMA DaemonMoves ==
    ASSUME TypeOK, WorkBelongsToLease, SeatInv, Daemon, running, running'
    PROVE  Grown(toComp') /\ (GoesOn \/ Revokes \/ Follows)
<1>types. /\ toComp \in Seq(RequestType) /\ revsSent \in Nat /\ revsSent + 1 > revsSent
          /\ revsSent + 2 > revsSent /\ nextLease \in Nat
  BY DEF TypeOK, LinkTypes, GhostTypes, DaemonTypes, LeaseTypes
<1>still. UNCHANGED <<revsSent, controlEpoch, writer, nextLease, created>> => GoesOn
  BY DEF GoesOn, CurrentLease
<1>revoke. RevokeInput => Grown(toComp') /\ Revokes
  BY <1>types, GrownNot DEF RevokeInput, DropWriter, Revokes
<1>lease. writer # NoWriter => CurrentLease # 0
  BY <1>types DEF SeatInv, CurrentLease
<1>sent. ASSUME InputSent PROVE GoesOn
  BY <1>sent, <1>still DEF InputSent, seatVars, leaseVars, ghostVars
<1>1. ASSUME NEW c \in Controllers, AcquireControl(c)
      PROVE  Grown(toComp') /\ GoesOn
  <2>1. CurrentLease # 0 => CurrentLease' = CurrentLease
    BY <1>1 DEF AcquireControl, CurrentLease
  <2> QED BY <1>1, <2>1, GrownNot DEF AcquireControl, Active, GoesOn, seatVars, ghostVars
<1>2. ASSUME NEW c \in Controllers, ReleaseControl(c)
      PROVE  Grown(toComp') /\ Revokes
  BY <1>2, <1>revoke DEF ReleaseControl
<1>3. ASSUME NEW c \in Controllers, InputAdmitted(c)
      PROVE  created /\ CurrentLease # 0
  BY <1>3, <1>lease DEF InputAdmitted, Active, Authorized
<1>4. ASSUME NEW c \in Controllers, SendMotion(c)
      PROVE  Grown(toComp') /\ GoesOn
  BY <1>3, <1>4, <1>types, <1>sent, GrownNot, GrownRequests DEF SendMotion
<1>5. ASSUME NEW c \in Controllers, SendPress(c)
      PROVE  Grown(toComp') /\ GoesOn
  <2> DEFINE asked == AcquireGate(toComp, Wire(controlEpoch))
  <2>1. /\ InputSent /\ created /\ CurrentLease # 0
        /\ toComp' = asked \/ toComp' = PressEvent(asked)
    BY <1>3, <1>5 DEF SendPress
  <2>2. Grown(asked) /\ Grown(PressEvent(asked))
    BY <2>1, <1>types, GrownNot, GrownRequests
  <2> HIDE DEF asked
  <2> QED BY <2>1, <2>2, <1>sent
<1>6. ASSUME NEW c \in Controllers, SendRelease(c)
      PROVE  Grown(toComp') /\ GoesOn
  <2> DEFINE asked == AcquireGate(toComp, Wire(controlEpoch))
  <2>1. InputSent /\ created /\ toComp' = ReleaseAll(asked, revsSent)
    BY <1>3, <1>6 DEF SendRelease
  <2>2. Grown(asked)
    BY <2>1, <1>types, GrownNot, GrownRequests
  <2> HIDE DEF asked
  <2> QED BY <2>1, <2>2, <1>types, <1>sent, GrownRequests
<1>7. ASSUME NEW c \in Controllers, SendClick(c)
      PROVE  Grown(toComp') /\ GoesOn
  <2> DEFINE Ask(q) == AcquireGate(q, Wire(controlEpoch))
             down == IF pressed THEN Ask(toComp) ELSE PressEvent(Ask(toComp))
  <2>1. InputSent /\ created /\ CurrentLease # 0 /\ toComp' = ReleaseEvent(Ask(down), revsSent)
    BY <1>3, <1>7 DEF SendClick
  <2>2. Grown(Ask(toComp)) /\ Grown(PressEvent(Ask(toComp)))
    BY <2>1, <1>types, GrownNot, GrownRequests
  <2>3. Grown(down)
    BY <2>2
  <2> HIDE DEF down
  <2>4. Grown(Ask(down))
    BY <2>1, <2>3, <1>types, GrownRequests
  <2> HIDE DEF Ask
  <2> QED BY <2>1, <2>4, <1>types, <1>sent, GrownRequests
<1>8. ASSUME NEW c \in Controllers, StartTyping(c)
      PROVE  Grown(toComp') /\ GoesOn
  BY <1>8, <1>still, GrownNot DEF StartTyping, seatVars, leaseVars, ghostVars
<1>9. CASE CancelOperation \/ ReleaseWindow \/ Pause
  BY <1>9, <1>revoke DEF CancelOperation, ReleaseWindow, Pause
<1>10. CASE Resume
  BY <1>10, <1>still, GrownNot DEF Resume, leaseVars, ghostVars
<1>11. CASE CreateSeat
  <2>1. Grown(AcquireGate(toComp, seen.epoch))
    BY <1>11, <1>types, GrownNot, GrownRequests DEF CreateSeat, Turn
  <2> QED BY <1>11, <2>1 DEF CreateSeat, GoesOn, CurrentLease, leaseVars, ghostVars
<1>12. CASE DestroySeat
  BY <1>12, <1>types, GrownNot DEF DestroySeat, DropWriter, Revokes
<1>13. CASE Shutdown
  <2>1. CASE created
    BY <1>13, <2>1, <1>types, GrownNot DEF Shutdown, SeatDestroyed, Revokes
  <2>2. CASE ~created
    BY <1>13, <2>2, GrownNot DEF Shutdown, SeatDestroyed, GoesOn, CurrentLease, leaseVars
  <2> QED BY <2>1, <2>2
<1>14. CASE ExpireWriter
  BY <1>14, <1>revoke, <1>still, GrownNot DEF ExpireWriter, seatVars, leaseVars, ghostVars
<1>15. CASE ControlState \/ LeaseRunsOut \/ DaemonQuietElapses
  BY <1>15, <1>still, GrownNot DEF ControlState, LeaseRunsOut, DaemonQuietElapses,
     seatVars, leaseVars, ghostVars
<1>16. CASE SyncControlState
  <2>1. CASE seen.epoch > controlEpoch
    <3>1. /\ toComp' = ReleaseAll(toComp, revsSent) /\ writer' = NoWriter
          /\ UNCHANGED <<revsSent, created>>
      BY <1>16, <2>1 DEF SyncControlState, DropWriter, seatVars, ghostVars
    <3>2. \A i \in 1..Len(toComp') : i > Len(toComp) => toComp'[i].kind = "release"
      <4>1. Request("release", 0, revsSent).kind = "release"
        BY DEF Request
      <4> DEFINE m == Request("release", 0, revsSent)
      <4> HIDE DEF m
      <4>2. toComp' = toComp \/ toComp' = Append(toComp, m)
        BY <3>1 DEF ReleaseAll, ReleaseEvent, m
      <4>3. \A i \in 1..Len(Append(toComp, m)) :
                i > Len(toComp) => i = Len(toComp) + 1 /\ Append(toComp, m)[i] = m
        BY <1>types
      <4>4. \A i \in 1..Len(toComp) : ~(i > Len(toComp))
        BY <1>types
      <4> QED BY <4>1, <4>2, <4>3, <4>4 DEF m
    <3> QED BY <2>1, <3>1, <3>2, <1>types, GrownNot, GrownRequests DEF Follows
  <2>2. CASE ~(seen.epoch > controlEpoch)
    BY <1>16, <2>2, <1>still, GrownNot DEF SyncControlState, seatVars, ghostVars
  <2> QED BY <2>1, <2>2
<1>17. CASE AdvanceTyping
  <2>1. GoesOn
    BY <1>17, <1>still DEF AdvanceTyping, AdvanceIdle, TypeCodepoint, TypeCodepointFails,
       EndTurn, seatVars, leaseVars, ghostVars
  <2>2. CASE AdvanceIdle
    BY <2>1, <2>2, GrownNot DEF AdvanceIdle
  <2>3. CASE TypeCodepoint \/ TypeCodepointFails
    <3> DEFINE asked == AcquireGate(toComp, Wire(controlEpoch))
    <3>1. created /\ CurrentLease # 0
      BY <2>3, <1>lease DEF TypeCodepoint, TypeCodepointFails, MayType, SeatInv,
         WorkBelongsToLease
    <3>2. Grown(asked) /\ Grown(PressEvent(asked))
      BY <3>1, <1>types, GrownNot, GrownRequests
    <3>3. \/ toComp' = ReleaseEvent(PressEvent(asked), revsSent)
          \/ toComp' = ReleaseAll(asked, revsSent)
      BY <2>3 DEF TypeCodepoint, TypeCodepointFails, MayType
    <3> HIDE DEF asked
    <3> QED BY <2>1, <3>2, <3>3, <1>types, GrownRequests
  <2> QED BY <1>17, <2>2, <2>3 DEF AdvanceTyping
<1>18. CASE Exit \/ Crash \/ StartDaemon
  BY <1>18 DEF Exit, Crash, DaemonGone, StartDaemon
<1> QED
  BY <1>1, <1>2, <1>4, <1>5, <1>6, <1>7, <1>8, <1>9, <1>10, <1>11, <1>12, <1>13,
     <1>14, <1>15, <1>16, <1>17, <1>18
  DEF Daemon, Serve

\* What a daemon adds to the queue follows the rules there already are.
LEMMA LeaseQueueGrows ==
    ASSUME TypeOK, TypeOK', KnowledgeInv, LeaseInv, Daemon, running, Grown(toComp')
    PROVE  OneLease' /\ OpenQueue' /\ Presses' /\ GateHeld'
<1> DEFINE n == Len(toComp)
<1>1. UNCHANGED <<epoch, allowed, virtualHeld, revsDone, grant>>
  BY DaemonLeavesGate, DaemonLeavesCounts
<1>2. /\ toComp \in Seq(RequestType) /\ toComp' \in Seq(RequestType)
      /\ n \in Nat /\ Len(toComp') \in Nat /\ n <= Len(toComp')
      /\ \A i \in 1..n : toComp'[i] = toComp[i]
      /\ \A i \in 1..Len(toComp') : i \in 1..n \/ i > n
  BY DEF TypeOK, LinkTypes, Grown
<1>3. \A i \in 1..Len(toComp') :
        i > n => /\ toComp'[i].kind = "acquire" => Asked(toComp'[i])
                 /\ toComp'[i].kind = "press" =>
                      /\ toComp'[i].lease # 0
                      /\ i > 1
                      /\ toComp'[i - 1].kind = "acquire"
                      /\ toComp'[i - 1].known = toComp'[i].known
                      /\ toComp'[i - 1].lease = toComp'[i].lease
  BY DEF Grown
<1> HIDE DEF n
<1>4. OneLease'
  <2> SUFFICES ASSUME NEW i \in 1..Len(toComp'), NEW j \in 1..Len(toComp'), i < j,
                      Alive(toComp'[i], epoch, revsDone),
                      toComp'[j].kind = "acquire",
                      toComp'[j].stamp = toComp'[i].stamp
               PROVE  toComp'[j].lease = toComp'[i].lease /\ toComp'[j].epoch = toComp'[i].epoch
    BY <1>1 DEF OneLease
  <2>1. CASE j \in 1..n
    <3>1. i \in 1..n
      BY <1>2, <2>1
    <3> QED BY <1>2, <2>1, <3>1 DEF LeaseInv, OneLease, n
  <2>2. CASE j > n /\ i \in 1..n
    <3>1. Asked(toComp'[j])
      BY <1>3, <2>2
    <3>2. Alive(toComp[i], epoch, revsDone) /\ toComp[i].stamp = revsSent
      BY <1>2, <2>2, <3>1 DEF Asked
    <3>3. created /\ CurrentLease = toComp[i].lease /\ Wire(controlEpoch) = toComp[i].epoch
      BY <2>2, <3>2 DEF LeaseInv, HolderKnown, n
    <3> QED BY <1>2, <2>2, <3>1, <3>3 DEF Asked
  <2>3. CASE j > n /\ i > n
    <3>1. Asked(toComp'[j]) /\ Asked(toComp'[i])
      BY <1>3, <2>3 DEF Alive
    <3> QED BY <3>1 DEF Asked
  <2> QED BY <1>2, <2>1, <2>2, <2>3
<1>5. OpenQueue'
  <2> SUFFICES ASSUME allowed, grant.lease # 0, NEW j \in 1..Len(toComp'),
                      toComp'[j].kind = "acquire", toComp'[j].stamp = revsDone
               PROVE  toComp'[j].lease = grant.lease /\ toComp'[j].epoch = epoch
    BY <1>1 DEF OpenQueue
  <2>1. CASE j \in 1..n
    BY <1>2, <2>1 DEF LeaseInv, OpenQueue, n
  <2>2. CASE j > n
    <3>1. Asked(toComp'[j]) /\ revsSent = revsDone
      BY <1>3, <2>2 DEF Asked
    <3>2. created /\ CurrentLease = grant.lease /\ Wire(controlEpoch) = epoch
      BY <3>1 DEF LeaseInv, OpenHolder
    <3> QED BY <3>1, <3>2 DEF Asked
  <2> QED BY <1>2, <2>1, <2>2
<1>6. Presses'
  <2> SUFFICES ASSUME NEW i \in 1..Len(toComp'), toComp'[i].kind = "press"
               PROVE  /\ toComp'[i].lease # 0
                      /\ i = 1 => (allowed => grant.known = toComp'[i].known
                                              /\ grant.lease = toComp'[i].lease)
                      /\ i > 1 => /\ toComp'[i - 1].kind = "acquire"
                                  /\ toComp'[i - 1].known = toComp'[i].known
                                  /\ toComp'[i - 1].lease = toComp'[i].lease
    BY <1>1 DEF Presses
  <2>1. CASE i \in 1..n
    <3>1. toComp'[i] = toComp[i] /\ (i > 1 => toComp'[i - 1] = toComp[i - 1])
      BY <1>2, <2>1
    <3> QED BY <2>1, <3>1 DEF LeaseInv, Presses, n
  <2>2. CASE i > n
    BY <1>3, <2>2
  <2> QED BY <1>2, <2>1, <2>2
<1>7. GateHeld'
  BY <1>1 DEF LeaseInv, GateHeld
<1> QED BY <1>4, <1>5, <1>6, <1>7

LEMMA LeaseDaemon ==
    ASSUME TypeOK, TypeOK', LinkInv, WorkBelongsToLease, SeatInv, PauseInv, KnowledgeInv,
           LeaseInv, Daemon
    PROVE  LeaseInv'
<1>1. CASE ~running
  <2>1. StartDaemon
    BY <1>1 DEF Daemon, Serve, SeatInv, Turn, ExpireWriter, ControlState, SyncControlState,
       AcquireControl, ReleaseControl, SendMotion, SendPress, SendRelease, SendClick,
       StartTyping, InputAdmitted, CancelOperation, ReleaseWindow, Pause, Resume, CreateSeat,
       DestroySeat, Shutdown, AdvanceTyping, AdvanceIdle, TypeCodepoint, TypeCodepointFails,
       EndTurn, LeaseRunsOut, DaemonQuietElapses, Exit, Crash
  <2>2. toComp' = <<>> /\ ~allowed' /\ ~virtualHeld' /\ writer' = NoWriter
    BY <1>1, <2>1 DEF StartDaemon, LinkInv, SeatInv, LeaseInv, GateHeld, leaseVars
  <2>3. Len(toComp') = 0
    BY <2>2
  <2> QED BY <2>2, <2>3 DEF LeaseInv, HolderKnown, OneLease, OpenQueue, OpenHolder, Presses,
          GateHeld, SeatlessLease
<1>2. CASE running /\ ~running'
  <2>1. toComp' = Revoked \/ toComp' = toComp
    <3>1. Exit \/ Crash
      BY <1>2 DEF Daemon, Serve, ExpireWriter, RevokeInput, ControlState, SyncControlState,
         AcquireControl, ReleaseControl, SendMotion, SendPress, SendRelease, SendClick,
         StartTyping, InputSent, CancelOperation, ReleaseWindow, Pause, Resume, CreateSeat,
         DestroySeat, Shutdown, AdvanceTyping, AdvanceIdle, TypeCodepoint, TypeCodepointFails,
         EndTurn, LeaseRunsOut, DaemonQuietElapses, StartDaemon
    <3> QED BY <3>1 DEF Exit, Crash, SeatDestroyed
  <2>2. OneLease' /\ OpenQueue' /\ Presses' /\ GateHeld'
    BY <1>2, <2>1, GrownNot, LeaseQueueGrows
  <2> QED BY <1>2, <2>2 DEF LeaseInv, HolderKnown, OpenHolder, SeatlessLease
<1>3. CASE running /\ running'
  <2>1. Grown(toComp') /\ (GoesOn \/ Revokes \/ Follows)
    BY <1>3, DaemonMoves
  <2>2. OneLease' /\ OpenQueue' /\ Presses' /\ GateHeld'
    BY <1>3, <2>1, LeaseQueueGrows
  <2>3. UNCHANGED <<epoch, allowed, revsDone, grant>>
    BY DaemonLeavesGate, DaemonLeavesCounts
  <2>4. /\ epoch \in Nat /\ revsDone \in Nat /\ revsSent \in Nat /\ revsSent' \in Nat
        /\ controlEpoch \in Nat /\ seen.epoch \in Nat /\ seen.epoch <= epoch
        /\ takeovers \in Nat /\ seen.known \in Nat /\ seen.known <= takeovers
        /\ revsDone <= revsSent
        /\ Wire(controlEpoch) \in Nat /\ Wire(controlEpoch) <= controlEpoch
    <3>1. /\ epoch \in Nat /\ revsDone \in Nat /\ revsSent \in Nat /\ revsSent' \in Nat
          /\ controlEpoch \in Nat /\ seen.epoch \in Nat /\ takeovers \in Nat /\ seen.known \in Nat
      BY DEF TypeOK, CompTypes, GhostTypes, DaemonTypes, StateType
    <3>2. seen.epoch <= epoch /\ seen.known <= takeovers /\ revsDone <= revsSent
      BY <1>3 DEF PauseInv, KnowledgeInv, QueueInv, Stamps, Reports, Heard
    <3> QED BY <3>1, <3>2, WireBound
  <2>5. epoch < EpochMax => controlEpoch <= epoch + (revsSent - revsDone)
    <3>1. Behind(controlEpoch, seen.known, epoch, takeovers, revsSent - revsDone)
      BY <1>3 DEF KnowledgeInv
    <3> QED BY <2>4, <3>1 DEF Behind
  <2>6. /\ toComp \in Seq(RequestType) /\ toComp' \in Seq(RequestType)
        /\ Len(toComp) \in Nat /\ Len(toComp') \in Nat /\ Len(toComp) <= Len(toComp')
        /\ \A i \in 1..Len(toComp) : toComp'[i] = toComp[i] /\ toComp[i] \in RequestType
        /\ \A i \in 1..Len(toComp') :
            \/ i \in 1..Len(toComp)
            \/ i > Len(toComp) /\ (toComp'[i].kind = "acquire" => Asked(toComp'[i]))
    BY <2>1 DEF TypeOK, LinkTypes, Grown
  <2>7. \A i \in 1..Len(toComp) : toComp[i].stamp \in Nat /\ toComp[i].stamp <= revsSent
    <3> SUFFICES ASSUME NEW i \in 1..Len(toComp)
                 PROVE  toComp[i].stamp \in Nat /\ toComp[i].stamp <= revsSent
      OBVIOUS
    <3>1. toComp[i].stamp \in Nat
      BY <2>6 DEF RequestType
    <3>2. toComp[i].stamp + Weight(toComp[i]) <= revsSent
      BY DEF KnowledgeInv, QueueInv, Stamps
    <3>3. Weight(toComp[i]) \in {0, 1}
      BY DEF Weight
    <3> QED BY <2>4, <3>1, <3>2, <3>3
  \* A request that is still alive was sent under the daemon's present epoch.
  <2>8. ASSUME NEW i \in 1..Len(toComp), Alive(toComp[i], epoch, revsDone),
               toComp[i].stamp = revsSent, seen.epoch > controlEpoch
        PROVE  FALSE
    <3>1. toComp[i].epoch <= controlEpoch
      BY <1>3, <2>4, <2>8 DEF LeaseInv, HolderKnown
    <3>2. toComp[i].epoch = epoch + (revsSent - revsDone)
      BY <2>8 DEF Alive
    <3> QED BY <2>4, <2>8, <3>1, <3>2
  <2>9. CASE GoesOn
    <3> USE <2>9 DEF GoesOn
    <3>1. HolderKnown'
      <4> SUFFICES ASSUME NEW i \in 1..Len(toComp'),
                          Alive(toComp'[i], epoch, revsDone),
                          toComp'[i].stamp = revsSent
                   PROVE  /\ created'
                          /\ CurrentLease' = toComp'[i].lease
                          /\ Wire(controlEpoch') = toComp'[i].epoch
        BY <2>3 DEF HolderKnown
      <4>1. CASE i \in 1..Len(toComp)
        <5>1. created /\ CurrentLease = toComp[i].lease /\ Wire(controlEpoch) = toComp[i].epoch
          BY <1>3, <2>6, <4>1 DEF LeaseInv, HolderKnown
        <5>2. CurrentLease # 0
          BY <2>6, <4>1, <5>1 DEF Alive
        <5> QED BY <2>6, <4>1, <5>1, <5>2
      <4>2. CASE i > Len(toComp)
        <5>1. Asked(toComp'[i]) /\ toComp'[i].lease # 0 /\ epoch < EpochMax
              /\ toComp'[i].epoch = epoch + (revsSent - revsDone)
          BY <2>6, <4>2 DEF Alive
        <5>2. CurrentLease # 0 /\ CurrentLease' = CurrentLease /\ toComp'[i].lease = CurrentLease
          BY <5>1 DEF Asked
        <5>3. created
          <6> SUFFICES ASSUME ~created
                       PROVE  FALSE
            OBVIOUS
          <6>1. writer # NoWriter
            BY <5>2 DEF CurrentLease
          <6>2. controlEpoch < epoch + (revsSent - revsDone)
            BY <1>3, <5>1, <6>1 DEF LeaseInv, SeatlessLease
          <6>3. seen.epoch <= controlEpoch /\ toComp'[i].epoch = seen.epoch
            BY <1>3, <5>1 DEF Asked, PauseInv
          <6> QED BY <2>4, <5>1, <6>2, <6>3
        <5>4. toComp'[i].epoch = Wire(controlEpoch)
          BY <5>1, <5>3 DEF Asked
        <5> QED BY <5>2, <5>3, <5>4
      <4> QED BY <2>6, <4>1, <4>2
    <3>2. OpenHolder'
      BY <1>3, <2>3 DEF LeaseInv, OpenHolder
    <3>3. SeatlessLease'
      BY <1>3, <2>3 DEF LeaseInv, SeatlessLease
    <3> QED BY <2>2, <3>1, <3>2, <3>3 DEF LeaseInv
  <2>10. CASE Revokes
    <3> USE <2>10 DEF Revokes
    <3>1. \A i \in 1..Len(toComp') : toComp'[i].kind = "acquire" => toComp'[i].stamp < revsSent'
      BY <2>4, <2>6, <2>7 DEF Asked
    <3>2. HolderKnown'
      <4> SUFFICES ASSUME NEW i \in 1..Len(toComp'), toComp'[i].kind = "acquire",
                          toComp'[i].stamp = revsSent'
                   PROVE  FALSE
        BY DEF HolderKnown, Alive
      <4> QED BY <2>4, <3>1
    <3>3. OpenHolder'
      BY <2>3, <2>4 DEF OpenHolder
    <3>4. SeatlessLease'
      <4> SUFFICES ASSUME writer' # NoWriter, epoch < EpochMax
                   PROVE  controlEpoch' < epoch + (revsSent' - revsDone)
        BY <2>3 DEF SeatlessLease
      <4> QED BY <2>4, <2>5
    <3> QED BY <2>2, <3>2, <3>3, <3>4 DEF LeaseInv
  <2>11. CASE Follows
    <3> USE <2>11 DEF Follows
    <3>1. HolderKnown'
      <4> SUFFICES ASSUME NEW i \in 1..Len(toComp'), Alive(toComp'[i], epoch, revsDone),
                          toComp'[i].stamp = revsSent
                   PROVE  FALSE
        BY <2>3 DEF HolderKnown
      <4>1. i \in 1..Len(toComp)
        BY <2>6 DEF Alive
      <4> QED BY <2>6, <2>8, <4>1
    <3>2. OpenHolder'
      <4> SUFFICES ASSUME allowed, grant.lease # 0, revsSent = revsDone
                   PROVE  FALSE
        BY <2>3 DEF OpenHolder
      <4>1. Wire(controlEpoch) = epoch
        BY <1>3 DEF LeaseInv, OpenHolder
      <4> QED BY <2>4, <4>1
    <3>3. SeatlessLease'
      BY DEF SeatlessLease
    <3> QED BY <2>2, <3>1, <3>2, <3>3 DEF LeaseInv
  <2> QED BY <2>1, <2>9, <2>10, <2>11
<1> QED BY <1>1, <1>2, <1>3

\* What was alive before a step of the compositor if it is alive after it.
LEMMA AliveKept ==
    ASSUME TypeOK, KnowledgeInv, Compositor, ~ControlResourceDestroy,
           NEW i \in 1..Len(toComp), Alive(toComp[i], epoch', revsDone')
    PROVE  Alive(toComp[i], epoch, revsDone)
<1> DEFINE m == toComp[i]
           x == m.stamp - revsDone
<1>1. /\ m.epoch \in Nat /\ m.stamp \in Nat /\ m.known \in Nat
      /\ epoch \in Nat /\ epoch <= EpochMax /\ takeovers \in Nat /\ revsDone \in Nat
  <2>1. m \in RequestType
    BY DEF TypeOK, LinkTypes
  <2> QED BY <2>1 DEF TypeOK, CompTypes, GhostTypes, RequestType
<1>2. m.known <= takeovers /\ (m.kind = "acquire" => Behind(m.epoch, m.known, epoch, takeovers, x))
  BY DEF KnowledgeInv, QueueInv, Claims
<1>3. m.kind = "acquire" /\ m.lease # 0 /\ epoch' < EpochMax
      /\ m.epoch = epoch' + (m.stamp - revsDone')
  BY DEF Alive
<1>4. \/ UNCHANGED <<epoch, revsDone>>
      \/ epoch' = Bump /\ UNCHANGED revsDone
      \/ epoch' = Bump /\ revsDone' = revsDone + 1
  BY GateMoves
<1> HIDE DEF m
<1>5. epoch < EpochMax
  BY <1>1, <1>3, <1>4 DEF Bump
<1>6. m.epoch + (takeovers - m.known) <= epoch + x
  BY <1>2, <1>3, <1>5 DEF Behind
<1>7. \/ epoch' = epoch /\ revsDone' = revsDone
      \/ epoch' = epoch + 1 /\ revsDone' = revsDone
      \/ epoch' = epoch + 1 /\ revsDone' = revsDone + 1
  BY <1>4, <1>5 DEF Bump
<1>8. m.epoch = epoch' + (m.stamp - revsDone') /\ m.known <= takeovers
  BY <1>2, <1>3
<1>9. m.epoch = epoch + (m.stamp - revsDone)
  <2>1. CASE epoch' = epoch /\ revsDone' = revsDone
    BY <1>8, <2>1
  <2>2. CASE epoch' = epoch + 1 /\ revsDone' = revsDone
    <3>1. m.epoch = (epoch + 1) + (m.stamp - revsDone)
      BY <1>8, <2>2
    <3>2. m.epoch + (takeovers - m.known) <= epoch + (m.stamp - revsDone)
      BY <1>6
    <3>3. m.epoch \in Int /\ m.stamp \in Int /\ m.known \in Int
      BY <1>1
    <3>4. epoch \in Int /\ takeovers \in Int /\ revsDone \in Int /\ m.known <= takeovers
      BY <1>1, <1>8
    <3>5. \A e, k, t, c, y \in Int : e = (c + 1) + y /\ e + (t - k) <= c + y => ~(k <= t)
      OBVIOUS
    <3>6. m.stamp - revsDone \in Int
      BY <3>3, <3>4
    <3> QED BY <3>1, <3>2, <3>3, <3>4, <3>5, <3>6
  <2>3. CASE epoch' = epoch + 1 /\ revsDone' = revsDone + 1
    <3>1. m.epoch = (epoch + 1) + (m.stamp - (revsDone + 1))
      BY <1>8, <2>3
    <3> QED BY <1>1, <3>1
  <2> QED BY <1>7, <2>1, <2>2, <2>3
<1> QED BY <1>3, <1>5, <1>9 DEF Alive, m

\* The queue after a step of the compositor is a suffix of what it was.
LEMMA QueueShifts ==
    ASSUME TypeOK, Compositor
    PROVE  \E d \in {0, 1} :
            \A i \in 1..Len(toComp') : i + d \in 1..Len(toComp) /\ toComp'[i] = toComp[i + d]
<1>1. toComp \in Seq(RequestType)
  BY DEF TypeOK, LinkTypes
<1>2. CASE UNCHANGED toComp
  <2>1. \A i \in 1..Len(toComp) : i + 0 = i
    BY <1>1
  <2> QED BY <1>2, <2>1
<1>3. CASE toComp # <<>> /\ toComp' = Tail(toComp)
  <2>1. \A i \in 1..Len(Tail(toComp)) :
            i + 1 \in 1..Len(toComp) /\ Tail(toComp)[i] = toComp[i + 1]
    BY <1>1, <1>3
  <2> QED BY <1>3, <2>1
<1>4. CASE toComp' = <<>>
  <2>1. 1..Len(toComp') = {}
    BY <1>4
  <2> QED BY <2>1
<1> QED BY <1>2, <1>3, <1>4, CompositorEffect

LEMMA LeaseCompositor ==
    ASSUME TypeOK, TypeOK', LinkInv, GateImpliesQuiet, KnowledgeInv, LeaseInv, Compositor
    PROVE  LeaseInv'
<1>types. /\ toComp \in Seq(RequestType) /\ toComp' \in Seq(RequestType)
          /\ epoch \in Nat /\ epoch <= EpochMax /\ revsDone \in Nat
          /\ grant.lease \in Nat
  BY DEF TypeOK, LinkTypes, CompTypes, GhostTypes
<1>daemon. /\ UNCHANGED <<running, created, controlEpoch, writer, seen>>
           /\ CurrentLease' = CurrentLease
  BY CompositorLeavesDaemon DEF daemonVars, leaseVars, seatVars, CurrentLease
<1>1. CASE ControlResourceDestroy
  <2>1. toComp' = <<>> /\ ~running' /\ ~allowed' /\ ~virtualHeld'
    BY <1>1, <1>daemon DEF ControlResourceDestroy, ControlRevoke
  <2>2. Len(toComp') = 0
    BY <2>1
  <2> QED BY <2>1, <2>2 DEF LeaseInv, HolderKnown, OneLease, OpenQueue, OpenHolder, Presses,
          GateHeld, SeatlessLease
<1>2. CASE ~ControlResourceDestroy
  <2>1. PICK d \in {0, 1} :
            \A i \in 1..Len(toComp') : i + d \in 1..Len(toComp) /\ toComp'[i] = toComp[i + d]
    BY QueueShifts
  <2>2. UNCHANGED revsSent
    BY <1>2, GateMoves
  <2>3. \A i \in 1..Len(toComp') :
            Alive(toComp'[i], epoch', revsDone') => Alive(toComp[i + d], epoch, revsDone)
    BY <1>2, <2>1, AliveKept
  <2>4. HolderKnown'
    <3> SUFFICES ASSUME running, NEW i \in 1..Len(toComp'),
                        Alive(toComp'[i], epoch', revsDone'), toComp'[i].stamp = revsSent
                 PROVE  created /\ CurrentLease = toComp'[i].lease
                        /\ Wire(controlEpoch) = toComp'[i].epoch
      BY <1>daemon, <2>2 DEF HolderKnown
    <3> QED BY <2>1, <2>3 DEF LeaseInv, HolderKnown
  <2>5. OneLease'
    <3> SUFFICES ASSUME NEW i \in 1..Len(toComp'), NEW j \in 1..Len(toComp'), i < j,
                        Alive(toComp'[i], epoch', revsDone'),
                        toComp'[j].kind = "acquire",
                        toComp'[j].stamp = toComp'[i].stamp
                 PROVE  toComp'[j].lease = toComp'[i].lease /\ toComp'[j].epoch = toComp'[i].epoch
      BY DEF OneLease
    <3>1. Alive(toComp[i + d], epoch, revsDone) /\ i + d < j + d
          /\ i + d \in 1..Len(toComp) /\ j + d \in 1..Len(toComp)
          /\ toComp'[i] = toComp[i + d] /\ toComp'[j] = toComp[j + d]
      BY <2>1, <2>3
    <3> QED BY <3>1 DEF LeaseInv, OneLease
  <2>6. SeatlessLease'
    <3>1. /\ controlEpoch \in Nat /\ takeovers \in Nat /\ seen.known \in Nat
          /\ revsSent \in Nat /\ epoch' \in Nat /\ revsDone' \in Nat
      BY DEF TypeOK, DaemonTypes, GhostTypes, StateType, CompTypes
    <3>2. \/ UNCHANGED <<epoch, revsDone>>
          \/ epoch' = Bump /\ UNCHANGED revsDone
          \/ epoch' = Bump /\ revsDone' = revsDone + 1
      BY <1>2, GateMoves
    <3> SUFFICES ASSUME running, ~created, writer # NoWriter, epoch' < EpochMax
                 PROVE  controlEpoch < epoch' + (revsSent - revsDone')
      BY <1>daemon, <2>2 DEF SeatlessLease
    <3>3. epoch < EpochMax
      BY <1>types, <3>1, <3>2 DEF Bump
    <3>4. controlEpoch < epoch + (revsSent - revsDone)
      BY <3>3 DEF LeaseInv, SeatlessLease
    <3>5. \/ epoch' = epoch /\ revsDone' = revsDone
          \/ epoch' = epoch + 1 /\ revsDone' = revsDone
          \/ epoch' = epoch + 1 /\ revsDone' = revsDone + 1
      BY <3>2, <3>3 DEF Bump
    <3>6. \A a, b, s, x, e, y \in Nat :
            (/\ a < b + (s - x)
             /\ \/ e = b /\ y = x
                \/ e = b + 1 /\ y = x
                \/ e = b + 1 /\ y = x + 1) => a < e + (s - y)
      OBVIOUS
    <3> QED BY <1>types, <3>1, <3>4, <3>5, <3>6
  \* While nothing happens to the gate.
  <2>7. ASSUME UNCHANGED <<epoch, allowed, revsDone, grant>>
        PROVE  OpenQueue' /\ OpenHolder'
    <3>1. OpenQueue'
      BY <2>1, <2>7 DEF LeaseInv, OpenQueue
    <3>2. OpenHolder'
      BY <2>2, <2>7, <1>daemon DEF LeaseInv, OpenHolder
    <3> QED BY <3>1, <3>2
  <2>8. ASSUME UNCHANGED <<allowed, grant, toComp>>
        PROVE  Presses'
    BY <2>8 DEF LeaseInv, Presses
  \* Once the gate is closed.
  <2>9. ASSUME ~allowed'
        PROVE  OpenQueue' /\ OpenHolder'
    BY <2>9 DEF OpenQueue, OpenHolder
  <2>10. ASSUME toComp # <<>>, toComp' = Tail(toComp)
         PROVE  \A i \in 1..Len(toComp') :
                    /\ i + 1 \in 1..Len(toComp)
                    /\ toComp'[i] = toComp[i + 1]
                    /\ i > 1 => toComp'[i - 1] = toComp[i]
    BY <2>10, <1>types
  <2>11. ASSUME ~allowed', UNCHANGED toComp \/ (toComp # <<>> /\ toComp' = Tail(toComp))
         PROVE  Presses'
    <3>1. CASE UNCHANGED toComp
      BY <2>11, <3>1 DEF LeaseInv, Presses
    <3>2. CASE toComp # <<>> /\ toComp' = Tail(toComp)
      <4> SUFFICES ASSUME NEW i \in 1..Len(toComp'), toComp'[i].kind = "press"
                   PROVE  /\ toComp'[i].lease # 0
                          /\ i > 1 => /\ toComp'[i - 1].kind = "acquire"
                                      /\ toComp'[i - 1].known = toComp'[i].known
                                      /\ toComp'[i - 1].lease = toComp'[i].lease
        BY <2>11 DEF Presses
      <4>1. /\ i + 1 \in 1..Len(toComp) /\ toComp'[i] = toComp[i + 1] /\ i + 1 > 1
            /\ (i + 1) - 1 = i
            /\ i > 1 => toComp'[i - 1] = toComp[i]
        BY <2>10, <3>2
      <4> QED BY <4>1 DEF LeaseInv, Presses
    <3> QED BY <2>11, <3>1, <3>2
  <2>12. CASE ProcessAcquire
    <3>1. /\ toComp # <<>> /\ toComp' = Tail(toComp) /\ Head(toComp).kind = "acquire"
          /\ UNCHANGED <<epoch, revsDone, virtualHeld>>
          /\ allowed' = Granted(Head(toComp))
          /\ grant' = IF Granted(Head(toComp))
                      THEN [known |-> Head(toComp).known, lease |-> Head(toComp).lease]
                      ELSE NoGrant
      BY <2>12 DEF ProcessAcquire, Pending
    <3>2. /\ 1 \in 1..Len(toComp) /\ Head(toComp) = toComp[1]
          /\ toComp[1].kind = "acquire"
          /\ toComp[1].stamp = revsDone
      <4>1. 1 \in 1..Len(toComp) /\ Head(toComp) = toComp[1]
        BY <3>1, <1>types
      <4>2. StampAt(toComp, revsSent, 1) = revsDone
        BY DEF KnowledgeInv, QueueInv, Stamps
      <4> QED BY <3>1, <4>1, <4>2 DEF StampAt
    <3>3. ASSUME allowed'
          PROVE  /\ toComp[1].epoch = epoch /\ epoch < EpochMax
                 /\ grant'.known = toComp[1].known
                 /\ grant'.lease = toComp[1].lease
      <4>1. Granted(Head(toComp))
        BY <3>1, <3>3
      <4>2. grant' = [known |-> Head(toComp).known, lease |-> Head(toComp).lease]
        BY <3>1, <4>1
      <4>3. Head(toComp).epoch = epoch /\ epoch < EpochMax
        BY <1>types, <4>1 DEF Granted
      <4> QED BY <3>2, <4>2, <4>3
    <3>4. ASSUME allowed', grant'.lease # 0
          PROVE  Alive(toComp[1], epoch, revsDone)
      <4>1. revsDone - revsDone = 0 /\ epoch + 0 = epoch
        BY <1>types
      <4> QED BY <3>2, <3>3, <3>4, <4>1 DEF Alive
    <3>5. OpenQueue'
      <4> SUFFICES ASSUME allowed', grant'.lease # 0, NEW j \in 1..Len(toComp'),
                          toComp'[j].kind = "acquire", toComp'[j].stamp = revsDone
                   PROVE  toComp'[j].lease = grant'.lease /\ toComp'[j].epoch = epoch
        BY <3>1 DEF OpenQueue
      <4>1. j + 1 \in 1..Len(toComp) /\ toComp'[j] = toComp[j + 1] /\ 1 < j + 1
        BY <2>10, <3>1
      <4> QED BY <3>2, <3>3, <3>4, <4>1 DEF LeaseInv, OneLease
    <3>6. OpenHolder'
      <4> SUFFICES ASSUME allowed', grant'.lease # 0, revsSent = revsDone, running
                   PROVE  created /\ CurrentLease = grant'.lease /\ Wire(controlEpoch) = epoch
        BY <1>daemon, <2>2, <3>1 DEF OpenHolder
      <4> QED BY <3>2, <3>3, <3>4 DEF LeaseInv, HolderKnown
    <3>7. Presses'
      <4> SUFFICES ASSUME NEW i \in 1..Len(toComp'), toComp'[i].kind = "press"
                   PROVE  /\ toComp'[i].lease # 0
                          /\ i = 1 => (allowed' => grant'.known = toComp'[i].known
                                                   /\ grant'.lease = toComp'[i].lease)
                          /\ i > 1 => /\ toComp'[i - 1].kind = "acquire"
                                      /\ toComp'[i - 1].known = toComp'[i].known
                                      /\ toComp'[i - 1].lease = toComp'[i].lease
        BY DEF Presses
      <4>1. /\ i + 1 \in 1..Len(toComp) /\ toComp'[i] = toComp[i + 1] /\ i + 1 > 1
            /\ (i + 1) - 1 = i
            /\ i > 1 => toComp'[i - 1] = toComp[i]
        BY <2>10, <3>1
      <4>2. /\ toComp[i + 1].lease # 0
            /\ toComp[i].kind = "acquire"
            /\ toComp[i].known = toComp[i + 1].known
            /\ toComp[i].lease = toComp[i + 1].lease
        BY <4>1 DEF LeaseInv, Presses
      <4> QED BY <3>3, <4>1, <4>2
    <3>8. GateHeld'
      <4>1. allowed' => epoch' < EpochMax
        BY <3>1, <3>3
      <4>2. ASSUME virtualHeld
            PROVE  allowed' /\ grant'.lease # 0
        <5>1. allowed /\ grant.lease # 0 /\ epoch < EpochMax /\ quiet /\ ~humanHeld
          BY <4>2 DEF LeaseInv, GateHeld, GateImpliesQuiet
        <5>2. toComp[1].lease = grant.lease /\ toComp[1].epoch = epoch
          BY <3>2, <5>1 DEF LeaseInv, OpenQueue
        <5>3. Granted(Head(toComp))
          BY <1>types, <3>2, <5>1, <5>2 DEF Granted
        <5> QED BY <3>1, <3>3, <5>1, <5>2, <5>3
      <4> QED BY <3>1, <4>1, <4>2 DEF GateHeld
    <3> QED BY <2>4, <2>5, <2>6, <3>5, <3>6, <3>7, <3>8 DEF LeaseInv
  <2>13. ASSUME ControlRevoke, UNCHANGED toComp \/ (toComp # <<>> /\ toComp' = Tail(toComp))
         PROVE  LeaseInv'
    <3>1. ~allowed' /\ ~virtualHeld'
      BY <2>13 DEF ControlRevoke
    <3>2. GateHeld'
      BY <3>1 DEF GateHeld
    <3> QED BY <2>4, <2>5, <2>6, <2>9, <2>11, <2>13, <3>1, <3>2 DEF LeaseInv
  <2>14. ASSUME UNCHANGED <<epoch, allowed, virtualHeld, revsDone, grant, toComp>>
         PROVE  LeaseInv'
    <3>1. GateHeld'
      BY <2>14 DEF LeaseInv, GateHeld
    <3> QED BY <2>4, <2>5, <2>6, <2>7, <2>8, <2>14, <3>1 DEF LeaseInv
  <2>15. CASE ProcessPress \/ ProcessRelease
    <3>1. /\ toComp # <<>> /\ toComp' = Tail(toComp) /\ Head(toComp).kind # "acquire"
          /\ UNCHANGED <<epoch, allowed, revsDone, grant>>
          /\ virtualHeld' => virtualHeld \/ (allowed /\ Head(toComp).kind = "press")
      BY <2>15 DEF ProcessPress, ProcessRelease, Pending, ghostVars
    <3>2. 1 \in 1..Len(toComp) /\ Head(toComp) = toComp[1]
      BY <3>1, <1>types
    <3>3. Presses'
      <4> SUFFICES ASSUME NEW i \in 1..Len(toComp'), toComp'[i].kind = "press"
                   PROVE  /\ toComp'[i].lease # 0
                          /\ i # 1
                          /\ i > 1 => /\ toComp'[i - 1].kind = "acquire"
                                      /\ toComp'[i - 1].known = toComp'[i].known
                                      /\ toComp'[i - 1].lease = toComp'[i].lease
        BY DEF Presses
      <4>1. /\ i + 1 \in 1..Len(toComp) /\ toComp'[i] = toComp[i + 1] /\ i + 1 > 1
            /\ (i + 1) - 1 = i
            /\ i > 1 => toComp'[i - 1] = toComp[i]
        BY <2>10, <3>1
      <4>2. /\ toComp[i + 1].lease # 0
            /\ toComp[i].kind = "acquire"
            /\ toComp[i].known = toComp[i + 1].known
            /\ toComp[i].lease = toComp[i + 1].lease
        BY <4>1 DEF LeaseInv, Presses
      <4> QED BY <3>1, <3>2, <4>1, <4>2
    <3>4. GateHeld'
      BY <3>1, <3>2 DEF LeaseInv, GateHeld, Presses
    <3> QED BY <2>4, <2>5, <2>6, <2>7, <3>1, <3>3, <3>4 DEF LeaseInv
  <2>16. CASE ProcessStaleAcquire \/ ProcessRevoke
    BY <2>13, <2>16 DEF ProcessStaleAcquire, ProcessRevoke, Pending
  <2>17. CASE Human
    <3>1. ASSUME NEW held, ReportHumanActivity(held)
          PROVE  LeaseInv'
      BY <2>13, <2>14, <3>1 DEF ReportHumanActivity
    <3> QED BY <2>14, <2>17, <3>1 DEF Human, HumanKey, HumanTouch, HumanWheel, HumanUnplug,
            ghostVars
  <2>18. CASE HoldTimeoutExpired
    BY <2>13, <2>18 DEF HoldTimeoutExpired
  <2>19. CASE QuietElapses \/ ControlQuietTimer
    BY <2>14, <2>19 DEF QuietElapses, ControlQuietTimer, ghostVars
  <2> QED BY <1>2, <2>12, <2>15, <2>16, <2>17, <2>18, <2>19 DEF Compositor, ProcessRequest
<1> QED BY <1>1, <1>2

\* The leases in the queue, behind the gate and in the daemon are one.
THEOREM LeaseHolds == Spec => []LeaseInv
<1>1. Init => LeaseInv
  <2> SUFFICES ASSUME Init
               PROVE  LeaseInv
    OBVIOUS
  <2>1. toComp = <<>> /\ Len(toComp) = 0 /\ ~running /\ ~allowed /\ ~virtualHeld
    BY DEF Init
  <2> QED BY <2>1 DEF LeaseInv, HolderKnown, OneLease, OpenQueue, OpenHolder, Presses,
          GateHeld, SeatlessLease
<1>2. LeaseInv /\ UNCHANGED vars => LeaseInv'
  <2> SUFFICES ASSUME LeaseInv, UNCHANGED vars
               PROVE  LeaseInv'
    OBVIOUS
  <2>1. UNCHANGED <<epoch, allowed, virtualHeld, toComp, running, controlEpoch, created, writer,
                    revsSent, revsDone, grant>>
        /\ CurrentLease' = CurrentLease
    BY DEF vars, compVars, daemonVars, ghostVars, CurrentLease
  <2>2. HolderKnown' /\ OneLease' /\ OpenQueue' /\ OpenHolder'
    BY <2>1 DEF LeaseInv, HolderKnown, OneLease, OpenQueue, OpenHolder
  <2>3. Presses' /\ GateHeld' /\ SeatlessLease'
    BY <2>1 DEF LeaseInv, Presses, GateHeld, SeatlessLease
  <2> QED BY <2>2, <2>3 DEF LeaseInv
<1>3. /\ TypeOK /\ TypeOK' /\ LinkInv /\ WorkBelongsToLease /\ GateImpliesQuiet
      /\ SeatInv /\ PauseInv /\ KnowledgeInv /\ LeaseInv /\ [Next]_vars
      => LeaseInv'
  BY <1>2, LeaseCompositor, LeaseDaemon DEF Next
<1> QED
  BY <1>1, <1>3, TypeCorrect, Linked, WorkBelongs, QuietGate, SeatKept, PauseBounds,
     Knowledge, PTL DEF Spec

\* A virtual key is never down behind a closed gate: a request that would
\* close the gate without releasing cannot follow the press it would strand.
THEOREM HoldsNeedTheGate == Spec => []HoldsImplyGate
<1>1. LeaseInv => HoldsImplyGate
  BY DEF LeaseInv, GateHeld, HoldsImplyGate
<1> QED
  BY <1>1, LeaseHolds, PTL

\* Whatever is typed or pressed was sent under the lease that opened the gate
\* and in knowledge of every takeover.
THEOREM DeliveryIsAuthorized == Spec => []DeliveryAuthorized
<1>1. TypeOK /\ NoStaleGrant /\ LeaseInv => DeliveryAuthorized
  <2> SUFFICES ASSUME TypeOK, NoStaleGrant, LeaseInv,
                      toComp # <<>>, Head(toComp).kind = "press", allowed
               PROVE  Head(toComp).known = takeovers /\ Head(toComp).lease = grant.lease
    BY DEF DeliveryAuthorized
  <2>1. 1 \in 1..Len(toComp) /\ Head(toComp) = toComp[1]
    BY DEF TypeOK, LinkTypes
  <2> QED BY <2>1 DEF LeaseInv, Presses, NoStaleGrant
<1> QED
  BY <1>1, TypeCorrect, GrantsAreFresh, LeaseHolds, PTL

\* Between two writers the compositor has seen the gate closed.
THEOREM PermissionIsNotInherited == Spec => PermissionNotInherited
<1>1. TypeOK /\ KnowledgeInv /\ LeaseInv /\ [Next]_vars
      => [(allowed /\ allowed' /\ grant.lease # 0) => grant'.lease = grant.lease]_vars
  <2> SUFFICES ASSUME TypeOK, KnowledgeInv, LeaseInv, Next, allowed, allowed', grant.lease # 0
               PROVE  grant'.lease = grant.lease
    OBVIOUS
  <2>1. CASE Daemon
    BY <2>1, DaemonLeavesCounts
  <2>2. CASE ProcessAcquire
    <3>1. /\ toComp # <<>> /\ Head(toComp).kind = "acquire"
          /\ grant'.lease = Head(toComp).lease
      BY <2>2 DEF ProcessAcquire, Pending
    <3>2. 1 \in 1..Len(toComp) /\ Head(toComp) = toComp[1]
      BY <3>1 DEF TypeOK, LinkTypes
    <3>3. StampAt(toComp, revsSent, 1) = revsDone
      BY DEF KnowledgeInv, QueueInv, Stamps
    <3>4. toComp[1].stamp = revsDone
      BY <3>2, <3>3 DEF StampAt
    <3> QED BY <3>1, <3>2, <3>4 DEF LeaseInv, OpenQueue
  <2>3. CASE Compositor /\ ~ProcessAcquire
    BY <2>3 DEF Compositor, ProcessRequest, ProcessStaleAcquire, ProcessRevoke, ProcessPress,
       ProcessRelease, Human, HumanKey, HumanTouch, HumanWheel, HumanUnplug,
       ReportHumanActivity, HoldTimeoutExpired, QuietElapses, ControlQuietTimer,
       ControlResourceDestroy, ControlRevoke, ghostVars
  <2> QED BY <2>1, <2>2, <2>3 DEF Next
<1> QED
  BY <1>1, TypeCorrect, Knowledge, LeaseHolds, PTL DEF Spec, PermissionNotInherited

=============================================================================
