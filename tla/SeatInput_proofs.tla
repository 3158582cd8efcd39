-------------------------- MODULE SeatInput_proofs --------------------------
(***************************************************************************)
(* Theorems about SeatInput, for every set of devices, keys, buttons, hold *)
(* times and every number of revocations.  The argument rests on five      *)
(* facts about the seat: the deadlines are those of the agent's holds and  *)
(* the timer is not after any of them (HoldInv); what the application was  *)
(* told is what is held (HeldInv); the agent is allowed, or holds          *)
(* anything, only in quiet and while no human holds anything (HumanInv);   *)
(* what is let go of in a step is held by nobody (ReleasedInv); and the    *)
(* agent's buttons are those a virtual grab began with (GrabInv).          *)
(***************************************************************************)
EXTENDS SeatInput, TLAPS, WellFoundedInduction

Grabs == [button : Buttons, by : Mice \cup {Agent}]

\* A seat, whatever the epoch: the bound on epochs is put on whole steps.
Shape == [allowed : BOOLEAN, epoch : Nat, quiet : BOOLEAN, hold : HoldTimes,
          deadline : [Inputs -> Time], timer : Time,
          heldKeys : [Keyboards \cup {Agent} -> SUBSET Keys],
          depressed : [Keyboards -> SUBSET Modifiers],
          forwardedKeys : SUBSET Keys,
          heldButtons : [Mice \cup {Agent} -> SUBSET Buttons],
          forwardedButtons : SUBSET Buttons,
          grabVirtual : BOOLEAN, clipboard : Nat \cup {Nothing},
          grab : Grabs \cup {Nothing},
          drag : {"none", "active", "dropped", "cancelled"},
          touched : BOOLEAN, released : SUBSET Inputs]

\* The deadlines are those of the agent's holds, and the timer serves the first.
HoldInv ==
    \A i \in Inputs :
        /\ age[i] # Nothing <=> i \in AgentHolds(seat)
        /\ seat.deadline[i] # Nothing <=> i \in AgentHolds(seat)
        /\ i \in AgentHolds(seat) =>
            /\ seat.timer # Nothing /\ seat.timer <= seat.deadline[i]
            /\ age[i] + seat.deadline[i] <= Max(HoldTimes)

HeldInv == KeysAreAccounted /\ ButtonsAreAccounted

\* No human holds anything while the agent may, or does.
HumanInv == seat.allowed \/ AgentHolds(seat) # {} => seat.quiet /\ ~HumanHeld(seat)

\* Nobody holds what was let go of.
ReleasedInv == seat.released \cap (KeyHeld(seat) \cup ButtonHeld(seat)) = {}

\* The agent's buttons began a grab, which control_revoke knows as a virtual one.
GrabInv == orphans = {} /\ seat.heldButtons[Agent] # {} => seat.grabVirtual

IInv == TypeOK /\ HoldInv /\ HeldInv /\ HumanInv /\ ReleasedInv /\ GrabInv /\ ClipboardIsGated

----------------------------------------------------------------------------
(* Sets of numbers.                                                        *)

Less == {p \in Nat \X Nat : p[1] < p[2]}

LEMMA LessIsWellFounded == IsWellFoundedOn(Less, Nat)
  BY NatLessThanWellFounded DEF Less, OpToRel

LEMMA Least ==
    ASSUME NEW S \in SUBSET Nat, S # {}
    PROVE  Min(S) \in S /\ \A n \in S : Min(S) <= n
  <1>1. PICK m \in S : \A n \in S : <<n, m>> \notin Less
    BY LessIsWellFounded, WFMin
  <1>2. ASSUME NEW n \in S PROVE m <= n
    <2>1. <<n, m>> \in Nat \X Nat /\ <<n, m>>[1] = n /\ <<n, m>>[2] = m
      OBVIOUS
    <2>2. ~(n < m)
      BY <1>1, <2>1 DEF Less
    <2> QED BY <2>2
  <1> QED BY <1>2 DEF Min

LEMMA Longest == Max(HoldTimes) \in HoldTimes /\ \A time \in HoldTimes : time <= Max(HoldTimes)
  BY HoldAssumption DEF Max

LEMMA Times ==
    /\ HoldTimes \subseteq Nat /\ Nothing \notin Nat /\ Nothing \notin HoldTimes
    /\ Nothing \notin Grabs
    /\ Agent \notin Keyboards /\ Agent \notin Mice
    /\ Modifiers \subseteq Keys /\ Keys \cap Buttons = {}
    /\ MaxEpoch \in Nat
  BY HoldAssumption, NothingAssumption, DevicesAssumption, KeysAssumption, EpochAssumption DEF Grabs

----------------------------------------------------------------------------
(* The steps of the handlers: what each does to each part of the seat.     *)

SamePermission(s, t) ==
    /\ t.allowed = s.allowed /\ t.epoch = s.epoch /\ t.quiet = s.quiet
    /\ t.clipboard = s.clipboard

SameTimes(s, t) == t.hold = s.hold /\ t.deadline = s.deadline /\ t.timer = s.timer

SameHolds(s, t) ==
    /\ t.heldKeys = s.heldKeys /\ t.depressed = s.depressed /\ t.heldButtons = s.heldButtons
    /\ t.touched = s.touched

SameDrag(s, t) == t.grabVirtual = s.grabVirtual /\ t.grab = s.grab /\ t.drag = s.drag

LEMMA KeysSentIs ==
    ASSUME NEW s \in Shape, NEW to \in SUBSET Keys
    PROVE  LET t == KeysSent(s, to)
           IN  /\ t \in Shape
               /\ SamePermission(s, t) /\ SameTimes(s, t) /\ SameHolds(s, t) /\ SameDrag(s, t)
               /\ t.forwardedKeys = to /\ t.forwardedButtons = s.forwardedButtons
               /\ t.released = s.released \cup (s.forwardedKeys \ to)
  BY DEF KeysSent, Shape, Inputs, SamePermission, SameTimes, SameHolds, SameDrag

LEMMA HoldsOfSame ==
    ASSUME NEW s, NEW t, SameHolds(s, t)
    PROVE  /\ KeyHeld(t) = KeyHeld(s) /\ ButtonHeld(t) = ButtonHeld(s) /\ Hinted(t) = Hinted(s)
           /\ HumanKeys(t) = HumanKeys(s) /\ HumanButtons(t) = HumanButtons(s)
           /\ AgentHolds(t) = AgentHolds(s) /\ (HumanHeld(t) <=> HumanHeld(s))
  BY DEF SameHolds, KeyHeld, ButtonHeld, Hinted, HumanKeys, HumanButtons, AgentHolds, HumanHeld

LEMMA HoldsTyped ==
    ASSUME NEW s \in Shape
    PROVE  /\ KeyHeld(s) \subseteq Keys /\ HumanKeys(s) \subseteq Keys /\ Hinted(s) \subseteq Modifiers
           /\ ButtonHeld(s) \subseteq Buttons /\ HumanButtons(s) \subseteq Buttons
           /\ KeyHeld(s) = HumanKeys(s) \cup s.heldKeys[Agent]
           /\ ButtonHeld(s) = HumanButtons(s) \cup s.heldButtons[Agent]
           /\ s.heldKeys[Agent] \subseteq Keys /\ s.heldButtons[Agent] \subseteq Buttons
           /\ AgentHolds(s) \subseteq Inputs
  BY DEF Shape, KeyHeld, ButtonHeld, Hinted, HumanKeys, HumanButtons, AgentHolds, Inputs

LEMMA WithoutOrphansIs ==
    ASSUME NEW s \in Shape, NEW hints \in BOOLEAN
    PROVE  LET t == WithoutOrphans(s, hints)
           IN  /\ t \in Shape
               /\ SamePermission(s, t) /\ SameTimes(s, t) /\ SameHolds(s, t) /\ SameDrag(s, t)
               /\ t.forwardedKeys = s.forwardedKeys \cap (KeyHeld(s) \cup (IF hints THEN Hinted(s) ELSE {}))
               /\ t.forwardedButtons = s.forwardedButtons
               /\ t.released = s.released \cup (s.forwardedKeys \ t.forwardedKeys)
  <1> DEFINE to == s.forwardedKeys \cap (KeyHeld(s) \cup (IF hints THEN Hinted(s) ELSE {}))
  <1>1. to \in SUBSET Keys
    BY DEF Shape
  <1> HIDE DEF to
  <1>2. WithoutOrphans(s, hints) = KeysSent(s, to)
    BY DEF WithoutOrphans, to
  <1> QED BY <1>1, <1>2, KeysSentIs DEF to

LEMMA ButtonsSentIs ==
    ASSUME NEW s \in Shape, NEW to \in SUBSET Buttons, NEW d \in Mice \cup {Agent}
    PROVE  LET t == ButtonsSent(s, to, d)
           IN  /\ t \in Shape
               /\ SamePermission(s, t) /\ SameTimes(s, t) /\ SameHolds(s, t)
               /\ t.grabVirtual = s.grabVirtual
               /\ s.drag = "cancelled" => t.drag = "cancelled"
               /\ t.forwardedKeys = s.forwardedKeys /\ t.forwardedButtons = to
               /\ t.released = s.released \cup (s.forwardedButtons \ to)
  <1> DEFINE g == IF to = {} THEN Nothing
                  ELSE IF s.forwardedButtons = {}
                       THEN [button |-> CHOOSE b \in to : TRUE, by |-> d]
                       ELSE s.grab
             drag == IF s.drag = "active" /\ s.grab.button \notin to THEN "dropped" ELSE s.drag
             released == s.released \cup (s.forwardedButtons \ to)
             t == ButtonsSent(s, to, d)
  <1>1. g \in Grabs \cup {Nothing}
    <2>1. to # {} => (CHOOSE b \in to : TRUE) \in to
      OBVIOUS
    <2>2. to # {} => [button |-> CHOOSE b \in to : TRUE, by |-> d] \in Grabs
      BY <2>1 DEF Grabs
    <2>3. s.grab \in Grabs \cup {Nothing}
      BY DEF Shape
    <2> QED BY <2>2, <2>3
  <1>2. drag \in {"none", "active", "dropped", "cancelled"} /\ (s.drag = "cancelled" => drag = "cancelled")
    BY DEF Shape
  <1>3. released \in SUBSET Inputs
    BY DEF Shape, Inputs
  <1>4. t = [s EXCEPT !.forwardedButtons = to, !.released = released, !.grab = g, !.drag = drag]
    BY DEF ButtonsSent
  <1> HIDE DEF g, drag, released, t
  <1>5. t \in Shape
    BY <1>1, <1>2, <1>3, <1>4 DEF Shape
  <1>6. /\ SamePermission(s, t) /\ SameTimes(s, t) /\ SameHolds(s, t)
        /\ t.grabVirtual = s.grabVirtual /\ t.drag = drag
        /\ t.forwardedKeys = s.forwardedKeys /\ t.forwardedButtons = to
        /\ t.released = released
    BY <1>4 DEF Shape, SamePermission, SameTimes, SameHolds
  <1> QED BY <1>2, <1>5, <1>6 DEF t, released

LEMMA DragEndedIs ==
    ASSUME NEW s \in Shape
    PROVE  LET t == DragEnded(s)
           IN  /\ t \in Shape
               /\ SamePermission(s, t) /\ SameTimes(s, t) /\ SameHolds(s, t)
               /\ t.grabVirtual = s.grabVirtual
               /\ s.drag = "active" /\ s.grabVirtual => t.drag = "cancelled"
               /\ t.forwardedKeys = s.forwardedKeys /\ t.forwardedButtons = s.forwardedButtons
               /\ t.released = s.released
  BY DEF DragEnded, Shape, SamePermission, SameTimes, SameHolds

LEMMA ForgottenIs ==
    ASSUME NEW s \in Shape
    PROVE  LET t == Forgotten(s)
           IN  /\ t \in Shape
               /\ ~t.allowed /\ t.clipboard = Nothing /\ t.epoch = s.epoch + 1 /\ t.quiet = s.quiet
               /\ t.hold = s.hold /\ t.deadline = [i \in Inputs |-> Nothing] /\ t.timer = Nothing
               /\ t.heldKeys[Agent] = {} /\ t.heldButtons[Agent] = {}
               /\ t.depressed = s.depressed /\ t.touched = s.touched
               /\ HumanKeys(t) = HumanKeys(s) /\ HumanButtons(t) = HumanButtons(s)
               /\ t.drag = s.drag
               /\ t.forwardedKeys = s.forwardedKeys /\ t.forwardedButtons = s.forwardedButtons
               /\ t.released = s.released
  <1> DEFINE t == Forgotten(s)
             none == [i \in Inputs |-> Nothing]
             keys == [s.heldKeys EXCEPT ![Agent] = {}]
             buttons == [s.heldButtons EXCEPT ![Agent] = {}]
  <1>1. /\ none \in [Inputs -> Time] /\ Nothing \in Time
        /\ keys \in [Keyboards \cup {Agent} -> SUBSET Keys]
        /\ buttons \in [Mice \cup {Agent} -> SUBSET Buttons]
    BY DEF Shape, Time
  <1>2. /\ keys[Agent] = {} /\ buttons[Agent] = {}
        /\ \A d \in Keyboards : keys[d] = s.heldKeys[d]
        /\ \A d \in Mice : buttons[d] = s.heldButtons[d]
    BY Times DEF Shape
  <1> HIDE DEF none, keys, buttons
  <1>3. t = [s EXCEPT !.allowed = FALSE, !.clipboard = Nothing, !.epoch = s.epoch + 1,
                      !.grabVirtual = FALSE, !.deadline = none, !.timer = Nothing,
                      !.heldKeys = keys, !.heldButtons = buttons]
    BY DEF Forgotten, Shape, none, keys, buttons
  <1> HIDE DEF t
  <1>4. t \in Shape
    <2>1. PICK e \in Nat : e = s.epoch + 1
      BY DEF Shape
    <2>2. PICK n \in Nat \cup {Nothing} : n \in Time /\ n = Nothing
      BY <1>1
    <2>3. t = [s EXCEPT !.allowed = FALSE, !.clipboard = n, !.epoch = e, !.grabVirtual = FALSE,
                        !.deadline = none, !.timer = n, !.heldKeys = keys, !.heldButtons = buttons]
      BY <1>3, <2>1, <2>2
    <2> QED BY <1>1, <2>2, <2>3 DEF Shape
  <1>5. /\ ~t.allowed /\ t.clipboard = Nothing /\ t.epoch = s.epoch + 1 /\ t.quiet = s.quiet
        /\ t.hold = s.hold /\ t.deadline = none /\ t.timer = Nothing
        /\ t.heldKeys = keys /\ t.heldButtons = buttons
        /\ t.depressed = s.depressed /\ t.touched = s.touched /\ t.drag = s.drag
        /\ t.forwardedKeys = s.forwardedKeys /\ t.forwardedButtons = s.forwardedButtons
        /\ t.released = s.released
    BY <1>3 DEF Shape
  <1>6. HumanKeys(t) = HumanKeys(s) /\ HumanButtons(t) = HumanButtons(s)
    BY <1>2, <1>5 DEF HumanKeys, HumanButtons
  <1> QED BY <1>2, <1>4, <1>5, <1>6 DEF t, none

\* control_revoke: what is left is what a human holds.
LEMMA RevokedIs ==
    ASSUME NEW s \in Shape
    PROVE  LET t == Revoked(s)
           IN  /\ t \in Shape
               /\ ~t.allowed /\ t.clipboard = Nothing /\ t.epoch = s.epoch + 1 /\ t.quiet = s.quiet
               /\ t.deadline = [i \in Inputs |-> Nothing]
               /\ AgentHolds(t) = {} /\ t.depressed = s.depressed /\ t.touched = s.touched
               /\ HumanKeys(t) = HumanKeys(s) /\ HumanButtons(t) = HumanButtons(s)
               /\ s.drag = "active" /\ s.grabVirtual => t.drag = "cancelled"
               /\ t.forwardedKeys = s.forwardedKeys \cap (KeyHeld(t) \cup Hinted(t))
               /\ t.forwardedButtons = s.forwardedButtons \cap ButtonHeld(t)
               /\ t.released = s.released \cup (s.forwardedKeys \ t.forwardedKeys)
                                          \cup (s.forwardedButtons \ t.forwardedButtons)
  <1>1. PICK a : a = DragEnded(s)
    OBVIOUS
  <1>2. /\ a \in Shape /\ SamePermission(s, a) /\ SameTimes(s, a) /\ SameHolds(s, a)
        /\ s.drag = "active" /\ s.grabVirtual => a.drag = "cancelled"
        /\ a.forwardedKeys = s.forwardedKeys /\ a.forwardedButtons = s.forwardedButtons
        /\ a.released = s.released
    BY <1>1, DragEndedIs
  <1>3. PICK b : b = Forgotten(a)
    OBVIOUS
  <1>4. /\ b \in Shape
        /\ ~b.allowed /\ b.clipboard = Nothing /\ b.epoch = a.epoch + 1 /\ b.quiet = a.quiet
        /\ b.deadline = [i \in Inputs |-> Nothing] /\ b.timer = Nothing
        /\ b.heldKeys[Agent] = {} /\ b.heldButtons[Agent] = {}
        /\ b.depressed = a.depressed /\ b.touched = a.touched
        /\ HumanKeys(b) = HumanKeys(a) /\ HumanButtons(b) = HumanButtons(a)
        /\ b.drag = a.drag
        /\ b.forwardedKeys = a.forwardedKeys /\ b.forwardedButtons = a.forwardedButtons
        /\ b.released = a.released
    BY <1>2, <1>3, ForgottenIs
  <1>5. PICK c : c = WithoutOrphans(b, TRUE)
    OBVIOUS
  <1>6. /\ c \in Shape /\ SamePermission(b, c) /\ SameTimes(b, c) /\ SameHolds(b, c) /\ SameDrag(b, c)
        /\ c.forwardedKeys = b.forwardedKeys \cap (KeyHeld(b) \cup Hinted(b))
        /\ c.forwardedButtons = b.forwardedButtons
        /\ c.released = b.released \cup (b.forwardedKeys \ c.forwardedKeys)
    BY <1>4, <1>5, WithoutOrphansIs
  <1>7. PICK to : to = c.forwardedButtons \cap ButtonHeld(c)
    OBVIOUS
  <1>8. to \in SUBSET Buttons
    BY <1>6, <1>7 DEF Shape
  <1>9. PICK t : t = ButtonsSent(c, to, Agent)
    OBVIOUS
  <1>10. /\ t \in Shape /\ SamePermission(c, t) /\ SameTimes(c, t) /\ SameHolds(c, t)
         /\ c.drag = "cancelled" => t.drag = "cancelled"
         /\ t.forwardedKeys = c.forwardedKeys /\ t.forwardedButtons = to
         /\ t.released = c.released \cup (c.forwardedButtons \ to)
    BY <1>6, <1>8, <1>9, ButtonsSentIs
  <1>11. t = Revoked(s)
    BY <1>1, <1>3, <1>5, <1>7, <1>9 DEF Revoked
  <1>12. ~t.allowed /\ t.clipboard = Nothing /\ t.epoch = s.epoch + 1 /\ t.quiet = s.quiet
    BY <1>2, <1>4, <1>6, <1>10 DEF SamePermission
  <1>13. t.deadline = [i \in Inputs |-> Nothing]
    BY <1>4, <1>6, <1>10 DEF SameTimes
  <1>14. KeyHeld(t) = KeyHeld(b) /\ ButtonHeld(t) = ButtonHeld(c) /\ Hinted(t) = Hinted(b)
    BY <1>6, <1>10, HoldsOfSame
  <1>15. HumanKeys(a) = HumanKeys(s) /\ HumanButtons(a) = HumanButtons(s)
    BY <1>2, HoldsOfSame
  <1>16. HumanKeys(t) = HumanKeys(s) /\ HumanButtons(t) = HumanButtons(s)
    BY <1>4, <1>6, <1>10, <1>15, HoldsOfSame
  <1>17. AgentHolds(t) = {} /\ t.depressed = s.depressed /\ t.touched = s.touched
    BY <1>2, <1>4, <1>6, <1>10 DEF SameHolds, AgentHolds
  <1>18. s.drag = "active" /\ s.grabVirtual => t.drag = "cancelled"
    BY <1>2, <1>4, <1>6, <1>10 DEF SameDrag
  <1>19. t.forwardedKeys = s.forwardedKeys \cap (KeyHeld(t) \cup Hinted(t))
    BY <1>2, <1>4, <1>6, <1>10, <1>14
  <1>20. t.forwardedButtons = s.forwardedButtons \cap ButtonHeld(t)
    BY <1>2, <1>4, <1>6, <1>7, <1>10, <1>14
  <1>21. t.released = s.released \cup (s.forwardedKeys \ t.forwardedKeys)
                                 \cup (s.forwardedButtons \ t.forwardedButtons)
    BY <1>2, <1>4, <1>6, <1>10
  <1> QED BY <1>10, <1>11, <1>12, <1>13, <1>16, <1>17, <1>18, <1>19, <1>20, <1>21

\* What a revocation, or none, on the way from s to t has kept for the human.
HumansKeep(s, t) ==
    /\ HumanKeys(t) = HumanKeys(s) /\ HumanButtons(t) = HumanButtons(s)
    /\ t.depressed = s.depressed /\ t.touched = s.touched

\* What a revocation on the way from s to t has taken from the agent.
AgentLoses(s, t) ==
    /\ AgentHolds(t) = {} /\ t.deadline = [i \in Inputs |-> Nothing]
    /\ ~t.allowed /\ t.clipboard = Nothing
    /\ t.epoch = s.epoch + 1
    /\ s.drag = "active" /\ s.grabVirtual => t.drag = "cancelled"
    /\ t.forwardedKeys = s.forwardedKeys \cap (KeyHeld(t) \cup Hinted(t))
    /\ t.forwardedButtons = s.forwardedButtons \cap ButtonHeld(t)

\* report_human_activity.
LEMMA ReportedIs ==
    ASSUME NEW s \in Shape
    PROVE  LET t == Reported(s)
           IN  /\ t \in Shape /\ ~t.quiet /\ HumansKeep(s, t)
               /\ Takeover(s) => /\ AgentLoses(s, t)
                                 /\ t.released = s.released \cup (s.forwardedKeys \ t.forwardedKeys)
                                                    \cup (s.forwardedButtons \ t.forwardedButtons)
               /\ ~Takeover(s) => /\ SameTimes(s, t) /\ SameHolds(s, t)
                                  /\ t.allowed = s.allowed /\ t.epoch = s.epoch
                                  /\ t.clipboard = s.clipboard
                                  /\ t.forwardedKeys = s.forwardedKeys
                                  /\ t.forwardedButtons = s.forwardedButtons
                                  /\ t.released = s.released
  <1>1. ASSUME NEW r \in Shape
        PROVE  LET t == [r EXCEPT !.quiet = FALSE]
               IN  /\ t \in Shape /\ ~t.quiet /\ SameTimes(r, t) /\ SameHolds(r, t)
                   /\ t.allowed = r.allowed /\ t.epoch = r.epoch
                   /\ t.clipboard = r.clipboard /\ t.drag = r.drag
                   /\ t.forwardedKeys = r.forwardedKeys
                   /\ t.forwardedButtons = r.forwardedButtons
                   /\ t.released = r.released
    BY DEF Shape, SameTimes, SameHolds
  <1>2. CASE Takeover(s)
    <2>1. PICK r : r = Revoked(s)
      OBVIOUS
    <2>2. /\ r \in Shape
          /\ ~r.allowed /\ r.clipboard = Nothing /\ r.epoch = s.epoch + 1
          /\ r.deadline = [i \in Inputs |-> Nothing]
          /\ AgentHolds(r) = {} /\ r.depressed = s.depressed /\ r.touched = s.touched
          /\ HumanKeys(r) = HumanKeys(s) /\ HumanButtons(r) = HumanButtons(s)
          /\ s.drag = "active" /\ s.grabVirtual => r.drag = "cancelled"
          /\ r.forwardedKeys = s.forwardedKeys \cap (KeyHeld(r) \cup Hinted(r))
          /\ r.forwardedButtons = s.forwardedButtons \cap ButtonHeld(r)
          /\ r.released = s.released \cup (s.forwardedKeys \ r.forwardedKeys)
                                     \cup (s.forwardedButtons \ r.forwardedButtons)
      BY <2>1, RevokedIs
    <2>3. PICK t : t = [r EXCEPT !.quiet = FALSE]
      OBVIOUS
    <2>4. t = Reported(s)
      BY <1>2, <2>1, <2>3 DEF Reported
    <2>5. /\ t \in Shape /\ ~t.quiet /\ SameTimes(r, t) /\ SameHolds(r, t)
          /\ t.allowed = r.allowed /\ t.epoch = r.epoch
          /\ t.clipboard = r.clipboard /\ t.drag = r.drag
          /\ t.forwardedKeys = r.forwardedKeys /\ t.forwardedButtons = r.forwardedButtons
          /\ t.released = r.released
      BY <1>1, <2>2, <2>3
    <2>6. /\ KeyHeld(t) = KeyHeld(r) /\ ButtonHeld(t) = ButtonHeld(r) /\ Hinted(t) = Hinted(r)
          /\ HumanKeys(t) = HumanKeys(r) /\ HumanButtons(t) = HumanButtons(r)
          /\ AgentHolds(t) = AgentHolds(r)
      BY <2>5, HoldsOfSame
    <2>7. HumansKeep(s, t)
      BY <2>2, <2>5, <2>6 DEF HumansKeep, SameHolds
    <2>8. AgentLoses(s, t)
      BY <2>2, <2>5, <2>6 DEF AgentLoses, SameTimes
    <2> QED BY <1>2, <2>2, <2>4, <2>5, <2>7, <2>8
  <1>3. CASE ~Takeover(s)
    <2>1. PICK t : t = [s EXCEPT !.quiet = FALSE]
      OBVIOUS
    <2>2. t = Reported(s)
      BY <1>3, <2>1 DEF Reported
    <2>3. /\ t \in Shape /\ ~t.quiet /\ SameTimes(s, t) /\ SameHolds(s, t)
          /\ t.allowed = s.allowed /\ t.epoch = s.epoch /\ t.clipboard = s.clipboard
          /\ t.forwardedKeys = s.forwardedKeys /\ t.forwardedButtons = s.forwardedButtons
          /\ t.released = s.released
      BY <1>1, <2>1
    <2>4. HumansKeep(s, t)
      BY <2>3, HoldsOfSame DEF HumansKeep, SameHolds
    <2> QED BY <1>3, <2>2, <2>3, <2>4
  <1> QED BY <1>2, <1>3

LEMMA ScheduledIs ==
    ASSUME NEW s \in Shape
    PROVE  LET t == Scheduled(s)
           IN  /\ t \in Shape
               /\ SamePermission(s, t) /\ SameHolds(s, t) /\ SameDrag(s, t)
               /\ t.deadline = s.deadline
               /\ \A i \in Inputs : s.deadline[i] # Nothing =>
                      t.timer # Nothing /\ t.timer <= s.deadline[i]
               /\ t.forwardedKeys = s.forwardedKeys /\ t.forwardedButtons = s.forwardedButtons
               /\ t.released = s.released
  <1> DEFINE due == {s.deadline[i] : i \in Inputs} \ {Nothing}
             at == IF due = {} THEN Nothing ELSE Min(due)
  <1>1. due \in SUBSET Nat
    BY DEF Shape, Time
  <1>2. at \in Time /\ \A n \in due : at # Nothing /\ at <= n
    BY <1>1, Least, Times DEF Time
  <1>3. \A i \in Inputs : s.deadline[i] # Nothing => s.deadline[i] \in due
    OBVIOUS
  <1>4. Scheduled(s) = [s EXCEPT !.timer = at]
    BY DEF Scheduled
  <1> HIDE DEF due, at
  <1>5. PICK t : t = [s EXCEPT !.timer = at]
    OBVIOUS
  <1>6. t \in Shape /\ t.timer = at
    BY <1>2, <1>5 DEF Shape
  <1>7. /\ SamePermission(s, t) /\ SameHolds(s, t) /\ SameDrag(s, t) /\ t.deadline = s.deadline
        /\ t.forwardedKeys = s.forwardedKeys /\ t.forwardedButtons = s.forwardedButtons
        /\ t.released = s.released
    BY <1>5 DEF Shape, SamePermission, SameHolds, SameDrag
  <1> QED BY <1>2, <1>3, <1>4, <1>5, <1>6, <1>7

LEMMA TimedIs ==
    ASSUME NEW s \in Shape, NEW i \in Inputs, NEW down \in BOOLEAN
    PROVE  LET t == Timed(s, i, down)
           IN  /\ t \in Shape
               /\ SamePermission(s, t) /\ SameHolds(s, t) /\ SameDrag(s, t)
               /\ t.deadline[i] = IF ~down THEN Nothing
                                  ELSE IF s.deadline[i] = Nothing THEN s.hold ELSE s.deadline[i]
               /\ \A j \in Inputs : j # i => t.deadline[j] = s.deadline[j]
               /\ \A j \in Inputs : t.deadline[j] # Nothing =>
                      t.timer # Nothing /\ t.timer <= t.deadline[j]
               /\ t.forwardedKeys = s.forwardedKeys /\ t.forwardedButtons = s.forwardedButtons
               /\ t.released = s.released
  <1> DEFINE at == IF ~down THEN Nothing ELSE IF s.deadline[i] = Nothing THEN s.hold ELSE s.deadline[i]
             r == [s EXCEPT !.deadline[i] = at]
  <1>1. at \in Time
    BY Times DEF Shape, Time
  <1>2. Timed(s, i, down) = Scheduled(r)
    BY DEF Timed
  <1> HIDE DEF at
  <1>3. r \in Shape
    BY <1>1 DEF Shape
  <1>4. r.deadline[i] = at /\ \A j \in Inputs : j # i => r.deadline[j] = s.deadline[j]
    BY DEF Shape
  <1>5. /\ SamePermission(s, r) /\ SameHolds(s, r) /\ SameDrag(s, r)
        /\ r.forwardedKeys = s.forwardedKeys /\ r.forwardedButtons = s.forwardedButtons
        /\ r.released = s.released
    BY DEF Shape, SamePermission, SameHolds, SameDrag
  <1> HIDE DEF r
  <1>6. PICK t : t = Scheduled(r)
    OBVIOUS
  <1>7. /\ t \in Shape
        /\ SamePermission(r, t) /\ SameHolds(r, t) /\ SameDrag(r, t) /\ t.deadline = r.deadline
        /\ \A j \in Inputs : r.deadline[j] # Nothing => t.timer # Nothing /\ t.timer <= r.deadline[j]
        /\ t.forwardedKeys = r.forwardedKeys /\ t.forwardedButtons = r.forwardedButtons
        /\ t.released = r.released
    BY <1>3, <1>6, ScheduledIs
  <1>8. SamePermission(s, t) /\ SameHolds(s, t) /\ SameDrag(s, t)
    BY <1>5, <1>7 DEF SamePermission, SameHolds, SameDrag
  <1> QED BY <1>2, <1>4, <1>5, <1>6, <1>7, <1>8 DEF at

LEMMA ToggledIs ==
    ASSUME NEW S, NEW set \in SUBSET S, NEW i \in S, NEW down \in BOOLEAN
    PROVE  /\ Toggled(set, i, down) \in SUBSET S
           /\ i \in Toggled(set, i, down) <=> down
           /\ \A j : j # i => (j \in Toggled(set, i, down) <=> j \in set)
  BY DEF Toggled

LEMMA KeyHoldingIs ==
    ASSUME NEW s \in Shape, NEW d \in Keyboards \cup {Agent}, NEW k \in Keys, NEW down \in BOOLEAN
    PROVE  LET t == KeyHolding(s, d, k, down)
           IN  /\ t \in Shape
               /\ SamePermission(s, t) /\ SameTimes(s, t) /\ SameDrag(s, t)
               /\ t.heldKeys[d] = Toggled(s.heldKeys[d], k, down)
               /\ \A e \in Keyboards \cup {Agent} : e # d => t.heldKeys[e] = s.heldKeys[e]
               /\ t.depressed = s.depressed /\ t.heldButtons = s.heldButtons /\ t.touched = s.touched
               /\ t.forwardedKeys = s.forwardedKeys /\ t.forwardedButtons = s.forwardedButtons
               /\ t.released = s.released
  <1> DEFINE held == Toggled(s.heldKeys[d], k, down)
             all == [s.heldKeys EXCEPT ![d] = held]
  <1>1. held \in SUBSET Keys
    BY ToggledIs DEF Shape
  <1> HIDE DEF held
  <1>2. /\ all \in [Keyboards \cup {Agent} -> SUBSET Keys] /\ all[d] = held
        /\ \A e \in Keyboards \cup {Agent} : e # d => all[e] = s.heldKeys[e]
    BY <1>1 DEF Shape
  <1> HIDE DEF all
  <1>3. PICK t : t = [s EXCEPT !.heldKeys = all]
    OBVIOUS
  <1>4. t = KeyHolding(s, d, k, down)
    BY <1>3 DEF KeyHolding, all, held
  <1>5. t \in Shape /\ t.heldKeys = all
    BY <1>2, <1>3 DEF Shape
  <1>6. /\ SamePermission(s, t) /\ SameTimes(s, t) /\ SameDrag(s, t)
        /\ t.depressed = s.depressed /\ t.heldButtons = s.heldButtons /\ t.touched = s.touched
        /\ t.forwardedKeys = s.forwardedKeys /\ t.forwardedButtons = s.forwardedButtons
        /\ t.released = s.released
    BY <1>3 DEF Shape, SamePermission, SameTimes, SameDrag
  <1> QED BY <1>2, <1>4, <1>5, <1>6 DEF held

LEMMA ButtonHoldingIs ==
    ASSUME NEW s \in Shape, NEW d \in Mice \cup {Agent}, NEW b \in Buttons, NEW down \in BOOLEAN
    PROVE  LET t == ButtonHolding(s, d, b, down)
           IN  /\ t \in Shape
               /\ SamePermission(s, t) /\ SameTimes(s, t) /\ SameDrag(s, t)
               /\ t.heldButtons[d] = Toggled(s.heldButtons[d], b, down)
               /\ \A e \in Mice \cup {Agent} : e # d => t.heldButtons[e] = s.heldButtons[e]
               /\ t.depressed = s.depressed /\ t.heldKeys = s.heldKeys /\ t.touched = s.touched
               /\ t.forwardedKeys = s.forwardedKeys /\ t.forwardedButtons = s.forwardedButtons
               /\ t.released = s.released
  <1> DEFINE held == Toggled(s.heldButtons[d], b, down)
             all == [s.heldButtons EXCEPT ![d] = held]
  <1>1. held \in SUBSET Buttons
    BY ToggledIs DEF Shape
  <1> HIDE DEF held
  <1>2. /\ all \in [Mice \cup {Agent} -> SUBSET Buttons] /\ all[d] = held
        /\ \A e \in Mice \cup {Agent} : e # d => all[e] = s.heldButtons[e]
    BY <1>1 DEF Shape
  <1> HIDE DEF all
  <1>3. PICK t : t = [s EXCEPT !.heldButtons = all]
    OBVIOUS
  <1>4. t = ButtonHolding(s, d, b, down)
    BY <1>3 DEF ButtonHolding, all, held
  <1>5. t \in Shape /\ t.heldButtons = all
    BY <1>2, <1>3 DEF Shape
  <1>6. /\ SamePermission(s, t) /\ SameTimes(s, t) /\ SameDrag(s, t)
        /\ t.depressed = s.depressed /\ t.heldKeys = s.heldKeys /\ t.touched = s.touched
        /\ t.forwardedKeys = s.forwardedKeys /\ t.forwardedButtons = s.forwardedButtons
        /\ t.released = s.released
    BY <1>3 DEF Shape, SamePermission, SameTimes, SameDrag
  <1> QED BY <1>2, <1>4, <1>5, <1>6 DEF held

LEMMA KeyForwardedIs ==
    ASSUME NEW s \in Shape, NEW k \in Keys, NEW handled \in BOOLEAN
    PROVE  LET t == KeyForwarded(s, k, handled)
           IN  /\ t \in Shape
               /\ SamePermission(s, t) /\ SameTimes(s, t) /\ SameHolds(s, t) /\ SameDrag(s, t)
               /\ handled => t.forwardedKeys = s.forwardedKeys
               /\ ~handled => t.forwardedKeys = Toggled(s.forwardedKeys, k, k \in KeyHeld(s))
               /\ t.forwardedButtons = s.forwardedButtons
               /\ t.released = s.released \cup (s.forwardedKeys \ t.forwardedKeys)
  <1>1. CASE handled
    <2>1. KeyForwarded(s, k, handled) = s
      BY <1>1 DEF KeyForwarded
    <2> QED BY <1>1, <2>1 DEF SamePermission, SameTimes, SameHolds, SameDrag
  <1>2. CASE ~handled
    <2>1. PICK to : to = Toggled(s.forwardedKeys, k, k \in KeyHeld(s))
      OBVIOUS
    <2>2. to \in SUBSET Keys
      BY <2>1 DEF Shape, Toggled
    <2>3. KeyForwarded(s, k, handled) = KeysSent(s, to)
      BY <1>2, <2>1 DEF KeyForwarded
    <2> QED BY <1>2, <2>1, <2>2, <2>3, KeysSentIs
  <1> QED BY <1>1, <1>2

LEMMA ButtonForwardedIs ==
    ASSUME NEW s \in Shape, NEW d \in Mice \cup {Agent}, NEW b \in Buttons
    PROVE  LET t == ButtonForwarded(s, d, b)
           IN  /\ t \in Shape
               /\ SamePermission(s, t) /\ SameTimes(s, t) /\ SameHolds(s, t)
               /\ s.drag = "cancelled" => t.drag = "cancelled"
               /\ d = Agent /\ s.forwardedButtons = {} /\ t.forwardedButtons # {} => t.grabVirtual
               /\ s.grabVirtual /\ s.forwardedButtons # {} /\ t.forwardedButtons # {} => t.grabVirtual
               /\ t.forwardedKeys = s.forwardedKeys
               /\ t.forwardedButtons = Toggled(s.forwardedButtons, b, b \in ButtonHeld(s))
               /\ t.released = s.released \cup (s.forwardedButtons \ t.forwardedButtons)
  <1> DEFINE down == b \in ButtonHeld(s)
             to == Toggled(s.forwardedButtons, b, down)
  <1>1. to \in SUBSET Buttons
    BY DEF Shape, Toggled
  <1>2. CASE (b \in s.forwardedButtons) = down
    <2>1. ButtonForwarded(s, d, b) = s
      BY <1>2 DEF ButtonForwarded
    <2>2. to = s.forwardedButtons
      BY <1>2 DEF Toggled
    <2> QED BY <2>1, <2>2 DEF SamePermission, SameTimes, SameHolds
  <1>3. CASE (b \in s.forwardedButtons) # down
    <2> HIDE DEF to
    <2>1. PICK r : r = ButtonsSent(s, to, d)
      OBVIOUS
    <2>2. /\ r \in Shape /\ SamePermission(s, r) /\ SameTimes(s, r) /\ SameHolds(s, r)
          /\ r.grabVirtual = s.grabVirtual
          /\ s.drag = "cancelled" => r.drag = "cancelled"
          /\ r.forwardedKeys = s.forwardedKeys /\ r.forwardedButtons = to
          /\ r.released = s.released \cup (s.forwardedButtons \ to)
      BY <1>1, <2>1, ButtonsSentIs
    <2> DEFINE virtual == CASE r.forwardedButtons = {} -> FALSE
                            [] s.forwardedButtons = {} -> d = Agent
                            [] OTHER -> r.grabVirtual
    <2>3. /\ virtual \in BOOLEAN
          /\ r.forwardedButtons # {} /\ s.forwardedButtons = {} /\ d = Agent => virtual
          /\ r.forwardedButtons # {} /\ s.forwardedButtons # {} /\ r.grabVirtual => virtual
      <3>1. r.grabVirtual \in BOOLEAN
        BY <2>2 DEF Shape
      <3>2. CASE r.forwardedButtons = {}
        BY <3>2
      <3>3. CASE r.forwardedButtons # {} /\ s.forwardedButtons = {}
        BY <3>3
      <3>4. CASE r.forwardedButtons # {} /\ s.forwardedButtons # {}
        BY <3>1, <3>4
      <3> QED BY <3>2, <3>3, <3>4
    <2>4. PICK t : t = [r EXCEPT !.grabVirtual = virtual]
      OBVIOUS
    <2>5. t = ButtonForwarded(s, d, b)
      BY <1>3, <2>1, <2>4 DEF ButtonForwarded, to
    <2> HIDE DEF virtual
    <2>6. t \in Shape
      BY <2>2, <2>3, <2>4 DEF Shape
    <2>7. t.grabVirtual <=> virtual
      BY <2>2, <2>4 DEF Shape
    <2>8. /\ SamePermission(r, t) /\ SameTimes(r, t) /\ SameHolds(r, t) /\ t.drag = r.drag
          /\ t.forwardedKeys = r.forwardedKeys /\ t.forwardedButtons = r.forwardedButtons
          /\ t.released = r.released
      BY <2>2, <2>4 DEF Shape, SamePermission, SameTimes, SameHolds
    <2>9. SamePermission(s, t) /\ SameTimes(s, t) /\ SameHolds(s, t)
      BY <2>2, <2>8 DEF SamePermission, SameTimes, SameHolds
    <2>10. /\ d = Agent /\ s.forwardedButtons = {} /\ t.forwardedButtons # {} => t.grabVirtual
           /\ s.grabVirtual /\ s.forwardedButtons # {} /\ t.forwardedButtons # {} => t.grabVirtual
      BY <2>2, <2>3, <2>7, <2>8
    <2> QED BY <2>2, <2>5, <2>6, <2>8, <2>9, <2>10 DEF to
  <1> QED BY <1>2, <1>3

----------------------------------------------------------------------------
(* What the application was told, while a handler is under way: right but  *)
(* for the keys K and the buttons B that it has yet to look at, and but    *)
(* for the buttons o of a mouse that was unplugged.                        *)

KeysTrue(s, K) == s.forwardedKeys \subseteq KeyHeld(s) \cup Hinted(s) \cup K
KeysTold(s, K) == KeyHeld(s) \ s.forwardedKeys \subseteq Bindings \cup K
ButtonsTrue(s, o, B) == s.forwardedButtons \subseteq ButtonHeld(s) \cup o \cup B
ButtonsTold(s, B) == ButtonHeld(s) \ s.forwardedButtons \subseteq B
Apart(s) == s.released \cap (KeyHeld(s) \cup ButtonHeld(s)) = {}

\* The agent has nothing.
Idle(t) ==
    /\ ~t.allowed /\ AgentHolds(t) = {} /\ t.clipboard = Nothing
    /\ \A i \in Inputs : t.deadline[i] = Nothing

\* On the way from s to t the agent was revoked at most once, and then its drag
\* was cancelled.
Cancels(s, t) ==
    /\ t.epoch \in {s.epoch, s.epoch + 1}
    /\ t.epoch # s.epoch /\ s.drag = "active" /\ s.grabVirtual => t.drag = "cancelled"

\* The buttons without a holder that are left after it.
Orphans(s, t, o) == IF t.epoch = s.epoch THEN o ELSE {}

LEMMA AccountsOfSame ==
    ASSUME NEW s, NEW t, SameHolds(s, t), t.forwardedKeys = s.forwardedKeys,
           t.forwardedButtons = s.forwardedButtons, t.released = s.released
    PROVE  /\ \A K : KeysTrue(s, K) => KeysTrue(t, K)
           /\ \A K : KeysTold(s, K) => KeysTold(t, K)
           /\ \A o, B : ButtonsTrue(s, o, B) => ButtonsTrue(t, o, B)
           /\ \A B : ButtonsTold(s, B) => ButtonsTold(t, B)
           /\ Apart(s) => Apart(t)
  BY HoldsOfSame DEF KeysTrue, KeysTold, ButtonsTrue, ButtonsTold, Apart

\* A revocation leaves the accounts in order.
LEMMA LossKeeps ==
    ASSUME NEW s \in Shape, NEW t \in Shape, HumansKeep(s, t), AgentLoses(s, t),
           t.released = s.released \cup (s.forwardedKeys \ t.forwardedKeys)
                                   \cup (s.forwardedButtons \ t.forwardedButtons),
           NEW K, NEW B, KeysTold(s, K), ButtonsTold(s, B), Apart(s)
    PROVE  /\ KeysTrue(t, {}) /\ KeysTold(t, K)
           /\ ButtonsTrue(t, {}, {}) /\ ButtonsTold(t, B) /\ Apart(t) /\ Idle(t)
  <1>1. /\ KeyHeld(t) = HumanKeys(t) \cup t.heldKeys[Agent]
        /\ ButtonHeld(t) = HumanButtons(t) \cup t.heldButtons[Agent]
        /\ KeyHeld(t) \subseteq Keys /\ ButtonHeld(t) \subseteq Buttons
        /\ KeyHeld(s) = HumanKeys(s) \cup s.heldKeys[Agent]
        /\ ButtonHeld(s) = HumanButtons(s) \cup s.heldButtons[Agent]
    BY HoldsTyped
  <1>2. /\ KeyHeld(t) \subseteq KeyHeld(s) /\ ButtonHeld(t) \subseteq ButtonHeld(s)
    BY <1>1 DEF HumansKeep, AgentLoses, AgentHolds
  <1>3. /\ t.forwardedKeys = s.forwardedKeys \cap (KeyHeld(t) \cup Hinted(t))
        /\ t.forwardedButtons = s.forwardedButtons \cap ButtonHeld(t)
    BY DEF AgentLoses
  <1>4. KeysTrue(t, {}) /\ ButtonsTrue(t, {}, {})
    BY <1>3 DEF KeysTrue, ButtonsTrue
  <1>5. KeysTold(t, K) /\ ButtonsTold(t, B)
    BY <1>2, <1>3 DEF KeysTold, ButtonsTold
  <1>6. s.forwardedKeys \subseteq Keys /\ s.forwardedButtons \subseteq Buttons /\ Keys \cap Buttons = {}
    BY Times DEF Shape
  <1>7. Apart(t)
    BY <1>1, <1>2, <1>3, <1>6 DEF Apart
  <1>8. Idle(t)
    BY DEF AgentLoses, Idle
  <1> QED BY <1>4, <1>5, <1>7, <1>8

\* ... and so does a report of human activity, after which the agent has nothing.
LEMMA ReportedKeeps ==
    ASSUME NEW s \in Shape, NEW K, NEW B, NEW o,
           KeysTold(s, K), ButtonsTrue(s, o, B), ButtonsTold(s, B), Apart(s),
           s.allowed \/ AgentHolds(s) # {} => s.quiet,
           s.clipboard # Nothing => s.allowed,
           AgentHolds(s) = {} => \A i \in Inputs : s.deadline[i] = Nothing
    PROVE  LET t == Reported(s)
           IN  /\ t \in Shape /\ HumansKeep(s, t) /\ Idle(t) /\ Cancels(s, t)
               /\ KeysTold(t, K) /\ (KeysTrue(s, K) => KeysTrue(t, K))
               /\ ButtonsTrue(t, Orphans(s, t, o), B) /\ ButtonsTold(t, B) /\ Apart(t)
  <1>1. PICK t : t = Reported(s)
    OBVIOUS
  <1>2. /\ t \in Shape /\ HumansKeep(s, t)
        /\ Takeover(s) => /\ AgentLoses(s, t)
                          /\ t.released = s.released \cup (s.forwardedKeys \ t.forwardedKeys)
                                                     \cup (s.forwardedButtons \ t.forwardedButtons)
        /\ ~Takeover(s) => /\ SameTimes(s, t) /\ SameHolds(s, t)
                           /\ t.allowed = s.allowed /\ t.epoch = s.epoch
                           /\ t.clipboard = s.clipboard
                           /\ t.forwardedKeys = s.forwardedKeys
                           /\ t.forwardedButtons = s.forwardedButtons
                           /\ t.released = s.released
    BY <1>1, ReportedIs
  <1>3. s.epoch \in Nat
    BY DEF Shape
  <1>4. CASE Takeover(s)
    <2>1. /\ KeysTrue(t, {}) /\ KeysTold(t, K)
          /\ ButtonsTrue(t, {}, {}) /\ ButtonsTold(t, B) /\ Apart(t) /\ Idle(t)
      BY <1>2, <1>4, LossKeeps
    <2>2. KeysTrue(t, K) /\ ButtonsTrue(t, Orphans(s, t, o), B)
      BY <2>1 DEF KeysTrue, ButtonsTrue
    <2>3. Cancels(s, t)
      BY <1>2, <1>4 DEF AgentLoses, Cancels
    <2> QED BY <1>1, <1>2, <2>1, <2>2, <2>3
  <1>5. CASE ~Takeover(s)
    <2>1. ~s.allowed /\ AgentHolds(s) = {} /\ s.clipboard = Nothing
      BY <1>5 DEF Takeover
    <2>2. AgentHolds(t) = AgentHolds(s)
      BY <1>2, <1>5, HoldsOfSame
    <2>3. Idle(t)
      BY <1>2, <1>5, <2>1, <2>2 DEF Idle, SameTimes
    <2>4. Cancels(s, t) /\ Orphans(s, t, o) = o
      BY <1>2, <1>5 DEF Cancels, Orphans
    <2>5. /\ KeysTold(t, K) /\ (KeysTrue(s, K) => KeysTrue(t, K))
          /\ ButtonsTrue(t, o, B) /\ ButtonsTold(t, B) /\ Apart(t)
      BY <1>2, <1>5, AccountsOfSame
    <2> QED BY <1>1, <1>2, <2>3, <2>4, <2>5
  <1> QED BY <1>4, <1>5

\* release_orphaned_keys puts what is forwarded right.
LEMMA WithoutOrphansKeeps ==
    ASSUME NEW s \in Shape, NEW hints \in BOOLEAN, NEW K, KeysTold(s, K), Apart(s)
    PROVE  LET t == WithoutOrphans(s, hints)
           IN  KeysTrue(t, {}) /\ KeysTold(t, K) /\ Apart(t)
  <1>1. PICK t : t = WithoutOrphans(s, hints)
    OBVIOUS
  <1>2. /\ SameHolds(s, t)
        /\ t.forwardedKeys = s.forwardedKeys \cap (KeyHeld(s) \cup (IF hints THEN Hinted(s) ELSE {}))
        /\ t.released = s.released \cup (s.forwardedKeys \ t.forwardedKeys)
    BY <1>1, WithoutOrphansIs
  <1>3. KeyHeld(t) = KeyHeld(s) /\ ButtonHeld(t) = ButtonHeld(s) /\ Hinted(t) = Hinted(s)
    BY <1>2, HoldsOfSame
  <1>4. s.forwardedKeys \subseteq Keys /\ ButtonHeld(s) \subseteq Buttons /\ Keys \cap Buttons = {}
    BY Times, HoldsTyped DEF Shape
  <1>5. KeysTrue(t, {}) /\ KeysTold(t, K)
    BY <1>2, <1>3 DEF KeysTrue, KeysTold
  <1>6. Apart(t)
    BY <1>2, <1>3, <1>4 DEF Apart
  <1> QED BY <1>1, <1>5, <1>6

\* After handle_key_event the accounts are in order again.
LEMMA KeyForwardedKeeps ==
    ASSUME NEW s \in Shape, NEW k \in Keys, NEW handled \in BOOLEAN,
           handled => k \in Bindings /\ k \in KeyHeld(s),
           KeysTrue(s, {k}), KeysTold(s, {k}), Apart(s)
    PROVE  LET t == KeyForwarded(s, k, handled)
           IN  KeysTrue(t, {}) /\ KeysTold(t, {}) /\ Apart(t)
  <1>1. PICK t : t = KeyForwarded(s, k, handled)
    OBVIOUS
  <1>2. /\ SameHolds(s, t)
        /\ handled => t.forwardedKeys = s.forwardedKeys
        /\ ~handled => t.forwardedKeys = Toggled(s.forwardedKeys, k, k \in KeyHeld(s))
        /\ t.released = s.released \cup (s.forwardedKeys \ t.forwardedKeys)
    BY <1>1, KeyForwardedIs
  <1>3. KeyHeld(t) = KeyHeld(s) /\ ButtonHeld(t) = ButtonHeld(s) /\ Hinted(t) = Hinted(s)
    BY <1>2, HoldsOfSame
  <1>4. s.forwardedKeys \subseteq Keys /\ ButtonHeld(s) \subseteq Buttons /\ Keys \cap Buttons = {}
    BY Times, HoldsTyped DEF Shape
  <1>5. KeysTrue(t, {}) /\ KeysTold(t, {})
    BY <1>2, <1>3 DEF KeysTrue, KeysTold, Toggled
  <1>6. \A x \in s.forwardedKeys \ t.forwardedKeys : x \notin KeyHeld(s) /\ x \notin ButtonHeld(s)
    BY <1>2, <1>4 DEF Toggled
  <1>7. Apart(t)
    BY <1>2, <1>3, <1>6 DEF Apart
  <1> QED BY <1>1, <1>5, <1>7

\* The same after handle_cursor_button.
LEMMA ButtonForwardedKeeps ==
    ASSUME NEW s \in Shape, NEW d \in Mice \cup {Agent}, NEW b \in Buttons, NEW o,
           ButtonsTrue(s, o, {b}), ButtonsTold(s, {b}), Apart(s)
    PROVE  LET t == ButtonForwarded(s, d, b)
           IN  ButtonsTrue(t, o, {}) /\ ButtonsTold(t, {}) /\ Apart(t)
  <1>1. PICK t : t = ButtonForwarded(s, d, b)
    OBVIOUS
  <1>2. /\ SameHolds(s, t)
        /\ t.forwardedButtons = Toggled(s.forwardedButtons, b, b \in ButtonHeld(s))
        /\ t.released = s.released \cup (s.forwardedButtons \ t.forwardedButtons)
    BY <1>1, ButtonForwardedIs
  <1>3. KeyHeld(t) = KeyHeld(s) /\ ButtonHeld(t) = ButtonHeld(s)
    BY <1>2, HoldsOfSame
  <1>4. KeyHeld(s) \subseteq Keys /\ s.forwardedButtons \subseteq Buttons /\ Keys \cap Buttons = {}
    BY Times, HoldsTyped DEF Shape
  <1>5. ButtonsTrue(t, o, {}) /\ ButtonsTold(t, {})
    BY <1>2, <1>3 DEF ButtonsTrue, ButtonsTold, Toggled
  <1>6. \A x \in s.forwardedButtons \ t.forwardedButtons : x \notin KeyHeld(s) /\ x \notin ButtonHeld(s)
    BY <1>2, <1>4 DEF Toggled
  <1>7. Apart(t)
    BY <1>2, <1>3, <1>6 DEF Apart
  <1> QED BY <1>1, <1>5, <1>7

----------------------------------------------------------------------------
(* Whole steps.                                                            *)

\* What a step must have done for the properties of steps.
StepOK ==
    seat'.epoch # seat.epoch =>
        /\ AgentHolds(seat') = {} /\ orphans' = {}
        /\ seat.drag = "active" /\ seat.grabVirtual => seat'.drag = "cancelled"

LEMMA SeatIsShape == ASSUME NEW s \in Seat PROVE s \in Shape /\ s.epoch \in 1..MaxEpoch
  <1>1. 1..MaxEpoch \subseteq Nat
    BY Times
  <1> QED BY <1>1 DEF Seat, Shape, Grabs

LEMMA ShapeIsSeat ==
    ASSUME NEW s \in Shape, s.epoch \in 1..MaxEpoch, s.clipboard # Nothing => s.clipboard = s.epoch
    PROVE  s \in Seat
  <1>1. s.clipboard \in 1..MaxEpoch \cup {Nothing}
    BY DEF Shape
  <1> QED BY <1>1 DEF Seat, Shape, Grabs

\* What a handler starts from.
LEMMA FoundIs ==
    ASSUME IInv
    PROVE  /\ Found \in Shape
           /\ SamePermission(seat, Found) /\ SameTimes(seat, Found) /\ SameHolds(seat, Found)
           /\ SameDrag(seat, Found) /\ AgentHolds(Found) = AgentHolds(seat)
           /\ Found.forwardedKeys = seat.forwardedKeys
           /\ Found.forwardedButtons = seat.forwardedButtons
           /\ Found.released = {} /\ Found.epoch \in Nat
           /\ KeysTrue(Found, {}) /\ KeysTold(Found, {})
           /\ ButtonsTrue(Found, orphans, {}) /\ ButtonsTold(Found, {}) /\ Apart(Found)
           /\ Found.allowed \/ AgentHolds(Found) # {} => Found.quiet /\ ~HumanHeld(Found)
           /\ Found.clipboard # Nothing => Found.allowed /\ Found.clipboard = Found.epoch
           /\ \A i \in Inputs : Found.deadline[i] # Nothing <=> i \in AgentHolds(Found)
  <1>1. seat \in Shape
    BY SeatIsShape DEF IInv, TypeOK
  <1>2. PICK f : f = Found
    OBVIOUS
  <1>3. f = [seat EXCEPT !.released = {}]
    BY <1>2 DEF Found
  <1>4. /\ f \in Shape /\ SamePermission(seat, f) /\ SameTimes(seat, f) /\ SameHolds(seat, f)
        /\ SameDrag(seat, f) /\ f.forwardedKeys = seat.forwardedKeys
        /\ f.forwardedButtons = seat.forwardedButtons /\ f.released = {}
    BY <1>1, <1>3 DEF Shape, SamePermission, SameTimes, SameHolds, SameDrag
  <1>5. /\ KeyHeld(f) = KeyHeld(seat) /\ ButtonHeld(f) = ButtonHeld(seat) /\ Hinted(f) = Hinted(seat)
        /\ AgentHolds(f) = AgentHolds(seat) /\ (HumanHeld(f) <=> HumanHeld(seat))
    BY <1>4, HoldsOfSame
  <1>6. KeysTrue(f, {}) /\ KeysTold(f, {}) /\ ButtonsTrue(f, orphans, {}) /\ ButtonsTold(f, {}) /\ Apart(f)
    BY <1>4, <1>5 DEF KeysTrue, KeysTold, ButtonsTrue, ButtonsTold, Apart,
                      IInv, HeldInv, KeysAreAccounted, ButtonsAreAccounted
  <1>7. /\ f.allowed \/ AgentHolds(f) # {} => f.quiet /\ ~HumanHeld(f)
        /\ f.clipboard # Nothing => f.allowed /\ f.clipboard = f.epoch
    BY <1>4, <1>5 DEF IInv, HumanInv, ClipboardIsGated, SamePermission
  <1>8. \A i \in Inputs : f.deadline[i] # Nothing <=> i \in AgentHolds(f)
    BY <1>4, <1>5 DEF IInv, HoldInv, SameTimes
  <1>9. f.epoch \in Nat
    BY <1>4 DEF Shape
  <1> QED BY <1>2, <1>4, <1>5, <1>6, <1>7, <1>8, <1>9

\* The types after a step, and what the ghosts are.
LEMMA BecomesTyped ==
    ASSUME TypeOK, NEW t \in Shape, Becomes(t), t.epoch \in {seat.epoch, seat.epoch + 1},
           t.clipboard # Nothing => t.clipboard = t.epoch
    PROVE  /\ TypeOK' /\ seat' = t /\ orphans' = Orphans(seat, t, orphans)
           /\ \A i \in Inputs : age'[i] = IF i \notin AgentHolds(t) THEN Nothing
                                          ELSE IF age[i] = Nothing THEN 0 ELSE age[i]
  <1>1. /\ t.epoch <= MaxEpoch /\ seat' = t
        /\ age' = [i \in Inputs |-> IF i \notin AgentHolds(t) THEN Nothing
                                    ELSE IF age[i] = Nothing THEN 0 ELSE age[i]]
        /\ orphans' = Orphans(seat, t, orphans)
    BY DEF Becomes, Orphans
  <1>2. t.epoch \in 1..MaxEpoch
    BY <1>1, SeatIsShape, Times DEF TypeOK
  <1>3. seat' \in Seat
    BY <1>1, <1>2, ShapeIsSeat
  <1>4. age' \in [Inputs -> Time]
    BY <1>1 DEF TypeOK, Time
  <1>5. orphans' \subseteq Buttons
    BY <1>1 DEF TypeOK, Orphans
  <1> QED BY <1>1, <1>3, <1>4, <1>5 DEF TypeOK

\* A step after which the agent has nothing.
LEMMA IdleStep ==
    ASSUME IInv, NEW t \in Shape, Becomes(t), Idle(t), Cancels(seat, t),
           KeysTrue(t, {}), KeysTold(t, {}), ButtonsTrue(t, Orphans(seat, t, orphans), {}),
           ButtonsTold(t, {}), Apart(t)
    PROVE  IInv' /\ StepOK
  <1>1. /\ TypeOK' /\ seat' = t /\ orphans' = Orphans(seat, t, orphans)
        /\ \A i \in Inputs : age'[i] = IF i \notin AgentHolds(t) THEN Nothing
                                       ELSE IF age[i] = Nothing THEN 0 ELSE age[i]
    BY BecomesTyped DEF IInv, Cancels, Idle
  <1>2. HoldInv'
    BY <1>1 DEF HoldInv, Idle
  <1>3. HeldInv'
    BY <1>1 DEF HeldInv, KeysAreAccounted, ButtonsAreAccounted, KeysTrue, KeysTold, ButtonsTrue, ButtonsTold
  <1>4. HumanInv' /\ ReleasedInv' /\ ClipboardIsGated'
    BY <1>1 DEF HumanInv, ReleasedInv, ClipboardIsGated, Idle, Apart
  <1>5. GrabInv'
    BY <1>1 DEF GrabInv, Idle, AgentHolds
  <1>6. StepOK
    BY <1>1 DEF StepOK, Idle, Cancels, Orphans
  <1> QED BY <1>1, <1>2, <1>3, <1>4, <1>5, <1>6 DEF IInv

\* Cancellation seen from the start of the handler.
LEMMA CancelsFrom ==
    ASSUME NEW s \in Shape, NEW f, NEW t, NEW u, SamePermission(s, f), SameDrag(s, f),
           Cancels(f, t), u.epoch = t.epoch, t.drag = "cancelled" => u.drag = "cancelled"
    PROVE  Cancels(s, u) /\ \A o : Orphans(s, u, o) = Orphans(f, t, o)
  BY DEF Cancels, Orphans, SamePermission, SameDrag

LEMMA Handled ==
    ASSUME NEW down \in BOOLEAN, NEW k \in Keys, NEW handled \in {FALSE, down /\ k \in Bindings}
    PROVE  handled \in BOOLEAN /\ (handled => down /\ k \in Bindings)
  OBVIOUS

LEMMA RevokeKeeps ==
    ASSUME IInv, Becomes(Revoked(Found))
    PROVE  IInv' /\ StepOK
  <1>1. PICK f : f = Found
    OBVIOUS
  <1>2. /\ f \in Shape /\ SamePermission(seat, f) /\ SameDrag(seat, f)
        /\ KeysTold(f, {}) /\ ButtonsTold(f, {}) /\ Apart(f)
    BY <1>1, FoundIs
  <1>3. PICK t : t = Revoked(f)
    OBVIOUS
  <1>4. /\ t \in Shape
        /\ ~t.allowed /\ t.clipboard = Nothing /\ t.epoch = f.epoch + 1
        /\ t.deadline = [i \in Inputs |-> Nothing]
        /\ AgentHolds(t) = {} /\ t.depressed = f.depressed /\ t.touched = f.touched
        /\ HumanKeys(t) = HumanKeys(f) /\ HumanButtons(t) = HumanButtons(f)
        /\ f.drag = "active" /\ f.grabVirtual => t.drag = "cancelled"
        /\ t.forwardedKeys = f.forwardedKeys \cap (KeyHeld(t) \cup Hinted(t))
        /\ t.forwardedButtons = f.forwardedButtons \cap ButtonHeld(t)
        /\ t.released = f.released \cup (f.forwardedKeys \ t.forwardedKeys)
                                   \cup (f.forwardedButtons \ t.forwardedButtons)
    BY <1>2, <1>3, RevokedIs
  <1>5. HumansKeep(f, t) /\ AgentLoses(f, t)
    BY <1>4 DEF HumansKeep, AgentLoses
  <1>6. /\ KeysTrue(t, {}) /\ KeysTold(t, {})
        /\ ButtonsTrue(t, {}, {}) /\ ButtonsTold(t, {}) /\ Apart(t) /\ Idle(t)
    BY <1>2, <1>4, <1>5, LossKeeps
  <1>7. Cancels(f, t)
    BY <1>4 DEF Cancels
  <1>8. seat \in Shape
    BY SeatIsShape DEF IInv, TypeOK
  <1>9. Cancels(seat, t)
    BY <1>2, <1>7, <1>8, CancelsFrom
  <1>10. ButtonsTrue(t, Orphans(seat, t, orphans), {})
    BY <1>6 DEF ButtonsTrue
  <1> QED BY <1>1, <1>3, <1>4, <1>6, <1>9, <1>10, IdleStep

\* A human press or release of a key, as recorded.
LEMMA HumanKeyRecorded ==
    ASSUME IInv, NEW d \in Keyboards, NEW k \in Keys, NEW down \in BOOLEAN
    PROVE  LET h == KeyHolding(Found, d, k, down)
           IN  /\ h \in Shape /\ SamePermission(seat, h) /\ SameDrag(seat, h)
               /\ KeysTold(h, {k}) /\ Apart(h) /\ (down => k \in HumanKeys(h))
               /\ ButtonsTrue(h, orphans, {}) /\ ButtonsTold(h, {})
               /\ h.allowed \/ AgentHolds(h) # {} => h.quiet
               /\ h.clipboard # Nothing => h.allowed
               /\ AgentHolds(h) = {} => \A i \in Inputs : h.deadline[i] = Nothing
  <1>1. PICK f : f = Found
    OBVIOUS
  <1>2. /\ f \in Shape /\ SamePermission(seat, f) /\ SameDrag(seat, f) /\ f.released = {}
        /\ KeysTold(f, {}) /\ ButtonsTrue(f, orphans, {}) /\ ButtonsTold(f, {})
        /\ f.allowed \/ AgentHolds(f) # {} => f.quiet
        /\ f.clipboard # Nothing => f.allowed
        /\ \A i \in Inputs : f.deadline[i] # Nothing <=> i \in AgentHolds(f)
    BY <1>1, FoundIs
  <1>3. PICK h : h = KeyHolding(f, d, k, down)
    OBVIOUS
  <1>4. /\ h \in Shape
        /\ SamePermission(f, h) /\ SameTimes(f, h) /\ SameDrag(f, h)
        /\ h.heldKeys[d] = Toggled(f.heldKeys[d], k, down)
        /\ \A e \in Keyboards \cup {Agent} : e # d => h.heldKeys[e] = f.heldKeys[e]
        /\ h.depressed = f.depressed /\ h.heldButtons = f.heldButtons
        /\ h.forwardedKeys = f.forwardedKeys /\ h.forwardedButtons = f.forwardedButtons
        /\ h.released = f.released
    BY <1>2, <1>3, KeyHoldingIs
  <1>5. d # Agent /\ AgentHolds(h) = AgentHolds(f) /\ ButtonHeld(h) = ButtonHeld(f)
    BY <1>4, Times DEF AgentHolds, ButtonHeld
  <1>6. KeyHeld(h) \subseteq KeyHeld(f) \cup {k}
    BY <1>4 DEF KeyHeld, Toggled
  <1>7. KeysTold(h, {k}) /\ ButtonsTrue(h, orphans, {}) /\ ButtonsTold(h, {}) /\ Apart(h)
    BY <1>2, <1>4, <1>5, <1>6 DEF KeysTold, ButtonsTrue, ButtonsTold, Apart
  <1>8. down => k \in HumanKeys(h)
    BY <1>4 DEF HumanKeys, Toggled
  <1>9. /\ SamePermission(seat, h) /\ SameDrag(seat, h)
        /\ h.allowed \/ AgentHolds(h) # {} => h.quiet
        /\ h.clipboard # Nothing => h.allowed
        /\ \A i \in Inputs : h.deadline[i] # Nothing <=> i \in AgentHolds(h)
    BY <1>2, <1>4, <1>5 DEF SamePermission, SameDrag, SameTimes
  <1> QED BY <1>1, <1>3, <1>4, <1>7, <1>8, <1>9

LEMMA HumanKeyKeeps ==
    ASSUME IInv, NEW d \in Keyboards, NEW k \in Keys, NEW down \in BOOLEAN, HumanKey(d, k, down)
    PROVE  IInv' /\ StepOK
  <1>1. PICK h : h = KeyHolding(Found, d, k, down)
    OBVIOUS
  <1>2. /\ h \in Shape /\ SamePermission(seat, h) /\ SameDrag(seat, h)
        /\ KeysTold(h, {k}) /\ Apart(h) /\ (down => k \in HumanKeys(h))
        /\ ButtonsTrue(h, orphans, {}) /\ ButtonsTold(h, {})
        /\ h.allowed \/ AgentHolds(h) # {} => h.quiet
        /\ h.clipboard # Nothing => h.allowed
        /\ AgentHolds(h) = {} => \A i \in Inputs : h.deadline[i] = Nothing
    BY <1>1, HumanKeyRecorded
  <1>3. PICK r : r = Reported(h)
    OBVIOUS
  <1>4. /\ r \in Shape /\ HumansKeep(h, r) /\ Idle(r) /\ Cancels(h, r)
        /\ KeysTold(r, {k}) /\ Apart(r)
        /\ ButtonsTrue(r, Orphans(h, r, orphans), {}) /\ ButtonsTold(r, {})
    BY <1>2, <1>3, ReportedKeeps
  <1>5. PICK w : w = WithoutOrphans(r, FALSE)
    OBVIOUS
  <1>6. /\ w \in Shape
        /\ SamePermission(r, w) /\ SameTimes(r, w) /\ SameHolds(r, w) /\ SameDrag(r, w)
        /\ w.forwardedButtons = r.forwardedButtons
    BY <1>4, <1>5, WithoutOrphansIs
  <1>7. KeysTrue(w, {}) /\ KeysTold(w, {k}) /\ Apart(w)
    BY <1>4, <1>5, WithoutOrphansKeeps
  <1>8. PICK handled \in {FALSE, down /\ k \in Bindings} : Becomes(KeyForwarded(w, k, handled))
    BY <1>1, <1>3, <1>5 DEF HumanKey
  <1>9. handled \in BOOLEAN /\ (handled => down /\ k \in Bindings)
    BY <1>8, Handled
  <1>10. PICK t : t = KeyForwarded(w, k, handled)
    OBVIOUS
  <1>11. /\ t \in Shape
         /\ SamePermission(w, t) /\ SameTimes(w, t) /\ SameHolds(w, t) /\ SameDrag(w, t)
         /\ t.forwardedButtons = w.forwardedButtons
    BY <1>6, <1>9, <1>10, KeyForwardedIs
  <1>12. down => k \in KeyHeld(w)
    <2>1. HumanKeys(w) = HumanKeys(h)
      BY <1>4, <1>6, HoldsOfSame DEF HumansKeep
    <2> QED BY <1>2, <1>6, <2>1, HoldsTyped
  <1>13. KeysTrue(w, {k})
    BY <1>7 DEF KeysTrue
  <1>14. KeysTrue(t, {}) /\ KeysTold(t, {}) /\ Apart(t)
    BY <1>6, <1>7, <1>9, <1>10, <1>12, <1>13, KeyForwardedKeeps
  <1>15. ButtonHeld(t) = ButtonHeld(r) /\ AgentHolds(t) = AgentHolds(r)
    BY <1>6, <1>11, HoldsOfSame
  <1>16. Idle(t)
    BY <1>4, <1>6, <1>11, <1>15 DEF Idle, SamePermission, SameTimes
  <1>17. t.epoch = r.epoch /\ t.drag = r.drag
    BY <1>6, <1>11 DEF SamePermission, SameDrag
  <1>18. seat \in Shape
    BY SeatIsShape DEF IInv, TypeOK
  <1>19. Cancels(seat, t) /\ Orphans(seat, t, orphans) = Orphans(h, r, orphans)
    BY <1>2, <1>4, <1>17, <1>18, CancelsFrom
  <1>20. ButtonsTrue(t, Orphans(seat, t, orphans), {}) /\ ButtonsTold(t, {})
    BY <1>4, <1>6, <1>11, <1>15, <1>19 DEF ButtonsTrue, ButtonsTold
  <1> QED BY <1>8, <1>10, <1>11, <1>14, <1>16, <1>19, <1>20, IdleStep

LEMMA HumanModifiersKeeps ==
    ASSUME IInv, NEW d \in Keyboards, NEW mods \in SUBSET Modifiers, HumanModifiers(d, mods)
    PROVE  IInv' /\ StepOK
  <1>1. PICK f : f = Found
    OBVIOUS
  <1>2. /\ f \in Shape /\ SamePermission(seat, f) /\ SameDrag(seat, f) /\ f.released = {}
        /\ KeysTold(f, {}) /\ ButtonsTrue(f, orphans, {}) /\ ButtonsTold(f, {})
        /\ f.allowed \/ AgentHolds(f) # {} => f.quiet
        /\ f.clipboard # Nothing => f.allowed
        /\ \A i \in Inputs : f.deadline[i] # Nothing <=> i \in AgentHolds(f)
    BY <1>1, FoundIs
  <1>3. PICK h : h = [f EXCEPT !.depressed[d] = mods]
    OBVIOUS
  <1>4. /\ h \in Shape /\ SamePermission(f, h) /\ SameTimes(f, h) /\ SameDrag(f, h)
        /\ h.heldKeys = f.heldKeys /\ h.heldButtons = f.heldButtons
        /\ h.forwardedKeys = f.forwardedKeys /\ h.forwardedButtons = f.forwardedButtons
        /\ h.released = f.released
    BY <1>2, <1>3 DEF Shape, SamePermission, SameTimes, SameDrag
  <1>5. AgentHolds(h) = AgentHolds(f) /\ ButtonHeld(h) = ButtonHeld(f) /\ KeyHeld(h) = KeyHeld(f)
    BY <1>4 DEF AgentHolds, ButtonHeld, KeyHeld
  <1>6. KeysTold(h, {}) /\ ButtonsTrue(h, orphans, {}) /\ ButtonsTold(h, {}) /\ Apart(h)
    BY <1>2, <1>4, <1>5 DEF KeysTold, ButtonsTrue, ButtonsTold, Apart
  <1>7. /\ SamePermission(seat, h) /\ SameDrag(seat, h)
        /\ h.allowed \/ AgentHolds(h) # {} => h.quiet
        /\ h.clipboard # Nothing => h.allowed
        /\ AgentHolds(h) = {} => \A i \in Inputs : h.deadline[i] = Nothing
    BY <1>2, <1>4, <1>5 DEF SamePermission, SameDrag, SameTimes
  <1>8. PICK r : r = Reported(h)
    OBVIOUS
  <1>9. /\ r \in Shape /\ Idle(r) /\ Cancels(h, r)
        /\ KeysTold(r, {}) /\ Apart(r)
        /\ ButtonsTrue(r, Orphans(h, r, orphans), {}) /\ ButtonsTold(r, {})
    BY <1>4, <1>6, <1>7, <1>8, ReportedKeeps
  <1>10. PICK t : t = WithoutOrphans(r, TRUE)
    OBVIOUS
  <1>11. /\ t \in Shape
         /\ SamePermission(r, t) /\ SameTimes(r, t) /\ SameHolds(r, t) /\ SameDrag(r, t)
         /\ t.forwardedButtons = r.forwardedButtons
    BY <1>9, <1>10, WithoutOrphansIs
  <1>12. KeysTrue(t, {}) /\ KeysTold(t, {}) /\ Apart(t)
    BY <1>9, <1>10, WithoutOrphansKeeps
  <1>13. ButtonHeld(t) = ButtonHeld(r) /\ AgentHolds(t) = AgentHolds(r)
    BY <1>11, HoldsOfSame
  <1>14. Idle(t)
    BY <1>9, <1>11, <1>13 DEF Idle, SamePermission, SameTimes
  <1>15. t.epoch = r.epoch /\ t.drag = r.drag
    BY <1>11 DEF SamePermission, SameDrag
  <1>16. seat \in Shape
    BY SeatIsShape DEF IInv, TypeOK
  <1>17. Cancels(seat, t) /\ Orphans(seat, t, orphans) = Orphans(h, r, orphans)
    BY <1>7, <1>9, <1>15, <1>16, CancelsFrom
  <1>18. ButtonsTrue(t, Orphans(seat, t, orphans), {}) /\ ButtonsTold(t, {})
    BY <1>9, <1>11, <1>13, <1>17 DEF ButtonsTrue, ButtonsTold
  <1>19. Becomes(t)
    BY <1>1, <1>3, <1>8, <1>10 DEF HumanModifiers
  <1> QED BY <1>11, <1>12, <1>14, <1>17, <1>18, <1>19, IdleStep

LEMMA HumanButtonKeeps ==
    ASSUME IInv, NEW d \in Mice, NEW b \in Buttons, NEW down \in BOOLEAN, HumanButton(d, b, down)
    PROVE  IInv' /\ StepOK
  <1>1. PICK f : f = Found
    OBVIOUS
  <1>2. /\ f \in Shape /\ SamePermission(seat, f) /\ SameDrag(seat, f) /\ f.released = {}
        /\ KeysTrue(f, {}) /\ KeysTold(f, {}) /\ ButtonsTrue(f, orphans, {}) /\ ButtonsTold(f, {})
        /\ f.allowed \/ AgentHolds(f) # {} => f.quiet
        /\ f.clipboard # Nothing => f.allowed
        /\ \A i \in Inputs : f.deadline[i] # Nothing <=> i \in AgentHolds(f)
    BY <1>1, FoundIs
  <1>3. PICK h : h = ButtonHolding(f, d, b, down)
    OBVIOUS
  <1>4. /\ h \in Shape
        /\ SamePermission(f, h) /\ SameTimes(f, h) /\ SameDrag(f, h)
        /\ h.heldButtons[d] = Toggled(f.heldButtons[d], b, down)
        /\ \A e \in Mice \cup {Agent} : e # d => h.heldButtons[e] = f.heldButtons[e]
        /\ h.depressed = f.depressed /\ h.heldKeys = f.heldKeys
        /\ h.forwardedKeys = f.forwardedKeys /\ h.forwardedButtons = f.forwardedButtons
        /\ h.released = f.released
    BY <1>2, <1>3, ButtonHoldingIs
  <1>5. d # Agent /\ AgentHolds(h) = AgentHolds(f) /\ KeyHeld(h) = KeyHeld(f) /\ Hinted(h) = Hinted(f)
    BY <1>4, Times DEF AgentHolds, KeyHeld, Hinted
  <1>6. ButtonHeld(h) \subseteq ButtonHeld(f) \cup {b} /\ ButtonHeld(f) \subseteq ButtonHeld(h) \cup {b}
    BY <1>4 DEF ButtonHeld, Toggled
  <1>7. /\ KeysTrue(h, {}) /\ KeysTold(h, {})
        /\ ButtonsTrue(h, orphans, {b}) /\ ButtonsTold(h, {b}) /\ Apart(h)
    BY <1>2, <1>4, <1>5, <1>6 DEF KeysTrue, KeysTold, ButtonsTrue, ButtonsTold, Apart
  <1>8. /\ SamePermission(seat, h) /\ SameDrag(seat, h)
        /\ h.allowed \/ AgentHolds(h) # {} => h.quiet
        /\ h.clipboard # Nothing => h.allowed
        /\ AgentHolds(h) = {} => \A i \in Inputs : h.deadline[i] = Nothing
    BY <1>2, <1>4, <1>5 DEF SamePermission, SameDrag, SameTimes
  <1>9. PICK r : r = Reported(h)
    OBVIOUS
  <1>10. /\ r \in Shape /\ Idle(r) /\ Cancels(h, r)
         /\ KeysTrue(r, {}) /\ KeysTold(r, {}) /\ Apart(r)
         /\ ButtonsTrue(r, Orphans(h, r, orphans), {b}) /\ ButtonsTold(r, {b})
    BY <1>4, <1>7, <1>8, <1>9, ReportedKeeps
  <1>11. PICK t : t = ButtonForwarded(r, d, b)
    OBVIOUS
  <1>12. /\ t \in Shape
         /\ SamePermission(r, t) /\ SameTimes(r, t) /\ SameHolds(r, t)
         /\ r.drag = "cancelled" => t.drag = "cancelled"
         /\ t.forwardedKeys = r.forwardedKeys
    BY <1>10, <1>11, ButtonForwardedIs
  <1>13. ButtonsTrue(t, Orphans(h, r, orphans), {}) /\ ButtonsTold(t, {}) /\ Apart(t)
    BY <1>10, <1>11, ButtonForwardedKeeps
  <1>14. KeyHeld(t) = KeyHeld(r) /\ Hinted(t) = Hinted(r) /\ AgentHolds(t) = AgentHolds(r)
    BY <1>12, HoldsOfSame
  <1>15. KeysTrue(t, {}) /\ KeysTold(t, {})
    BY <1>10, <1>12, <1>14 DEF KeysTrue, KeysTold
  <1>16. Idle(t)
    BY <1>10, <1>12, <1>14 DEF Idle, SamePermission, SameTimes
  <1>17. t.epoch = r.epoch
    BY <1>12 DEF SamePermission
  <1>18. seat \in Shape
    BY SeatIsShape DEF IInv, TypeOK
  <1>19. Cancels(seat, t) /\ Orphans(seat, t, orphans) = Orphans(h, r, orphans)
    BY <1>8, <1>10, <1>12, <1>17, <1>18, CancelsFrom
  <1>20. Becomes(t)
    BY <1>1, <1>3, <1>9, <1>11 DEF HumanButton
  <1> QED BY <1>12, <1>13, <1>15, <1>16, <1>19, <1>20, IdleStep

\* What is reported of the seat as it is found.
LEMMA FoundReported ==
    ASSUME IInv
    PROVE  LET r == Reported(Found)
           IN  /\ r \in Shape /\ Idle(r) /\ Cancels(seat, r)
               /\ KeysTrue(r, {}) /\ KeysTold(r, {}) /\ Apart(r)
               /\ ButtonsTrue(r, Orphans(seat, r, orphans), {}) /\ ButtonsTold(r, {})
  <1>1. PICK f : f = Found
    OBVIOUS
  <1>2. /\ f \in Shape /\ SamePermission(seat, f) /\ SameDrag(seat, f)
        /\ KeysTrue(f, {}) /\ KeysTold(f, {}) /\ ButtonsTrue(f, orphans, {}) /\ ButtonsTold(f, {})
        /\ Apart(f)
        /\ f.allowed \/ AgentHolds(f) # {} => f.quiet
        /\ f.clipboard # Nothing => f.allowed
        /\ \A i \in Inputs : f.deadline[i] # Nothing <=> i \in AgentHolds(f)
    BY <1>1, FoundIs
  <1>3. AgentHolds(f) = {} => \A i \in Inputs : f.deadline[i] = Nothing
    BY <1>2
  <1>4. PICK r : r = Reported(f)
    OBVIOUS
  <1>5. /\ r \in Shape /\ Idle(r) /\ Cancels(f, r)
        /\ KeysTrue(r, {}) /\ KeysTold(r, {}) /\ Apart(r)
        /\ ButtonsTrue(r, Orphans(f, r, orphans), {}) /\ ButtonsTold(r, {})
    BY <1>2, <1>3, <1>4, ReportedKeeps
  <1>6. seat \in Shape
    BY SeatIsShape DEF IInv, TypeOK
  <1>7. Cancels(seat, r) /\ Orphans(seat, r, orphans) = Orphans(f, r, orphans)
    BY <1>2, <1>5, <1>6, CancelsFrom
  <1> QED BY <1>1, <1>4, <1>5, <1>7

LEMMA HumanActivityKeeps == ASSUME IInv, HumanActivity PROVE IInv' /\ StepOK
  BY FoundReported, IdleStep DEF HumanActivity

LEMMA HumanTouchKeeps == ASSUME IInv, HumanTouch PROVE IInv' /\ StepOK
  <1>1. PICK r : r = Reported(Found)
    OBVIOUS
  <1>2. /\ r \in Shape /\ Idle(r) /\ Cancels(seat, r)
        /\ KeysTrue(r, {}) /\ KeysTold(r, {}) /\ Apart(r)
        /\ ButtonsTrue(r, Orphans(seat, r, orphans), {}) /\ ButtonsTold(r, {})
    BY <1>1, FoundReported
  <1>3. PICK t : t = [r EXCEPT !.touched = ~@]
    OBVIOUS
  <1>4. /\ t \in Shape /\ SamePermission(r, t) /\ SameTimes(r, t) /\ SameDrag(r, t)
        /\ t.heldKeys = r.heldKeys /\ t.heldButtons = r.heldButtons /\ t.depressed = r.depressed
        /\ t.forwardedKeys = r.forwardedKeys /\ t.forwardedButtons = r.forwardedButtons
        /\ t.released = r.released
    BY <1>2, <1>3 DEF Shape, SamePermission, SameTimes, SameDrag
  <1>5. /\ KeyHeld(t) = KeyHeld(r) /\ ButtonHeld(t) = ButtonHeld(r) /\ Hinted(t) = Hinted(r)
        /\ AgentHolds(t) = AgentHolds(r)
    BY <1>4 DEF KeyHeld, ButtonHeld, Hinted, AgentHolds
  <1>6. Idle(t)
    BY <1>2, <1>4, <1>5 DEF Idle, SamePermission, SameTimes
  <1>7. Cancels(seat, t) /\ Orphans(seat, t, orphans) = Orphans(seat, r, orphans)
    BY <1>2, <1>4 DEF Cancels, Orphans, SamePermission, SameDrag
  <1>8. /\ KeysTrue(t, {}) /\ KeysTold(t, {}) /\ Apart(t)
        /\ ButtonsTrue(t, Orphans(seat, t, orphans), {}) /\ ButtonsTold(t, {})
    BY <1>2, <1>4, <1>5, <1>7 DEF KeysTrue, KeysTold, Apart, ButtonsTrue, ButtonsTold
  <1>9. Becomes(t)
    BY <1>1, <1>3 DEF HumanTouch
  <1> QED BY <1>4, <1>6, <1>7, <1>8, <1>9, IdleStep

LEMMA HumanUnplugKeeps ==
    ASSUME IInv, NEW d \in Mice, HumanUnplug(d)
    PROVE  IInv' /\ StepOK
  <1>1. PICK f : f = Found
    OBVIOUS
  <1>2. /\ f \in Shape /\ SamePermission(seat, f) /\ SameTimes(seat, f) /\ SameHolds(seat, f)
        /\ SameDrag(seat, f) /\ AgentHolds(f) = AgentHolds(seat) /\ f.released = {}
        /\ KeysTrue(f, {}) /\ KeysTold(f, {}) /\ ButtonsTrue(f, orphans, {}) /\ ButtonsTold(f, {})
        /\ f.allowed \/ AgentHolds(f) # {} => f.quiet /\ ~HumanHeld(f)
        /\ f.clipboard # Nothing => f.allowed /\ f.clipboard = f.epoch
    BY <1>1, FoundIs
  <1>3. PICK t : t = [f EXCEPT !.heldButtons[d] = {}]
    OBVIOUS
  <1>4. seat' = t /\ orphans' = orphans \cup (t.forwardedButtons \ ButtonHeld(t)) /\ age' = age
    BY <1>1, <1>3 DEF HumanUnplug
  <1>5. /\ t \in Shape /\ SamePermission(f, t) /\ SameTimes(f, t) /\ SameDrag(f, t)
        /\ t.heldKeys = f.heldKeys /\ t.depressed = f.depressed /\ t.touched = f.touched
        /\ t.forwardedKeys = f.forwardedKeys /\ t.forwardedButtons = f.forwardedButtons
        /\ t.released = f.released
    BY <1>2, <1>3 DEF Shape, SamePermission, SameTimes, SameDrag
  <1>6. t.heldButtons[d] = {} /\ \A e \in Mice \cup {Agent} : e # d => t.heldButtons[e] = f.heldButtons[e]
    BY <1>2, <1>3 DEF Shape
  <1>7. /\ KeyHeld(t) = KeyHeld(f) /\ Hinted(t) = Hinted(f) /\ HumanKeys(t) = HumanKeys(f)
        /\ AgentHolds(t) = AgentHolds(f) /\ t.heldButtons[Agent] = f.heldButtons[Agent]
        /\ HumanButtons(t) \subseteq HumanButtons(f) /\ ButtonHeld(t) \subseteq ButtonHeld(f)
    BY <1>5, <1>6, Times DEF KeyHeld, Hinted, HumanKeys, AgentHolds, HumanButtons, ButtonHeld
  <1>8. HumanHeld(t) => HumanHeld(f)
    BY <1>5, <1>7 DEF HumanHeld
  <1>9. t.epoch = seat.epoch /\ t.deadline = seat.deadline /\ t.timer = seat.timer
    BY <1>2, <1>5 DEF SamePermission, SameTimes
  <1>10. t.clipboard # Nothing => t.clipboard = t.epoch
    BY <1>2, <1>5 DEF SamePermission
  <1>11. seat.epoch \in 1..MaxEpoch /\ orphans \subseteq Buttons /\ age \in [Inputs -> Time]
    BY SeatIsShape DEF IInv, TypeOK
  <1>12. t \in Seat
    BY <1>5, <1>9, <1>10, <1>11, ShapeIsSeat
  <1>13. TypeOK'
    BY <1>4, <1>5, <1>11, <1>12 DEF TypeOK, Shape
  <1>14. HoldInv'
    BY <1>2, <1>4, <1>7, <1>9 DEF IInv, HoldInv
  <1>15. KeysAreAccounted'
    BY <1>2, <1>4, <1>5, <1>7 DEF KeysAreAccounted, KeysTrue, KeysTold
  <1>16. ButtonsAreAccounted'
    BY <1>2, <1>4, <1>5, <1>7 DEF ButtonsAreAccounted, ButtonsTold
  <1>17. ReleasedInv'
    BY <1>2, <1>4, <1>5 DEF ReleasedInv
  <1>18. HumanInv' /\ ClipboardIsGated'
    BY <1>2, <1>4, <1>5, <1>7, <1>8 DEF HumanInv, ClipboardIsGated, SamePermission
  <1>19. GrabInv'
    <2>1. orphans' = {} => orphans = {}
      BY <1>4
    <2>2. t.heldButtons[Agent] = seat.heldButtons[Agent]
      BY <1>2, <1>7 DEF SameHolds
    <2>3. seat.grabVirtual => t.grabVirtual
      BY <1>2, <1>5 DEF SameDrag
    <2> QED BY <1>4, <2>1, <2>2, <2>3 DEF IInv, GrabInv
  <1>20. StepOK
    BY <1>4, <1>9 DEF StepOK
  <1> QED BY <1>13, <1>14, <1>15, <1>16, <1>17, <1>18, <1>19, <1>20 DEF IInv, HeldInv

\* The deadlines after the agent pressed or released i.
LEMMA AgentTimes ==
    ASSUME IInv, NEW t \in Shape, NEW i \in Inputs, NEW down \in BOOLEAN,
           seat' = t,
           \A j \in Inputs : age'[j] = IF j \notin AgentHolds(t) THEN Nothing
                                       ELSE IF age[j] = Nothing THEN 0 ELSE age[j],
           i \in AgentHolds(t) <=> down,
           \A j \in Inputs : j # i => (j \in AgentHolds(t) <=> j \in AgentHolds(seat)),
           t.deadline[i] = IF ~down THEN Nothing
                           ELSE IF seat.deadline[i] = Nothing THEN seat.hold ELSE seat.deadline[i],
           \A j \in Inputs : j # i => t.deadline[j] = seat.deadline[j],
           \A j \in Inputs : t.deadline[j] # Nothing => t.timer # Nothing /\ t.timer <= t.deadline[j]
    PROVE  HoldInv'
  <1>1. /\ seat.hold \in Nat /\ seat.hold # Nothing /\ seat.hold <= Max(HoldTimes)
        /\ Max(HoldTimes) \in Nat /\ 0 \in Nat /\ 0 # Nothing
    <2>1. seat.hold \in HoldTimes
      BY SeatIsShape DEF IInv, TypeOK, Shape
    <2>2. seat.hold \in Nat /\ seat.hold # Nothing /\ seat.hold <= Max(HoldTimes)
      BY <2>1, Times, Longest
    <2>3. Max(HoldTimes) \in Nat
      BY Times, Longest
    <2>4. 0 # Nothing
      BY Times
    <2> QED BY <2>2, <2>3, <2>4
  <1>2. SUFFICES ASSUME NEW j \in Inputs
                 PROVE  /\ age'[j] # Nothing <=> j \in AgentHolds(t)
                        /\ t.deadline[j] # Nothing <=> j \in AgentHolds(t)
                        /\ j \in AgentHolds(t) => /\ t.timer # Nothing /\ t.timer <= t.deadline[j]
                                                  /\ age'[j] + t.deadline[j] <= Max(HoldTimes)
    BY DEF HoldInv
  <1>3. /\ age[j] # Nothing <=> j \in AgentHolds(seat)
        /\ seat.deadline[j] # Nothing <=> j \in AgentHolds(seat)
        /\ j \in AgentHolds(seat) => age[j] + seat.deadline[j] <= Max(HoldTimes)
    BY DEF IInv, HoldInv
  <1>4. CASE j = i
    <2>1. CASE ~down
      BY <1>4, <2>1
    <2>2. CASE down /\ seat.deadline[i] = Nothing
      BY <1>1, <1>3, <1>4, <2>2
    <2>3. CASE down /\ seat.deadline[i] # Nothing
      BY <1>1, <1>3, <1>4, <2>3
    <2> QED BY <2>1, <2>2, <2>3
  <1>5. CASE j # i
    BY <1>1, <1>3, <1>5
  <1> QED BY <1>4, <1>5

LEMMA AgentKeyKeeps ==
    ASSUME IInv, NEW k \in Keys, NEW down \in BOOLEAN, AgentKey(k, down)
    PROVE  IInv' /\ StepOK
  <1>1. PICK f : f = Found
    OBVIOUS
  <1>2. /\ f \in Shape /\ SamePermission(seat, f) /\ SameTimes(seat, f) /\ SameHolds(seat, f)
        /\ SameDrag(seat, f) /\ AgentHolds(f) = AgentHolds(seat) /\ f.released = {}
        /\ KeysTrue(f, {}) /\ KeysTold(f, {}) /\ ButtonsTrue(f, orphans, {}) /\ ButtonsTold(f, {})
        /\ f.allowed \/ AgentHolds(f) # {} => f.quiet /\ ~HumanHeld(f)
        /\ f.clipboard # Nothing => f.allowed /\ f.clipboard = f.epoch
    BY <1>1, FoundIs
  <1>3. k \in Inputs /\ k \notin Buttons /\ seat.allowed /\ f.allowed
    BY <1>2, Times DEF Inputs, AgentKey, SamePermission
  <1>4. PICK s : s = Timed(f, k, down)
    OBVIOUS
  <1>5. /\ s \in Shape
        /\ SamePermission(f, s) /\ SameHolds(f, s) /\ SameDrag(f, s)
        /\ s.deadline[k] = IF ~down THEN Nothing
                           ELSE IF f.deadline[k] = Nothing THEN f.hold ELSE f.deadline[k]
        /\ \A j \in Inputs : j # k => s.deadline[j] = f.deadline[j]
        /\ \A j \in Inputs : s.deadline[j] # Nothing => s.timer # Nothing /\ s.timer <= s.deadline[j]
        /\ s.forwardedKeys = f.forwardedKeys /\ s.forwardedButtons = f.forwardedButtons
        /\ s.released = f.released
    BY <1>2, <1>3, <1>4, TimedIs
  <1>6. PICK h : h = KeyHolding(s, Agent, k, down)
    OBVIOUS
  <1>7. /\ h \in Shape
        /\ SamePermission(s, h) /\ SameTimes(s, h) /\ SameDrag(s, h)
        /\ h.heldKeys[Agent] = Toggled(s.heldKeys[Agent], k, down)
        /\ \A e \in Keyboards \cup {Agent} : e # Agent => h.heldKeys[e] = s.heldKeys[e]
        /\ h.depressed = s.depressed /\ h.heldButtons = s.heldButtons /\ h.touched = s.touched
        /\ h.forwardedKeys = s.forwardedKeys /\ h.forwardedButtons = s.forwardedButtons
        /\ h.released = s.released
    BY <1>5, <1>6, KeyHoldingIs
  <1>8. PICK handled \in {FALSE, down /\ k \in Bindings} : Becomes(KeyForwarded(h, k, handled))
    BY <1>1, <1>4, <1>6 DEF AgentKey
  <1>9. handled \in BOOLEAN /\ (handled => down /\ k \in Bindings)
    BY <1>8, Handled
  <1>10. PICK t : t = KeyForwarded(h, k, handled)
    OBVIOUS
  <1>11. /\ t \in Shape
         /\ SamePermission(h, t) /\ SameTimes(h, t) /\ SameHolds(h, t) /\ SameDrag(h, t)
         /\ t.forwardedButtons = h.forwardedButtons
    BY <1>7, <1>9, <1>10, KeyForwardedIs
  \* holds
  <1>12. /\ HumanKeys(h) = HumanKeys(f) /\ HumanButtons(h) = HumanButtons(f) /\ Hinted(h) = Hinted(f)
         /\ ButtonHeld(h) = ButtonHeld(f) /\ h.touched = f.touched
         /\ h.heldButtons = f.heldButtons
         /\ h.heldKeys[Agent] = Toggled(f.heldKeys[Agent], k, down)
    BY <1>5, <1>7, Times DEF SameHolds, HumanKeys, HumanButtons, Hinted, ButtonHeld
  <1>13. HumanHeld(h) <=> HumanHeld(f)
    BY <1>12 DEF HumanHeld
  <1>14. /\ KeyHeld(h) = HumanKeys(h) \cup h.heldKeys[Agent]
         /\ KeyHeld(f) = HumanKeys(f) \cup f.heldKeys[Agent]
         /\ f.heldButtons[Agent] \subseteq Buttons
    BY <1>2, <1>7, HoldsTyped
  <1>15. KeyHeld(h) \subseteq KeyHeld(f) \cup {k} /\ KeyHeld(f) \subseteq KeyHeld(h) \cup {k}
         /\ (down => k \in KeyHeld(h))
    BY <1>12, <1>14 DEF Toggled
  <1>16. KeysTrue(h, {k}) /\ KeysTold(h, {k}) /\ Apart(h)
    BY <1>2, <1>5, <1>7, <1>12, <1>15 DEF KeysTrue, KeysTold, Apart
  <1>17. KeysTrue(t, {}) /\ KeysTold(t, {}) /\ Apart(t)
    BY <1>7, <1>9, <1>10, <1>15, <1>16, KeyForwardedKeeps
  <1>18. /\ ButtonHeld(t) = ButtonHeld(f) /\ (HumanHeld(t) <=> HumanHeld(f))
         /\ AgentHolds(t) = AgentHolds(h)
    BY <1>11, <1>12, <1>13, HoldsOfSame
  <1>19. /\ t.allowed = seat.allowed /\ t.quiet = seat.quiet /\ t.epoch = seat.epoch
         /\ t.clipboard = seat.clipboard /\ seat.clipboard = f.clipboard /\ seat.epoch = f.epoch
    BY <1>2, <1>5, <1>7, <1>11 DEF SamePermission
  <1>20. /\ TypeOK' /\ seat' = t /\ orphans' = orphans
         /\ \A i \in Inputs : age'[i] = IF i \notin AgentHolds(t) THEN Nothing
                                        ELSE IF age[i] = Nothing THEN 0 ELSE age[i]
    BY <1>2, <1>8, <1>10, <1>11, <1>19, BecomesTyped DEF IInv, Orphans
  <1>21. (k \in AgentHolds(t) <=> down)
         /\ \A j \in Inputs : j # k => (j \in AgentHolds(t) <=> j \in AgentHolds(seat))
    BY <1>2, <1>3, <1>12, <1>14, <1>18 DEF AgentHolds, Toggled
  <1>22. HoldInv'
    BY <1>2, <1>3, <1>5, <1>7, <1>11, <1>20, <1>21, AgentTimes DEF SameTimes
  <1>23. KeysAreAccounted'
    BY <1>17, <1>20 DEF KeysAreAccounted, KeysTrue, KeysTold
  <1>24. ButtonsAreAccounted'
    BY <1>2, <1>5, <1>7, <1>11, <1>18, <1>20 DEF ButtonsAreAccounted, ButtonsTrue, ButtonsTold
  <1>25. ReleasedInv'
    BY <1>17, <1>20 DEF ReleasedInv, Apart
  <1>26. HumanInv' /\ ClipboardIsGated'
    <2>1. f.quiet /\ ~HumanHeld(f) /\ (f.clipboard # Nothing => f.clipboard = f.epoch)
      BY <1>2, <1>3
    <2>2. seat.quiet
      BY <1>2, <2>1 DEF SamePermission
    <2> QED BY <1>3, <1>18, <1>19, <1>20, <2>1, <2>2 DEF HumanInv, ClipboardIsGated
  <1>27. GrabInv'
    <2>1. t.heldButtons = seat.heldButtons
      BY <1>2, <1>11, <1>12 DEF SameHolds
    <2>2. t.grabVirtual = seat.grabVirtual
      BY <1>2, <1>5, <1>7, <1>11 DEF SameDrag
    <2> QED BY <1>20, <2>1, <2>2 DEF IInv, GrabInv
  <1>28. StepOK
    BY <1>19, <1>20 DEF StepOK
  <1> QED BY <1>20, <1>22, <1>23, <1>24, <1>25, <1>26, <1>27, <1>28 DEF IInv, HeldInv

LEMMA AgentButtonKeeps ==
    ASSUME IInv, NEW b \in Buttons, NEW down \in BOOLEAN, AgentButton(b, down)
    PROVE  IInv' /\ StepOK
  <1>1. PICK f : f = Found
    OBVIOUS
  <1>2. /\ f \in Shape /\ SamePermission(seat, f) /\ SameTimes(seat, f) /\ SameHolds(seat, f)
        /\ SameDrag(seat, f) /\ AgentHolds(f) = AgentHolds(seat) /\ f.released = {}
        /\ f.forwardedButtons = seat.forwardedButtons
        /\ KeysTrue(f, {}) /\ KeysTold(f, {}) /\ ButtonsTrue(f, orphans, {}) /\ ButtonsTold(f, {})
        /\ f.allowed \/ AgentHolds(f) # {} => f.quiet /\ ~HumanHeld(f)
        /\ f.clipboard # Nothing => f.allowed /\ f.clipboard = f.epoch
    BY <1>1, FoundIs
  <1>3. b \in Inputs /\ b \notin Keys /\ seat.allowed /\ f.allowed
    BY <1>2, Times DEF Inputs, AgentButton, SamePermission
  <1>4. PICK s : s = Timed(f, b, down)
    OBVIOUS
  <1>5. /\ s \in Shape
        /\ SamePermission(f, s) /\ SameHolds(f, s) /\ SameDrag(f, s)
        /\ s.deadline[b] = IF ~down THEN Nothing
                           ELSE IF f.deadline[b] = Nothing THEN f.hold ELSE f.deadline[b]
        /\ \A j \in Inputs : j # b => s.deadline[j] = f.deadline[j]
        /\ \A j \in Inputs : s.deadline[j] # Nothing => s.timer # Nothing /\ s.timer <= s.deadline[j]
        /\ s.forwardedKeys = f.forwardedKeys /\ s.forwardedButtons = f.forwardedButtons
        /\ s.released = f.released
    BY <1>2, <1>3, <1>4, TimedIs
  <1>6. PICK h : h = ButtonHolding(s, Agent, b, down)
    OBVIOUS
  <1>7. /\ h \in Shape
        /\ SamePermission(s, h) /\ SameTimes(s, h) /\ SameDrag(s, h)
        /\ h.heldButtons[Agent] = Toggled(s.heldButtons[Agent], b, down)
        /\ \A e \in Mice \cup {Agent} : e # Agent => h.heldButtons[e] = s.heldButtons[e]
        /\ h.depressed = s.depressed /\ h.heldKeys = s.heldKeys /\ h.touched = s.touched
        /\ h.forwardedKeys = s.forwardedKeys /\ h.forwardedButtons = s.forwardedButtons
        /\ h.released = s.released
    BY <1>5, <1>6, ButtonHoldingIs
  <1>8. PICK t : t = ButtonForwarded(h, Agent, b)
    OBVIOUS
  <1>9. Becomes(t)
    BY <1>1, <1>4, <1>6, <1>8 DEF AgentButton
  <1>10. /\ t \in Shape
         /\ SamePermission(h, t) /\ SameTimes(h, t) /\ SameHolds(h, t)
         /\ h.forwardedButtons = {} /\ t.forwardedButtons # {} => t.grabVirtual
         /\ h.grabVirtual /\ h.forwardedButtons # {} /\ t.forwardedButtons # {} => t.grabVirtual
         /\ t.forwardedKeys = h.forwardedKeys
    BY <1>7, <1>8, ButtonForwardedIs
  \* holds
  <1>11. /\ HumanKeys(h) = HumanKeys(f) /\ HumanButtons(h) = HumanButtons(f) /\ Hinted(h) = Hinted(f)
         /\ KeyHeld(h) = KeyHeld(f) /\ h.touched = f.touched
         /\ h.heldKeys = f.heldKeys
         /\ h.heldButtons[Agent] = Toggled(f.heldButtons[Agent], b, down)
    BY <1>5, <1>7, Times DEF SameHolds, HumanKeys, HumanButtons, Hinted, KeyHeld
  <1>12. HumanHeld(h) <=> HumanHeld(f)
    BY <1>11 DEF HumanHeld
  <1>13. /\ ButtonHeld(h) = HumanButtons(h) \cup h.heldButtons[Agent]
         /\ ButtonHeld(f) = HumanButtons(f) \cup f.heldButtons[Agent]
         /\ f.heldKeys[Agent] \subseteq Keys
    BY <1>2, <1>7, HoldsTyped
  <1>14. ButtonHeld(h) \subseteq ButtonHeld(f) \cup {b} /\ ButtonHeld(f) \subseteq ButtonHeld(h) \cup {b}
    BY <1>11, <1>13 DEF Toggled
  <1>15. /\ KeysTrue(h, {}) /\ KeysTold(h, {})
         /\ ButtonsTrue(h, orphans, {b}) /\ ButtonsTold(h, {b}) /\ Apart(h)
    BY <1>2, <1>5, <1>7, <1>11, <1>14 DEF KeysTrue, KeysTold, ButtonsTrue, ButtonsTold, Apart
  <1>16. ButtonsTrue(t, orphans, {}) /\ ButtonsTold(t, {}) /\ Apart(t)
    BY <1>7, <1>8, <1>15, ButtonForwardedKeeps
  <1>17. /\ KeyHeld(t) = KeyHeld(h) /\ Hinted(t) = Hinted(h) /\ (HumanHeld(t) <=> HumanHeld(f))
         /\ AgentHolds(t) = AgentHolds(h) /\ ButtonHeld(t) = ButtonHeld(h)
    BY <1>10, <1>12, HoldsOfSame
  <1>18. /\ t.allowed = seat.allowed /\ t.quiet = seat.quiet /\ t.epoch = seat.epoch
         /\ t.clipboard = seat.clipboard /\ seat.clipboard = f.clipboard /\ seat.epoch = f.epoch
    BY <1>2, <1>5, <1>7, <1>10 DEF SamePermission
  <1>19. /\ TypeOK' /\ seat' = t /\ orphans' = orphans
         /\ \A i \in Inputs : age'[i] = IF i \notin AgentHolds(t) THEN Nothing
                                        ELSE IF age[i] = Nothing THEN 0 ELSE age[i]
    BY <1>2, <1>9, <1>10, <1>18, BecomesTyped DEF IInv, Orphans
  <1>20. (b \in AgentHolds(t) <=> down)
         /\ \A j \in Inputs : j # b => (j \in AgentHolds(t) <=> j \in AgentHolds(seat))
    BY <1>2, <1>3, <1>11, <1>13, <1>17 DEF AgentHolds, Toggled
  <1>21. HoldInv'
    BY <1>2, <1>3, <1>5, <1>7, <1>10, <1>19, <1>20, AgentTimes DEF SameTimes
  <1>22. KeysAreAccounted'
    BY <1>10, <1>15, <1>17, <1>19 DEF KeysAreAccounted, KeysTrue, KeysTold
  <1>23. ButtonsAreAccounted'
    BY <1>16, <1>19 DEF ButtonsAreAccounted, ButtonsTrue, ButtonsTold
  <1>24. ReleasedInv'
    BY <1>16, <1>19 DEF ReleasedInv, Apart
  <1>25. f.quiet /\ ~HumanHeld(f) /\ (f.clipboard # Nothing => f.clipboard = f.epoch)
    BY <1>2, <1>3
  <1>26. HumanInv' /\ ClipboardIsGated'
    <2>1. seat.quiet
      BY <1>2, <1>25 DEF SamePermission
    <2> QED BY <1>3, <1>17, <1>18, <1>19, <1>25, <2>1 DEF HumanInv, ClipboardIsGated
  <1>27. GrabInv'
    <2>1. SUFFICES ASSUME orphans = {}, t.heldButtons[Agent] # {} PROVE t.grabVirtual
      BY <1>19 DEF GrabInv
    <2>2. HumanButtons(f) = {}
      BY <1>25 DEF HumanHeld
    <2>3. f.forwardedButtons = f.heldButtons[Agent]
      BY <1>2, <1>13, <2>1, <2>2 DEF ButtonsTrue, ButtonsTold
    <2>4. t.forwardedButtons # {}
      <3>1. ButtonHeld(t) # {}
        BY <1>10, <2>1, HoldsTyped
      <3> QED BY <1>16, <3>1 DEF ButtonsTold
    <2>5. CASE f.forwardedButtons = {}
      BY <1>5, <1>7, <1>10, <2>4, <2>5
    <2>6. CASE f.forwardedButtons # {}
      <3>1. seat.heldButtons[Agent] # {}
        BY <1>2, <2>3, <2>6 DEF SameHolds
      <3>2. seat.grabVirtual
        BY <2>1, <3>1 DEF IInv, GrabInv
      <3>3. h.grabVirtual
        BY <1>2, <1>5, <1>7, <3>2 DEF SameDrag
      <3> QED BY <1>5, <1>7, <1>10, <2>4, <2>6, <3>3
    <2> QED BY <2>5, <2>6
  <1>28. StepOK
    BY <1>18, <1>19 DEF StepOK
  <1> QED BY <1>19, <1>21, <1>22, <1>23, <1>24, <1>26, <1>27, <1>28 DEF IInv, HeldInv


\* A step that leaves what is held, when it is due and what was told alone.
LEMMA PlainStep ==
    ASSUME IInv, NEW t \in Shape, Becomes(t), SameHolds(seat, t),
           t.deadline = seat.deadline, t.timer = seat.timer, t.epoch = seat.epoch,
           t.forwardedKeys = seat.forwardedKeys, t.forwardedButtons = seat.forwardedButtons,
           t.grabVirtual = seat.grabVirtual, t.released = {},
           seat.quiet => t.quiet,
           t.allowed => t.quiet /\ ~HumanHeld(seat),
           t.clipboard # Nothing => t.allowed /\ t.clipboard = t.epoch
    PROVE  IInv' /\ StepOK
  <1>1. /\ TypeOK' /\ seat' = t /\ orphans' = orphans
        /\ \A i \in Inputs : age'[i] = IF i \notin AgentHolds(t) THEN Nothing
                                       ELSE IF age[i] = Nothing THEN 0 ELSE age[i]
    BY BecomesTyped DEF IInv, Orphans
  <1>2. /\ KeyHeld(t) = KeyHeld(seat) /\ ButtonHeld(t) = ButtonHeld(seat) /\ Hinted(t) = Hinted(seat)
        /\ AgentHolds(t) = AgentHolds(seat) /\ (HumanHeld(t) <=> HumanHeld(seat))
    BY HoldsOfSame
  <1>3. HoldInv'
    <2>1. \A i \in Inputs : age'[i] = age[i]
      BY <1>1, <1>2 DEF IInv, HoldInv
    <2> QED BY <1>1, <1>2, <2>1 DEF IInv, HoldInv
  <1>4. HeldInv'
    BY <1>1, <1>2 DEF IInv, HeldInv, KeysAreAccounted, ButtonsAreAccounted
  <1>5. HumanInv'
    BY <1>1, <1>2 DEF IInv, HumanInv
  <1>6. ReleasedInv' /\ ClipboardIsGated'
    BY <1>1 DEF ReleasedInv, ClipboardIsGated
  <1>7. GrabInv'
    BY <1>1 DEF IInv, GrabInv, SameHolds
  <1>8. StepOK
    BY <1>1 DEF StepOK
  <1> QED BY <1>1, <1>3, <1>4, <1>5, <1>6, <1>7, <1>8 DEF IInv

LEMMA AcquireKeeps ==
    ASSUME IInv, NEW epoch \in 1..MaxEpoch, Acquire(epoch)
    PROVE  IInv' /\ StepOK
  <1>1. seat \in Shape
    BY SeatIsShape DEF IInv, TypeOK
  <1>2. PICK granted \in BOOLEAN :
            /\ granted <=> epoch = seat.epoch /\ seat.quiet /\ ~HumanHeld(seat)
            /\ Becomes([Found EXCEPT !.allowed = granted,
                                     !.clipboard = IF granted THEN seat.clipboard ELSE Nothing])
    <2>1. Found.clipboard = seat.clipboard
      BY <1>1 DEF Found, Shape
    <2>2. [Found EXCEPT !.allowed = (epoch = seat.epoch /\ seat.quiet /\ ~HumanHeld(seat)),
                        !.clipboard = IF epoch = seat.epoch /\ seat.quiet /\ ~HumanHeld(seat)
                                      THEN @ ELSE Nothing]
          = [Found EXCEPT !.allowed = (epoch = seat.epoch /\ seat.quiet /\ ~HumanHeld(seat)),
                          !.clipboard = IF epoch = seat.epoch /\ seat.quiet /\ ~HumanHeld(seat)
                                        THEN seat.clipboard ELSE Nothing]
      BY <1>1, <2>1 DEF Found, Shape
    <2> QED BY <2>2 DEF Acquire
  <1>3. PICK offer : offer = IF granted THEN seat.clipboard ELSE Nothing
    OBVIOUS
  <1>4. offer \in Nat \cup {Nothing}
    BY <1>1, <1>3 DEF Shape
  <1>5. PICK t : t = [[seat EXCEPT !.released = {}] EXCEPT !.allowed = granted, !.clipboard = offer]
    OBVIOUS
  <1>6. /\ t \in Shape /\ SameHolds(seat, t) /\ t.deadline = seat.deadline /\ t.timer = seat.timer
        /\ t.epoch = seat.epoch /\ t.forwardedKeys = seat.forwardedKeys
        /\ t.forwardedButtons = seat.forwardedButtons
        /\ t.released = {} /\ t.clipboard = offer
    BY <1>1, <1>4, <1>5 DEF Shape, SameHolds
  <1>7. t.grabVirtual = seat.grabVirtual /\ t.quiet = seat.quiet /\ t.allowed = granted
    BY <1>1, <1>5 DEF Shape
  <1>8. Becomes(t)
    BY <1>2, <1>3, <1>5 DEF Found
  <1>9. t.clipboard # Nothing => t.allowed /\ t.clipboard = t.epoch
    BY <1>3, <1>6, <1>7 DEF IInv, ClipboardIsGated
  <1>10. (seat.quiet => t.quiet) /\ (t.allowed => t.quiet /\ ~HumanHeld(seat))
    BY <1>2, <1>7
  <1> QED BY <1>6, <1>7, <1>8, <1>9, <1>10, PlainStep

\* What a field of the seat that nothing else depends on is set to.
LEMMA PlainSteps ==
    ASSUME IInv
    PROVE  /\ \A time \in HoldTimes : HoldTimeout(time) => IInv' /\ StepOK
           /\ StartDrag => IInv' /\ StepOK
           /\ QuietElapses => IInv' /\ StepOK
           /\ ClipboardEnds => IInv' /\ StepOK
           /\ \A epoch \in 1..MaxEpoch : ClipboardOffer(epoch) => IInv' /\ StepOK
  <1>1. /\ Found \in Shape /\ SamePermission(seat, Found) /\ SameTimes(seat, Found)
        /\ SameHolds(seat, Found) /\ SameDrag(seat, Found)
        /\ Found.forwardedKeys = seat.forwardedKeys
        /\ Found.forwardedButtons = seat.forwardedButtons /\ Found.released = {}
    BY FoundIs
  <1>2. PICK f \in Shape : f = Found
    BY <1>1
  <1>3. /\ SamePermission(seat, f) /\ SameTimes(seat, f) /\ SameHolds(seat, f) /\ SameDrag(seat, f)
        /\ f.forwardedKeys = seat.forwardedKeys /\ f.forwardedButtons = seat.forwardedButtons
        /\ f.released = {}
    BY <1>1, <1>2
  <1>4. ASSUME NEW t \in Shape, Becomes(t), SameHolds(f, t), t.deadline = f.deadline,
               t.timer = f.timer, t.epoch = f.epoch, t.forwardedKeys = f.forwardedKeys,
               t.forwardedButtons = f.forwardedButtons, t.grabVirtual = f.grabVirtual,
               t.released = f.released, t.allowed = f.allowed, f.quiet => t.quiet,
               \/ t.clipboard = Nothing
               \/ t.clipboard = f.clipboard
               \/ t.allowed /\ t.clipboard = t.epoch
        PROVE  IInv' /\ StepOK
    <2>1. SameHolds(seat, t)
      BY <1>3, <1>4 DEF SameHolds
    <2>2. t.deadline = seat.deadline /\ t.timer = seat.timer /\ t.epoch = seat.epoch
      BY <1>3, <1>4 DEF SamePermission, SameTimes
    <2>3. t.grabVirtual = seat.grabVirtual /\ t.released = {}
      BY <1>3, <1>4 DEF SameDrag
    <2>4. seat.quiet => t.quiet
      BY <1>3, <1>4 DEF SamePermission
    <2>5. t.allowed => t.quiet /\ ~HumanHeld(seat)
      BY <1>3, <1>4, <2>4 DEF SamePermission, IInv, HumanInv
    <2>6. t.clipboard # Nothing => t.allowed /\ t.clipboard = t.epoch
      BY <1>3, <1>4 DEF SamePermission, IInv, ClipboardIsGated
    <2> QED BY <1>3, <1>4, <2>1, <2>2, <2>3, <2>4, <2>5, <2>6, PlainStep
  <1>5. ASSUME NEW time \in HoldTimes, HoldTimeout(time) PROVE IInv' /\ StepOK
    <2>1. PICK t : t = [f EXCEPT !.hold = time]
      OBVIOUS
    <2>2. /\ t \in Shape /\ SameHolds(f, t) /\ t.deadline = f.deadline /\ t.timer = f.timer
          /\ t.epoch = f.epoch /\ t.forwardedKeys = f.forwardedKeys
          /\ t.forwardedButtons = f.forwardedButtons /\ t.released = f.released
          /\ t.clipboard = f.clipboard
      BY <2>1 DEF Shape, SameHolds
    <2>3. t.grabVirtual = f.grabVirtual /\ t.allowed = f.allowed /\ t.quiet = f.quiet
      BY <2>1 DEF Shape
    <2>4. Becomes(t)
      BY <1>2, <1>5, <2>1 DEF HoldTimeout
    <2> QED BY <1>4, <2>2, <2>3, <2>4
  <1>6. ASSUME StartDrag PROVE IInv' /\ StepOK
    <2>1. PICK t : t = [f EXCEPT !.drag = "active"]
      OBVIOUS
    <2>2. /\ t \in Shape /\ SameHolds(f, t) /\ t.deadline = f.deadline /\ t.timer = f.timer
          /\ t.epoch = f.epoch /\ t.forwardedKeys = f.forwardedKeys
          /\ t.forwardedButtons = f.forwardedButtons /\ t.released = f.released
          /\ t.clipboard = f.clipboard
      BY <2>1 DEF Shape, SameHolds
    <2>3. t.grabVirtual = f.grabVirtual /\ t.allowed = f.allowed /\ t.quiet = f.quiet
      BY <2>1 DEF Shape
    <2>4. Becomes(t)
      BY <1>2, <1>6, <2>1 DEF StartDrag
    <2> QED BY <1>4, <2>2, <2>3, <2>4
  <1>7. ASSUME QuietElapses PROVE IInv' /\ StepOK
    <2>1. PICK t : t = [f EXCEPT !.quiet = TRUE]
      OBVIOUS
    <2>2. /\ t \in Shape /\ SameHolds(f, t) /\ t.deadline = f.deadline /\ t.timer = f.timer
          /\ t.epoch = f.epoch /\ t.forwardedKeys = f.forwardedKeys
          /\ t.forwardedButtons = f.forwardedButtons /\ t.released = f.released
          /\ t.clipboard = f.clipboard
      BY <2>1 DEF Shape, SameHolds
    <2>3. t.grabVirtual = f.grabVirtual /\ t.allowed = f.allowed /\ t.quiet
      BY <2>1 DEF Shape
    <2>4. Becomes(t)
      BY <1>2, <1>7, <2>1 DEF QuietElapses
    <2> QED BY <1>4, <2>2, <2>3, <2>4
  <1>8. ASSUME ClipboardEnds PROVE IInv' /\ StepOK
    <2>1. PICK t : t = [f EXCEPT !.clipboard = Nothing]
      OBVIOUS
    <2>2. /\ t \in Shape /\ SameHolds(f, t) /\ t.deadline = f.deadline /\ t.timer = f.timer
          /\ t.epoch = f.epoch /\ t.forwardedKeys = f.forwardedKeys
          /\ t.forwardedButtons = f.forwardedButtons /\ t.released = f.released
          /\ t.clipboard = Nothing
      BY <2>1 DEF Shape, SameHolds
    <2>3. t.grabVirtual = f.grabVirtual /\ t.allowed = f.allowed /\ t.quiet = f.quiet
      BY <2>1 DEF Shape
    <2>4. Becomes(t)
      BY <1>2, <1>8, <2>1 DEF ClipboardEnds
    <2> QED BY <1>4, <2>2, <2>3, <2>4
  <1>9. ASSUME NEW epoch \in 1..MaxEpoch, ClipboardOffer(epoch) PROVE IInv' /\ StepOK
    <2>1. PICK t : t = [f EXCEPT !.clipboard = epoch]
      OBVIOUS
    <2>2. epoch \in Nat /\ epoch = f.epoch /\ f.allowed
      BY <1>3, <1>9, Times DEF ClipboardOffer, SamePermission
    <2>3. /\ t \in Shape /\ SameHolds(f, t) /\ t.deadline = f.deadline /\ t.timer = f.timer
          /\ t.epoch = f.epoch /\ t.forwardedKeys = f.forwardedKeys
          /\ t.forwardedButtons = f.forwardedButtons /\ t.released = f.released
          /\ t.clipboard = epoch
      BY <2>1, <2>2 DEF Shape, SameHolds
    <2>4. t.grabVirtual = f.grabVirtual /\ t.allowed = f.allowed /\ t.quiet = f.quiet
      BY <2>1 DEF Shape
    <2>5. Becomes(t)
      BY <1>2, <1>9, <2>1 DEF ClipboardOffer
    <2> QED BY <1>4, <2>2, <2>3, <2>4, <2>5
  <1> QED BY <1>5, <1>6, <1>7, <1>8, <1>9

\* Time passes for the deadlines and for the ages alike.
LEMMA TickKeeps == ASSUME IInv, Tick PROVE IInv' /\ StepOK
  <1> DEFINE earlier(t) == IF t = Nothing THEN t ELSE t - 1
             later(t) == IF t = Nothing THEN Nothing ELSE t + 1
  <1>1. /\ seat \in Shape /\ seat.epoch \in 1..MaxEpoch
        /\ age \in [Inputs -> Time] /\ orphans \subseteq Buttons
    BY SeatIsShape DEF IInv, TypeOK
  <1>2. /\ seat.timer \in Nat /\ seat.timer # 0
        /\ seat.deadline \in [Inputs -> Time]
    BY <1>1 DEF Tick, Shape, Time
  <1>3. Found.timer = seat.timer /\ Found \in Shape
    BY FoundIs DEF SameTimes
  <1>4. PICK timer : timer = earlier(seat.timer)
    OBVIOUS
  <1>5. PICK deadline : deadline = [i \in Inputs |-> earlier(seat.deadline[i])]
    OBVIOUS
  <1>6. timer \in Nat /\ timer = seat.timer - 1 /\ timer # Nothing
    BY <1>2, <1>4, Times
  <1>7. \A i \in Inputs : seat.deadline[i] # Nothing =>
            seat.deadline[i] \in Nat /\ seat.timer <= seat.deadline[i]
    BY <1>2 DEF IInv, HoldInv, Time
  <1>8. \A i \in Inputs :
            /\ seat.deadline[i] = Nothing => deadline[i] = Nothing
            /\ seat.deadline[i] # Nothing => /\ deadline[i] = seat.deadline[i] - 1
                                             /\ deadline[i] \in Nat /\ deadline[i] # Nothing
                                             /\ timer <= deadline[i]
    BY <1>2, <1>5, <1>6, <1>7, Times
  <1>9. deadline \in [Inputs -> Time] /\ timer \in Time
    BY <1>5, <1>6, <1>8 DEF Time
  <1>10. PICK t : t = [[seat EXCEPT !.released = {}] EXCEPT !.timer = timer, !.deadline = deadline]
    OBVIOUS
  <1>11. /\ t \in Shape /\ SamePermission(seat, t) /\ SameHolds(seat, t) /\ SameDrag(seat, t)
         /\ t.timer = timer /\ t.deadline = deadline /\ t.released = {}
         /\ t.forwardedKeys = seat.forwardedKeys /\ t.forwardedButtons = seat.forwardedButtons
    BY <1>1, <1>9, <1>10 DEF Shape, SamePermission, SameHolds, SameDrag
  <1>12. seat' = t
    <2>1. seat' = [Found EXCEPT !.timer = earlier(@), !.deadline = deadline]
      BY <1>5 DEF Tick
    <2>2. seat' = [Found EXCEPT !.timer = earlier(seat.timer), !.deadline = deadline]
      BY <1>3, <2>1 DEF Shape
    <2> QED BY <1>4, <1>10, <2>2 DEF Found
  <1>13. /\ age' = [i \in Inputs |-> later(age[i])] /\ orphans' = orphans
    BY DEF Tick
  <1>14. \A i \in Inputs :
            /\ age[i] = Nothing => age'[i] = Nothing
            /\ age[i] # Nothing => /\ age[i] \in Nat /\ age'[i] = age[i] + 1
                                   /\ age'[i] \in Nat /\ age'[i] # Nothing
    BY <1>1, <1>13, Times DEF Time
  <1>15. t.epoch = seat.epoch /\ t.clipboard = seat.clipboard
    BY <1>11 DEF SamePermission
  <1>16. t \in Seat
    BY <1>1, <1>11, <1>15, ShapeIsSeat DEF IInv, ClipboardIsGated
  <1>17. TypeOK'
    <2>1. age' \in [Inputs -> Time]
      BY <1>13, <1>14 DEF Time
    <2> QED BY <1>1, <1>12, <1>13, <1>16, <2>1 DEF TypeOK
  <1>18. /\ KeyHeld(t) = KeyHeld(seat) /\ ButtonHeld(t) = ButtonHeld(seat) /\ Hinted(t) = Hinted(seat)
         /\ AgentHolds(t) = AgentHolds(seat) /\ (HumanHeld(t) <=> HumanHeld(seat))
    BY <1>11, HoldsOfSame
  <1>19. HoldInv'
    <2>1. SUFFICES ASSUME NEW i \in Inputs
                   PROVE  /\ age'[i] # Nothing <=> i \in AgentHolds(t)
                          /\ deadline[i] # Nothing <=> i \in AgentHolds(t)
                          /\ i \in AgentHolds(t) => /\ timer # Nothing /\ timer <= deadline[i]
                                                    /\ age'[i] + deadline[i] <= Max(HoldTimes)
      BY <1>11, <1>12 DEF HoldInv
    <2>2. /\ age[i] # Nothing <=> i \in AgentHolds(seat)
          /\ seat.deadline[i] # Nothing <=> i \in AgentHolds(seat)
          /\ i \in AgentHolds(seat) => age[i] + seat.deadline[i] <= Max(HoldTimes)
      BY DEF IInv, HoldInv
    <2>3. i \in AgentHolds(seat) => age'[i] + deadline[i] = age[i] + seat.deadline[i]
      BY <1>7, <1>8, <1>14, <2>2
    <2> QED BY <1>6, <1>8, <1>14, <1>18, <2>2, <2>3
  <1>20. HeldInv'
    BY <1>11, <1>12, <1>13, <1>18 DEF IInv, HeldInv, KeysAreAccounted, ButtonsAreAccounted
  <1>21. HumanInv' /\ ClipboardIsGated'
    BY <1>11, <1>12, <1>18 DEF IInv, HumanInv, ClipboardIsGated, SamePermission
  <1>22. ReleasedInv'
    BY <1>11, <1>12 DEF ReleasedInv
  <1>23. GrabInv'
    BY <1>11, <1>12, <1>13 DEF IInv, GrabInv, SameHolds, SameDrag
  <1>24. StepOK
    BY <1>12, <1>15 DEF StepOK
  <1> QED BY <1>17, <1>19, <1>20, <1>21, <1>22, <1>23, <1>24 DEF IInv

\* A handler that is not run.
LEMMA StutterKeeps == ASSUME IInv, UNCHANGED vars PROVE IInv' /\ StepOK
  <1>1. seat' = seat /\ age' = age /\ orphans' = orphans
    BY DEF vars
  <1>2. TypeOK' /\ HoldInv' /\ StepOK
    BY <1>1 DEF IInv, TypeOK, HoldInv, StepOK
  <1>3. HeldInv' /\ HumanInv' /\ ReleasedInv' /\ GrabInv' /\ ClipboardIsGated'
    BY <1>1 DEF IInv, HeldInv, KeysAreAccounted, ButtonsAreAccounted, HumanInv, ReleasedInv,
                GrabInv, ClipboardIsGated
  <1> QED BY <1>2, <1>3 DEF IInv

LEMMA InitIInv == Init => IInv
  <1> SUFFICES ASSUME Init PROVE IInv
    OBVIOUS
  <1>1. PICK h \in HoldTimes :
            seat = [allowed |-> FALSE, epoch |-> 1, quiet |-> TRUE, hold |-> h,
                    deadline |-> [i \in Inputs |-> Nothing], timer |-> Nothing,
                    heldKeys |-> [d \in Keyboards \cup {Agent} |-> {}],
                    depressed |-> [d \in Keyboards |-> {}],
                    forwardedKeys |-> {},
                    heldButtons |-> [d \in Mice \cup {Agent} |-> {}],
                    forwardedButtons |-> {}, grabVirtual |-> FALSE, clipboard |-> Nothing,
                    grab |-> Nothing, drag |-> "none", touched |-> FALSE,
                    released |-> {}]
    BY DEF Init
  <1>2. age = [i \in Inputs |-> Nothing] /\ orphans = {}
    BY DEF Init
  <1>3. 1 \in 1..MaxEpoch
    BY EpochAssumption
  <1>4. seat \in Seat
    BY <1>1, <1>3 DEF Seat, Time
  <1>5. TypeOK
    BY <1>2, <1>4 DEF TypeOK, Time
  <1>6. /\ \A d \in Keyboards \cup {Agent} : seat.heldKeys[d] = {}
        /\ \A d \in Mice \cup {Agent} : seat.heldButtons[d] = {}
        /\ seat.forwardedKeys = {} /\ seat.forwardedButtons = {} /\ seat.released = {}
        /\ \A i \in Inputs : seat.deadline[i] = Nothing
        /\ seat.clipboard = Nothing
    BY <1>1
  <1>7. KeyHeld(seat) = {} /\ ButtonHeld(seat) = {} /\ AgentHolds(seat) = {}
    BY <1>6 DEF KeyHeld, ButtonHeld, AgentHolds
  <1>8. HoldInv
    BY <1>2, <1>6, <1>7 DEF HoldInv
  <1>9. HeldInv /\ ReleasedInv /\ GrabInv /\ ClipboardIsGated
    BY <1>6, <1>7 DEF HeldInv, KeysAreAccounted, ButtonsAreAccounted, ReleasedInv, GrabInv,
                      ClipboardIsGated
  <1>10. ~seat.allowed
    BY <1>1
  <1>11. HumanInv
    BY <1>7, <1>10 DEF HumanInv
  <1> QED BY <1>5, <1>8, <1>9, <1>11 DEF IInv

LEMMA IInvNext == IInv /\ [Next]_vars => IInv' /\ StepOK
  <1> SUFFICES ASSUME IInv, [Next]_vars PROVE IInv' /\ StepOK
    OBVIOUS
  <1>1. CASE Gate
    BY <1>1, AcquireKeeps, PlainSteps, RevokeKeeps DEF Gate, Revoke
  <1>2. CASE AgentInput
    BY <1>2, AgentKeyKeeps, AgentButtonKeeps DEF AgentInput
  <1>3. CASE HumanInput
    BY <1>3, HumanKeyKeeps, HumanModifiersKeeps, HumanButtonKeeps, HumanTouchKeeps,
       HumanActivityKeeps, HumanUnplugKeeps DEF HumanInput
  <1>4. CASE StartDrag
    BY <1>4, PlainSteps
  <1>5. CASE QuietElapses
    BY <1>5, PlainSteps
  <1>6. CASE HoldTimeoutExpired
    BY <1>6, RevokeKeeps DEF HoldTimeoutExpired
  <1>7. CASE Tick
    BY <1>7, TickKeeps
  <1>8. CASE UNCHANGED vars
    BY <1>8, StutterKeeps
  <1> QED BY <1>1, <1>2, <1>3, <1>4, <1>5, <1>6, <1>7, <1>8 DEF Next

----------------------------------------------------------------------------

\* The inductive invariant, of every behaviour of the seat.
THEOREM SeatInvariant == Spec => []IInv
  BY InitIInv, IInvNext, PTL DEF Spec

\* What the application was told of the keys is what is held, but for the
\* bindings that are kept from it (handle_key_event, release_orphaned_keys).
THEOREM KeysAccounted == Spec => []KeysAreAccounted
  <1>1. IInv => KeysAreAccounted
    BY DEF IInv, HeldInv
  <1> QED BY <1>1, SeatInvariant, PTL

\* The same of the buttons, but for those of a mouse that was pulled out
\* (handle_cursor_button, handle_pointer_destroy).
THEOREM ButtonsAccounted == Spec => []ButtonsAreAccounted
  <1>1. IInv => ButtonsAreAccounted
    BY DEF IInv, HeldInv
  <1> QED BY <1>1, SeatInvariant, PTL

\* No hold of the agent outlives the longest hold time: the timer is armed as
\* long as the agent holds anything, and no deadline is later than the hold's
\* first press allows (key_deadlines, schedule_hold_timeout).
THEOREM HoldsBounded == Spec => []HoldsAreBounded
  <1>1. ASSUME IInv PROVE HoldsAreBounded
    <2>1. seat \in Shape /\ age \in [Inputs -> Time] /\ TypeOK
      BY <1>1, SeatIsShape DEF IInv, TypeOK
    <2>2. ASSUME NEW i \in AgentHolds(seat)
          PROVE  seat.timer # Nothing /\ age[i] + seat.timer <= Max(HoldTimes)
      <3>1. i \in Inputs
        BY <2>1, HoldsTyped
      <3>2. /\ age[i] # Nothing /\ seat.deadline[i] # Nothing
            /\ seat.timer # Nothing /\ seat.timer <= seat.deadline[i]
            /\ age[i] + seat.deadline[i] <= Max(HoldTimes)
        BY <1>1, <3>1 DEF IInv, HoldInv
      <3>3. age[i] \in Nat /\ seat.deadline[i] \in Nat /\ seat.timer \in Nat
        BY <2>1, <3>1, <3>2 DEF Shape, Time
      <3>4. Max(HoldTimes) \in Nat
        BY Times, Longest
      <3> QED BY <3>2, <3>3, <3>4
    <2> QED BY <2>1, <2>2 DEF HoldsAreBounded
  <1> QED BY <1>1, SeatInvariant, PTL

\* The agent's text can be pasted only while the permission it was offered in
\* lasts (cg_clipboard_offer, control_revoke).
THEOREM ClipboardGated == Spec => []ClipboardIsGated
  <1>1. IInv => ClipboardIsGated
    BY DEF IInv
  <1> QED BY <1>1, SeatInvariant, PTL

\* No step lets go of what a human holds (handle_keyboard_group_key records the
\* press before it reports it).
THEOREM HumanSurvives == Spec => HumanHoldsSurvive
  <1>1. IInv /\ [Next]_vars => [seat'.released \cap (HumanKeys(seat') \cup HumanButtons(seat')) = {}]_vars
    <2> SUFFICES ASSUME IInv, [Next]_vars
                 PROVE  seat'.released \cap (HumanKeys(seat') \cup HumanButtons(seat')) = {}
      OBVIOUS
    <2>1. IInv'
      BY IInvNext
    <2>2. seat' \in Shape /\ seat'.released \cap (KeyHeld(seat') \cup ButtonHeld(seat')) = {}
      BY <2>1, SeatIsShape DEF IInv, TypeOK, ReleasedInv
    <2> QED BY <2>2, HoldsTyped
  <1> QED BY <1>1, SeatInvariant, PTL DEF Spec, HumanHoldsSurvive

\* After control_revoke the application believes down what humans hold, and
\* nothing else.
THEOREM Releases == Spec => RevocationReleases
  <1> DEFINE Released ==
          Revocation =>
            /\ AgentHolds(seat') = {}
            /\ seat'.forwardedKeys \subseteq HumanKeys(seat') \cup Hinted(seat')
            /\ seat'.forwardedButtons \subseteq HumanButtons(seat')
  <1>1. IInv /\ [Next]_vars => [Released]_vars
    <2> SUFFICES ASSUME IInv, [Next]_vars, Revocation
                 PROVE  /\ AgentHolds(seat') = {}
                        /\ seat'.forwardedKeys \subseteq HumanKeys(seat') \cup Hinted(seat')
                        /\ seat'.forwardedButtons \subseteq HumanButtons(seat')
      OBVIOUS
    <2>1. IInv' /\ StepOK
      BY IInvNext
    <2>2. AgentHolds(seat') = {} /\ orphans' = {}
      BY <2>1 DEF StepOK, Revocation
    <2>3. /\ seat' \in Shape
          /\ seat'.forwardedKeys \subseteq KeyHeld(seat') \cup Hinted(seat')
          /\ seat'.forwardedButtons \subseteq ButtonHeld(seat') \cup orphans'
      BY <2>1, SeatIsShape DEF IInv, TypeOK, HeldInv, KeysAreAccounted, ButtonsAreAccounted
    <2>4. /\ KeyHeld(seat') = HumanKeys(seat') \cup seat'.heldKeys[Agent]
          /\ ButtonHeld(seat') = HumanButtons(seat') \cup seat'.heldButtons[Agent]
      BY <2>3, HoldsTyped
    <2> QED BY <2>2, <2>3, <2>4 DEF AgentHolds
  <1> QED BY <1>1, SeatInvariant, PTL DEF Spec, RevocationReleases

\* A revocation cancels the agent's drag before it lets go of the button, so
\* that nothing is dropped (control_revoke, pointer_grab_virtual).
THEOREM NeverDrops == Spec => RevocationNeverDrops
  <1> DEFINE Cancelled ==
          Revocation /\ seat.drag = "active" /\ seat.grab.by = Agent
              /\ seat.grab.button \in seat.heldButtons[Agent] /\ orphans = {}
          => seat'.drag = "cancelled"
  <1>1. IInv /\ [Next]_vars => [Cancelled]_vars
    <2> SUFFICES ASSUME IInv, [Next]_vars, Revocation, seat.drag = "active",
                        seat.grab.button \in seat.heldButtons[Agent], orphans = {}
                 PROVE  seat'.drag = "cancelled"
      OBVIOUS
    <2>1. seat.grabVirtual
      BY DEF IInv, GrabInv
    <2> QED BY <2>1, IInvNext DEF StepOK, Revocation
  <1> QED BY <1>1, SeatInvariant, PTL DEF Spec, RevocationNeverDrops

=============================================================================
