------------------------ MODULE WindowScope_proofs ------------------------
(***************************************************************************)
(* Theorems about WindowScope, for every set of windows, every number of   *)
(* changes and every length of a text.  The argument: every version in the *)
(* stream of events names a scene that was published whole (Sound), so the *)
(* scene in use is one of those (SceneInv); the leases are those of the    *)
(* scene they were made for (LeaseInv); and the scene a codepoint carries  *)
(* is the one its operation named unless another request replaced it       *)
(* (TextInv), which the micro-host compares after it has published.        *)
(***************************************************************************)
EXTENDS WindowScope, TLAPS

Focuses == Windows \cup {NoWindow}

NumberedScenes ==
    [windows : SUBSET Windows, focus : Focuses, arrangement : Arrangements, version : Nat]

Requests ==
    [kind : {"revoke"}]
    \cup [kind : {"acquire"}, epoch : Int, geometry : Nat]
    \cup [kind : {"codepoint"}, epoch : Int, geometry : Nat, named : Nat, replaced : BOOLEAN]

Events ==
    [kind : {"windows"}, version : Nat, windows : SUBSET Windows]
    \cup [kind : {"done"}, version : Nat, focus : Focuses, arrangement : Arrangements]
    \cup [kind : {"state"}, epoch : Int]

Texts == [left : Int, epoch : Int, named : Nat, replaced : BOOLEAN]

HostTyped ==
    /\ actual \in Scenes /\ previous \in Scenes
    /\ version \in Nat \ {0} /\ hostEpoch \in Int /\ allowed \in BOOLEAN
    /\ published \in Seq(Scenes) /\ Len(published) = version /\ published[version] = previous

LinkTyped ==
    /\ requests \in Seq(Requests)
    /\ events \in Seq(Events)

DaemonTyped ==
    /\ phase \in {"dispatch", "serve"}
    /\ pending \in NumberedScenes /\ scene \in NumberedScenes
    /\ pending.version \in 1..version /\ scene.version \in 1..version
    /\ known \in Int /\ epoch \in Int
    /\ sceneVersion \in 0..version
    /\ leases \subseteq Windows /\ denied \subseteq Windows /\ focused \in Focuses
    /\ created \in BOOLEAN
    /\ geometry \in 0..version
    /\ text # NoText => text \in Texts

TypeInv == HostTyped /\ LinkTyped /\ DaemonTyped

\* What an event says of a version or an epoch is so.
Truthful(e, scenes, revoked) ==
    /\ e.kind = "windows" => /\ e.version \in 1..Len(scenes)
                             /\ e.windows = scenes[e.version].windows
    /\ e.kind = "done" => /\ e.version \in 1..Len(scenes)
                          /\ e.focus = scenes[e.version].focus
                          /\ e.arrangement = scenes[e.version].arrangement
    /\ e.kind = "state" => e.epoch <= revoked

\* The windows of a scene come right before the end of its description: they
\* are in the queue q, or have been dispatched to the description d.
Introduced(q, i, d, scenes) ==
    IF i = 1
    THEN d.version = q[1].version /\ d.windows = scenes[q[1].version].windows
    ELSE q[i - 1].kind = "windows" /\ q[i - 1].version = q[i].version

Sound(q, d, scenes, revoked) ==
    \A i \in 1..Len(q) :
        /\ Truthful(q[i], scenes, revoked)
        /\ q[i].kind = "done" => Introduced(q, i, d, scenes)

EventInv == Sound(events, pending, published, hostEpoch)

\* The scene in use is the published one of its number, whole.
SceneInv ==
    /\ scene.windows = published[scene.version].windows
    /\ scene.focus = published[scene.version].focus
    /\ scene.arrangement = published[scene.version].arrangement
    /\ known <= hostEpoch

\* The leases are those of the scene they were made for.
LeaseInv ==
    /\ created => sceneVersion # 0
    /\ phase = "serve" => sceneVersion = scene.version
    /\ leases = IF created THEN published[sceneVersion].windows \ denied ELSE {}

\* A codepoint carries the scene its operation named unless another request
\* has replaced it.
TextInv ==
    /\ text # NoText /\ ~text.replaced => text.named = geometry
    /\ \A i \in 1..Len(requests) :
        requests[i].kind = "codepoint" /\ ~requests[i].replaced =>
            requests[i].named = requests[i].geometry

\* ... and lands in that scene.
LandedInv ==
    ~landed.replaced => landed.named = 0 \/ /\ landed.named \in 1..version
                                            /\ landed.in = published[landed.named]

\* Every scene of a is the same in b, which may have more of them.
Grown(a, b) ==
    /\ Len(a) <= Len(b)
    /\ \A v \in 1..Len(a) : b[v] = a[v]

----------------------------------------------------------------------------
(* The prover's view of records, sequences and constants.                  *)

LEMMA Lengths == TextLength \in Nat /\ MaxAsked \in Nat /\ MaxChanges \in Nat
  BY ScopeAssumption

LEMMA SceneParts ==
    ASSUME NEW s \in Scenes
    PROVE  s.windows \in SUBSET Windows /\ s.focus \in Focuses /\ s.arrangement \in Arrangements
  BY DEF Scenes, Focuses

LEMMA WholeScene ==
    ASSUME NEW s \in NumberedScenes, NEW t \in Scenes, NEW a \in Scenes,
           s.windows = t.windows, s.focus = t.focus, s.arrangement = t.arrangement
    PROVE  [f \in DOMAIN a |-> s[f]] = t
  BY DEF Scenes, NumberedScenes

LEMMA TailIndex ==
    ASSUME NEW S, NEW q \in Seq(S), q # <<>>
    PROVE  /\ 1 \in 1..Len(q) /\ Head(q) = q[1] /\ Head(q) \in S /\ Tail(q) \in Seq(S)
           /\ Len(Tail(q)) \in Nat
           /\ \A i \in 1..Len(Tail(q)) : i + 1 \in 1..Len(q) /\ Tail(q)[i] = q[i + 1]
  OBVIOUS

LEMMA AppendIndex ==
    ASSUME NEW S, NEW q \in Seq(S), NEW m \in S
    PROVE  /\ Append(q, m) \in Seq(S) /\ Append(q, m) = q \o <<m>>
           /\ Len(Append(q, m)) = Len(q) + 1 /\ Len(q) \in Nat
           /\ Append(q, m)[Len(q) + 1] = m
           /\ \A i \in 1..Len(q) : Append(q, m)[i] = q[i]
           /\ \A i \in 1..(Len(q) + 1) : i \in 1..Len(q) \/ i = Len(q) + 1
  OBVIOUS

----------------------------------------------------------------------------
(* The stream of events.                                                   *)

\* What was true of an event stays true when scenes and revocations are added.
LEMMA SoundGrows ==
    ASSUME NEW q \in Seq(Events), NEW d, NEW a \in Seq(Scenes), NEW b \in Seq(Scenes), Grown(a, b),
           NEW e \in Int, NEW f \in Int, e <= f, Sound(q, d, a, e)
    PROVE  Sound(q, d, b, f)
  <1>1. SUFFICES ASSUME NEW i \in 1..Len(q)
                 PROVE  /\ Truthful(q[i], b, f)
                        /\ q[i].kind = "done" => Introduced(q, i, d, b)
    BY DEF Sound
  <1>2. Truthful(q[i], a, e) /\ (q[i].kind = "done" => Introduced(q, i, d, a))
    BY DEF Sound
  <1>3. q[i] \in Events /\ Len(a) \in Nat /\ Len(b) \in Nat
    OBVIOUS
  <1>4. \A v \in 1..Len(a) : v \in 1..Len(b) /\ b[v] = a[v]
    BY <1>3 DEF Grown
  <1>5. q[i].kind = "state" => q[i].epoch \in Int
    BY <1>3 DEF Events
  <1>6. Truthful(q[i], b, f)
    BY <1>2, <1>4, <1>5 DEF Truthful
  <1>7. q[i].kind = "done" => Introduced(q, i, d, b)
    <2>1. SUFFICES ASSUME q[i].kind = "done" PROVE Introduced(q, i, d, b)
      OBVIOUS
    <2>2. Introduced(q, i, d, a) /\ q[i].version \in 1..Len(a)
      BY <1>2, <2>1 DEF Truthful
    <2> QED BY <2>2, <1>4 DEF Introduced
  <1> QED BY <1>6, <1>7

\* An event that is not the end of a description can be added alone.
LEMMA SoundAppend ==
    ASSUME NEW q \in Seq(Events), NEW d, NEW a \in Seq(Scenes), NEW e \in Int, Sound(q, d, a, e),
           NEW m \in Events, Truthful(m, a, e),
           m.kind = "done" => /\ q # <<>> /\ q[Len(q)].kind = "windows"
                              /\ q[Len(q)].version = m.version
    PROVE  Sound(Append(q, m), d, a, e)
  <1> DEFINE r == Append(q, m)
  <1>1. /\ Len(r) = Len(q) + 1 /\ Len(q) \in Nat /\ r[Len(q) + 1] = m
        /\ \A i \in 1..Len(q) : r[i] = q[i]
        /\ \A i \in 1..(Len(q) + 1) : i \in 1..Len(q) \/ i = Len(q) + 1
    BY AppendIndex
  <1>2. q # <<>> => Len(q) \in 1..Len(q) /\ Len(q) + 1 # 1
    BY <1>1
  <1> HIDE DEF r
  <1>3. ASSUME NEW i \in 1..Len(r), i \in 1..Len(q)
        PROVE  /\ Truthful(r[i], a, e)
               /\ r[i].kind = "done" => Introduced(r, i, d, a)
    <2>1. r[i] = q[i] /\ Truthful(q[i], a, e) /\ (q[i].kind = "done" => Introduced(q, i, d, a))
      BY <1>1, <1>3 DEF Sound
    <2>2. i = 1 \/ i - 1 \in 1..Len(q)
      BY <1>1, <1>3
    <2>3. i = 1 \/ r[i - 1] = q[i - 1]
      BY <1>1, <2>2
    <2>4. i = 1 => r[1] = q[1]
      BY <2>1
    <2> QED BY <2>1, <2>3, <2>4 DEF Introduced
  <1>4. ASSUME NEW i \in 1..Len(r), i = Len(q) + 1
        PROVE  /\ Truthful(r[i], a, e)
               /\ r[i].kind = "done" => Introduced(r, i, d, a)
    <2>1. r[i] = m
      BY <1>1, <1>4
    <2>2. SUFFICES ASSUME m.kind = "done" PROVE Introduced(r, i, d, a)
      BY <2>1
    <2>3. i # 1 /\ i - 1 = Len(q) /\ r[i - 1] = q[Len(q)]
      BY <1>1, <1>2, <1>4, <2>2
    <2> QED BY <2>1, <2>2, <2>3 DEF Introduced
  <1>5. Sound(r, d, a, e)
    BY <1>1, <1>3, <1>4 DEF Sound
  <1> QED BY <1>5 DEF r

LEMMA SoundState ==
    ASSUME NEW q \in Seq(Events), NEW d, NEW a \in Seq(Scenes), NEW e \in Int, Sound(q, d, a, e),
           NEW f \in Int, f <= e
    PROVE  q \o <<StateEvent(f)>> \in Seq(Events) /\ Sound(q \o <<StateEvent(f)>>, d, a, e)
  <1>1. StateEvent(f) \in Events /\ StateEvent(f).kind = "state" /\ StateEvent(f).epoch = f
    BY DEF StateEvent, Events
  <1>2. PICK m \in Events : m = StateEvent(f)
    BY <1>1
  <1>3. Truthful(m, a, e)
    BY <1>1, <1>2 DEF Truthful
  <1>4. Append(q, m) \in Seq(Events) /\ Sound(Append(q, m), d, a, e)
    BY <1>1, <1>2, <1>3, SoundAppend, AppendIndex
  <1>5. Append(q, m) = q \o <<m>>
    BY AppendIndex
  <1> QED BY <1>2, <1>4, <1>5

LEMMA SoundScene ==
    ASSUME NEW q \in Seq(Events), NEW d, NEW a \in Seq(Scenes), NEW e \in Int, Sound(q, d, a, e),
           NEW v \in 1..Len(a)
    PROVE  q \o SceneEvents(a[v], v) \in Seq(Events) /\ Sound(q \o SceneEvents(a[v], v), d, a, e)
  <1> DEFINE s == a[v]
             w == [kind |-> "windows", version |-> v, windows |-> s.windows]
             t == [kind |-> "done", version |-> v, focus |-> s.focus, arrangement |-> s.arrangement]
  <1>1. s \in Scenes /\ v \in Nat
    OBVIOUS
  <1>2. w \in Events /\ t \in Events
    BY <1>1, SceneParts DEF Events
  <1>3. Truthful(w, a, e) /\ Truthful(t, a, e) /\ w.kind = "windows" /\ w.version = v /\ t.version = v
    BY DEF Truthful
  <1> HIDE DEF w, t
  <1>4. Append(q, w) \in Seq(Events) /\ Sound(Append(q, w), d, a, e)
    BY <1>2, <1>3, SoundAppend, AppendIndex
  <1>5. Append(q, w) # <<>> /\ Append(q, w)[Len(Append(q, w))] = w
    BY <1>2, AppendIndex
  <1>6. PICK p \in Seq(Events) : p = Append(q, w)
    BY <1>4
  <1>7. Append(p, t) \in Seq(Events) /\ Sound(Append(p, t), d, a, e)
    BY <1>2, <1>3, <1>4, <1>5, <1>6, SoundAppend, AppendIndex
  <1>8. Append(p, t) = q \o <<w, t>>
    BY <1>2, <1>6
  <1>9. SceneEvents(a[v], v) = <<w, t>>
    BY DEF SceneEvents, w, t
  <1> QED BY <1>7, <1>8, <1>9

\* A publication numbers the scene as it is, and tells what it published.
LEMMA PublishKeeps ==
    ASSUME HostTyped, Publish
    PROVE  /\ previous' = actual /\ version' = NewVersion
           /\ version' \in Nat \ {0} /\ version <= version'
           /\ published' \in Seq(Scenes) /\ Len(published') = version'
           /\ published'[version'] = actual
           /\ Grown(published, published')
  <1>1. /\ actual \in Scenes /\ version \in Nat \ {0} /\ published \in Seq(Scenes)
        /\ Len(published) = version /\ published[version] = previous
        /\ previous' = actual /\ version' = NewVersion
    BY DEF HostTyped, Publish
  <1>2. CASE actual # previous
    <2>1. version' = version + 1 /\ published' = Append(published, actual)
      BY <1>2 DEF Publish, NewVersion
    <2> QED BY <1>1, <2>1, AppendIndex DEF Grown
  <1>3. CASE actual = previous
    <2>1. version' = version /\ published' = published
      BY <1>3 DEF Publish, NewVersion
    <2> QED BY <1>1, <1>3, <2>1 DEF Grown
  <1> QED BY <1>2, <1>3

LEMMA PublishSound ==
    ASSUME HostTyped, LinkTyped, EventInv, Publish
    PROVE  /\ events \o NewEvents \in Seq(Events)
           /\ Sound(events \o NewEvents, pending, published', hostEpoch)
  <1>1. /\ events \in Seq(Events) /\ hostEpoch \in Int /\ published \in Seq(Scenes)
        /\ version \in Nat /\ actual \in Scenes
    BY DEF HostTyped, LinkTyped
  <1>2. /\ published' \in Seq(Scenes) /\ Grown(published, published')
        /\ Len(published') = version' /\ published'[version'] = actual /\ version' = NewVersion
        /\ version' \in Nat \ {0}
    BY PublishKeeps
  <1>3. PICK b \in Seq(Scenes) : b = published'
    BY <1>2
  <1>4. Sound(events, pending, b, hostEpoch)
    BY <1>1, <1>2, <1>3, SoundGrows DEF EventInv
  <1>5. CASE actual # previous
    <2>1. version + 1 \in 1..Len(b) /\ b[version + 1] = actual
      BY <1>1, <1>2, <1>3, <1>5 DEF NewVersion
    <2>2. NewEvents = SceneEvents(b[version + 1], version + 1)
      BY <1>5, <2>1 DEF NewEvents
    <2> QED BY <1>1, <1>3, <1>4, <2>1, <2>2, SoundScene
  <1>6. CASE actual = previous
    <2>1. NewEvents = <<>>
      BY <1>6 DEF NewEvents
    <2>2. events \o <<>> = events
      BY <1>1
    <2> QED BY <1>1, <1>3, <1>4, <2>1, <2>2
  <1> QED BY <1>5, <1>6

----------------------------------------------------------------------------
(* Types.                                                                  *)

LEMMA TypeInit == Init => TypeInv /\ EventInv /\ SceneInv /\ LeaseInv /\ TextInv /\ LandedInv
  <1> SUFFICES ASSUME Init PROVE TypeInv /\ EventInv /\ SceneInv /\ LeaseInv /\ TextInv /\ LandedInv
    OBVIOUS
  <1>1. PICK s \in Scenes :
          /\ actual = s /\ previous = s /\ published = <<s>>
          /\ scene = [windows |-> s.windows, focus |-> s.focus, arrangement |-> s.arrangement,
                      version |-> 1]
          /\ pending = scene
    BY DEF Init
  <1>2. /\ published \in Seq(Scenes) /\ Len(published) = 1 /\ published[1] = s
    BY <1>1
  <1>3. scene \in NumberedScenes
    BY <1>1, SceneParts DEF NumberedScenes
  <1>4. /\ scene.version = 1 /\ scene.windows = s.windows /\ scene.focus = s.focus
        /\ scene.arrangement = s.arrangement
    BY <1>1
  <1>5. /\ version = 1 /\ hostEpoch = 1 /\ requests = <<>> /\ events = <<>>
        /\ phase = "dispatch" /\ known = 1 /\ epoch = 1 /\ sceneVersion = 0 /\ leases = {}
        /\ focused = NoWindow /\ denied = {} /\ geometry = 0 /\ text = NoText
        /\ landed = NoLanding
    BY DEF Init
  <1>13. allowed \in BOOLEAN /\ created \in BOOLEAN /\ ~created
    BY DEF Init
  <1>6. HostTyped
    BY <1>1, <1>2, <1>5, <1>13 DEF HostTyped
  <1>7. LinkTyped /\ EventInv
    BY <1>5 DEF LinkTyped, EventInv, Sound
  <1>8. DaemonTyped
    BY <1>1, <1>3, <1>4, <1>5, <1>13 DEF DaemonTyped, Focuses
  <1>9. SceneInv
    BY <1>2, <1>4, <1>5 DEF SceneInv
  <1>10. LeaseInv
    BY <1>5, <1>13 DEF LeaseInv
  <1>11. TextInv
    BY <1>5 DEF TextInv
  <1>12. LandedInv
    BY <1>5 DEF LandedInv, NoLanding
  <1> QED BY <1>6, <1>7, <1>8, <1>9, <1>10, <1>11, <1>12 DEF TypeInv

----------------------------------------------------------------------------
(* The micro-host's steps.                                                 *)

Inv == TypeInv /\ EventInv /\ SceneInv /\ LeaseInv /\ TextInv /\ LandedInv

\* What the micro-host does leaves the daemon's half as it was.
LEMMA DaemonKept ==
    ASSUME HostTyped, DaemonTyped, SceneInv, LeaseInv,
           published' \in Seq(Scenes), Len(published') = version', version' \in Nat, version <= version',
           Grown(published, published'), hostEpoch' \in Int, hostEpoch <= hostEpoch',
           UNCHANGED <<phase, sceneVars, scopeVars, seatVars>>
    PROVE  DaemonTyped' /\ SceneInv' /\ LeaseInv'
  <1>1. /\ UNCHANGED <<phase, pending, scene, known, sceneVersion, leases, focused>>
        /\ UNCHANGED <<epoch, denied, created, geometry, text>>
    BY DEF sceneVars, scopeVars, seatVars
  <1>2. version \in Nat /\ hostEpoch \in Int /\ Len(published) = version /\ known \in Int
    BY DEF HostTyped, DaemonTyped
  <1>3. scene.version \in 1..version /\ pending.version \in 1..version /\ sceneVersion \in 0..version
        /\ geometry \in 0..version
    BY DEF DaemonTyped
  <1>4. published'[scene.version] = published[scene.version]
        /\ (sceneVersion # 0 => published'[sceneVersion] = published[sceneVersion])
    BY <1>2, <1>3 DEF Grown
  <1>5. scene.version \in 1..version' /\ pending.version \in 1..version' /\ sceneVersion \in 0..version'
        /\ geometry \in 0..version'
    BY <1>2, <1>3
  <1>6. DaemonTyped'
    BY <1>1, <1>5 DEF DaemonTyped
  <1>7. SceneInv'
    BY <1>1, <1>2, <1>4 DEF SceneInv
  <1>8. LeaseInv'
    BY <1>1, <1>4 DEF LeaseInv
  <1> QED BY <1>6, <1>7, <1>8

\* A request less.
LEMMA RequestTaken ==
    ASSUME LinkTyped, TextInv, requests # <<>>, requests' = Tail(requests), UNCHANGED <<geometry, text>>
    PROVE  /\ requests' \in Seq(Requests) /\ TextInv'
           /\ Head(requests) \in Requests
           /\ Head(requests).kind = "codepoint" /\ ~Head(requests).replaced =>
                  Head(requests).named = Head(requests).geometry
  <1>1. requests \in Seq(Requests)
    BY DEF LinkTyped
  <1>2. /\ 1 \in 1..Len(requests) /\ Head(requests) = requests[1]
        /\ Head(requests) \in Requests /\ Tail(requests) \in Seq(Requests)
        /\ \A i \in 1..Len(Tail(requests)) : i + 1 \in 1..Len(requests)
                                             /\ Tail(requests)[i] = requests[i + 1]
    BY <1>1, TailIndex
  <1>3. PICK q \in Seq(Requests) : q = Tail(requests)
    BY <1>2
  <1>4. \A i \in 1..Len(q) : q[i].kind = "codepoint" /\ ~q[i].replaced => q[i].named = q[i].geometry
    BY <1>2, <1>3 DEF TextInv
  <1>5. TextInv'
    BY <1>3, <1>4 DEF TextInv
  <1> QED BY <1>2, <1>5 DEF TextInv

LEMMA ChangeKeeps == ASSUME Inv, Change PROVE Inv'
  <1>1. /\ UNCHANGED <<previous, version, hostEpoch, allowed, requests, events, published>>
        /\ UNCHANGED <<phase, sceneVars, scopeVars, seatVars>>
        /\ actual' \in Scenes /\ landed' = NoLanding
    BY DEF Change, linkVars
  <1>2. UNCHANGED <<pending, geometry, text>>
    BY <1>1 DEF sceneVars, seatVars
  <1>3. HostTyped' /\ LinkTyped'
    BY <1>1 DEF Inv, TypeInv, HostTyped, LinkTyped
  <1>4. Grown(published, published') /\ version \in Nat /\ hostEpoch \in Int /\ Len(published) = version
    BY <1>1 DEF Inv, TypeInv, HostTyped, Grown
  <1>5. DaemonTyped' /\ SceneInv' /\ LeaseInv'
    BY <1>1, <1>3, <1>4, DaemonKept DEF Inv, TypeInv, HostTyped
  <1>6. EventInv' /\ TextInv'
    BY <1>1, <1>2 DEF Inv, EventInv, TextInv
  <1>7. LandedInv'
    BY <1>1 DEF LandedInv, NoLanding
  <1> QED BY <1>3, <1>5, <1>6, <1>7 DEF Inv, TypeInv

LEMMA PublishIdleKeeps == ASSUME Inv, PublishIdle PROVE Inv'
  <1>1. /\ Publish /\ events' = events \o NewEvents
        /\ UNCHANGED <<actual, hostEpoch, allowed, requests, phase, sceneVars, scopeVars, seatVars>>
        /\ landed' = NoLanding
    BY DEF PublishIdle
  <1>2. UNCHANGED <<pending, geometry, text>>
    BY <1>1 DEF sceneVars, seatVars
  <1>3. HostTyped /\ LinkTyped /\ DaemonTyped /\ EventInv
    BY DEF Inv, TypeInv
  <1>4. /\ previous' = actual /\ version' \in Nat \ {0} /\ version <= version'
        /\ published' \in Seq(Scenes) /\ Len(published') = version' /\ published'[version'] = actual
        /\ Grown(published, published')
    BY <1>1, <1>3, PublishKeeps
  <1>5. events' \in Seq(Events) /\ Sound(events', pending, published', hostEpoch)
    BY <1>1, <1>3, PublishSound
  <1>6. HostTyped' /\ LinkTyped'
    BY <1>1, <1>3, <1>4, <1>5 DEF HostTyped, LinkTyped
  <1>7. DaemonTyped' /\ SceneInv' /\ LeaseInv'
    BY <1>1, <1>3, <1>4, DaemonKept DEF Inv, HostTyped
  <1>8. EventInv'
    BY <1>1, <1>2, <1>5 DEF EventInv
  <1>9. TextInv' /\ LandedInv'
    BY <1>1, <1>2 DEF Inv, TextInv, LandedInv, NoLanding
  <1> QED BY <1>6, <1>7, <1>8, <1>9 DEF Inv, TypeInv

\* control_revoke, and the state it sends.
LEMMA RevokedSound ==
    ASSUME NEW q \in Seq(Events), NEW b \in Seq(Scenes), Sound(q, pending, b, hostEpoch),
           hostEpoch \in Int, Revoked(q)
    PROVE  /\ hostEpoch' \in Int /\ hostEpoch <= hostEpoch' /\ allowed' \in BOOLEAN
           /\ events' \in Seq(Events) /\ Sound(events', pending, b, hostEpoch')
  <1>1. allowed' \in BOOLEAN /\ hostEpoch' = hostEpoch + 1
        /\ events' = q \o <<StateEvent(hostEpoch + 1)>>
    BY DEF Revoked
  <1>2. Grown(b, b)
    BY DEF Grown
  <1>3. PICK f \in Int : f = hostEpoch + 1
    OBVIOUS
  <1>4. Sound(q, pending, b, f)
    BY <1>2, <1>3, SoundGrows
  <1>5. q \o <<StateEvent(f)>> \in Seq(Events) /\ Sound(q \o <<StateEvent(f)>>, pending, b, f)
    BY <1>3, <1>4, SoundState
  <1> QED BY <1>1, <1>3, <1>5

LEMMA TakeRevokeKeeps == ASSUME Inv, TakeRevoke PROVE Inv'
  <1>1. /\ requests # <<>> /\ requests' = Tail(requests) /\ Revoked(events)
        /\ UNCHANGED <<actual, previous, version, phase, sceneVars, scopeVars, seatVars, published>>
        /\ landed' = NoLanding
    BY DEF TakeRevoke
  <1>2. UNCHANGED <<pending, geometry, text>>
    BY <1>1 DEF sceneVars, seatVars
  <1>3. HostTyped /\ LinkTyped /\ DaemonTyped /\ EventInv
    BY DEF Inv, TypeInv
  <1>4. requests' \in Seq(Requests) /\ TextInv'
    BY <1>1, <1>2, <1>3, RequestTaken DEF Inv
  <1>5. events \in Seq(Events) /\ published \in Seq(Scenes) /\ hostEpoch \in Int
    BY <1>3 DEF HostTyped, LinkTyped
  <1>6. /\ hostEpoch' \in Int /\ hostEpoch <= hostEpoch' /\ allowed' \in BOOLEAN
        /\ events' \in Seq(Events) /\ Sound(events', pending, published, hostEpoch')
    BY <1>1, <1>3, <1>5, RevokedSound DEF EventInv
  <1>7. HostTyped' /\ LinkTyped'
    BY <1>1, <1>3, <1>4, <1>6 DEF HostTyped, LinkTyped
  <1>8. Grown(published, published') /\ version \in Nat
    BY <1>1, <1>3 DEF HostTyped, Grown
  <1>9. DaemonTyped' /\ SceneInv' /\ LeaseInv'
    BY <1>1, <1>3, <1>6, <1>8, DaemonKept DEF Inv, HostTyped
  <1>10. EventInv' /\ LandedInv'
    BY <1>1, <1>2, <1>6 DEF EventInv, LandedInv, NoLanding
  <1> QED BY <1>4, <1>7, <1>9, <1>10 DEF Inv, TypeInv

\* control_acquire_request: with the scenes b published, b[v] the last of them.
LEMMA AcquiredSound ==
    ASSUME NEW q \in Seq(Events), NEW b \in Seq(Scenes), Sound(q, pending, b, hostEpoch),
           hostEpoch \in Int, allowed \in BOOLEAN,
           NEW r \in Requests, Acquired(r, q),
           r.kind = "codepoint" /\ ~r.replaced => r.named = r.geometry,
           r.geometry = 0 \/ /\ r.geometry \in 1..Len(b)
                             /\ b[r.geometry] = actual
    PROVE  /\ hostEpoch' = hostEpoch /\ allowed' \in BOOLEAN
           /\ events' \in Seq(Events) /\ Sound(events', pending, b, hostEpoch)
           /\ ~landed'.replaced => landed'.named = 0 \/ /\ landed'.named \in 1..Len(b)
                                                        /\ landed'.in = b[landed'.named]
  <1>1. allowed' \in BOOLEAN /\ hostEpoch' = hostEpoch
    BY DEF Acquired
  <1>2. events' = q \/ events' = q \o <<StateEvent(hostEpoch)>>
    BY DEF Acquired
  <1>3. q \o <<StateEvent(hostEpoch)>> \in Seq(Events)
        /\ Sound(q \o <<StateEvent(hostEpoch)>>, pending, b, hostEpoch)
    BY SoundState
  <1>4. \/ landed' = NoLanding
        \/ /\ r.kind = "codepoint"
           /\ landed' = [named |-> r.named, replaced |-> r.replaced, in |-> actual]
    BY DEF Acquired
  <1>5. ~landed'.replaced => landed'.named = 0 \/ /\ landed'.named \in 1..Len(b)
                                                  /\ landed'.in = b[landed'.named]
    <2>1. CASE landed' = NoLanding
      BY <2>1 DEF NoLanding
    <2>2. CASE r.kind = "codepoint" /\ landed' = [named |-> r.named, replaced |-> r.replaced, in |-> actual]
      <3>1. landed'.named = r.named /\ landed'.in = actual
        BY <2>2
      <3>2. landed'.replaced = r.replaced
        BY <2>2
      <3> QED BY <2>2, <3>1, <3>2
    <2> QED BY <1>4, <2>1, <2>2
  <1> QED BY <1>1, <1>2, <1>3, <1>5

LEMMA TakeAcquireKeeps == ASSUME Inv, TakeAcquire PROVE Inv'
  <1> DEFINE r == Head(requests)
  <1>1. /\ requests # <<>> /\ requests' = Tail(requests)
        /\ UNCHANGED <<actual, phase, sceneVars, scopeVars, seatVars>>
    BY DEF TakeAcquire
  <1>2. UNCHANGED <<pending, geometry, text>>
    BY <1>1 DEF sceneVars, seatVars
  <1>3. HostTyped /\ LinkTyped /\ DaemonTyped /\ EventInv
    BY DEF Inv, TypeInv
  <1>4. /\ requests' \in Seq(Requests) /\ TextInv' /\ r \in Requests
        /\ r.kind = "codepoint" /\ ~r.replaced => r.named = r.geometry
    BY <1>1, <1>2, <1>3, RequestTaken DEF Inv
  <1>5. /\ events \in Seq(Events) /\ published \in Seq(Scenes) /\ hostEpoch \in Int
        /\ allowed \in BOOLEAN /\ version \in Nat \ {0} /\ Len(published) = version
    BY <1>3 DEF HostTyped, LinkTyped
  \* what each branch has to give
  <1>6. SUFFICES /\ previous' \in Scenes /\ version' \in Nat \ {0} /\ version <= version'
                 /\ published' \in Seq(Scenes) /\ Len(published') = version'
                 /\ published'[version'] = previous' /\ Grown(published, published')
                 /\ hostEpoch' \in Int /\ hostEpoch <= hostEpoch' /\ allowed' \in BOOLEAN
                 /\ events' \in Seq(Events) /\ Sound(events', pending, published', hostEpoch')
                 /\ LandedInv'
    <2>1. HostTyped' /\ LinkTyped'
      BY <1>1, <1>3, <1>4, <1>6 DEF HostTyped, LinkTyped
    <2>2. DaemonTyped' /\ SceneInv' /\ LeaseInv'
      BY <1>1, <1>3, <1>6, DaemonKept DEF Inv, HostTyped
    <2>3. EventInv'
      BY <1>2, <1>6 DEF EventInv
    <2> QED BY <1>4, <1>6, <2>1, <2>2, <2>3 DEF Inv, TypeInv
  <1> HIDE DEF r
  <1>7. \/ r.geometry = 0 /\ Acquired(r, events) /\ UNCHANGED <<previous, version, published>>
        \/ r.geometry # 0 /\ Publish
           /\ IF r.geometry # CheckedVersion
              THEN Revoked(events \o NewEvents) /\ landed' = NoLanding
              ELSE Acquired(r, events \o NewEvents)
    BY DEF TakeAcquire, r
  <1>8. CASE r.geometry = 0 /\ Acquired(r, events) /\ UNCHANGED <<previous, version, published>>
    <2>1. Sound(events, pending, published, hostEpoch)
      BY <1>3 DEF EventInv
    <2>2. /\ hostEpoch' = hostEpoch /\ allowed' \in BOOLEAN
          /\ events' \in Seq(Events) /\ Sound(events', pending, published, hostEpoch)
          /\ ~landed'.replaced => landed'.named = 0 \/ /\ landed'.named \in 1..Len(published)
                                                       /\ landed'.in = published[landed'.named]
      BY <1>4, <1>5, <1>8, <2>1, AcquiredSound
    <2>3. Grown(published, published')
      BY <1>8 DEF Grown
    <2>4. LandedInv'
      BY <1>5, <1>8, <2>2 DEF LandedInv
    <2> QED BY <1>3, <1>5, <1>8, <2>2, <2>3, <2>4 DEF HostTyped
  <1>9. CASE r.geometry # 0 /\ Publish
             /\ IF r.geometry # CheckedVersion
                THEN Revoked(events \o NewEvents) /\ landed' = NoLanding
                ELSE Acquired(r, events \o NewEvents)
    <2>1. /\ previous' = actual /\ version' = NewVersion
          /\ version' \in Nat \ {0} /\ version <= version'
          /\ published' \in Seq(Scenes) /\ Len(published') = version'
          /\ published'[version'] = actual /\ Grown(published, published')
      BY <1>3, <1>9, PublishKeeps
    <2>2. PICK q \in Seq(Events) : q = events \o NewEvents
      BY <1>3, <1>9, PublishSound
    <2>3. PICK b \in Seq(Scenes) : b = published'
      BY <2>1
    <2>4. Sound(q, pending, b, hostEpoch)
      BY <1>3, <1>9, <2>2, <2>3, PublishSound
    <2>5. actual \in Scenes
      BY <1>3 DEF HostTyped
    <2>6. CASE r.geometry # CheckedVersion
      <3>1. Revoked(q) /\ landed' = NoLanding
        BY <1>9, <2>2, <2>6
      <3>2. /\ hostEpoch' \in Int /\ hostEpoch <= hostEpoch' /\ allowed' \in BOOLEAN
            /\ events' \in Seq(Events) /\ Sound(events', pending, b, hostEpoch')
        BY <1>5, <2>4, <3>1, RevokedSound
      <3>3. LandedInv'
        BY <3>1 DEF LandedInv, NoLanding
      <3> QED BY <2>1, <2>3, <2>5, <3>2, <3>3
    <2>7. CASE r.geometry = CheckedVersion
      <3>1. Acquired(r, q)
        BY <1>9, <2>2, <2>7
      <3>2. r.geometry \in 1..Len(b) /\ b[r.geometry] = actual
        BY <2>1, <2>3, <2>7 DEF CheckedVersion
      <3>3. /\ hostEpoch' = hostEpoch /\ allowed' \in BOOLEAN
            /\ events' \in Seq(Events) /\ Sound(events', pending, b, hostEpoch)
            /\ ~landed'.replaced => landed'.named = 0 \/ /\ landed'.named \in 1..Len(b)
                                                         /\ landed'.in = b[landed'.named]
        BY <1>4, <1>5, <2>4, <3>1, <3>2, AcquiredSound
      <3>4. LandedInv'
        BY <2>1, <2>3, <3>3 DEF LandedInv
      <3> QED BY <1>5, <2>1, <2>3, <2>5, <3>3, <3>4
    <2> QED BY <2>6, <2>7
  <1> QED BY <1>7, <1>8, <1>9

----------------------------------------------------------------------------
(* The first half of the daemon's turn.                                    *)

\* What dispatching an event leaves as it was, and what is left of the stream.
LEMMA Dispatched ==
    ASSUME Inv, NEW kind, Dispatches(kind), UNCHANGED DispatchUnchanged
    PROVE  /\ HostTyped' /\ LinkTyped' /\ TextInv' /\ LandedInv'
           /\ UNCHANGED <<version, published, hostEpoch, sceneVersion, leases, focused>>
           /\ UNCHANGED <<epoch, denied, created, geometry, text>>
           /\ phase = "dispatch" /\ phase' = phase
           /\ events # <<>> /\ Head(events) = events[1] /\ Head(events) \in Events
           /\ Head(events).kind = kind
           /\ Truthful(Head(events), published, hostEpoch)
           /\ Head(events).kind = "done" => Introduced(events, 1, pending, published)
  <1>1. /\ UNCHANGED <<actual, previous, version, hostEpoch, allowed, requests, phase>>
        /\ UNCHANGED <<sceneVersion, leases, focused, epoch, denied, created, geometry, text>>
        /\ UNCHANGED <<published, landed>>
    BY DEF DispatchUnchanged, hostVars, scopeVars, seatVars, ghostVars
  <1>2. phase = "dispatch" /\ events # <<>> /\ events' = Tail(events) /\ Head(events).kind = kind
    BY DEF Dispatches
  <1>3. events \in Seq(Events)
    BY DEF Inv, TypeInv, LinkTyped
  <1>4. /\ 1 \in 1..Len(events) /\ Head(events) = events[1] /\ Head(events) \in Events
        /\ Tail(events) \in Seq(Events)
    BY <1>2, <1>3, TailIndex
  <1>5. HostTyped' /\ LinkTyped' /\ TextInv' /\ LandedInv'
    BY <1>1, <1>2, <1>4 DEF Inv, TypeInv, HostTyped, LinkTyped, TextInv, LandedInv
  <1>6. /\ Truthful(events[1], published, hostEpoch)
        /\ events[1].kind = "done" => Introduced(events, 1, pending, published)
    BY <1>4 DEF Inv, EventInv, Sound
  <1> QED BY <1>1, <1>2, <1>4, <1>5, <1>6

\* The rest of the stream is still sound, for a description d that a windows
\* event, if it was the first, has brought.
LEMMA SoundTail ==
    ASSUME NEW q \in Seq(Events), q # <<>>, NEW c, NEW d, NEW a \in Seq(Scenes), NEW e \in Int,
           Sound(q, c, a, e),
           Head(q).kind = "windows" => d.version = Head(q).version /\ d.windows = Head(q).windows
    PROVE  Sound(Tail(q), d, a, e)
  <1>1. /\ 1 \in 1..Len(q) /\ Head(q) = q[1] /\ Len(Tail(q)) \in Nat
        /\ \A i \in 1..Len(Tail(q)) : i + 1 \in 1..Len(q) /\ Tail(q)[i] = q[i + 1]
    BY TailIndex
  <1>2. PICK r \in Seq(Events) : r = Tail(q)
    BY TailIndex
  <1>3. SUFFICES ASSUME NEW i \in 1..Len(r)
                 PROVE  /\ Truthful(r[i], a, e)
                        /\ r[i].kind = "done" => Introduced(r, i, d, a)
    BY <1>2 DEF Sound
  <1>4. i + 1 \in 1..Len(q) /\ r[i] = q[i + 1] /\ i \in Nat \ {0}
    BY <1>1, <1>2
  <1>5. Truthful(q[i + 1], a, e) /\ (q[i + 1].kind = "done" => Introduced(q, i + 1, c, a))
    BY <1>4 DEF Sound
  <1>6. SUFFICES ASSUME r[i].kind = "done" PROVE Introduced(r, i, d, a)
    BY <1>4, <1>5
  <1>7. q[i].kind = "windows" /\ q[i].version = q[i + 1].version
    <2>1. i + 1 # 1 /\ (i + 1) - 1 = i
      BY <1>4
    <2>2. Introduced(q, i + 1, c, a)
      BY <1>4, <1>5, <1>6
    <2> QED BY <2>1, <2>2 DEF Introduced
  <1>8. CASE i = 1
    <2>1. Truthful(q[1], a, e)
      BY <1>1 DEF Sound
    <2>2. d.version = q[1].version /\ d.windows = a[q[1].version].windows
      BY <1>1, <1>7, <1>8, <2>1 DEF Truthful
    <2> QED BY <1>4, <1>7, <1>8, <2>2 DEF Introduced
  <1>9. CASE i # 1
    <2>1. i - 1 \in 1..Len(r) /\ r[i - 1] = q[(i - 1) + 1] /\ (i - 1) + 1 = i
      BY <1>1, <1>2, <1>4, <1>9
    <2> QED BY <1>4, <1>7, <1>9, <2>1 DEF Introduced
  <1> QED BY <1>8, <1>9

LEMMA ControlStateKeeps == ASSUME Inv, ControlState PROVE Inv'
  <1>1. Dispatches("state") /\ UNCHANGED DispatchUnchanged /\ known' = Head(events).epoch
        /\ UNCHANGED <<pending, scene>>
    BY DEF ControlState
  <1>2. /\ HostTyped' /\ LinkTyped' /\ TextInv' /\ LandedInv'
        /\ UNCHANGED <<version, published, hostEpoch, sceneVersion, leases, focused>>
        /\ UNCHANGED <<epoch, denied, created, geometry, text>>
        /\ phase = "dispatch" /\ phase' = phase
        /\ events # <<>> /\ Head(events) \in Events /\ Head(events).kind = "state"
        /\ Truthful(Head(events), published, hostEpoch)
    BY <1>1, Dispatched
  <1>3. Head(events).epoch \in Int /\ Head(events).epoch <= hostEpoch
    BY <1>2 DEF Events, Truthful
  <1>4. DaemonTyped' /\ SceneInv' /\ LeaseInv'
    BY <1>1, <1>2, <1>3 DEF Inv, TypeInv, DaemonTyped, SceneInv, LeaseInv
  <1>5. events \in Seq(Events) /\ published \in Seq(Scenes) /\ hostEpoch \in Int
        /\ events' = Tail(events)
    BY <1>1 DEF Inv, TypeInv, HostTyped, LinkTyped, Dispatches
  <1>6. Sound(Tail(events), pending, published, hostEpoch)
    BY <1>2, <1>5, SoundTail DEF Inv, EventInv
  <1>7. EventInv'
    BY <1>1, <1>2, <1>5, <1>6 DEF EventInv
  <1> QED BY <1>2, <1>4, <1>7 DEF Inv, TypeInv

LEMMA SceneWindowsKeeps == ASSUME Inv, SceneWindows PROVE Inv'
  <1> DEFINE e == Head(events)
  <1>1. Dispatches("windows") /\ UNCHANGED DispatchUnchanged /\ UNCHANGED <<scene, known>>
        /\ pending' = [pending EXCEPT !.version = e.version, !.windows = e.windows]
    BY DEF SceneWindows, SceneDescribed
  <1>2. /\ HostTyped' /\ LinkTyped' /\ TextInv' /\ LandedInv'
        /\ UNCHANGED <<version, published, hostEpoch, sceneVersion, leases, focused>>
        /\ UNCHANGED <<epoch, denied, created, geometry, text>>
        /\ phase = "dispatch" /\ phase' = phase
        /\ events # <<>> /\ e \in Events /\ e.kind = "windows"
        /\ Truthful(e, published, hostEpoch)
    BY <1>1, Dispatched
  <1>3. e.version \in 1..version /\ e.version \in Nat /\ e.windows \in SUBSET Windows
    BY <1>2 DEF Events, Truthful, Inv, TypeInv, HostTyped
  <1>4. pending \in NumberedScenes
    BY DEF Inv, TypeInv, DaemonTyped
  <1> HIDE DEF e
  <1>5. pending' \in NumberedScenes /\ pending'.version = e.version /\ pending'.windows = e.windows
    BY <1>1, <1>3, <1>4 DEF NumberedScenes
  <1>6. DaemonTyped' /\ SceneInv' /\ LeaseInv'
    BY <1>1, <1>2, <1>3, <1>5 DEF Inv, TypeInv, DaemonTyped, SceneInv, LeaseInv
  <1>7. events \in Seq(Events) /\ published \in Seq(Scenes) /\ hostEpoch \in Int
        /\ events' = Tail(events)
    BY <1>1 DEF Inv, TypeInv, HostTyped, LinkTyped, Dispatches
  <1>8. PICK d : d = pending'
    OBVIOUS
  <1>9. Sound(Tail(events), d, published, hostEpoch)
    BY <1>2, <1>5, <1>7, <1>8, SoundTail DEF Inv, EventInv, e
  <1>10. EventInv'
    BY <1>2, <1>7, <1>8, <1>9 DEF EventInv
  <1> QED BY <1>2, <1>6, <1>10 DEF Inv, TypeInv

LEMMA SceneDoneKeeps == ASSUME Inv, SceneDone PROVE Inv'
  <1> DEFINE e == Head(events)
  <1>1. Dispatches("done") /\ UNCHANGED DispatchUnchanged /\ known' = known /\ scene' = pending'
        /\ pending' = [pending EXCEPT !.version = e.version, !.focus = e.focus,
                                      !.arrangement = e.arrangement]
    BY DEF SceneDone
  <1>2. /\ HostTyped' /\ LinkTyped' /\ TextInv' /\ LandedInv'
        /\ UNCHANGED <<version, published, hostEpoch, sceneVersion, leases, focused>>
        /\ UNCHANGED <<epoch, denied, created, geometry, text>>
        /\ phase = "dispatch" /\ phase' = phase
        /\ events # <<>> /\ e = events[1] /\ e \in Events /\ e.kind = "done"
        /\ Truthful(e, published, hostEpoch) /\ Introduced(events, 1, pending, published)
    BY <1>1, Dispatched
  <1>3. e.version \in 1..version /\ e.version \in Nat /\ e.focus \in Focuses
        /\ e.arrangement \in Arrangements
    BY <1>2 DEF Events, Truthful, Inv, TypeInv, HostTyped
  <1>4. pending \in NumberedScenes
    BY DEF Inv, TypeInv, DaemonTyped
  <1> HIDE DEF e
  <1>5. pending' \in NumberedScenes /\ pending'.version = e.version /\ pending'.focus = e.focus
        /\ pending'.arrangement = e.arrangement /\ pending'.windows = pending.windows
    BY <1>1, <1>3, <1>4 DEF NumberedScenes
  <1>6. pending.windows = published[e.version].windows
    BY <1>2 DEF Introduced
  <1>7. e.focus = published[e.version].focus /\ e.arrangement = published[e.version].arrangement
    BY <1>2 DEF Truthful
  <1>8. SceneInv'
    BY <1>1, <1>2, <1>5, <1>6, <1>7 DEF Inv, SceneInv
  <1>9. DaemonTyped' /\ LeaseInv'
    BY <1>1, <1>2, <1>3, <1>5 DEF Inv, TypeInv, DaemonTyped, LeaseInv
  <1>10. events \in Seq(Events) /\ published \in Seq(Scenes) /\ hostEpoch \in Int
         /\ events' = Tail(events)
    BY <1>1 DEF Inv, TypeInv, HostTyped, LinkTyped, Dispatches
  <1>11. PICK d : d = pending'
    OBVIOUS
  <1>12. Sound(Tail(events), d, published, hostEpoch)
    BY <1>2, <1>10, SoundTail DEF Inv, EventInv, e
  <1>13. EventInv'
    BY <1>2, <1>10, <1>11, <1>12 DEF EventInv
  <1> QED BY <1>2, <1>8, <1>9, <1>13 DEF Inv, TypeInv

\* The leases after the scene's part of sync_control_state.
LEMMA Synced ==
    ASSUME TypeInv, SceneInv, NEW isCreated \in BOOLEAN, NEW synced \in 0..version, SyncScene(isCreated, synced),
           synced = scene.version =>
               leases = IF isCreated THEN published[synced].windows \ denied ELSE {}
    PROVE  /\ sceneVersion' = scene.version /\ sceneVersion' \in 1..version
           /\ leases' = IF isCreated THEN published[scene.version].windows \ denied ELSE {}
           /\ leases' \subseteq Windows /\ focused' \in Focuses
  <1>1. scene \in NumberedScenes /\ scene.version \in 1..version
        /\ focused \in Focuses /\ leases \subseteq Windows
    BY DEF TypeInv, DaemonTyped
  <1>2. scene.windows \in SUBSET Windows /\ scene.focus \in Focuses
        /\ scene.windows = published[scene.version].windows
    BY <1>1 DEF NumberedScenes, SceneInv
  <1>3. CASE scene.version # synced
    BY <1>1, <1>2, <1>3 DEF SyncScene, Leasable
  <1>4. CASE scene.version = synced
    BY <1>1, <1>2, <1>4 DEF SyncScene
  <1> QED BY <1>3, <1>4

LEMMA SyncKeeps == ASSUME Inv, Sync PROVE Inv'
  <1>1. /\ phase' = "serve" /\ SyncScene(created, sceneVersion)
        /\ UNCHANGED <<actual, previous, version, hostEpoch, allowed, requests, events>>
        /\ UNCHANGED <<pending, scene, known, denied, geometry, published, landed>>
        /\ created' = created
    BY DEF Sync, hostVars, linkVars, sceneVars, ghostVars
  <1>2. \/ epoch' = known /\ text' = NoText
        \/ epoch' = epoch /\ text' = text
    BY DEF Sync
  <1>3. created \in BOOLEAN /\ sceneVersion \in 0..version /\ known \in Int /\ epoch \in Int
    BY DEF Inv, TypeInv, DaemonTyped
  <1>4. leases = IF created THEN published[sceneVersion].windows \ denied ELSE {}
    BY DEF Inv, LeaseInv
  <1>5. /\ sceneVersion' = scene.version /\ sceneVersion' \in 1..version
        /\ leases' = IF created THEN published[scene.version].windows \ denied ELSE {}
        /\ leases' \subseteq Windows /\ focused' \in Focuses
    BY <1>1, <1>3, <1>4, Synced DEF Inv
  <1>6. version \in Nat
    BY DEF Inv, TypeInv, HostTyped
  <1>7. DaemonTyped'
    BY <1>1, <1>2, <1>3, <1>5, <1>6 DEF Inv, TypeInv, DaemonTyped
  <1>8. LeaseInv'
    BY <1>1, <1>5 DEF LeaseInv
  <1>9. TextInv'
    BY <1>1, <1>2 DEF Inv, TextInv
  <1>10. HostTyped' /\ LinkTyped' /\ EventInv' /\ SceneInv' /\ LandedInv'
    BY <1>1 DEF Inv, TypeInv, HostTyped, LinkTyped, EventInv, SceneInv, LandedInv
  <1> QED BY <1>7, <1>8, <1>9, <1>10 DEF Inv, TypeInv

----------------------------------------------------------------------------
(* The second half of the daemon's turn.                                   *)

LEMMA Served ==
    ASSUME Inv, UNCHANGED ServeUnchanged
    PROVE  /\ HostTyped' /\ EventInv' /\ SceneInv' /\ LandedInv' /\ events' \in Seq(Events)
           /\ UNCHANGED <<version, published, pending, scene, known>>
           /\ version \in Nat \ {0} /\ scene \in NumberedScenes /\ scene.version \in 1..version
           /\ pending \in NumberedScenes /\ pending.version \in 1..version
           /\ scene.windows = published[scene.version].windows /\ scene.windows \in SUBSET Windows
           /\ known \in Int
  <1>1. /\ UNCHANGED <<actual, previous, version, hostEpoch, allowed, events>>
        /\ UNCHANGED <<pending, scene, known, published, landed>>
    BY DEF ServeUnchanged, hostVars, sceneVars, ghostVars
  <1>2. HostTyped' /\ EventInv' /\ SceneInv' /\ LandedInv' /\ events' \in Seq(Events)
    BY <1>1 DEF Inv, TypeInv, HostTyped, LinkTyped, EventInv, SceneInv, LandedInv
  <1>3. /\ version \in Nat \ {0} /\ scene \in NumberedScenes /\ scene.version \in 1..version
        /\ pending \in NumberedScenes /\ pending.version \in 1..version /\ known \in Int
        /\ scene.windows = published[scene.version].windows
    BY DEF Inv, TypeInv, HostTyped, DaemonTyped, SceneInv
  <1>4. scene.windows \in SUBSET Windows
    BY <1>3 DEF NumberedScenes
  <1> QED BY <1>1, <1>2, <1>3, <1>4

\* A request that carries the scene its operation named, if it can.
Carried(r) == r.kind = "codepoint" /\ ~r.replaced => r.named = r.geometry

LEMMA Asked ==
    ASSUME NEW q \in Seq(Requests), \A i \in 1..Len(q) : Carried(q[i]),
           NEW r \in Requests, Carried(r)
    PROVE  Append(q, r) \in Seq(Requests) /\ \A i \in 1..Len(Append(q, r)) : Carried(Append(q, r)[i])
  <1>1. SUFFICES ASSUME NEW i \in 1..Len(Append(q, r)) PROVE Carried(Append(q, r)[i])
    BY AppendIndex
  <1>2. i \in 1..Len(q) \/ i = Len(q) + 1
    BY AppendIndex
  <1> QED BY <1>2, AppendIndex

LEMMA TextCarried ==
    TextInv <=> /\ text # NoText /\ ~text.replaced => text.named = geometry
                /\ \A i \in 1..Len(requests) : Carried(requests[i])
  BY DEF TextInv, Carried

Revocation == [kind |-> "revoke"]

LEMMA RevocationCarried == Revocation \in Requests /\ Carried(Revocation)
  BY DEF Revocation, Requests, Carried

LEMMA Revokes ==
    ASSUME NEW q \in Seq(Requests), \A i \in 1..Len(q) : Carried(q[i])
    PROVE  /\ q \o <<[kind |-> "revoke"]>> \in Seq(Requests)
           /\ \A i \in 1..Len(q \o <<[kind |-> "revoke"]>>) : Carried((q \o <<[kind |-> "revoke"]>>)[i])
  <1>1. PICK m \in Requests : m = Revocation
    BY RevocationCarried
  <1>2. Append(q, m) \in Seq(Requests) /\ \A i \in 1..Len(Append(q, m)) : Carried(Append(q, m)[i])
    BY <1>1, RevocationCarried, Asked
  <1>3. Append(q, m) = q \o <<m>>
    BY AppendIndex
  <1>4. <<m>> = <<[kind |-> "revoke"]>>
    BY <1>1 DEF Revocation
  <1> QED BY <1>2, <1>3, <1>4

\* What the requests are, and what their senders have named.
LEMMA RequestsNow ==
    ASSUME Inv
    PROVE  requests \in Seq(Requests) /\ \A i \in 1..Len(requests) : Carried(requests[i])
  BY TextCarried DEF Inv, TypeInv, LinkTyped

LEMMA SeatCreateKeeps == ASSUME Inv, SeatCreate PROVE Inv'
  <1>1. /\ phase = "serve" /\ phase' = "serve" /\ ~created /\ created' /\ created' \in BOOLEAN
        /\ requests' = Append(requests, [kind |-> "acquire", epoch |-> known, geometry |-> geometry])
        /\ SyncScene(TRUE, 0) /\ UNCHANGED ServeUnchanged
        /\ UNCHANGED <<epoch, denied, geometry, text>>
    BY DEF SeatCreate, Serves
  <1>2. /\ HostTyped' /\ EventInv' /\ SceneInv' /\ LandedInv' /\ events' \in Seq(Events)
        /\ UNCHANGED <<version, published, pending, scene, known>>
        /\ version \in Nat \ {0} /\ scene.version \in 1..version /\ known \in Int
    BY <1>1, Served
  <1>3. /\ sceneVersion' = scene.version /\ sceneVersion' \in 1..version
        /\ leases' = published[scene.version].windows \ denied
        /\ leases' \subseteq Windows /\ focused' \in Focuses
    <2>1. 0 \in 0..version /\ scene.version # 0
      BY <1>2
    <2> QED BY <1>1, <2>1, Synced DEF Inv
  <1>4. DaemonTyped'
    BY <1>1, <1>2, <1>3 DEF Inv, TypeInv, DaemonTyped
  <1>5. LeaseInv'
    BY <1>1, <1>2, <1>3 DEF LeaseInv
  <1>6. PICK r : r = [kind |-> "acquire", epoch |-> known, geometry |-> geometry]
    OBVIOUS
  <1>7. geometry \in Nat
    BY <1>2 DEF Inv, TypeInv, DaemonTyped
  <1>8. r \in Requests /\ Carried(r)
    BY <1>2, <1>6, <1>7 DEF Requests, Carried
  <1>9. requests' \in Seq(Requests) /\ \A i \in 1..Len(requests') : Carried(requests'[i])
    BY <1>1, <1>6, <1>8, RequestsNow, Asked
  <1>10. LinkTyped' /\ TextInv'
    BY <1>1, <1>2, <1>9 DEF Inv, LinkTyped, TextInv, Carried
  <1> QED BY <1>2, <1>4, <1>5, <1>10 DEF Inv, TypeInv

\* The requests after revoke_input.
LEMMA RevokeRequests ==
    ASSUME Inv, NEW more, more = <<>> \/ more = <<[kind |-> "revoke"]>>, RevokeInput(more)
    PROVE  /\ requests' \in Seq(Requests) /\ TextInv'
           /\ epoch' \in Int /\ text' = NoText
  <1>1. /\ epoch' = epoch + 1 /\ text' = NoText /\ epoch \in Int
        /\ requests' = requests \o <<[kind |-> "revoke"]>> \o more
    BY DEF RevokeInput, Inv, TypeInv, DaemonTyped
  <1>2. PICK q : q = requests \o <<[kind |-> "revoke"]>>
    OBVIOUS
  <1>3. q \in Seq(Requests) /\ \A i \in 1..Len(q) : Carried(q[i])
    BY <1>2, RequestsNow, Revokes
  <1>4. requests' = q \o more
    BY <1>1, <1>2
  <1>5. requests' \in Seq(Requests) /\ \A i \in 1..Len(requests') : Carried(requests'[i])
    <2>1. CASE more = <<>>
      <3>1. requests' = q
        BY <1>3, <1>4, <2>1
      <3> QED BY <1>3, <3>1
    <2>2. CASE more = <<[kind |-> "revoke"]>>
      BY <1>3, <1>4, <2>2, Revokes
    <2> QED BY <2>1, <2>2
  <1> QED BY <1>1, <1>5 DEF TextInv, Carried

LEMMA SeatDestroyKeeps == ASSUME Inv, SeatDestroy PROVE Inv'
  <1>1. /\ phase = "serve" /\ phase' = "serve" /\ ~created' /\ created' \in BOOLEAN
        /\ RevokeInput(<<[kind |-> "revoke"]>>) /\ leases' = {} /\ focused' = NoWindow
        /\ UNCHANGED ServeUnchanged /\ UNCHANGED <<sceneVersion, denied, geometry>>
    BY DEF SeatDestroy, Serves
  <1>2. /\ HostTyped' /\ EventInv' /\ SceneInv' /\ LandedInv' /\ events' \in Seq(Events)
        /\ UNCHANGED <<version, published, pending, scene, known>>
    BY <1>1, Served
  <1>3. requests' \in Seq(Requests) /\ TextInv' /\ epoch' \in Int /\ text' = NoText
    BY <1>1, RevokeRequests
  <1>4. DaemonTyped'
    BY <1>1, <1>2, <1>3 DEF Inv, TypeInv, DaemonTyped, Focuses
  <1>5. LeaseInv'
    BY <1>1, <1>2 DEF Inv, LeaseInv
  <1> QED BY <1>2, <1>3, <1>4, <1>5 DEF Inv, TypeInv, LinkTyped

LEMMA ReleaseKeeps == ASSUME Inv, NEW w \in Windows, Release(w) PROVE Inv'
  <1>1. /\ phase = "serve" /\ phase' = "serve" /\ created
        /\ w \in scene.windows \cap leases
        /\ denied' = denied \cup {w} /\ leases' = leases \ {w}
        /\ RevokeInput(<<>>) \/ UNCHANGED <<epoch, text, requests>>
        /\ UNCHANGED ServeUnchanged /\ UNCHANGED <<sceneVersion, focused, geometry>>
        /\ created' = created
    BY DEF Release, Serves
  <1>2. /\ HostTyped' /\ EventInv' /\ SceneInv' /\ LandedInv' /\ events' \in Seq(Events)
        /\ UNCHANGED <<version, published, pending, scene, known>>
    BY <1>1, Served
  <1>3. requests' \in Seq(Requests) /\ TextInv' /\ epoch' \in Int /\ (text' # NoText => text' \in Texts)
    <2>1. CASE RevokeInput(<<>>)
      BY <2>1, RevokeRequests
    <2>2. CASE UNCHANGED <<epoch, text, requests>>
      BY <1>1, <2>2 DEF Inv, TypeInv, LinkTyped, DaemonTyped, TextInv
    <2> QED BY <1>1, <2>1, <2>2
  <1>4. DaemonTyped'
    BY <1>1, <1>2, <1>3 DEF Inv, TypeInv, DaemonTyped
  <1>5. LeaseInv'
    <2>1. sceneVersion = scene.version /\ sceneVersion # 0
          /\ leases = published[sceneVersion].windows \ denied
      BY <1>1 DEF Inv, LeaseInv
    <2>2. leases' = published[sceneVersion].windows \ denied'
      BY <1>1, <2>1
    <2> QED BY <1>1, <1>2, <2>1, <2>2 DEF LeaseInv
  <1> QED BY <1>2, <1>3, <1>4, <1>5 DEF Inv, TypeInv, LinkTyped

LEMMA LeaseKeeps == ASSUME Inv, NEW w \in Windows, Lease(w) PROVE Inv'
  <1>1. /\ phase = "serve" /\ phase' = "serve" /\ created
        /\ w \in scene.windows \ leases
        /\ denied' = denied \ {w} /\ leases' = leases \cup {w}
        /\ UNCHANGED ServeUnchanged
        /\ UNCHANGED <<requests, sceneVersion, focused, epoch, geometry, text>>
        /\ created' = created
    BY DEF Lease, Serves
  <1>2. /\ HostTyped' /\ EventInv' /\ SceneInv' /\ LandedInv' /\ events' \in Seq(Events)
        /\ UNCHANGED <<version, published, pending, scene, known>>
        /\ scene.windows = published[scene.version].windows
    BY <1>1, Served
  <1>3. LinkTyped' /\ TextInv'
    BY <1>1, <1>2 DEF Inv, TypeInv, LinkTyped, TextInv
  <1>4. DaemonTyped'
    BY <1>1, <1>2 DEF Inv, TypeInv, DaemonTyped
  <1>5. LeaseInv'
    <2>1. sceneVersion = scene.version /\ sceneVersion # 0
          /\ leases = published[sceneVersion].windows \ denied
      BY <1>1 DEF Inv, LeaseInv
    <2>2. leases' = published[sceneVersion].windows \ denied'
      BY <1>1, <1>2, <2>1
    <2> QED BY <1>1, <1>2, <2>1, <2>2 DEF LeaseInv
  <1> QED BY <1>2, <1>3, <1>4, <1>5 DEF Inv, TypeInv

LEMMA NamableIsKnown ==
    ASSUME Inv, NEW g \in Namable
    PROVE  g \in 0..version /\ g \in Nat
  BY DEF Namable, Inv, TypeInv, HostTyped, DaemonTyped

LEMMA TypeKeeps == ASSUME Inv, NEW g \in Namable, Type(g) PROVE Inv'
  <1>1. /\ phase = "serve" /\ phase' = "serve" /\ geometry' = g
        /\ text' = [left |-> TextLength, epoch |-> epoch, named |-> g, replaced |-> FALSE]
        /\ UNCHANGED ServeUnchanged
        /\ UNCHANGED <<requests, sceneVersion, leases, focused, epoch, denied>>
        /\ created' = created
    BY DEF Type, Serves, scopeVars
  <1>2. /\ HostTyped' /\ EventInv' /\ SceneInv' /\ LandedInv' /\ events' \in Seq(Events)
        /\ UNCHANGED <<version, published, pending, scene, known>>
    BY <1>1, Served
  <1>3. g \in 0..version /\ g \in Nat /\ epoch \in Int
    BY NamableIsKnown DEF Inv, TypeInv, DaemonTyped
  <1>4. text' \in Texts /\ text'.named = g
    BY <1>1, <1>3, Lengths DEF Texts
  <1>5. LinkTyped'
    BY <1>1, <1>2 DEF Inv, TypeInv, LinkTyped
  <1>6. TextInv'
    BY <1>1, <1>4 DEF Inv, TextInv
  <1>7. DaemonTyped' /\ LeaseInv'
    BY <1>1, <1>2, <1>3, <1>4 DEF Inv, TypeInv, DaemonTyped, LeaseInv
  <1> QED BY <1>2, <1>5, <1>6, <1>7 DEF Inv, TypeInv

LEMMA RefuseKeeps == ASSUME Inv, NEW g \in Namable, Refuse(g) PROVE Inv'
  <1>1. /\ phase = "serve" /\ phase' = "serve" /\ geometry' = g
        /\ text' = IF text = NoText THEN text ELSE [text EXCEPT !.replaced = TRUE]
        /\ UNCHANGED ServeUnchanged
        /\ UNCHANGED <<requests, sceneVersion, leases, focused, epoch, denied>>
        /\ created' = created
    BY DEF Refuse, Serves, scopeVars
  <1>2. /\ HostTyped' /\ EventInv' /\ SceneInv' /\ LandedInv' /\ events' \in Seq(Events)
        /\ UNCHANGED <<version, published, pending, scene, known>>
    BY <1>1, Served
  <1>3. g \in 0..version
    BY NamableIsKnown
  <1>4. text' # NoText => text' \in Texts /\ text'.replaced
    <2>1. text # NoText => text \in Texts
      BY DEF Inv, TypeInv, DaemonTyped
    <2> QED BY <1>1, <2>1 DEF Texts
  <1>5. LinkTyped'
    BY <1>1, <1>2 DEF Inv, TypeInv, LinkTyped
  <1>6. TextInv'
    BY <1>1, <1>4 DEF Inv, TextInv
  <1>7. DaemonTyped' /\ LeaseInv'
    BY <1>1, <1>2, <1>3, <1>4 DEF Inv, TypeInv, DaemonTyped, LeaseInv
  <1> QED BY <1>2, <1>5, <1>6, <1>7 DEF Inv, TypeInv

LEMMA AdvanceKeeps == ASSUME Inv, Advance PROVE Inv'
  <1>1. /\ phase' = "dispatch" /\ UNCHANGED ServeUnchanged
        /\ UNCHANGED <<sceneVersion, leases, focused, epoch, denied, geometry>>
        /\ created' = created
    BY DEF Advance, scopeVars
  <1>2. /\ HostTyped' /\ EventInv' /\ SceneInv' /\ LandedInv' /\ events' \in Seq(Events)
        /\ UNCHANGED <<version, published, pending, scene, known>> /\ version \in Nat
    BY <1>1, Served
  <1>3. geometry \in Nat
    BY <1>2 DEF Inv, TypeInv, DaemonTyped
  <1>4. /\ requests' \in Seq(Requests) /\ \A i \in 1..Len(requests') : Carried(requests'[i])
        /\ text' # NoText => text' \in Texts /\ (~text'.replaced => text'.named = geometry)
    <2>1. CASE text = NoText \/ text.epoch # epoch
      BY <2>1, RequestsNow DEF Advance
    <2>2. CASE ~(text = NoText \/ text.epoch # epoch)
      <3>1. text \in Texts /\ (~text.replaced => text.named = geometry)
        BY <2>2 DEF Inv, TypeInv, DaemonTyped, TextInv
      <3>2. PICK r : r = [kind |-> "codepoint", epoch |-> text.epoch, geometry |-> geometry,
                          named |-> text.named, replaced |-> text.replaced]
        OBVIOUS
      <3>3. requests' = Append(requests, r)
            /\ text' = IF text.left = 1 THEN NoText ELSE [text EXCEPT !.left = @ - 1]
        BY <2>2, <3>2 DEF Advance
      <3>4. r \in Requests
        BY <1>3, <3>1, <3>2 DEF Requests, Texts
      <3>5. r.named = text.named /\ r.geometry = geometry
        BY <3>2
      <3>6. r.replaced = text.replaced
        BY <3>2
      <3>7. Carried(r)
        BY <3>1, <3>5, <3>6 DEF Carried
      <3>8. requests' \in Seq(Requests) /\ \A i \in 1..Len(requests') : Carried(requests'[i])
        BY <3>3, <3>4, <3>7, RequestsNow, Asked
      <3>9. text' # NoText => /\ text' \in Texts /\ text'.named = text.named
                              /\ text'.replaced = text.replaced
        BY <3>1, <3>3 DEF Texts
      <3> QED BY <3>1, <3>8, <3>9
    <2> QED BY <2>1, <2>2
  <1>5. LinkTyped' /\ TextInv'
    BY <1>1, <1>2, <1>4 DEF LinkTyped, TextInv, Carried
  <1>6. DaemonTyped' /\ LeaseInv'
    BY <1>1, <1>2, <1>4 DEF Inv, TypeInv, DaemonTyped, LeaseInv
  <1> QED BY <1>2, <1>5, <1>6 DEF Inv, TypeInv

----------------------------------------------------------------------------

LEMMA InvNext == Inv /\ [Next]_vars => Inv'
  <1> SUFFICES ASSUME Inv, [Next]_vars PROVE Inv'
    OBVIOUS
  <1>1. CASE UNCHANGED vars
    BY <1>1 DEF vars, hostVars, linkVars, sceneVars, scopeVars, seatVars, ghostVars,
                Inv, TypeInv, HostTyped, LinkTyped, DaemonTyped, EventInv, SceneInv, LeaseInv, TextInv, LandedInv
  <1>2. CASE Change \/ PublishIdle \/ TakeRevoke \/ TakeAcquire
    BY <1>2, ChangeKeeps, PublishIdleKeeps, TakeRevokeKeeps, TakeAcquireKeeps
  <1>3. CASE Dispatch \/ Sync
    BY <1>3, ControlStateKeeps, SceneWindowsKeeps, SceneDoneKeeps, SyncKeeps DEF Dispatch
  <1>4. CASE SeatCreate \/ SeatDestroy \/ Advance
    BY <1>4, SeatCreateKeeps, SeatDestroyKeeps, AdvanceKeeps
  <1>5. CASE \E w \in Windows : Release(w) \/ Lease(w)
    BY <1>5, ReleaseKeeps, LeaseKeeps
  <1>6. CASE \E g \in Namable : Type(g) \/ Refuse(g)
    BY <1>6, TypeKeeps, RefuseKeeps
  <1> QED BY <1>1, <1>2, <1>3, <1>4, <1>5, <1>6 DEF Next

\* The inductive invariant: types, a stream of events that tells the truth about
\* whole scenes, the scene and the leases made from it, the scene an operation
\* carries, and where a codepoint landed.
THEOREM ScopeInvariant == Spec => []Inv
  <1>1. Init => Inv
    BY TypeInit DEF Inv
  <1> QED BY <1>1, InvNext, PTL DEF Spec

\* Whenever the daemon serves a request, the scene it uses was published whole
\* under that number and the leases are its windows that are not excluded
\* (native/agentseatd.c, sync_control_state).
THEOREM ScopeFollows == Spec => []ScopeFollowsScene
  <1>1. ASSUME Inv PROVE ScopeFollowsScene
    <2>1. ScopeTypeOK
      BY <1>1 DEF Inv, TypeInv, HostTyped, DaemonTyped, SceneInv, ScopeTypeOK, Focuses
    <2>2. ASSUME phase = "serve"
          PROVE  /\ [f \in DOMAIN actual |-> scene[f]] = published[scene.version]
                 /\ leases = IF created THEN scene.windows \ denied ELSE {}
      <3>1. /\ scene \in NumberedScenes /\ actual \in Scenes /\ published[scene.version] \in Scenes
        BY <1>1 DEF Inv, TypeInv, HostTyped, DaemonTyped
      <3>2. /\ scene.windows = published[scene.version].windows
            /\ scene.focus = published[scene.version].focus
            /\ scene.arrangement = published[scene.version].arrangement
        BY <1>1 DEF Inv, SceneInv
      <3>3. [f \in DOMAIN actual |-> scene[f]] = published[scene.version]
        BY <3>1, <3>2, WholeScene
      <3> QED BY <1>1, <2>2, <3>2, <3>3 DEF Inv, LeaseInv
    <2> QED BY <2>1, <2>2 DEF ScopeFollowsScene
  <1> QED BY <1>1, ScopeInvariant, PTL

\* A codepoint of an operation that named a scene, and whose scene no other
\* request replaced, lands only in that very scene, though a change may be
\* unpublished when it arrives (vendor/cage/seat.c,
\* control_acquire_geometry_request).
THEOREM TypedAlone == Spec => []TypedAsObservedAlone
  <1>1. ASSUME Inv PROVE TypedAsObservedAlone
    BY <1>1 DEF Inv, LandedInv, TypedAsObservedAlone, TypedAsObserved
  <1> QED BY <1>1, ScopeInvariant, PTL

=============================================================================
