--------------------------- MODULE BirdFeedProofs ---------------------------
(***************************************************************************)
(* Proof that the health the BIRD feed reports is honest (BirdFeed), for   *)
(* any prefixes, attributes and next hops, any chunk size and any number   *)
(* of desired states, restarts of BIRD and restarts of the agent.          *)
(*                                                                         *)
(* What BIRD's table will be once it has read the socket is the end of a   *)
(* trail: the views BIRD goes through, one per frame.  The trail grows by  *)
(* its last view with a write and loses its first one with a read, so that *)
(* the invariant speaks of its end only.                                   *)
(***************************************************************************)
EXTENDS BirdFeed, TLAPS

-----------------------------------------------------------------------------
(***************************************************************************)
(* Trails.                                                                 *)
(***************************************************************************)

Views == [routes : [Keys -> Values \cup {None}], stale : SUBSET Keys]
View == [routes |-> routes, stale |-> stale]

\* What reading a frame makes of a view (BirdReads).
Effect(v, f) ==
  CASE f.op = "hello" -> [v EXCEPT !.stale = {k \in Keys : v.routes[k] # None}]
    [] f.op = "add"   -> [routes |-> [v.routes EXCEPT ![f.key] = f.val],
                          stale |-> v.stale \ {f.key}]
    [] f.op = "del"   -> [routes |-> [v.routes EXCEPT ![f.key] = None],
                          stale |-> v.stale \ {f.key}]
    [] f.op = "eor"   -> [routes |-> [k \in Keys |-> IF k \in v.stale THEN None
                                                     ELSE v.routes[k]],
                          stale |-> {}]

\* Reading the frames of s leads from view v to view e.
Leads(v, s, e) ==
  \E trail \in [0 .. Len(s) -> Views] :
    /\ trail[0] = v
    /\ trail[Len(s)] = e
    /\ \A i \in 1 .. Len(s) : trail[i] = Effect(trail[i - 1], s[i])

\* The kinds of frames.
LEMMA FrameShape ==
  ASSUME NEW f \in Frames
  PROVE  \/ f = Hello /\ f.op = "hello"
         \/ f = EOR /\ f.op = "eor"
         \/ f.op = "add" /\ f.key \in Keys /\ f.val \in Values
         \/ f.op = "del" /\ f.key \in Keys
BY DEF Frames, Hello, EOR

\* What each kind does.
LEMMA EffectIs ==
  ASSUME NEW v \in Views, NEW f \in Frames
  PROVE  /\ Effect(v, f) \in Views
         /\ f.op = "hello" =>
              /\ Effect(v, f).routes = v.routes
              /\ Effect(v, f).stale = {k \in Keys : v.routes[k] # None}
         /\ f.op = "add" =>
              /\ Effect(v, f).routes = [v.routes EXCEPT ![f.key] = f.val]
              /\ Effect(v, f).stale = v.stale \ {f.key}
         /\ f.op = "del" =>
              /\ Effect(v, f).routes = [v.routes EXCEPT ![f.key] = None]
              /\ Effect(v, f).stale = v.stale \ {f.key}
         /\ f.op = "eor" =>
              /\ Effect(v, f).routes = [k \in Keys |-> IF k \in v.stale THEN None
                                                       ELSE v.routes[k]]
              /\ Effect(v, f).stale = {}
<1>0. /\ v.routes \in [Keys -> Values \cup {None}]
      /\ v.stale \in SUBSET Keys
      /\ v = [routes |-> v.routes, stale |-> v.stale]
  BY DEF Views
<1>1. CASE f.op = "hello"
  BY <1>0, <1>1 DEF Effect, Views
<1>2. CASE f.op = "add" /\ f.key \in Keys /\ f.val \in Values
  BY <1>0, <1>2 DEF Effect, Views
<1>3. CASE f.op = "del" /\ f.key \in Keys
  BY <1>0, <1>3 DEF Effect, Views
<1>4. CASE f.op = "eor"
  BY <1>0, <1>4 DEF Effect, Views
<1>. QED  BY <1>1, <1>2, <1>3, <1>4, FrameShape

\* An empty socket leads nowhere else.
LEMMA TrailOfNothing ==
  ASSUME NEW v \in Views
  PROVE  /\ Leads(v, <<>>, v)
         /\ \A e \in Views : Leads(v, <<>>, e) => e = v
<1>1. Leads(v, <<>>, v)
  <2>. DEFINE t == [i \in 0 .. 0 |-> v]
  <2>1. t \in [0 .. Len(<<>>) -> Views] /\ t[0] = v /\ t[Len(<<>>)] = v
    OBVIOUS
  <2>2. \A i \in 1 .. Len(<<>>) : t[i] = Effect(t[i - 1], <<>>[i])
    OBVIOUS
  <2>. QED  BY <2>1, <2>2 DEF Leads
<1>2. \A e \in Views : Leads(v, <<>>, e) => e = v
  BY DEF Leads
<1>. QED  BY <1>1, <1>2

\* A write takes the end one view further.
LEMMA TrailOfWrite ==
  ASSUME NEW v \in Views, NEW e \in Views, NEW s \in Seq(Frames),
         NEW f \in Frames, Leads(v, s, e)
  PROVE  Leads(v, Append(s, f), Effect(e, f))
<1>1. PICK t \in [0 .. Len(s) -> Views] :
        /\ t[0] = v
        /\ t[Len(s)] = e
        /\ \A i \in 1 .. Len(s) : t[i] = Effect(t[i - 1], s[i])
  BY DEF Leads
<1>. DEFINE r == Append(s, f)
            u == [i \in 0 .. Len(s) + 1 |-> IF i <= Len(s) THEN t[i] ELSE Effect(e, f)]
<1>2. /\ Len(s) \in Nat
      /\ Len(r) = Len(s) + 1
      /\ \A i \in 1 .. Len(s) : r[i] = s[i]
      /\ r[Len(s) + 1] = f
  OBVIOUS
<1>3. Effect(e, f) \in Views
  BY EffectIs
<1>4. u \in [0 .. Len(r) -> Views]
  BY <1>2, <1>3
<1>5. u[0] = v /\ u[Len(r)] = Effect(e, f)
  BY <1>1, <1>2
<1>6. ASSUME NEW i \in 1 .. Len(r)
      PROVE  u[i] = Effect(u[i - 1], r[i])
  <2>1. CASE i \in 1 .. Len(s)
    <3>1. u[i] = t[i] /\ u[i - 1] = t[i - 1] /\ r[i] = s[i]
      BY <1>2, <2>1
    <3>. QED  BY <1>1, <2>1, <3>1
  <2>2. CASE i = Len(s) + 1
    <3>1. u[i] = Effect(e, f) /\ u[i - 1] = t[Len(s)] /\ r[i] = f
      BY <1>2, <2>2
    <3>. QED  BY <1>1, <3>1
  <2>. QED  BY <1>2, <2>1, <2>2
<1>. HIDE DEF u, r
<1>7. Leads(v, r, Effect(e, f))
  BY <1>4, <1>5, <1>6 DEF Leads
<1>. QED  BY <1>7 DEF r

\* A read takes its first view away.
LEMMA TrailOfRead ==
  ASSUME NEW v \in Views, NEW e \in Views, NEW s \in Seq(Frames), s # <<>>,
         Leads(v, s, e)
  PROVE  Leads(Effect(v, Head(s)), Tail(s), e)
<1>1. PICK t \in [0 .. Len(s) -> Views] :
        /\ t[0] = v
        /\ t[Len(s)] = e
        /\ \A i \in 1 .. Len(s) : t[i] = Effect(t[i - 1], s[i])
  BY DEF Leads
<1>. DEFINE r == Tail(s)
            u == [i \in 0 .. Len(s) - 1 |-> t[i + 1]]
<1>2. /\ Len(s) \in Nat \ {0}
      /\ Len(r) = Len(s) - 1
      /\ \A i \in 1 .. Len(r) : r[i] = s[i + 1]
      /\ Head(s) = s[1]
  OBVIOUS
<1>3. u \in [0 .. Len(r) -> Views]
  BY <1>2
<1>4. u[0] = Effect(v, Head(s)) /\ u[Len(r)] = e
  <2>1. u[0] = t[1] /\ u[Len(r)] = t[Len(s)]
    BY <1>2
  <2>2. t[1] = Effect(t[0], s[1])
    BY <1>1, <1>2
  <2>. QED  BY <1>1, <1>2, <2>1, <2>2
<1>5. ASSUME NEW i \in 1 .. Len(r)
      PROVE  u[i] = Effect(u[i - 1], r[i])
  <2>1. u[i] = t[i + 1] /\ u[i - 1] = t[i] /\ r[i] = s[i + 1]
    BY <1>2
  <2>2. i + 1 \in 1 .. Len(s) /\ (i + 1) - 1 = i
    BY <1>2
  <2>. QED  BY <1>1, <2>1, <2>2
<1>. HIDE DEF u, r
<1>6. Leads(Effect(v, Head(s)), r, e)
  BY <1>3, <1>4, <1>5 DEF Leads
<1>. QED  BY <1>6 DEF r

\* A socket cut short leads somewhere.
LEMMA TrailOfPrefix ==
  ASSUME NEW v \in Views, NEW e \in Views, NEW s \in Seq(Frames),
         NEW n0 \in 0 .. Len(s), Leads(v, s, e)
  PROVE  \E g \in Views : Leads(v, SubSeq(s, 1, n0), g)
<1>1. PICK t \in [0 .. Len(s) -> Views] :
        /\ t[0] = v
        /\ t[Len(s)] = e
        /\ \A i \in 1 .. Len(s) : t[i] = Effect(t[i - 1], s[i])
  BY DEF Leads
<1>. DEFINE r == SubSeq(s, 1, n0)
            u == [i \in 0 .. n0 |-> t[i]]
<1>2. Len(s) \in Nat /\ Len(r) = n0 /\ \A i \in 1 .. n0 : r[i] = s[i]
  OBVIOUS
<1>3. u \in [0 .. Len(r) -> Views] /\ u[0] = v /\ u[Len(r)] \in Views
  BY <1>1, <1>2
<1>4. \A i \in 1 .. Len(r) : u[i] = Effect(u[i - 1], r[i])
  BY <1>1, <1>2
<1>. HIDE DEF u, r
<1>5. Leads(v, r, u[Len(r)])
  BY <1>3, <1>4 DEF Leads
<1>. QED  BY <1>3, <1>5 DEF r

-----------------------------------------------------------------------------
(***************************************************************************)
(* The inductive invariant.                                                *)
(***************************************************************************)

\* The running pass writes everything: apply's choice, which its writes do not change.
Full == resync \/ cur.hop # fed.hop

\* The end of the trail while a full resync is written: anything before the HELLO;
\* then what was announced stands and the rest is absent, stale or still to be
\* announced; the table of cur after the EOR.
FullSoFar(e) ==
  \/ out = FullFrames(cur)
  \/ /\ out \subseteq FullFrames(cur) \ {Hello}
     /\ EOR \in out
     /\ \A k \in Keys :
          IF Table(cur)[k] = None
          THEN e.routes[k] = None \/ k \in e.stale
          ELSE \/ Add(k, Table(cur)[k]) \in out
               \/ e.routes[k] = Table(cur)[k] /\ k \notin e.stale
  \/ out = {} /\ e = [routes |-> Table(cur), stale |-> {}]

\* The same while a diff is written: what is not in it stands already.
DiffSoFar(e) ==
  /\ e.stale = {}
  /\ \A f \in out : \/ f.op = "add" /\ f.val = Table(cur)[f.key]
                    \/ f.op = "del" /\ Table(cur)[f.key] = None
  /\ \A k \in Keys : \/ e.routes[k] = Table(cur)[k]
                     \/ \E f \in out : f.key = k

\* What a live connection leads to.  A feed that owes a resync and is at rest has
\* failed (it has no next hop).
Good(e) ==
  conn = "live" =>
    /\ pc = "idle" => IF resync THEN failing
                      ELSE e = [routes |-> Table(fed), stale |-> {}]
    /\ pc = "write" => IF Full THEN FullSoFar(e) ELSE DiffSoFar(e)

FeedSound ==
  /\ TypeOK
  /\ \E e \in Views : Leads(View, sock, e) /\ Good(e)

-----------------------------------------------------------------------------
(***************************************************************************)
(* The frames of a pass.                                                   *)
(***************************************************************************)

LEMMA TableType ==
  ASSUME NEW s \in States
  PROVE  Table(s) \in [Keys -> Values \cup {None}]
BY FeedAssumption DEF Table, States, Keys, Values

LEMMA NothingType == Nothing \in States
BY DEF Nothing, States

LEMMA FullFramesType ==
  ASSUME NEW s \in States
  PROVE  /\ FullFrames(s) \subseteq Frames
         /\ Hello \in FullFrames(s)
         /\ EOR \in FullFrames(s)
         /\ \A f \in FullFrames(s) : \/ f = Hello
                                     \/ f = EOR
                                     \/ \E k \in Keys : /\ Table(s)[k] \in Values
                                                        /\ f = Add(k, Table(s)[k])
         /\ \A k \in Keys : Table(s)[k] # None => Add(k, Table(s)[k]) \in FullFrames(s)
<1>1. \A k \in Keys : Table(s)[k] # None => Table(s)[k] \in Values
  BY TableType
<1>. QED  BY <1>1 DEF FullFrames, Frames, Add

\* With a next hop for every flow the diff is well formed, each frame of it gives
\* its key what s says, and if no next hop changed the other keys are as fed.
LEMMA DiffFramesAre ==
  ASSUME NEW s \in States, fed \in States, HopsGiven(s)
  PROVE  /\ DiffFrames(s) \subseteq Frames
         /\ \A f \in DiffFrames(s) :
              \/ f.op = "add" /\ f.val = Table(s)[f.key]
              \/ f.op = "del" /\ Table(s)[f.key] = None
         /\ s.hop = fed.hop =>
              \A k \in Keys : \/ Table(fed)[k] = Table(s)[k]
                              \/ \E f \in DiffFrames(s) : f.key = k
<1>1. /\ s.anchors \in [Anchors -> Attrs \cup {None}]
      /\ s.flows \subseteq Flows
      /\ fed.anchors \in [Anchors -> Attrs \cup {None}]
      /\ fed.flows \subseteq Flows
  BY DEF States
<1>2. /\ \A a \in Anchors : Table(s)[a] = s.anchors[a] /\ Table(fed)[a] = fed.anchors[a]
      /\ \A f \in Flows : /\ Table(s)[f] = IF f \in s.flows THEN s.hop[FamilyOf[f]] ELSE None
                          /\ Table(fed)[f] = IF f \in fed.flows THEN fed.hop[FamilyOf[f]]
                                             ELSE None
  BY FeedAssumption DEF Table, Keys
<1>3. \A f \in s.flows : Table(s)[f] \in Values
  BY <1>1, <1>2, TableType DEF HopsGiven, Keys
<1>4. ASSUME NEW f \in DiffFrames(s)
      PROVE  /\ f \in Frames
             /\ \/ f.op = "add" /\ f.val = Table(s)[f.key]
                \/ f.op = "del" /\ Table(s)[f.key] = None
  <2>1. CASE \E a \in Anchors : s.anchors[a] # None /\ f = Add(a, s.anchors[a])
    BY <1>1, <1>2, <2>1 DEF Add, Frames, Keys, Values
  <2>2. CASE \E a \in Anchors : s.anchors[a] = None /\ f = Del(a)
    BY <1>1, <1>2, <2>2 DEF Del, Frames, Keys
  <2>3. CASE \E g \in s.flows : f = Add(g, Table(s)[g])
    BY <1>1, <1>3, <2>3 DEF Add, Frames, Keys
  <2>4. CASE \E g \in fed.flows \ s.flows : f = Del(g)
    BY <1>1, <1>2, <2>4 DEF Del, Frames, Keys
  <2>. QED  BY <2>1, <2>2, <2>3, <2>4 DEF DiffFrames
<1>5. ASSUME s.hop = fed.hop, NEW k \in Keys, Table(fed)[k] # Table(s)[k]
      PROVE  \E f \in DiffFrames(s) : f.key = k
  <2>1. CASE k \in Anchors
    <3>1. s.anchors[k] # fed.anchors[k]
      BY <1>2, <1>5, <2>1
    <3>2. Add(k, s.anchors[k]) \in DiffFrames(s) \/ Del(k) \in DiffFrames(s)
      BY <2>1, <3>1 DEF DiffFrames
    <3>. QED  BY <3>2 DEF Add, Del
  <2>2. CASE k \in Flows
    <3>1. k \in s.flows \ fed.flows \/ k \in fed.flows \ s.flows
      BY <1>2, <1>5, <2>2
    <3>2. Add(k, Table(s)[k]) \in DiffFrames(s) \/ Del(k) \in DiffFrames(s)
      BY <3>1 DEF DiffFrames
    <3>. QED  BY <3>2 DEF Add, Del
  <2>. QED  BY <2>1, <2>2 DEF Keys
<1>. QED  BY <1>4, <1>5

\* The order of the frames: HELLO before and EOR after all others.
LEMMA RankIs ==
  ASSUME NEW k \in Keys, NEW v
  PROVE  /\ Rank(Hello) = 0
         /\ Rank(EOR) = 5
         /\ Rank(Add(k, v)) \in {1, 3}
<1>1. Rank(Hello) = 0 /\ Rank(EOR) = 5
  BY DEF Rank, Hello, EOR
<1>2. CASE k \in Anchors
  <2>1. k \notin Flows
    BY <1>2, FeedAssumption
  <2>2. Rank(Add(k, v)) = 1
    BY <1>2, <2>1 DEF Rank, Add
  <2>. QED  BY <1>1, <2>2
<1>3. CASE k \in Flows
  <2>1. k \notin Anchors
    BY <1>3, FeedAssumption
  <2>2. Rank(Add(k, v)) = 3
    BY <1>3, <2>1 DEF Rank, Add
  <2>. QED  BY <1>1, <2>2
<1>. QED  BY <1>2, <1>3 DEF Keys

-----------------------------------------------------------------------------
(***************************************************************************)
(* Every step keeps the invariant.                                         *)
(***************************************************************************)

LEMMA ViewType ==
  /\ TypeOK => View \in Views
  /\ TypeOK' => View' \in Views
BY DEF TypeOK, View, Views

\* A step that neither writes nor reads keeps the end of the trail.
LEMMA SameTrail ==
  ASSUME FeedSound, TypeOK', UNCHANGED <<routes, stale, sock>>,
         \A e \in Views : Good(e) => Good(e)'
  PROVE  FeedSound'
<1>1. PICK e \in Views : Leads(View, sock, e) /\ Good(e)
  BY DEF FeedSound
<1>2. View' = View /\ sock' = sock
  BY DEF View
<1>3. Leads(View, sock, e)'
  BY <1>1, <1>2 DEF Leads
<1>4. Good(e)'
  BY <1>1
<1>. QED  BY <1>3, <1>4 DEF FeedSound

LEMMA InitSound == Init => FeedSound
<1>. SUFFICES ASSUME Init PROVE FeedSound
  OBVIOUS
<1>1. /\ have \in BOOLEAN
      /\ birdUp \in BOOLEAN
      /\ resync \in BOOLEAN
      /\ wake \in BOOLEAN
      /\ retry \in BOOLEAN
      /\ failing \in BOOLEAN
  BY Zenon DEF Init
<1>2. /\ want \in States
      /\ fed \in States
      /\ cur \in States
      /\ routes \in [Keys -> Values \cup {None}]
      /\ stale \subseteq Keys
      /\ sock \in Seq(Frames)
      /\ out \subseteq Frames
  BY NothingType DEF Init
<1>3. /\ n \in Nat
      /\ changes \in 0 .. MaxChanges
      /\ faults \in 0 .. MaxFaults
  BY FeedAssumption DEF Init
<1>4. conn = "none" /\ pc = "idle" /\ sock = <<>>
  BY DEF Init
<1>5. TypeOK
  BY <1>1, <1>2, <1>3, <1>4 DEF TypeOK
<1>6. View \in Views /\ Leads(View, sock, View)
  BY <1>4, <1>5, ViewType, TrailOfNothing
<1>7. Good(View)
  BY <1>4 DEF Good
<1>. QED  BY <1>5, <1>6, <1>7 DEF FeedSound

\* The feed owes nothing or is failing after the error path of a pass.
LEMMA FailedType ==
  ASSUME Failed
  PROVE  /\ failing' \in BOOLEAN
         /\ failing'
         /\ retry' \in BOOLEAN
         /\ pc' = "idle"
         /\ cur' \in States
         /\ out' = {}
         /\ n' \in Nat
<1>1. failing' \in BOOLEAN /\ failing' /\ retry' \in BOOLEAN
  BY Zenon DEF Failed
<1>2. pc' = "idle" /\ cur' \in States /\ out' = {} /\ n' \in Nat
  BY NothingType DEF Failed
<1>. QED  BY <1>1, <1>2

LEMMA StartPassSound ==
  ASSUME FeedSound, StartPass, wake' \in BOOLEAN
  PROVE  FeedSound'
<1>0. /\ pc = "idle"
      /\ UNCHANGED <<have, want, birdUp, routes, stale, sock, fed, changes, faults>>
      /\ TypeOK
  BY DEF StartPass, envVars, FeedSound
<1>1. CASE conn = "none" /\ ~birdUp /\ Failed /\ UNCHANGED <<conn, resync>>
  <2>1. TypeOK'
    BY <1>0, <1>1, FailedType DEF TypeOK
  <2>2. \A e \in Views : Good(e)'
    BY <1>1 DEF Good
  <2>. QED  BY <1>0, <2>1, <2>2, SameTrail
<1>2. CASE /\ conn' = IF conn = "none" THEN "live" ELSE conn
           /\ resync' = ResyncNeeded
           /\ ~HopsGiven(want)
           /\ Failed
  <2>1. resync' \in BOOLEAN
    BY <1>0, <1>2 DEF ResyncNeeded, TypeOK
  <2>2. TypeOK'
    BY <1>0, <1>2, <2>1, FailedType DEF TypeOK
  <2>3. ASSUME NEW e \in Views, Good(e)
        PROVE  Good(e)'
    <3>1. failing' /\ pc' = "idle"
      BY <1>2, FailedType
    <3>2. conn' = "live" /\ ~resync' => conn = "live" /\ ~resync
      BY <1>2 DEF ResyncNeeded
    <3>. QED  BY <1>0, <2>3, <3>1, <3>2 DEF Good
  <2>. QED  BY <1>0, <2>2, <2>3, SameTrail
<1>3. CASE /\ conn' = IF conn = "none" THEN "live" ELSE conn
           /\ resync' = ResyncNeeded
           /\ HopsGiven(want)
           /\ pc' = "write"
           /\ cur' = want
           /\ out' = IF resync' \/ want.hop # fed.hop THEN FullFrames(want)
                     ELSE DiffFrames(want)
           /\ UNCHANGED <<failing, retry, n>>
  <2>1. want \in States /\ fed \in States
    BY <1>0 DEF TypeOK
  <2>2. resync' \in BOOLEAN
    BY <1>0, <1>3 DEF ResyncNeeded, TypeOK
  <2>3. out' \subseteq Frames
    BY <1>3, <2>1, FullFramesType, DiffFramesAre
  <2>4. TypeOK'
    BY <1>0, <1>3, <2>2, <2>3 DEF TypeOK
  <2>5. ASSUME NEW e \in Views, Good(e)
        PROVE  Good(e)'
    <3>1. Full' <=> (resync' \/ want.hop # fed.hop)
      BY <1>0, <1>3 DEF Full
    <3>2. CASE Full'
      <4>1. out' = FullFrames(cur')
        BY <1>3, <3>1, <3>2
      <4>2. FullSoFar(e)'
        BY <4>1 DEF FullSoFar, FullFrames, Table
      <4>. QED  BY <1>3, <3>2, <4>2 DEF Good
    <3>3. CASE ~Full' /\ conn' = "live"
      <4>1. /\ conn = "live"
            /\ ~resync
            /\ want.hop = fed.hop
            /\ out' = DiffFrames(want)
        BY <1>3, <3>1, <3>3 DEF ResyncNeeded
      <4>2. e.routes = Table(fed) /\ e.stale = {}
        BY <1>0, <2>5, <4>1 DEF Good
      <4>3. /\ \A f \in out' : \/ f.op = "add" /\ f.val = Table(want)[f.key]
                               \/ f.op = "del" /\ Table(want)[f.key] = None
            /\ \A k \in Keys : \/ e.routes[k] = Table(want)[k]
                               \/ \E f \in out' : f.key = k
        BY <1>3, <2>1, <4>1, <4>2, DiffFramesAre
      <4>4. Table(cur)' = Table(want)
        BY <1>3 DEF Table
      <4>5. DiffSoFar(e)'
        BY <4>2, <4>3, <4>4 DEF DiffSoFar
      <4>. QED  BY <1>3, <3>3, <4>5 DEF Good
    <3>4. CASE conn' # "live"
      BY <3>4 DEF Good
    <3>. QED  BY <3>2, <3>3, <3>4
  <2>. QED  BY <1>0, <2>4, <2>5, SameTrail
<1>. QED  BY <1>1, <1>2, <1>3 DEF StartPass

\* Steps of timers, watcher, store and supervisor, which touch neither BIRD's table
\* nor the snapshots of the feed.
LEMMA AsideSound ==
  ASSUME FeedSound, TypeOK',
         UNCHANGED <<routes, stale, sock, fed, resync, failing, pc, cur, out>>,
         conn' = conn \/ conn' # "live"
  PROVE  FeedSound'
<1>1. ASSUME NEW e \in Views, Good(e)
      PROVE  Good(e)'
  <2>1. CASE conn' # "live"
    BY <2>1 DEF Good
  <2>2. CASE conn' = conn
    <3>1. /\ Full' <=> Full
          /\ FullSoFar(e)' <=> FullSoFar(e)
          /\ DiffSoFar(e)' <=> DiffSoFar(e)
          /\ Table(fed)' = Table(fed)
      BY DEF Full, FullSoFar, DiffSoFar, Table, FullFrames
    <3>. QED  BY <1>1, <2>2, <3>1 DEF Good
  <2>. QED  BY <2>1, <2>2
<1>. QED  BY <1>1, SameTrail

LEMMA TimersSound ==
  ASSUME FeedSound, \/ SkipPass /\ wake' \in {wake, FALSE}
                    \/ RetryFires
                    \/ Watch
  PROVE  FeedSound'
<1>1. UNCHANGED <<have, want, birdUp, routes, stale, sock, n, fed, resync, failing,
                  pc, cur, out, changes, faults>>
  BY DEF SkipPass, RetryFires, Watch, envVars
<1>2. conn' = conn \/ conn' = "none"
  BY DEF SkipPass, RetryFires, Watch
<1>3. wake' \in BOOLEAN /\ retry' \in BOOLEAN
  <2>1. wake' = wake \/ wake' = TRUE \/ wake' = FALSE
    BY DEF RetryFires, Watch
  <2>2. retry' = retry \/ retry' = FALSE
    BY DEF SkipPass, RetryFires, Watch
  <2>3. wake \in BOOLEAN /\ retry \in BOOLEAN
    BY DEF FeedSound, TypeOK
  <2>. QED  BY <2>1, <2>2, <2>3, Zenon
<1>4. TypeOK'
  BY <1>1, <1>2, <1>3 DEF FeedSound, TypeOK
<1>. QED  BY <1>1, <1>2, <1>4, AsideSound

LEMMA DeliverSound ==
  ASSUME FeedSound, NEW s \in States, Deliver(s)
  PROVE  FeedSound'
<1>1. /\ want' = s
      /\ changes' = changes \/ (changes < MaxChanges /\ changes' = changes + 1)
      /\ UNCHANGED <<birdUp, routes, stale, sock, conn, n, fed, resync, retry,
                     failing, pc, cur, out, faults>>
  BY DEF Deliver
<1>2. changes' \in 0 .. MaxChanges
  BY <1>1, FeedAssumption DEF FeedSound, TypeOK
<1>3. have' \in BOOLEAN /\ wake' \in BOOLEAN
  <2>1. have' = TRUE /\ (wake' = wake \/ wake' = TRUE)
    BY DEF Deliver
  <2>2. wake \in BOOLEAN
    BY DEF FeedSound, TypeOK
  <2>. QED  BY <2>1, <2>2, Zenon
<1>4. TypeOK'
  BY <1>1, <1>2, <1>3 DEF FeedSound, TypeOK
<1>. QED  BY <1>1, <1>4, AsideSound

LEMMA BirdStartsSound == FeedSound /\ BirdStarts => FeedSound'
<1>. SUFFICES ASSUME FeedSound, BirdStarts PROVE FeedSound'
  OBVIOUS
<1>1. UNCHANGED <<have, want, routes, stale, sock, conn, n, fed, resync, wake,
                  retry, failing, pc, cur, out, changes, faults>>
  BY DEF BirdStarts, feedVars
<1>2. birdUp' \in BOOLEAN
  BY Zenon DEF BirdStarts
<1>3. TypeOK'
  BY <1>1, <1>2 DEF FeedSound, TypeOK
<1>. QED  BY <1>1, <1>3, AsideSound

\* BIRD takes its table and the socket's frames with it.
LEMMA BirdDiesSound == FeedSound /\ BirdDies => FeedSound'
<1>. SUFFICES ASSUME FeedSound, BirdDies PROVE FeedSound'
  OBVIOUS
<1>1. /\ faults < MaxFaults
      /\ faults' = faults + 1
      /\ routes' = [k \in Keys |-> None]
      /\ stale' = {}
      /\ sock' = <<>>
      /\ conn' = IF conn = "live" THEN "dead" ELSE conn
      /\ UNCHANGED <<have, want, n, fed, resync, wake, retry, failing, pc, cur,
                     out, changes>>
  BY DEF BirdDies, feedVars
<1>2. birdUp' \in BOOLEAN
  BY Zenon DEF BirdDies
<1>3. faults' \in 0 .. MaxFaults
  BY <1>1, FeedAssumption DEF FeedSound, TypeOK
<1>4. TypeOK'
  BY <1>1, <1>2, <1>3 DEF FeedSound, TypeOK
<1>5. View' \in Views /\ sock' = <<>>
  BY <1>1, <1>4, ViewType
<1>6. Leads(View', sock', View')
  BY <1>5, TrailOfNothing
<1>7. \A e \in Views : Good(e)'
  BY <1>1 DEF Good
<1>. QED  BY <1>4, <1>5, <1>6, <1>7 DEF FeedSound

LEMMA BirdReadsSound == FeedSound /\ BirdReads => FeedSound'
<1>. SUFFICES ASSUME FeedSound, BirdReads PROVE FeedSound'
  OBVIOUS
<1>. DEFINE f == Head(sock)
<1>1. /\ sock # <<>>
      /\ sock' = Tail(sock)
      /\ UNCHANGED <<have, want, birdUp, conn, n, fed, resync, wake, retry,
                     failing, pc, cur, out, changes, faults>>
  BY DEF BirdReads, feedVars
<1>2. TypeOK /\ View \in Views
  BY ViewType DEF FeedSound
<1>3. sock \in Seq(Frames) /\ f \in Frames /\ sock' \in Seq(Frames)
  BY <1>1, <1>2 DEF TypeOK
<1>4. View.routes = routes /\ View.stale = stale
  BY DEF View
<1>5. routes' = Effect(View, f).routes /\ stale' = Effect(View, f).stale
  <2>1. CASE f.op = "hello"
    BY <1>2, <1>3, <1>4, <2>1, EffectIs DEF BirdReads
  <2>2. CASE f.op = "add"
    BY <1>2, <1>3, <1>4, <2>2, EffectIs DEF BirdReads
  <2>3. CASE f.op = "del"
    BY <1>2, <1>3, <1>4, <2>3, EffectIs DEF BirdReads
  <2>4. CASE f.op = "eor"
    <3>1. /\ routes' = [k \in Keys |-> IF k \in stale THEN None ELSE routes[k]]
          /\ stale' = {}
      BY <2>4 DEF BirdReads
    <3>2. /\ Effect(View, f).routes = [k \in Keys |-> IF k \in View.stale THEN None
                                                       ELSE View.routes[k]]
          /\ Effect(View, f).stale = {}
      BY <1>2, <1>3, <2>4, EffectIs
    <3>. QED  BY <1>4, <3>1, <3>2
  <2>. QED  BY <1>3, <2>1, <2>2, <2>3, <2>4, FrameShape
<1>6. Effect(View, f) \in Views
  BY <1>2, <1>3, EffectIs
<1>7. View' = Effect(View, f)
  BY <1>5, <1>6 DEF View, Views
<1>8. routes' \in [Keys -> Values \cup {None}] /\ stale' \subseteq Keys
  BY <1>5, <1>6 DEF Views
<1>9. TypeOK'
  BY <1>1, <1>2, <1>3, <1>8 DEF TypeOK
<1>10. PICK e \in Views : Leads(View, sock, e) /\ Good(e)
  BY DEF FeedSound
<1>11. Leads(View', sock', e)
  BY <1>1, <1>2, <1>3, <1>7, <1>10, TrailOfRead
<1>12. Good(e)'
  <2>1. /\ Full' <=> Full
        /\ FullSoFar(e)' <=> FullSoFar(e)
        /\ DiffSoFar(e)' <=> DiffSoFar(e)
        /\ Table(fed)' = Table(fed)
    BY <1>1 DEF Full, FullSoFar, DiffSoFar, Table, FullFrames
  <2>. QED  BY <1>1, <1>10, <2>1 DEF Good
<1>. QED  BY <1>9, <1>11, <1>12 DEF FeedSound

\* A new life has no connection; BIRD may read the beginning of what was written.
LEMMA AgentRestartSound ==
  ASSUME FeedSound, NEW k \in 0 .. Len(sock), AgentRestart(k)
  PROVE  FeedSound'
<1>1. /\ faults < MaxFaults
      /\ faults' = faults + 1
      /\ want' = Nothing
      /\ sock' = SubSeq(sock, 1, k)
      /\ conn' = "none"
      /\ n' = 0
      /\ fed' = Nothing
      /\ pc' = "idle"
      /\ cur' = Nothing
      /\ out' = {}
      /\ UNCHANGED <<birdUp, routes, stale, changes>>
  BY DEF AgentRestart, FreshFeed
<1>2. /\ have' \in BOOLEAN
      /\ resync' \in BOOLEAN
      /\ wake' \in BOOLEAN
      /\ retry' \in BOOLEAN
      /\ failing' \in BOOLEAN
  BY Zenon DEF AgentRestart, FreshFeed
<1>3. faults' \in 0 .. MaxFaults
  BY <1>1, FeedAssumption DEF FeedSound, TypeOK
<1>4. TypeOK /\ View \in Views /\ sock \in Seq(Frames)
  BY ViewType DEF FeedSound, TypeOK
<1>5. sock' \in Seq(Frames)
  BY <1>1, <1>4
<1>6. TypeOK'
  BY <1>1, <1>2, <1>3, <1>4, <1>5, NothingType DEF TypeOK
<1>7. PICK e \in Views : Leads(View, sock, e)
  BY DEF FeedSound
<1>8. PICK g \in Views : Leads(View, SubSeq(sock, 1, k), g)
  BY <1>4, <1>7, TrailOfPrefix
<1>9. Leads(View, sock, g)'
  BY <1>1, <1>8 DEF View
<1>10. Good(g)'
  BY <1>1 DEF Good
<1>. QED  BY <1>6, <1>9, <1>10 DEF FeedSound

\* A frame written on a live connection takes the end of the trail on.
LEMMA WriteGood ==
  ASSUME TypeOK, NEW e \in Views, Good(e), conn = "live", pc = "write",
         NEW f \in out, \A g \in out : Rank(f) <= Rank(g),
         out' = out \ {f}, UNCHANGED <<conn, pc, cur, fed, resync>>
  PROVE  Good(Effect(e, f))'
<1>. DEFINE d == Effect(e, f)
<1>1. /\ f \in Frames
      /\ cur \in States
      /\ e.routes \in [Keys -> Values \cup {None}]
      /\ e.stale \in SUBSET Keys
  BY DEF TypeOK, Views
<1>2. d \in Views
  BY <1>1, EffectIs
<1>3. Table(cur) \in [Keys -> Values \cup {None}]
  BY <1>1, TableType
<1>4. /\ Full' <=> Full
      /\ Table(cur)' = Table(cur)
      /\ FullFrames(cur)' = FullFrames(cur)
  BY DEF Full, Table, FullFrames
<1>5. CASE Full
  <2>0. FullSoFar(e)
    BY <1>5 DEF Good
  <2>1. ASSUME out = FullFrames(cur)
        PROVE  FullSoFar(d)'
    <3>1. Hello \in out /\ EOR \in out
      BY <1>1, <2>1, FullFramesType
    <3>2. f = Hello
      <4>1. Rank(f) <= 0
        BY <3>1, RankIs DEF Rank, Hello
      <4>2. \A k \in Keys : f = Add(k, Table(cur)[k]) => Rank(f) \in {1, 3}
        BY RankIs
      <4>3. f = EOR => Rank(f) = 5
        BY DEF Rank, EOR
      <4>. QED  BY <1>1, <2>1, <4>1, <4>2, <4>3, FullFramesType
    <3>3. /\ d.routes = e.routes
          /\ d.stale = {k \in Keys : e.routes[k] # None}
      BY <1>1, <3>2, EffectIs DEF Hello
    <3>4. out' \subseteq FullFrames(cur) \ {Hello} /\ EOR \in out'
      BY <2>1, <3>1, <3>2 DEF Hello, EOR
    <3>5. ASSUME NEW k \in Keys
          PROVE  IF Table(cur)[k] = None
                 THEN d.routes[k] = None \/ k \in d.stale
                 ELSE \/ Add(k, Table(cur)[k]) \in out'
                      \/ d.routes[k] = Table(cur)[k] /\ k \notin d.stale
      <4>1. CASE Table(cur)[k] = None
        BY <3>3, <4>1
      <4>2. CASE Table(cur)[k] # None
        <5>1. Add(k, Table(cur)[k]) \in FullFrames(cur)
          BY <1>1, <4>2, FullFramesType
        <5>2. Add(k, Table(cur)[k]) # Hello
          BY DEF Add, Hello
        <5>. QED  BY <2>1, <3>2, <4>2, <5>1, <5>2
      <4>. QED  BY <4>1, <4>2
    <3>. HIDE DEF d
    <3>. QED  BY <1>4, <3>4, <3>5 DEF FullSoFar
  <2>2. ASSUME out \subseteq FullFrames(cur) \ {Hello},
               EOR \in out,
               \A k \in Keys :
                 IF Table(cur)[k] = None
                 THEN e.routes[k] = None \/ k \in e.stale
                 ELSE \/ Add(k, Table(cur)[k]) \in out
                      \/ e.routes[k] = Table(cur)[k] /\ k \notin e.stale
        PROVE  FullSoFar(d)'
    <3>1. CASE f = EOR
      <4>1. \A g \in out : Rank(g) >= 5
        BY <3>1 DEF Rank, EOR
      <4>2. \A k \in Keys : Add(k, Table(cur)[k]) \notin out
        BY <4>1, RankIs
      <4>3. out' = {}
        BY <1>1, <2>2, <3>1, <4>2, FullFramesType
      <4>4. /\ d.routes = [k \in Keys |-> IF k \in e.stale THEN None ELSE e.routes[k]]
            /\ d.stale = {}
        BY <1>1, <3>1, EffectIs DEF EOR
      <4>5. \A k \in Keys : d.routes[k] = Table(cur)[k]
        BY <2>2, <4>2, <4>4
      <4>6. d.routes = Table(cur)
        BY <1>2, <1>3, <4>5 DEF Views
      <4>7. d = [routes |-> Table(cur), stale |-> {}]
        BY <1>2, <4>4, <4>6 DEF Views
      <4>. HIDE DEF d
      <4>. QED  BY <1>4, <4>3, <4>7 DEF FullSoFar
    <3>2. CASE f # EOR
      <4>1. PICK j \in Keys : Table(cur)[j] \in Values /\ f = Add(j, Table(cur)[j])
        BY <1>1, <2>2, <3>2, FullFramesType
      <4>2. f.op = "add" /\ f.key = j /\ f.val = Table(cur)[j]
        BY <4>1 DEF Add
      <4>0. /\ d.routes = [e.routes EXCEPT ![f.key] = f.val]
            /\ d.stale = e.stale \ {f.key}
        BY <1>1, <4>2, EffectIs
      <4>3. /\ d.routes = [e.routes EXCEPT ![j] = Table(cur)[j]]
            /\ d.stale = e.stale \ {j}
        BY <4>0, <4>2
      <4>4. /\ d.routes[j] = Table(cur)[j]
            /\ \A k \in Keys \ {j} : d.routes[k] = e.routes[k]
        BY <1>1, <4>3
      <4>5. \A k \in Keys \ {j} : Add(k, Table(cur)[k]) # f
        BY <4>2 DEF Add
      <4>6. Table(cur)[j] # None
        BY <4>1, FeedAssumption DEF Values
      <4>7. ASSUME NEW k \in Keys
            PROVE  IF Table(cur)[k] = None
                   THEN d.routes[k] = None \/ k \in d.stale
                   ELSE \/ Add(k, Table(cur)[k]) \in out'
                        \/ d.routes[k] = Table(cur)[k] /\ k \notin d.stale
        <5>1. CASE k = j
          BY <4>3, <4>4, <4>6, <5>1
        <5>2. CASE k # j
          BY <2>2, <4>3, <4>4, <4>5, <5>2
        <5>. QED  BY <5>1, <5>2
      <4>8. out' \subseteq FullFrames(cur) \ {Hello} /\ EOR \in out'
        BY <2>2, <3>2
      <4>. HIDE DEF d
      <4>. QED  BY <1>4, <4>7, <4>8 DEF FullSoFar
    <3>. QED  BY <3>1, <3>2
  <2>3. FullSoFar(d)'
    BY <2>0, <2>1, <2>2 DEF FullSoFar
  <2>. QED  BY <1>4, <1>5, <2>3 DEF Good
<1>6. CASE ~Full
  <2>0. DiffSoFar(e)
    BY <1>6 DEF Good
  <2>1. /\ f.op = "add" \/ f.op = "del"
        /\ f.key \in Keys
        /\ f.op = "add" => f.val = Table(cur)[f.key]
        /\ f.op = "del" => Table(cur)[f.key] = None
    BY <1>1, <2>0, FrameShape DEF DiffSoFar
  <2>2. /\ d.routes = [e.routes EXCEPT ![f.key] = Table(cur)[f.key]]
        /\ d.stale = e.stale \ {f.key}
    <3>1. CASE f.op = "add"
      <4>1. /\ d.routes = [e.routes EXCEPT ![f.key] = f.val]
            /\ d.stale = e.stale \ {f.key}
        BY <1>1, <3>1, EffectIs
      <4>. QED  BY <2>1, <3>1, <4>1
    <3>2. CASE f.op = "del"
      <4>1. /\ d.routes = [e.routes EXCEPT ![f.key] = None]
            /\ d.stale = e.stale \ {f.key}
        BY <1>1, <3>2, EffectIs
      <4>. QED  BY <2>1, <3>2, <4>1
    <3>. QED  BY <2>1, <3>1, <3>2
  <2>3. /\ d.routes[f.key] = Table(cur)[f.key]
        /\ \A k \in Keys : k # f.key => d.routes[k] = e.routes[k]
        /\ d.stale = {}
    BY <1>1, <2>0, <2>1, <2>2 DEF DiffSoFar
  <2>4. \A k \in Keys : \/ d.routes[k] = Table(cur)[k]
                        \/ \E g \in out' : g.key = k
    BY <2>0, <2>3 DEF DiffSoFar
  <2>5. \A g \in out' : \/ g.op = "add" /\ g.val = Table(cur)[g.key]
                        \/ g.op = "del" /\ Table(cur)[g.key] = None
    BY <2>0 DEF DiffSoFar
  <2>. HIDE DEF d
  <2>6. DiffSoFar(d)'
    BY <1>4, <2>3, <2>4, <2>5 DEF DiffSoFar
  <2>. QED  BY <1>4, <1>6, <2>6 DEF Good, d
<1>. QED  BY <1>5, <1>6

LEMMA WriteSound ==
  ASSUME FeedSound, NEW f \in out, Write(f)
  PROVE  FeedSound'
<1>1. /\ pc = "write"
      /\ \A g \in out : Rank(f) <= Rank(g)
      /\ sock' = IF conn = "live" THEN Append(sock, f) ELSE sock
      /\ UNCHANGED <<have, want, birdUp, routes, stale, fed, wake, changes, faults>>
  BY DEF Write, envVars
<1>2. TypeOK /\ View \in Views /\ f \in Frames /\ sock \in Seq(Frames)
  BY ViewType DEF FeedSound, TypeOK
<1>3. View' = View
  BY <1>1 DEF View
<1>4. CASE DropConn /\ conn # "live"
  <2>1. conn' = "none" /\ sock' = sock /\ Failed
    BY <1>1, <1>4 DEF DropConn
  <2>2. resync' \in BOOLEAN
    BY <1>4, Zenon DEF DropConn
  <2>3. TypeOK'
    BY <1>1, <1>2, <2>1, <2>2, FailedType DEF TypeOK
  <2>4. \A e \in Views : Good(e)'
    BY <2>1 DEF Good
  <2>. QED  BY <1>1, <2>1, <2>3, <2>4, SameTrail
<1>5. CASE /\ n' \in Nat
           /\ out' = out \ {f}
           /\ UNCHANGED <<conn, resync, failing, retry, pc, cur>>
  <2>1. sock' \in Seq(Frames)
    BY <1>1, <1>2
  <2>2. TypeOK'
    BY <1>1, <1>2, <1>5, <2>1 DEF TypeOK
  <2>3. CASE conn = "live"
    <3>1. PICK e \in Views : Leads(View, sock, e) /\ Good(e)
      BY DEF FeedSound
    <3>2. Effect(e, f) \in Views
      BY <1>2, EffectIs
    <3>3. Leads(View, Append(sock, f), Effect(e, f))
      BY <1>2, <3>1, TrailOfWrite
    <3>4. Leads(View', sock', Effect(e, f))
      BY <1>1, <1>3, <2>3, <3>3
    <3>5. Good(Effect(e, f))'
      BY <1>1, <1>2, <1>5, <2>3, <3>1, WriteGood
    <3>. DEFINE d == Effect(e, f)
    <3>6. d \in Views /\ Leads(View', sock', d) /\ Good(d)'
      BY <3>2, <3>4, <3>5
    <3>. HIDE DEF d
    <3>. QED  BY <2>2, <3>6 DEF FeedSound
  <2>4. CASE conn # "live"
    <3>1. \A e \in Views : Good(e)'
      BY <1>5, <2>4 DEF Good
    <3>. QED  BY <1>1, <2>2, <2>4, <3>1, SameTrail
  <2>. QED  BY <2>3, <2>4
<1>6. n + 1 \in Nat /\ 0 \in Nat
  BY <1>2 DEF TypeOK
<1>7. FlushOK(n + 1) \/ conn # "live"
  BY DEF FlushOK
<1>. QED  BY <1>4, <1>5, <1>6, <1>7 DEF Write

LEMMA FinishSound == FeedSound /\ Finish => FeedSound'
<1>. SUFFICES ASSUME FeedSound, Finish PROVE FeedSound'
  OBVIOUS
<1>1. /\ pc = "write"
      /\ out = {}
      /\ UNCHANGED <<have, want, birdUp, routes, stale, sock, wake, changes, faults>>
      /\ TypeOK
  BY DEF Finish, envVars, FeedSound
<1>2. CASE ~FlushOK(n) /\ DropConn /\ UNCHANGED fed
  <2>1. conn' = "none" /\ Failed
    BY <1>2 DEF DropConn
  <2>2. resync' \in BOOLEAN
    BY <1>2, Zenon DEF DropConn
  <2>3. TypeOK'
    BY <1>1, <1>2, <2>1, <2>2, FailedType DEF TypeOK
  <2>4. \A e \in Views : Good(e)'
    BY <2>1 DEF Good
  <2>. QED  BY <1>1, <2>3, <2>4, SameTrail
<1>3. CASE /\ fed' = cur
           /\ resync' = FALSE
           /\ failing' = FALSE
           /\ pc' = "idle"
           /\ cur' = Nothing
           /\ n' = 0
           /\ UNCHANGED <<conn, retry, out>>
  <2>1. resync' \in BOOLEAN /\ failing' \in BOOLEAN
    BY <1>3, Zenon
  <2>2. TypeOK'
    BY <1>1, <1>3, <2>1, NothingType DEF TypeOK
  <2>3. ASSUME NEW e \in Views, Good(e), conn = "live"
        PROVE  e = [routes |-> Table(cur), stale |-> {}]
    <3>1. CASE Full
      <4>1. FullSoFar(e)
        BY <1>1, <2>3, <3>1 DEF Good
      <4>2. out # FullFrames(cur) /\ EOR \notin out
        BY <1>1 DEF FullFrames
      <4>. QED  BY <4>1, <4>2 DEF FullSoFar
    <3>2. CASE ~Full
      <4>1. DiffSoFar(e)
        BY <1>1, <2>3, <3>2 DEF Good
      <4>2. e.stale = {} /\ \A k \in Keys : e.routes[k] = Table(cur)[k]
        BY <1>1, <4>1 DEF DiffSoFar
      <4>3. Table(cur) \in [Keys -> Values \cup {None}]
        BY <1>1, TableType DEF TypeOK
      <4>4. e.routes = Table(cur)
        BY <4>2, <4>3 DEF Views
      <4>. QED  BY <4>2, <4>4 DEF Views
    <3>. QED  BY <3>1, <3>2
  <2>4. ASSUME NEW e \in Views, Good(e)
        PROVE  Good(e)'
    <3>1. Table(fed)' = Table(cur)
      BY <1>3 DEF Table
    <3>. QED  BY <1>3, <2>3, <2>4, <3>1 DEF Good
  <2>. QED  BY <1>1, <2>2, <2>4, SameTrail
<1>. QED  BY <1>2, <1>3 DEF Finish

LEMMA NextSound == FeedSound /\ [Next]_vars => FeedSound'
<1>. SUFFICES ASSUME FeedSound, [Next]_vars PROVE FeedSound'
  OBVIOUS
<1>1. CASE TickPass \/ WakePass
  <2>1. wake' = wake \/ wake' = FALSE
    BY <1>1 DEF TickPass, WakePass
  <2>2. wake' \in BOOLEAN
    <3>1. wake \in BOOLEAN
      BY DEF FeedSound, TypeOK
    <3>. QED  BY <2>1, <3>1, Zenon
  <2>. QED  BY <1>1, <2>1, <2>2, StartPassSound, TimersSound DEF TickPass, WakePass
<1>2. CASE \E f \in out : Write(f)
  BY <1>2, WriteSound
<1>3. CASE Finish
  BY <1>3, FinishSound
<1>4. CASE RetryFires \/ Watch
  BY <1>4, TimersSound
<1>5. CASE BirdReads
  BY <1>5, BirdReadsSound
<1>6. CASE BirdDies
  BY <1>6, BirdDiesSound
<1>7. CASE BirdStarts
  BY <1>7, BirdStartsSound
<1>8. CASE \E s \in States : Deliver(s)
  BY <1>8, DeliverSound
<1>9. CASE \E k \in 0 .. Len(sock) : AgentRestart(k)
  BY <1>9, AgentRestartSound
<1>10. CASE UNCHANGED vars
  <2>1. UNCHANGED <<have, want, birdUp, routes, stale, sock, conn, n, fed, resync,
                    wake, retry, failing, pc, cur, out, changes, faults>>
    BY <1>10 DEF vars, envVars, feedVars
  <2>2. TypeOK'
    BY <2>1 DEF FeedSound, TypeOK
  <2>. QED  BY <2>1, <2>2, AsideSound
<1>. QED  BY <1>1, <1>2, <1>3, <1>4, <1>5, <1>6, <1>7, <1>8, <1>9, <1>10 DEF Next

\* The feed's state is well formed and a feed that reports no failure on a live,
\* fully read connection has BIRD's table equal to the last-fed snapshot (FeedInv),
\* for any prefixes, attributes, next hops, chunk size and number of restarts.
THEOREM HealthIsHonest == Spec => []FeedInv
<1>1. FeedSound => FeedInv
  <2>. SUFFICES ASSUME FeedSound PROVE FeedInv
    OBVIOUS
  <2>1. PICK e \in Views : Leads(View, sock, e) /\ Good(e)
    BY DEF FeedSound
  <2>2. TypeOK /\ View \in Views
    BY ViewType DEF FeedSound
  <2>3. ASSUME pc = "idle", conn = "live", ~failing, sock = <<>>
        PROVE  routes = Table(fed) /\ stale = {}
    <3>1. e = View
      BY <2>1, <2>2, <2>3, TrailOfNothing
    <3>2. e = [routes |-> Table(fed), stale |-> {}]
      BY <2>1, <2>3 DEF Good
    <3>. QED  BY <3>1, <3>2 DEF View
  <2>. QED  BY <2>2, <2>3 DEF FeedInv, StatusHonest
<1>. QED  BY <1>1, InitSound, NextSound, PTL DEF Spec

=============================================================================
