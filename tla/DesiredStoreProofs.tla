------------------------- MODULE DesiredStoreProofs -------------------------
(***************************************************************************)
(* The invariants of DesiredStore hold for any sets of pools and prefixes  *)
(* and any bounds.  Each rests on what one consistent message contributes  *)
(* to a prefix, and on TouchedPrefixes reaching every fragment of a pool   *)
(* that Merge replaces.                                                    *)
(***************************************************************************)
EXTENDS DesiredStore, FiniteSetTheorems, TLAPS

\* What a message is made of.
LEMMA RenderType ==
  ASSUME NEW r \in Renders
  PROVE  /\ DOMAIN r \subseteq Pools
         /\ \A p \in DOMAIN r : /\ r[p].members \subseteq Prefixes
                                /\ r[p].anchored \subseteq r[p].members
                                /\ r[p].redirected \subseteq r[p].members
         /\ \A p, q \in DOMAIN r : p # q => r[p].members \cap r[q].members = {}
<1>1. PICK ps \in SUBSET Pools : r \in [ps -> Contribution]
  BY DEF Renders
<1>2. Consistent(r)
  BY DEF Renders
<1> QED
  BY <1>1, <1>2 DEF Consistent, Contribution

\* A set with at most one element has cardinality 0 or 1, and 1 if it has one.
LEMMA AtMostOne ==
  ASSUME NEW S, \A p, q \in S : p = q
  PROVE  /\ Cardinality(S) \in {0, 1}
         /\ Cardinality(S) > 0 => \E p \in S : TRUE
         /\ S = {} => Cardinality(S) = 0
<1>1. CASE S = {}
  BY <1>1, FS_EmptySet
<1>2. CASE S # {}
  <2>1. PICK p \in S : TRUE
    BY <1>2
  <2>2. S = {p}
    BY <2>1
  <2>3. Cardinality(S) = 1
    BY <2>2, FS_Singleton
  <2> QED
    BY <2>1, <2>3, <1>2
<1> QED
  BY <1>1, <1>2

\* One consistent message steers a prefix at most once, and only as a member of
\* one of its pools.
LEMMA SteeredOnce ==
  ASSUME NEW r \in Renders, NEW x \in Prefixes
  PROVE  /\ AnchorsOf(r, x) \in {0, 1}
         /\ FlowsOf(r, x) \in {0, 1}
         /\ AnchorsOf(r, x) > 0 => \E p \in DOMAIN r : x \in r[p].anchored
         /\ FlowsOf(r, x) > 0 => \E p \in DOMAIN r : x \in r[p].redirected
         /\ (\A p \in DOMAIN r : x \notin r[p].anchored) => AnchorsOf(r, x) = 0
         /\ (\A p \in DOMAIN r : x \notin r[p].redirected) => FlowsOf(r, x) = 0
<1> DEFINE A == {p \in DOMAIN r : x \in r[p].anchored}
           F == {p \in DOMAIN r : x \in r[p].redirected}
<1>1. \A p, q \in A : p = q
  BY RenderType
<1>2. \A p, q \in F : p = q
  BY RenderType
<1> HIDE DEF A, F
<1>3. /\ Cardinality(A) \in {0, 1}
      /\ Cardinality(A) > 0 => \E p \in A : TRUE
      /\ A = {} => Cardinality(A) = 0
  BY <1>1, AtMostOne
<1>4. /\ Cardinality(F) \in {0, 1}
      /\ Cardinality(F) > 0 => \E p \in F : TRUE
      /\ F = {} => Cardinality(F) = 0
  BY <1>2, AtMostOne
<1>5. AnchorsOf(r, x) = Cardinality(A) /\ FlowsOf(r, x) = Cardinality(F)
  BY DEF A, F, AnchorsOf, FlowsOf
<1> QED
  BY <1>3, <1>4, <1>5 DEF A, F

\* The inductive invariant: the three invariants with the types; each of the
\* three is preserved with the help of the types alone.
StoreInv ==
  TypeOK /\ NoDuplicateSteering /\ SteeredIsClassified /\ ClassifiedHasPolicer

LEMMA InitStoreInv == Init => StoreInv
<1> SUFFICES ASSUME Init
             PROVE  StoreInv
  OBVIOUS
<1>1. TypeOK
  <2>1. gen \in 0 .. MaxGen /\ contentAsOf \in 0 .. MaxStamp
    BY StoreAssumption DEF Init
  <2>2. policers \in SUBSET Pools /\ sessions \in SUBSET (Pools \X Prefixes)
    BY Zenon DEF Init
  <2>3. anchors \in [Prefixes -> Nat] /\ flows \in [Prefixes -> Nat]
    BY SMT DEF Init
  <2> QED
    BY <2>1, <2>2, <2>3 DEF Init, TypeOK
<1>2. NoDuplicateSteering /\ SteeredIsClassified
  BY DEF Init, NoDuplicateSteering, SteeredIsClassified
<1>3. ClassifiedHasPolicer
  BY DEF Init, ClassifiedHasPolicer
<1> QED
  BY <1>1, <1>2, <1>3 DEF StoreInv

\* Accept installs one consistent message.
LEMMA AcceptStoreInv ==
  ASSUME StoreInv, NEW g \in 0 .. MaxGen, NEW t \in 0 .. MaxStamp,
         NEW r \in Renders, Accept(g, t, r)
  PROVE  StoreInv'
<1>1. TypeOK'
  <2>1. anchors' \in [Prefixes -> Nat] /\ flows' \in [Prefixes -> Nat]
    BY SteeredOnce DEF Accept
  <2>2. policers' \in SUBSET Pools /\ sessions' \in SUBSET (Pools \X Prefixes)
    BY RenderType DEF Accept, SessionsOf
  <2>3. contentAsOf' \in 0 .. MaxStamp
    BY DEF Accept, Later, StoreInv, TypeOK
  <2> QED
    BY <2>1, <2>2, <2>3 DEF Accept, TypeOK
<1>2. NoDuplicateSteering'
  BY SteeredOnce DEF Accept, NoDuplicateSteering
<1>3. SteeredIsClassified'
  <2> SUFFICES ASSUME NEW x \in Prefixes, anchors'[x] + flows'[x] > 0
               PROVE  \E p \in Pools : <<p, x>> \in sessions'
    BY DEF SteeredIsClassified
  <2>1. AnchorsOf(r, x) > 0 \/ FlowsOf(r, x) > 0
    BY SteeredOnce DEF Accept
  <2>2. PICK p \in DOMAIN r : x \in r[p].members
    BY <2>1, SteeredOnce, RenderType
  <2> QED
    BY <2>2, RenderType DEF Accept, SessionsOf
<1>4. ClassifiedHasPolicer'
  BY DEF Accept, SessionsOf, ClassifiedHasPolicer
<1> QED
  BY <1>1, <1>2, <1>3, <1>4 DEF StoreInv

\* Merge folds one consistent message onto ANY state that satisfies the
\* invariant: the prefixes it does not touch get no fragment from the message,
\* and keep an untouched pool's session.
LEMMA MergeStoreInv ==
  ASSUME StoreInv, NEW g \in 0 .. MaxGen, NEW t \in 0 .. MaxStamp,
         NEW r \in Renders, NEW removed \in SUBSET Pools,
         Merge(g, t, r, removed)
  PROVE  StoreInv'
<1> DEFINE touched == DOMAIN r \cup removed
           prefixes == TouchedPrefixes(r, removed)
<1>1. /\ policers' = (policers \ touched) \cup DOMAIN r
      /\ sessions' = KeptSessions(touched) \cup SessionsOf(r)
      /\ anchors' = [x \in Prefixes |->
           (IF x \in prefixes THEN 0 ELSE anchors[x]) + AnchorsOf(r, x)]
      /\ flows' = [x \in Prefixes |->
           (IF x \in prefixes THEN 0 ELSE flows[x]) + FlowsOf(r, x)]
  BY DEF Merge
<1>2. \A x \in Prefixes : x \notin prefixes =>
        /\ anchors'[x] = anchors[x]
        /\ flows'[x] = flows[x]
        /\ \A p \in touched : <<p, x>> \notin sessions
  <2> SUFFICES ASSUME NEW x \in Prefixes, x \notin prefixes
               PROVE  /\ anchors'[x] = anchors[x]
                      /\ flows'[x] = flows[x]
                      /\ \A p \in touched : <<p, x>> \notin sessions
    OBVIOUS
  <2>1. \A p \in touched : <<p, x>> \notin sessions
    BY DEF TouchedPrefixes
  <2>2. \A p \in DOMAIN r : x \notin r[p].anchored /\ x \notin r[p].redirected
    BY DEF TouchedPrefixes
  <2>3. AnchorsOf(r, x) = 0 /\ FlowsOf(r, x) = 0
    BY <2>2, SteeredOnce
  <2>4. anchors[x] \in Nat /\ flows[x] \in Nat
    BY DEF StoreInv, TypeOK
  <2> QED
    BY <1>1, <2>1, <2>3, <2>4
<1>3. \A x \in Prefixes : x \in prefixes =>
        anchors'[x] = AnchorsOf(r, x) /\ flows'[x] = FlowsOf(r, x)
  BY <1>1, SteeredOnce
<1> HIDE DEF touched, prefixes
<1>4. TypeOK'
  <2>1. anchors' \in [Prefixes -> Nat] /\ flows' \in [Prefixes -> Nat]
    BY <1>1, SteeredOnce DEF StoreInv, TypeOK
  <2>2. policers' \in SUBSET Pools /\ sessions' \in SUBSET (Pools \X Prefixes)
    BY <1>1, RenderType DEF KeptSessions, SessionsOf, StoreInv, TypeOK
  <2>3. contentAsOf' \in 0 .. MaxStamp
    BY DEF Merge, Later, StoreInv, TypeOK
  <2> QED
    BY <2>1, <2>2, <2>3 DEF Merge, StoreInv, TypeOK
<1>5. NoDuplicateSteering'
  BY <1>2, <1>3, SteeredOnce DEF StoreInv, NoDuplicateSteering
<1>6. SteeredIsClassified'
  <2> SUFFICES ASSUME NEW x \in Prefixes, anchors'[x] + flows'[x] > 0
               PROVE  \E p \in Pools : <<p, x>> \in sessions'
    BY DEF SteeredIsClassified
  <2>1. CASE x \in prefixes
    <3>1. AnchorsOf(r, x) > 0 \/ FlowsOf(r, x) > 0
      BY <2>1, <1>3, SteeredOnce
    <3>2. PICK p \in DOMAIN r : x \in r[p].members
      BY <3>1, SteeredOnce, RenderType
    <3>3. p \in Pools /\ <<p, x>> \in SessionsOf(r)
      BY <3>2, RenderType DEF SessionsOf
    <3> QED
      BY <3>3, <1>1
  <2>2. CASE x \notin prefixes
    <3>1. anchors[x] + flows[x] > 0
      BY <2>2, <1>2
    <3>2. PICK p \in Pools : <<p, x>> \in sessions
      BY <3>1 DEF StoreInv, SteeredIsClassified
    <3>3. p \notin touched
      BY <2>2, <1>2, <3>2
    <3> QED
      BY <3>2, <3>3, <1>1 DEF KeptSessions
  <2> QED
    BY <2>1, <2>2
<1>7. ClassifiedHasPolicer'
  BY <1>1 DEF KeptSessions, SessionsOf, StoreInv, ClassifiedHasPolicer
<1> QED
  BY <1>4, <1>5, <1>6, <1>7 DEF StoreInv

LEMMA NextStoreInv == StoreInv /\ [Next]_vars => StoreInv'
<1> SUFFICES ASSUME StoreInv, [Next]_vars
             PROVE  StoreInv'
  OBVIOUS
<1>1. ASSUME NEW g \in 0 .. MaxGen, NEW t \in 0 .. MaxStamp, NEW r \in Renders,
             Accept(g, t, r)
      PROVE  StoreInv'
  BY <1>1, AcceptStoreInv
<1>2. ASSUME NEW g \in 0 .. MaxGen, NEW t \in 0 .. MaxStamp, NEW r \in Renders,
             NEW removed \in SUBSET Pools, Merge(g, t, r, removed)
      PROVE  StoreInv'
  BY <1>2, MergeStoreInv
<1>3. CASE ControllerDown \/ ControllerUp \/ UNCHANGED vars
  BY <1>3 DEF ControllerDown, ControllerUp, vars, content, StoreInv, TypeOK,
     NoDuplicateSteering, SteeredIsClassified, ClassifiedHasPolicer
<1> QED
  BY <1>1, <1>2, <1>3 DEF Next

\* The held state keeps its types whatever the controller sends (DesiredStore).
THEOREM TypeCorrect == Spec => []TypeOK
<1>1. StoreInv => TypeOK
  BY DEF StoreInv
<1> QED
  BY <1>1, InitStoreInv, NextStoreInv, PTL DEF Spec

\* No sequence of full states and deltas, in any order and on any base, makes
\* the held state steer a prefix twice (Merge with touchedPrefixes).
THEOREM SteersOnce == Spec => []NoDuplicateSteering
<1>1. StoreInv => NoDuplicateSteering
  BY DEF StoreInv
<1> QED
  BY <1>1, InitStoreInv, NextStoreInv, PTL DEF Spec

\* The held state never attracts traffic for a prefix that it does not classify
\* (Accept, Merge).
THEOREM SteersOnlyClassified == Spec => []SteeredIsClassified
<1>1. StoreInv => SteeredIsClassified
  BY DEF StoreInv
<1> QED
  BY <1>1, InitStoreInv, NextStoreInv, PTL DEF Spec

\* The held state never has a session without its pool's policers, so
\* buildSessionWants finds an index for each (Accept, Merge).
THEOREM ClassifiesOnlyPoliced == Spec => []ClassifiedHasPolicer
<1>1. StoreInv => ClassifiedHasPolicer
  BY DEF StoreInv
<1> QED
  BY <1>1, InitStoreInv, NextStoreInv, PTL DEF Spec
=============================================================================
