---------------------------- MODULE DesiredStore ----------------------------
(***************************************************************************)
(* The agent's held desired state: DesiredStore.Accept and Merge on the    *)
(* resources a pool contributes, for ANY controller: full states and       *)
(* deltas arrive with arbitrary generations, watermarks and contents (the  *)
(* delta may be folded onto a state it was not made for).  All that is     *)
(* assumed of one message is that it is rendered consistently by itself:   *)
(* its pools do not share a member, and it steers only its own members.    *)
(*                                                                         *)
(* Anchors and flow redirects carry no pool id in the code and are kept in *)
(* slices, so the same prefix could be in there twice; they are counted    *)
(* per prefix.  Redirect next hops and the desired version are data that   *)
(* Merge copies and are left out.                                          *)
(***************************************************************************)
EXTENDS Integers, FiniteSets

CONSTANTS
  Pools,      \* pool identifiers
  Prefixes,   \* member prefixes
  MaxGen,     \* bound: generations
  MaxStamp    \* bound: content watermarks (GeneratedAtUnixMs); 0 is "none"

ASSUME StoreAssumption ==
  /\ MaxGen \in Nat
  /\ MaxStamp \in Nat

VARIABLES haveState, healthy, gen, contentAsOf,
  policers,   \* pools with policer specs in the state
  sessions,   \* classify sessions, <<pool, prefix>>
  anchors,    \* anchors[x]: how many anchors the state has for x
  flows       \* flows[x]: how many flow redirects the state has for x

content == <<policers, sessions, anchors, flows>>
vars == <<haveState, healthy, gen, contentAsOf, content>>

\* What one pool contributes.
Contribution == [members : SUBSET Prefixes, anchored : SUBSET Prefixes,
                 redirected : SUBSET Prefixes]

\* The pools rendered into one message.
Consistent(r) ==
  /\ \A p \in DOMAIN r : /\ r[p].anchored \subseteq r[p].members
                         /\ r[p].redirected \subseteq r[p].members
  /\ \A p, q \in DOMAIN r : p # q => r[p].members \cap r[q].members = {}
Renders == {r \in UNION {[ps -> Contribution] : ps \in SUBSET Pools} :
              Consistent(r)}

SessionsOf(r) == {s \in Pools \X Prefixes :
                    s[1] \in DOMAIN r /\ s[2] \in r[s[1]].members}
AnchorsOf(r, x) == Cardinality({p \in DOMAIN r : x \in r[p].anchored})
FlowsOf(r, x) == Cardinality({p \in DOMAIN r : x \in r[p].redirected})

TypeOK ==
  /\ haveState \in BOOLEAN
  /\ healthy \in BOOLEAN
  /\ gen \in 0 .. MaxGen
  /\ contentAsOf \in 0 .. MaxStamp
  /\ policers \in SUBSET Pools
  /\ sessions \in SUBSET (Pools \X Prefixes)
  /\ anchors \in [Prefixes -> Nat]
  /\ flows \in [Prefixes -> Nat]

Init ==
  /\ haveState = FALSE
  /\ healthy = FALSE
  /\ gen = 0
  /\ contentAsOf = 0
  /\ policers = {}
  /\ sessions = {}
  /\ anchors = [x \in Prefixes |-> 0]
  /\ flows = [x \in Prefixes |-> 0]

-----------------------------------------------------------------------------

\* The content watermark only moves forward.
Later(t) == contentAsOf' = IF t > contentAsOf THEN t ELSE contentAsOf

\* A full state g, stamped t, of the pools in r.  Refused when older, or when
\* rendered before content that is already held.
Accept(g, t, r) ==
  /\ ~(haveState /\ g < gen)
  /\ ~(haveState /\ t > 0 /\ t < contentAsOf)
  /\ policers' = DOMAIN r
  /\ sessions' = SessionsOf(r)
  /\ anchors' = [x \in Prefixes |-> AnchorsOf(r, x)]
  /\ flows' = [x \in Prefixes |-> FlowsOf(r, x)]
  /\ gen' = g
  /\ haveState' = TRUE
  /\ healthy' = TRUE
  /\ Later(t)

\* Mutants: only the members held so far, or only what the delta steers.
TouchedMembers(r, removed) ==
  {x \in Prefixes : \E p \in DOMAIN r \cup removed : <<p, x>> \in sessions}
TouchedFragments(r, removed) ==
  {x \in Prefixes : \E p \in DOMAIN r : x \in r[p].anchored \cup r[p].redirected}

\* Prefixes whose anchors and flow redirects a delta replaces: the current
\* members of the pools it touches, and what it steers itself.
TouchedPrefixes(r, removed) ==
  {x \in Prefixes :
     \/ \E p \in DOMAIN r \cup removed : <<p, x>> \in sessions
     \/ \E p \in DOMAIN r : x \in r[p].anchored \cup r[p].redirected}

\* Mutant: the sessions of touched pools stay.
KeptAll(touched) == sessions

\* Sessions of the pools a delta does not touch.
KeptSessions(touched) == {s \in sessions : s[1] \notin touched}

\* Merge: a delta with the pools in r upserted and those in removed dropped.
Merge(g, t, r, removed) ==
  /\ haveState
  /\ LET touched  == DOMAIN r \cup removed
         prefixes == TouchedPrefixes(r, removed)
     IN
     /\ policers' = (policers \ touched) \cup DOMAIN r
     /\ sessions' = KeptSessions(touched) \cup SessionsOf(r)
     /\ anchors' = [x \in Prefixes |->
          (IF x \in prefixes THEN 0 ELSE anchors[x]) + AnchorsOf(r, x)]
     /\ flows' = [x \in Prefixes |->
          (IF x \in prefixes THEN 0 ELSE flows[x]) + FlowsOf(r, x)]
  /\ gen' = g
  /\ healthy' = TRUE
  /\ Later(t)
  /\ UNCHANGED haveState

ControllerDown ==
  /\ healthy' = FALSE
  /\ UNCHANGED <<haveState, gen, contentAsOf, content>>

ControllerUp ==
  /\ healthy' = TRUE
  /\ UNCHANGED <<haveState, gen, contentAsOf, content>>

Next ==
  \/ \E g \in 0 .. MaxGen, t \in 0 .. MaxStamp, r \in Renders : Accept(g, t, r)
  \/ \E g \in 0 .. MaxGen, t \in 0 .. MaxStamp, r \in Renders,
        removed \in SUBSET Pools : Merge(g, t, r, removed)
  \/ ControllerDown
  \/ ControllerUp

Spec == Init /\ [][Next]_vars

-----------------------------------------------------------------------------

\* No prefix is ever steered twice: a duplicate anchor fails the whole BIRD
\* configure, a duplicate redirect doubles the FlowSpec rule.  Merge appends the
\* upserts' fragments, so it rests on touchedPrefixes covering every one of them.
NoDuplicateSteering ==
  \A x \in Prefixes : anchors[x] <= 1 /\ flows[x] <= 1

\* Traffic is only attracted to this edge for prefixes the edge classifies: when
\* Merge drops a member's session it drops its anchor and its redirect too.
SteeredIsClassified ==
  \A x \in Prefixes :
    anchors[x] + flows[x] > 0 => \E p \in Pools : <<p, x>> \in sessions

\* Every session's pool has its policers in the same state; otherwise
\* buildSessionWants fails and no full pass can succeed any more.
ClassifiedHasPolicer ==
  \A s \in sessions : s[1] \in policers
=============================================================================
