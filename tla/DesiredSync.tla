---------------------------- MODULE DesiredSync ----------------------------
(***************************************************************************)
(* How desired state reaches the reconcile goroutine of the edge agent.    *)
(*                                                                         *)
(* The controller (external) mints one linear chain of generations and     *)
(* ships full snapshots and per-pool deltas that may overtake each other.  *)
(* Two goroutines of the agent consume them.  The transport's dispatch     *)
(* goroutine runs DesiredStore.Accept and Reconciler.SubmitDelta.  The     *)
(* reconcile goroutine runs full passes (Reconcile) and the delta path     *)
(* (DeltaSequencer.Submit, DesiredStore.Merge, ApplyDelta); a pass and the *)
(* application of a delta take time, and the dispatch goroutine may run in *)
(* between.                                                                *)
(*                                                                         *)
(* What one pool contributes to a desired state (policers, classify        *)
(* sessions, anchors, flow redirects) is abstracted to the generation at   *)
(* which the controller last changed the pool, and whether it exists then. *)
(* The state of VPP is abstracted in the same way; module Reconciler opens *)
(* it up.                                                                  *)
(***************************************************************************)
EXTENDS Integers, Sequences, FiniteSets

CONSTANTS
  Pools,       \* pool identifiers
  MaxGen,      \* bound: the last generation the controller mints
  MaxTouch,    \* bound: how many pools one delta touches
  MaxStale,    \* bound: how many generations a follower read lags behind
  MaxFaults,   \* bound: disconnects, agent restarts and failed applies
  QueueCap,    \* capacity of Reconciler.deltaQ (64 in the code)
  MaxPending   \* DeltaSequencer.max (512 in the code)

ASSUME BoundsAssumption ==
  /\ MaxGen \in Nat \ {0}
  /\ MaxTouch \in Nat
  /\ MaxStale \in Nat
  /\ MaxFaults \in Nat
  /\ QueueCap \in Nat
  /\ MaxPending \in Nat

VARIABLES
  \* the controller and the stream (external)
  minted,      \* the generation minted last
  hist,        \* hist[g]: what each pool contributes at generation g
  link,        \* the Subscribe stream is up
  fulls,       \* DESIRED_STATE directives in flight, in no order
  deltas,      \* DESIRED_DELTA directives in flight, in no order
  faults,      \* faults so far
  \* DesiredStore
  haveState, healthy, gen, contentAsOf, held,
  \* Reconciler, written by the dispatch goroutine
  wake,        \* the wake slot is full
  deltaQ,
  deltasDropped,
  \* Reconciler and DeltaSequencer, owned by the reconcile goroutine
  pc,          \* what that goroutine is doing: "idle", "pass" or "delta"
  snap,        \* the desired state the running pass read
  cur,         \* the delta being applied to VPP
  pending,     \* DeltaSequencer.pending
  lastGen,
  appliedNonEmpty, pendingEmpty,
  poolHash,    \* the pool set of InstalledPoolHash
  \* the data plane (external)
  vpp          \* what VPP holds of each pool

chainVars == <<minted, hist>>
storeVars == <<haveState, healthy, gen, contentAsOf, held>>
queueVars == <<wake, deltaQ, deltasDropped>>
guardVars == <<appliedNonEmpty, pendingEmpty>>
loopVars  == <<pc, snap, cur, pending, lastGen, appliedNonEmpty,
               pendingEmpty, poolHash, vpp>>
vars == <<chainVars, link, fulls, deltas, faults, storeVars, queueVars,
          loopVars>>

Gens == 0 .. MaxGen

\* One pool's contribution: the generation that set it, and whether the pool
\* exists.
Contribution == [ver : Gens, live : BOOLEAN]
Absent == [ver |-> 0, live |-> FALSE]
Nothing == [p \in Pools |-> Absent]

\* A full snapshot carries a generation and content rendered as of another
\* one, which is older when the render used a lagging follower read.
FullMsgs  == [gen : Gens, asOf : Gens]
DeltaMsgs == [base : Gens, gen : Gens, touch : SUBSET Pools]
NoDelta == [base |-> 0, gen |-> 0, touch |-> {}]
NoSnap  == [gen |-> 0, pools |-> Nothing]

Live(c) == {p \in Pools : c[p].live}
Larger(a, b) == IF a >= b THEN a ELSE b
Overlay(c, ps, d) == [p \in Pools |-> IF p \in ps THEN d[p] ELSE c[p]]

\* GeneratedAtUnixMs of content current at generation g; 0 is "not stamped".
Stamp(g) == g + 1

TypeOK ==
  /\ minted \in Gens
  /\ hist \in [Gens -> [Pools -> Contribution]]
  /\ link \in BOOLEAN
  /\ fulls \subseteq FullMsgs
  /\ deltas \subseteq DeltaMsgs
  /\ faults \in 0 .. MaxFaults
  /\ haveState \in BOOLEAN
  /\ healthy \in BOOLEAN
  /\ gen \in Gens
  /\ contentAsOf \in 0 .. MaxGen + 1
  /\ held \in [Pools -> Contribution]
  /\ wake \in BOOLEAN
  /\ deltaQ \in Seq(DeltaMsgs)
  /\ deltasDropped \in Nat
  /\ pc \in {"idle", "pass", "delta"}
  /\ snap \in [gen : Gens, pools : [Pools -> Contribution]]
  /\ cur \in DeltaMsgs
  /\ pending \subseteq DeltaMsgs
  /\ lastGen \in Gens
  /\ appliedNonEmpty \in BOOLEAN
  /\ pendingEmpty \in BOOLEAN
  /\ poolHash \in SUBSET Pools
  /\ vpp \in [Pools -> Contribution]

Init ==
  /\ minted = 0
  /\ hist = [g \in Gens |-> Nothing]
  /\ link = FALSE
  /\ fulls = {}
  /\ deltas = {}
  /\ faults = 0
  /\ haveState = FALSE
  /\ healthy = FALSE
  /\ gen = 0
  /\ contentAsOf = 0
  /\ held = Nothing
  /\ wake = FALSE
  /\ deltaQ = <<>>
  /\ deltasDropped = 0
  /\ pc = "idle"
  /\ snap = NoSnap
  /\ cur = NoDelta
  /\ pending = {}
  /\ lastGen = 0
  /\ appliedNonEmpty = FALSE
  /\ pendingEmpty = FALSE
  /\ poolHash = {}
  /\ vpp = Nothing

-----------------------------------------------------------------------------
(***************************************************************************)
(* The controller (external): one lock mints the chain, concurrent         *)
(* goroutines enqueue, so directives reach the agent in any order.         *)
(***************************************************************************)

\* A pool changes: the next generation, and the delta from its predecessor.
MintDelta(up, rm) ==
  /\ minted < MaxGen
  /\ up \cap rm = {}
  /\ up \cup rm # {}
  /\ Cardinality(up \cup rm) <= MaxTouch
  /\ rm \subseteq Live(hist[minted])
  /\ LET g == minted + 1 IN
     /\ minted' = g
     /\ hist' = [hist EXCEPT ![g] =
                   [p \in Pools |-> IF p \in up \cup rm
                                    THEN [ver |-> g, live |-> p \in up]
                                    ELSE hist[minted][p]]]
     /\ deltas' = IF link
                  THEN deltas \cup {[base |-> minted, gen |-> g,
                                     touch |-> up \cup rm]}
                  ELSE deltas
  /\ UNCHANGED <<link, fulls, faults, storeVars, queueVars, loopVars>>

\* A full push: a generation of its own, content up to MaxStale behind.
MintFull(k) ==
  /\ minted < MaxGen
  /\ link
  /\ LET g == minted + 1 IN
     /\ k <= g
     /\ g - MaxStale <= k
     /\ minted' = g
     /\ hist' = [hist EXCEPT ![g] = hist[minted]]
     /\ fulls' = fulls \cup {[gen |-> g, asOf |-> k]}
  /\ UNCHANGED <<link, deltas, faults, storeVars, queueVars, loopVars>>

\* The DriftSweep: the reported pool-set hash differs from the expected one.
Resync ==
  /\ link
  /\ poolHash # Live(hist[minted])
  /\ fulls' = fulls \cup {[gen |-> minted, asOf |-> minted]}
  /\ UNCHANGED <<chainVars, link, deltas, faults, storeVars, queueVars,
                 loopVars>>

-----------------------------------------------------------------------------
(***************************************************************************)
(* The dispatch goroutine.                                                 *)
(***************************************************************************)

\* RunDirect reaches the controller: ControllerUp, and a new subscription is
\* answered with a full replay.
Connect ==
  /\ ~link
  /\ link' = TRUE
  /\ healthy' = TRUE
  /\ fulls' = {[gen |-> minted, asOf |-> minted]}
  /\ UNCHANGED <<chainVars, deltas, faults, haveState, gen, contentAsOf, held,
                 queueVars, loopVars>>

\* The stream breaks: what was in flight is lost, ControllerDown.
Disconnect ==
  /\ link
  /\ faults < MaxFaults
  /\ faults' = faults + 1
  /\ link' = FALSE
  /\ healthy' = FALSE
  /\ fulls' = {}
  /\ deltas' = {}
  /\ UNCHANGED <<chainVars, haveState, gen, contentAsOf, held, queueVars,
                 loopVars>>

\* Mutants: the check of the content watermark is missing; an equal generation
\* is refused too.
RefusedByGeneration(m) == haveState /\ m.gen < gen
RefusedUnlessNewer(m) == haveState /\ m.gen <= gen

\* DesiredStore.Accept: an older generation, or a snapshot rendered before
\* content already held, is refused.
Refused(m) ==
  /\ haveState
  /\ \/ m.gen < gen
     \/ Stamp(m.asOf) > 0 /\ Stamp(m.asOf) < contentAsOf

\* onDesired: Accept, and on acceptance Wake.
AcceptFull(m) ==
  /\ fulls' = fulls \ {m}
  /\ IF Refused(m)
     THEN UNCHANGED <<storeVars, wake>>
     ELSE /\ held' = hist[m.asOf]
          /\ gen' = m.gen
          /\ haveState' = TRUE
          /\ healthy' = TRUE
          /\ contentAsOf' = Larger(contentAsOf, Stamp(m.asOf))
          /\ wake' = TRUE
  /\ UNCHANGED <<chainVars, link, deltas, faults, deltaQ, deltasDropped,
                 loopVars>>

\* Reconciler.SubmitDelta: never blocks, a full queue drops the delta.
SubmitDelta(d) ==
  /\ deltas' = deltas \ {d}
  /\ IF Len(deltaQ) < QueueCap
     THEN deltaQ' = Append(deltaQ, d) /\ UNCHANGED deltasDropped
     ELSE deltasDropped' = deltasDropped + 1 /\ UNCHANGED deltaQ
  /\ UNCHANGED <<chainVars, link, fulls, faults, storeVars, wake, loopVars>>

-----------------------------------------------------------------------------
(***************************************************************************)
(* The reconcile goroutine: full passes.                                   *)
(***************************************************************************)

DesiredEmpty(c) == Live(c) = {}

\* runOnce: nothing before the first state (fail-static); a collapse to empty
\* is deferred once; otherwise the pass starts on the state read here.
RunOnce ==
  /\ pc = "idle"
  /\ IF ~haveState
     THEN UNCHANGED <<pendingEmpty, pc, snap>>
     ELSE IF DesiredEmpty(held) /\ appliedNonEmpty /\ ~pendingEmpty
     THEN pendingEmpty' = TRUE /\ UNCHANGED <<pc, snap>>
     ELSE /\ pendingEmpty' = FALSE
          /\ pc' = "pass"
          /\ snap' = [gen |-> gen, pools |-> held]
  /\ UNCHANGED <<chainVars, link, fulls, deltas, faults, storeVars, deltaQ,
                 deltasDropped, cur, pending, lastGen, appliedNonEmpty,
                 poolHash, vpp>>

\* Run: the wake case of the select.
WakePass == wake /\ wake' = FALSE /\ RunOnce

\* Run: the interval timer's case of the select.
TickPass == RunOnce /\ UNCHANGED wake

\* Reconcile succeeds: VPP matches the state the pass read.
PassOK ==
  /\ pc = "pass"
  /\ pc' = "idle"
  /\ snap' = NoSnap
  /\ vpp' = snap.pools
  /\ lastGen' = snap.gen
  /\ appliedNonEmpty' = ~DesiredEmpty(snap.pools)
  /\ poolHash' = Live(vpp')
  /\ UNCHANGED <<chainVars, link, fulls, deltas, faults, storeVars, queueVars,
                 cur, pending, pendingEmpty>>

\* Reconcile returns an error (no channel, or a VPP call fails): the pools in
\* done were reached, and nothing is adopted.
PassFail(done) ==
  /\ pc = "pass"
  /\ faults < MaxFaults
  /\ faults' = faults + 1
  /\ pc' = "idle"
  /\ snap' = NoSnap
  /\ vpp' = Overlay(vpp, done, snap.pools)
  /\ UNCHANGED <<chainVars, link, fulls, deltas, storeVars, queueVars, cur,
                 pending, lastGen, guardVars, poolHash>>

-----------------------------------------------------------------------------
(***************************************************************************)
(* The reconcile goroutine: the delta path.                                *)
(***************************************************************************)

\* DesiredStore.Merge: the touched pools' contributions are replaced, the
\* delta's generation is adopted.
Merge(d) ==
  /\ held' = Overlay(held, d.touch, hist[d.gen])
  /\ gen' = d.gen
  /\ contentAsOf' = Larger(contentAsOf, Stamp(d.gen))
  /\ healthy' = TRUE
  /\ UNCHANGED haveState

\* DeltaSequencer.Submit drops what the chain has passed.
Evicted(ds) == {e \in ds : e.base >= lastGen}

\* Mutant: a delta is applied without a base state.
StartApplyAnyway(d) == Merge(d) /\ pc' = "delta" /\ cur' = d

\* applyOneDelta up to the start of ApplyDelta; Merge refuses without a base.
StartApply(d) ==
  IF haveState
  THEN Merge(d) /\ pc' = "delta" /\ cur' = d
  ELSE UNCHANGED <<storeVars, pc, cur>>

\* A delta ahead of the chain waits; a full buffer is cleared.
Buffer(d) ==
  pending' = IF Cardinality(Evicted(pending)) >= MaxPending
             THEN {}
             ELSE {e \in Evicted(pending) : e.base # d.base} \cup {d}

\* Mutants: a delta the chain has passed is applied again; one ahead of the
\* chain is applied over the gap.
InSequenceOrPassed(d) == d.base <= lastGen
InSequenceOrAhead(d) == d.base >= lastGen

\* The delta that continues the applied chain.
InSequence(d) == d.base = lastGen

\* Run: the deltaQ case of the select, DeltaSequencer.Submit.
Submit ==
  /\ pc = "idle"
  /\ deltaQ # <<>>
  /\ deltaQ' = Tail(deltaQ)
  /\ LET d == Head(deltaQ) IN
     \/ /\ InSequence(d)
        /\ pending' = Evicted(pending)
        /\ StartApply(d)
     \/ /\ d.base > lastGen
        /\ Buffer(d)
        /\ UNCHANGED <<storeVars, pc, cur>>
     \/ /\ d.base < lastGen
        /\ pending' = Evicted(pending)
        /\ UNCHANGED <<storeVars, pc, cur>>
  /\ UNCHANGED <<chainVars, link, fulls, deltas, faults, wake, deltasDropped,
                 snap, lastGen, guardVars, poolHash, vpp>>

\* AdoptDeltaBaseline(cur.gen).
Adopt ==
  /\ lastGen' = cur.gen
  /\ poolHash' = Live(vpp')

\* DeltaSequencer.drain: the buffered successor is next.
Drain ==
  \/ \E e \in pending :
       /\ e.base = cur.gen
       /\ pending' = pending \ {e}
       /\ Merge(e)
       /\ cur' = e
       /\ UNCHANGED pc
  \/ /\ \A e \in pending : e.base # cur.gen
     /\ pc' = "idle"
     /\ cur' = NoDelta
     /\ UNCHANGED <<storeVars, pending>>

\* ApplyDelta succeeds.
ApplyOK ==
  /\ pc = "delta"
  /\ vpp' = Overlay(vpp, cur.touch, hist[cur.gen])
  /\ Adopt
  /\ Drain
  /\ UNCHANGED <<chainVars, link, fulls, deltas, faults, queueVars, snap,
                 guardVars>>

\* ApplyDelta returns an error after reaching the pools in done; the chain
\* advances all the same.
ApplyFail(done) ==
  /\ pc = "delta"
  /\ faults < MaxFaults
  /\ faults' = faults + 1
  /\ vpp' = Overlay(vpp, done \cap cur.touch, hist[cur.gen])
  /\ Adopt
  /\ Drain
  /\ UNCHANGED <<chainVars, link, fulls, deltas, queueVars, snap, guardVars>>

-----------------------------------------------------------------------------

\* The agent process dies and starts again: memory and stream are lost, what
\* VPP holds outlives it.  A pass or a delta in progress is cut short.
AgentRestart(done) ==
  /\ faults < MaxFaults
  /\ faults' = faults + 1
  /\ link' = FALSE
  /\ fulls' = {}
  /\ deltas' = {}
  /\ haveState' = FALSE
  /\ healthy' = FALSE
  /\ gen' = 0
  /\ contentAsOf' = 0
  /\ held' = Nothing
  /\ wake' = FALSE
  /\ deltaQ' = <<>>
  /\ deltasDropped' = 0
  /\ pc' = "idle"
  /\ snap' = NoSnap
  /\ cur' = NoDelta
  /\ pending' = {}
  /\ lastGen' = 0
  /\ appliedNonEmpty' = FALSE
  /\ pendingEmpty' = FALSE
  /\ poolHash' = {}
  /\ vpp' = CASE pc = "pass"  -> Overlay(vpp, done, snap.pools)
              [] pc = "delta" -> Overlay(vpp, done \cap cur.touch, hist[cur.gen])
              [] OTHER        -> vpp
  /\ UNCHANGED chainVars

Next ==
  \/ \E up, rm \in SUBSET Pools : MintDelta(up, rm)
  \/ \E k \in Gens : MintFull(k)
  \/ Resync
  \/ Connect
  \/ Disconnect
  \/ \E m \in fulls : AcceptFull(m)
  \/ \E d \in deltas : SubmitDelta(d)
  \/ WakePass
  \/ TickPass
  \/ PassOK
  \/ \E done \in SUBSET Pools : PassFail(done)
  \/ Submit
  \/ ApplyOK
  \/ \E done \in SUBSET Pools : ApplyFail(done)
  \/ \E done \in SUBSET Pools : AgentRestart(done)

Spec == Init /\ [][Next]_vars

\* The controller's sweeps and the stream keep going, the interval timer keeps
\* firing, VPP calls return (reply timeout), and Go's select picks among ready
\* cases at random, so a queued delta is not passed over forever.
Fairness ==
  /\ WF_vars(Resync)
  /\ WF_vars(Connect)
  /\ WF_vars(\E m \in fulls : AcceptFull(m))
  /\ WF_vars(\E d \in deltas : SubmitDelta(d))
  /\ WF_vars(TickPass)
  /\ SF_vars(WakePass)
  /\ SF_vars(Submit)
  /\ WF_vars(PassOK)
  /\ WF_vars(ApplyOK)

FairSpec == Spec /\ Fairness

-----------------------------------------------------------------------------
(***************************************************************************)
(* Properties.                                                             *)
(***************************************************************************)

\* Within one life of the agent the applied generation never goes back, although
\* Merge may move the held generation back and the dispatch goroutine may
\* replace the held state while a pass or a delta is being applied
\* (Reconcile's and AdoptDeltaBaseline's assignments of lastGen).
AppliedNeverRegresses ==
  [][haveState' => lastGen' >= lastGen]_vars

\* Accepting a full snapshot never takes a pool back to an older contribution
\* than the one held, even when the snapshot has a newer generation but was
\* rendered from a lagging read (the content watermark of Accept and Merge).
AcceptNeverLosesNewer ==
  [][(haveState /\ \E m \in fulls : AcceptFull(m))
       => \A p \in Pools : held'[p].ver >= held[p].ver]_vars

\* Fail-static cold start: while no state was ever accepted nothing in VPP
\* changes, whatever deltas, wakes and ticks arrive (runOnce and Merge refuse).
ColdStartTouchesNothing ==
  [][vpp' # vpp => haveState]_vars

\* When full snapshots are rendered from current reads, the held state has every
\* change up to its own generation, for every order of arrival, every drop of
\* the queue and of the reorder buffer, and even after a queued delta was
\* folded onto a newer snapshot (DeltaSequencer.Submit with Merge and Accept).
NothingMissed ==
  haveState => \A p \in Pools : held[p].ver >= hist[gen][p].ver

\* Whatever is lost on the way, the set of pools installed in VPP is in the end
\* the controller's: the pool-set hash reported after each apply is enough to
\* have a missing or surplus pool resynced (recomputePoolHash, runOnce).
PoolSetHeals ==
  <>[](Live(vpp) = Live(hist[minted]))
=============================================================================
