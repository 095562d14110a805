------------------------- MODULE DesiredSyncProofs -------------------------
(***************************************************************************)
(* The safety properties of DesiredSync for any set of pools, any number   *)
(* of generations and faults, and any capacity of the queue and of the     *)
(* reorder buffer.                                                         *)
(***************************************************************************)
EXTENDS DesiredSync, TLAPS

\* The parts of the inductive invariant.

Queued == {deltaQ[i] : i \in 1 .. Len(deltaQ)}
InFlight == deltas \cup Queued \cup pending
              \cup (IF pc = "delta" THEN {cur} ELSE {})

\* On a chain h up to generation n, d leads from a generation to its successor.
Made(d, h, n) ==
  /\ d.gen = d.base + 1
  /\ d.gen <= n
  /\ \A p \in Pools \ d.touch : h[d.gen][p] = h[d.base][p]

\* A pool's contribution only gets newer along the chain.
HistInv ==
  /\ \A g, h \in 0 .. minted :
       g <= h => \A p \in Pools : hist[g][p].ver <= hist[h][p].ver
  /\ \A g \in 0 .. minted : \A p \in Pools : hist[g][p].ver <= g

\* What is on its way comes from the chain.
FlightInv ==
  /\ \A m \in fulls : /\ m.gen <= minted
                      /\ m.asOf <= m.gen
                      /\ m.gen - MaxStale <= m.asOf
  /\ \A d \in InFlight : Made(d, hist, minted)

\* The applied generation is behind the one being applied, which is behind the
\* held one.
GenInv ==
  /\ gen <= minted
  /\ lastGen <= gen
  /\ ~haveState => lastGen = 0 /\ contentAsOf = 0 /\ pc = "idle"
  /\ pc = "pass" => lastGen <= snap.gen /\ snap.gen <= gen
  /\ pc = "delta" => lastGen < cur.gen /\ cur.gen <= gen

\* The content watermark bounds what is held.
MarkInv ==
  haveState =>
    /\ contentAsOf \in 1 .. minted + 1
    /\ \A p \in Pools : held[p].ver <= hist[contentAsOf - 1][p].ver

SyncInv == TypeOK /\ HistInv /\ FlightInv /\ GenInv /\ MarkInv

-----------------------------------------------------------------------------
(***************************************************************************)
(* Types.                                                                  *)
(***************************************************************************)

LEMMA ConstantTypes ==
  /\ 0 \in Gens
  /\ Absent \in Contribution
  /\ Nothing \in [Pools -> Contribution]
  /\ NoDelta \in DeltaMsgs
  /\ NoSnap \in [gen : Gens, pools : [Pools -> Contribution]]
<1>1. 0 \in Gens
  BY BoundsAssumption DEF Gens
<1>2. Absent \in Contribution
  BY <1>1 DEF Absent, Contribution
<1>3. Nothing \in [Pools -> Contribution]
  BY <1>2 DEF Nothing
<1> QED
  BY <1>1, <1>2, <1>3 DEF NoDelta, NoSnap, DeltaMsgs

LEMMA OverlayType ==
  ASSUME NEW c \in [Pools -> Contribution], NEW d \in [Pools -> Contribution],
         NEW ps
  PROVE  Overlay(c, ps, d) \in [Pools -> Contribution]
  BY DEF Overlay

\* The types of the held state after Merge.
LEMMA MergeType ==
  ASSUME TypeOK, NEW d \in DeltaMsgs, Merge(d)
  PROVE  /\ haveState' \in BOOLEAN
         /\ healthy' \in BOOLEAN
         /\ gen' \in Gens
         /\ contentAsOf' \in 0 .. MaxGen + 1
         /\ held' \in [Pools -> Contribution]
<1>1. d.gen \in Gens
  BY DEF DeltaMsgs
<1>2. held' \in [Pools -> Contribution]
  BY <1>1, OverlayType DEF Merge, TypeOK
<1>3. contentAsOf' \in 0 .. MaxGen + 1
  BY <1>1, BoundsAssumption DEF Merge, Larger, Stamp, Gens, TypeOK
<1> QED
  BY <1>1, <1>2, <1>3 DEF Merge, TypeOK

LEMMA InitType == Init => TypeOK
<1> SUFFICES ASSUME Init
             PROVE  TypeOK
  OBVIOUS
<1>1. hist \in [Gens -> [Pools -> Contribution]]
  BY ConstantTypes DEF Init
<1>2. deltaQ \in Seq(DeltaMsgs)
  BY DEF Init
<1>3. faults \in 0 .. MaxFaults /\ contentAsOf \in 0 .. MaxGen + 1
  BY BoundsAssumption DEF Init
<1>4. /\ fulls \subseteq FullMsgs
      /\ deltas \subseteq DeltaMsgs
      /\ pending \subseteq DeltaMsgs
      /\ poolHash \in SUBSET Pools
  BY Zenon DEF Init
<1> QED
  BY <1>1, <1>2, <1>3, <1>4, ConstantTypes DEF Init, TypeOK

LEMMA MintDeltaType ==
  ASSUME TypeOK, NEW up \in SUBSET Pools, NEW rm \in SUBSET Pools,
         MintDelta(up, rm)
  PROVE  TypeOK'
<1> DEFINE g == minted + 1
           new == [p \in Pools |-> IF p \in up \cup rm
                                   THEN [ver |-> g, live |-> p \in up]
                                   ELSE hist[minted][p]]
<1>1. g \in Gens /\ minted \in Gens
  BY BoundsAssumption DEF MintDelta, TypeOK, Gens
<1>2. new \in [Pools -> Contribution]
  BY <1>1 DEF TypeOK, Contribution
<1>3. hist' \in [Gens -> [Pools -> Contribution]]
  <2>1. hist' = [hist EXCEPT ![g] = new]
    BY DEF MintDelta
  <2> QED
    BY <1>2, <2>1 DEF TypeOK
<1>4. deltas' \subseteq DeltaMsgs
  <2>1. [base |-> minted, gen |-> g, touch |-> up \cup rm] \in DeltaMsgs
    BY <1>1 DEF DeltaMsgs
  <2> QED
    BY <2>1 DEF MintDelta, TypeOK
<1>5. minted' \in Gens
  BY <1>1 DEF MintDelta
<1> QED
  BY <1>3, <1>4, <1>5 DEF MintDelta, TypeOK, storeVars, queueVars, loopVars

LEMMA MintFullType ==
  ASSUME TypeOK, NEW k \in Gens, MintFull(k)
  PROVE  TypeOK'
<1> DEFINE g == minted + 1
<1>1. g \in Gens /\ minted \in Gens
  BY BoundsAssumption DEF MintFull, TypeOK, Gens
<1>2. hist' \in [Gens -> [Pools -> Contribution]]
  BY <1>1 DEF MintFull, TypeOK
<1>3. fulls' \subseteq FullMsgs
  <2>1. [gen |-> g, asOf |-> k] \in FullMsgs
    BY <1>1 DEF FullMsgs
  <2> QED
    BY <2>1 DEF MintFull, TypeOK
<1>4. minted' \in Gens
  BY <1>1 DEF MintFull
<1> QED
  BY <1>2, <1>3, <1>4 DEF MintFull, TypeOK, storeVars, queueVars, loopVars

LEMMA LinkType ==
  ASSUME TypeOK, Resync \/ Connect \/ Disconnect
  PROVE  TypeOK'
<1>1. [gen |-> minted, asOf |-> minted] \in FullMsgs
  BY DEF FullMsgs, TypeOK
<1>2. CASE Resync
  BY <1>1, <1>2 DEF Resync, TypeOK, chainVars, storeVars, queueVars, loopVars
<1>3. CASE Connect
  BY <1>1, <1>3 DEF Connect, TypeOK, chainVars, queueVars, loopVars
<1>4. CASE Disconnect
  <2>1. faults' \in 0 .. MaxFaults
    BY <1>4, BoundsAssumption DEF Disconnect, TypeOK
  <2>2. fulls' \subseteq FullMsgs /\ deltas' \subseteq DeltaMsgs
    BY <1>4, Zenon DEF Disconnect
  <2> QED
    BY <1>4, <2>1, <2>2 DEF Disconnect, TypeOK, chainVars, queueVars, loopVars
<1> QED
  BY <1>2, <1>3, <1>4

LEMMA AcceptFullType ==
  ASSUME TypeOK, NEW m \in fulls, AcceptFull(m)
  PROVE  TypeOK'
<1>1. m.gen \in Gens /\ m.asOf \in Gens
  BY DEF TypeOK, FullMsgs
<1>2. hist[m.asOf] \in [Pools -> Contribution]
  BY <1>1 DEF TypeOK
<1>3. Larger(contentAsOf, Stamp(m.asOf)) \in 0 .. MaxGen + 1
  BY <1>1, BoundsAssumption DEF Larger, Stamp, Gens, TypeOK
<1>4. CASE Refused(m)
  BY <1>4 DEF AcceptFull, TypeOK, chainVars, storeVars, loopVars
<1>5. CASE ~Refused(m)
  BY <1>1, <1>2, <1>3, <1>5 DEF AcceptFull, TypeOK, chainVars, loopVars
<1> QED
  BY <1>4, <1>5

LEMMA SubmitDeltaType ==
  ASSUME TypeOK, NEW d \in deltas, SubmitDelta(d)
  PROVE  TypeOK'
<1>1. deltaQ' \in Seq(DeltaMsgs) /\ deltasDropped' \in Nat
  <2>1. d \in DeltaMsgs
    BY DEF TypeOK
  <2>2. CASE Len(deltaQ) < QueueCap
    BY <2>1, <2>2 DEF SubmitDelta, TypeOK
  <2>3. CASE ~(Len(deltaQ) < QueueCap)
    BY <2>3 DEF SubmitDelta, TypeOK
  <2> QED
    BY <2>2, <2>3
<1>2. deltas' \subseteq DeltaMsgs
  BY DEF SubmitDelta, TypeOK
<1> QED
  BY <1>1, <1>2 DEF SubmitDelta, TypeOK, chainVars, storeVars, loopVars

LEMMA RunOnceType ==
  ASSUME TypeOK, WakePass \/ TickPass
  PROVE  TypeOK'
<1>1. RunOnce /\ wake' \in BOOLEAN
  BY DEF WakePass, TickPass, TypeOK
<1>2. /\ pendingEmpty' \in BOOLEAN
      /\ pc' \in {"idle", "pass", "delta"}
      /\ snap' \in [gen : Gens, pools : [Pools -> Contribution]]
  <2> DEFINE deferred == DesiredEmpty(held) /\ appliedNonEmpty /\ ~pendingEmpty
  <2>1. CASE ~haveState
    BY <1>1, <2>1 DEF RunOnce, TypeOK
  <2>2. CASE haveState /\ deferred
    BY <1>1, <2>2 DEF RunOnce, TypeOK
  <2>3. CASE haveState /\ ~deferred
    <3>1. /\ pendingEmpty' = FALSE
          /\ pc' = "pass"
          /\ snap' = [gen |-> gen, pools |-> held]
      BY <1>1, <2>3, Zenon DEF RunOnce
    <3> QED
      BY <3>1 DEF TypeOK
  <2> QED
    BY <2>1, <2>2, <2>3
<1> QED
  BY <1>1, <1>2 DEF RunOnce, TypeOK, chainVars, storeVars

LEMMA PassType ==
  ASSUME TypeOK, PassOK \/ \E done \in SUBSET Pools : PassFail(done)
  PROVE  TypeOK'
<1>1. CASE PassOK
  <2>1. vpp' \in [Pools -> Contribution] /\ lastGen' \in Gens
    BY <1>1 DEF PassOK, TypeOK
  <2>2. poolHash' \in SUBSET Pools
    BY <1>1 DEF PassOK, Live
  <2>3. appliedNonEmpty' \in BOOLEAN
    BY <1>1 DEF PassOK
  <2> QED
    BY <1>1, <2>1, <2>2, <2>3, ConstantTypes
    DEF PassOK, TypeOK, chainVars, storeVars, queueVars
<1>2. ASSUME NEW done \in SUBSET Pools, PassFail(done)
      PROVE  TypeOK'
  <2>1. vpp' \in [Pools -> Contribution]
    BY <1>2, OverlayType DEF PassFail, TypeOK
  <2>2. faults' \in 0 .. MaxFaults
    BY <1>2, BoundsAssumption DEF PassFail, TypeOK
  <2> QED
    BY <1>2, <2>1, <2>2, ConstantTypes
    DEF PassFail, TypeOK, chainVars, storeVars, queueVars, guardVars
<1> QED
  BY <1>1, <1>2

\* The delta taken from the queue, and what the queue keeps.
LEMMA HeadAndTail ==
  ASSUME TypeOK, deltaQ # <<>>
  PROVE  /\ Head(deltaQ) \in DeltaMsgs
         /\ Tail(deltaQ) \in Seq(DeltaMsgs)
  BY DEF TypeOK

LEMMA SubmitType ==
  ASSUME TypeOK, Submit
  PROVE  TypeOK'
<1> DEFINE d == Head(deltaQ)
<1>1. d \in DeltaMsgs /\ deltaQ' \in Seq(DeltaMsgs)
  BY HeadAndTail DEF Submit
<1>2. Evicted(pending) \subseteq DeltaMsgs
  BY DEF Evicted, TypeOK
<1>3. pending' \subseteq DeltaMsgs
  <2>1. CASE pending' = Evicted(pending)
    BY <2>1, <1>2
  <2>2. CASE Buffer(d)
    BY <2>2, <1>1, <1>2 DEF Buffer
  <2> QED
    BY <2>1, <2>2 DEF Submit
<1>4. CASE StartApply(d) /\ haveState
  <2>1. Merge(d) /\ pc' = "delta" /\ cur' = d
    BY <1>4 DEF StartApply
  <2> HIDE DEF d
  <2>2. /\ haveState' \in BOOLEAN
        /\ healthy' \in BOOLEAN
        /\ gen' \in Gens
        /\ contentAsOf' \in 0 .. MaxGen + 1
        /\ held' \in [Pools -> Contribution]
    BY <2>1, <1>1, MergeType
  <2> QED
    BY <2>1, <2>2, <1>1, <1>3 DEF Submit, TypeOK, chainVars, guardVars
<1>5. CASE UNCHANGED <<storeVars, pc, cur>>
  BY <1>5, <1>1, <1>3 DEF Submit, TypeOK, chainVars, guardVars, storeVars
<1> QED
  BY <1>4, <1>5 DEF Submit, StartApply

LEMMA ApplyType ==
  ASSUME TypeOK, ApplyOK \/ \E done \in SUBSET Pools : ApplyFail(done)
  PROVE  TypeOK'
<1>1. cur.gen \in Gens /\ hist[cur.gen] \in [Pools -> Contribution]
  BY DEF TypeOK, DeltaMsgs
<1>2. vpp' \in [Pools -> Contribution] /\ faults' \in 0 .. MaxFaults
  <2>1. CASE ApplyOK
    BY <1>1, <2>1, OverlayType DEF ApplyOK, TypeOK
  <2>2. ASSUME NEW done \in SUBSET Pools, ApplyFail(done)
        PROVE  vpp' \in [Pools -> Contribution] /\ faults' \in 0 .. MaxFaults
    BY <1>1, <2>2, OverlayType, BoundsAssumption DEF ApplyFail, TypeOK
  <2> QED
    BY <2>1, <2>2
<1>3. /\ Adopt
      /\ Drain
      /\ pc = "delta"
      /\ UNCHANGED <<chainVars, link, fulls, deltas, queueVars, snap, guardVars>>
  BY DEF ApplyOK, ApplyFail
<1>4. lastGen' \in Gens /\ poolHash' \in SUBSET Pools
  BY <1>1, <1>3 DEF Adopt, Drain, Live
<1>5. ASSUME NEW e \in pending, pending' = pending \ {e}, Merge(e), cur' = e,
             UNCHANGED pc
      PROVE  TypeOK'
  <2>1. e \in DeltaMsgs
    BY DEF TypeOK
  <2>2. /\ haveState' \in BOOLEAN
        /\ healthy' \in BOOLEAN
        /\ gen' \in Gens
        /\ contentAsOf' \in 0 .. MaxGen + 1
        /\ held' \in [Pools -> Contribution]
    BY <1>5, <2>1, MergeType
  <2> QED
    BY <1>2, <1>3, <1>4, <1>5, <2>1, <2>2
    DEF TypeOK, chainVars, queueVars, guardVars
<1>6. CASE pc' = "idle" /\ cur' = NoDelta /\ UNCHANGED <<storeVars, pending>>
  BY <1>2, <1>3, <1>4, <1>6, ConstantTypes
  DEF TypeOK, chainVars, queueVars, guardVars, storeVars
<1> QED
  BY <1>3, <1>5, <1>6 DEF Adopt, Drain

LEMMA AgentRestartType ==
  ASSUME TypeOK, NEW done \in SUBSET Pools, AgentRestart(done)
  PROVE  TypeOK'
<1>1. vpp' \in [Pools -> Contribution]
  <2>1. cur.gen \in Gens /\ hist[cur.gen] \in [Pools -> Contribution]
    BY DEF TypeOK, DeltaMsgs
  <2>2. snap.pools \in [Pools -> Contribution]
    BY DEF TypeOK
  <2>3. CASE pc = "pass"
    BY <2>2, <2>3, OverlayType DEF AgentRestart, TypeOK
  <2>4. CASE pc = "delta"
    BY <2>1, <2>4, OverlayType DEF AgentRestart, TypeOK
  <2>5. CASE pc = "idle"
    BY <2>5 DEF AgentRestart, TypeOK
  <2> QED
    BY <2>3, <2>4, <2>5 DEF TypeOK
<1>2. faults' \in 0 .. MaxFaults /\ contentAsOf' \in 0 .. MaxGen + 1
  BY BoundsAssumption DEF AgentRestart, TypeOK
<1>3. deltaQ' \in Seq(DeltaMsgs)
  BY DEF AgentRestart
<1>4. /\ fulls' \subseteq FullMsgs
      /\ deltas' \subseteq DeltaMsgs
      /\ pending' \subseteq DeltaMsgs
      /\ poolHash' \in SUBSET Pools
  BY Zenon DEF AgentRestart
<1> QED
  BY <1>1, <1>2, <1>3, <1>4, ConstantTypes DEF AgentRestart, TypeOK, chainVars

LEMMA NextType == TypeOK /\ [Next]_vars => TypeOK'
<1> SUFFICES ASSUME TypeOK, [Next]_vars
             PROVE  TypeOK'
  OBVIOUS
<1>1. CASE UNCHANGED vars
  BY <1>1 DEF TypeOK, vars, chainVars, storeVars, queueVars, loopVars
<1>2. CASE Next
  BY <1>2, MintDeltaType, MintFullType, LinkType, AcceptFullType,
     SubmitDeltaType, RunOnceType, PassType, SubmitType, ApplyType,
     AgentRestartType, Zenon DEF Next
<1> QED
  BY <1>1, <1>2

\* Every variable keeps its type, the queue and the reorder buffer included
\* (DesiredStore, Reconciler, DeltaSequencer).
THEOREM TypeCorrect == Spec => []TypeOK
  BY InitType, NextType, PTL DEF Spec

-----------------------------------------------------------------------------
(***************************************************************************)
(* The chain.                                                              *)
(***************************************************************************)

\* Everything but minting leaves the chain alone.
LEMMA ChainFrame ==
  ASSUME [Next]_vars
  PROVE  \/ UNCHANGED chainVars
         \/ \E up, rm \in SUBSET Pools : MintDelta(up, rm)
         \/ \E k \in Gens : MintFull(k)
  BY Zenon DEF Next, vars, Resync, Connect, Disconnect, AcceptFull, SubmitDelta,
     WakePass, TickPass, RunOnce, PassOK, PassFail, Submit, ApplyOK, ApplyFail,
     AgentRestart

\* What minting appends to the chain.
LEMMA Minting ==
  ASSUME TypeOK,
         \/ \E up, rm \in SUBSET Pools : MintDelta(up, rm)
         \/ \E k \in Gens : MintFull(k)
  PROVE  /\ minted' = minted + 1
         /\ minted' \in Gens
         /\ \A g \in 0 .. minted : hist'[g] = hist[g]
         /\ \A p \in Pools : \/ hist'[minted'][p] = hist[minted][p]
                             \/ hist'[minted'][p].ver = minted'
<1>1. ASSUME NEW up \in SUBSET Pools, NEW rm \in SUBSET Pools, MintDelta(up, rm)
      PROVE  /\ minted' = minted + 1
             /\ minted' \in Gens
             /\ \A g \in 0 .. minted : hist'[g] = hist[g]
             /\ \A p \in Pools : \/ hist'[minted'][p] = hist[minted][p]
                                 \/ hist'[minted'][p].ver = minted'
  BY <1>1, BoundsAssumption DEF MintDelta, TypeOK, Gens
<1>2. ASSUME NEW k \in Gens, MintFull(k)
      PROVE  /\ minted' = minted + 1
             /\ minted' \in Gens
             /\ \A g \in 0 .. minted : hist'[g] = hist[g]
             /\ \A p \in Pools : \/ hist'[minted'][p] = hist[minted][p]
                                 \/ hist'[minted'][p].ver = minted'
  BY <1>2, BoundsAssumption DEF MintFull, TypeOK, Gens
<1> QED
  BY <1>1, <1>2

\* The chain only grows at its end.
LEMMA ChainGrows ==
  ASSUME TypeOK, [Next]_vars
  PROVE  /\ minted \in Nat
         /\ minted' \in Nat
         /\ minted <= minted'
         /\ \A g \in 0 .. minted : hist'[g] = hist[g]
<1>1. minted \in Nat
  BY BoundsAssumption DEF TypeOK, Gens
<1>2. CASE UNCHANGED chainVars
  BY <1>1, <1>2 DEF chainVars
<1>3. CASE \/ \E up, rm \in SUBSET Pools : MintDelta(up, rm)
           \/ \E k \in Gens : MintFull(k)
  BY <1>1, <1>3, Minting
<1> QED
  BY <1>2, <1>3, ChainFrame

LEMMA VersionType ==
  ASSUME TypeOK, NEW g \in 0 .. minted, NEW p \in Pools
  PROVE  hist[g][p].ver \in Nat
<1>1. g \in Gens
  BY BoundsAssumption DEF TypeOK, Gens
<1>2. hist[g][p] \in Contribution
  BY <1>1 DEF TypeOK
<1> QED
  BY <1>2, BoundsAssumption DEF Contribution, Gens

LEMMA NextHistInv ==
  ASSUME TypeOK, HistInv, [Next]_vars
  PROVE  HistInv'
<1>1. CASE UNCHANGED chainVars
  BY <1>1 DEF HistInv, chainVars
<1>2. CASE \/ \E up, rm \in SUBSET Pools : MintDelta(up, rm)
           \/ \E k \in Gens : MintFull(k)
  <2>1. /\ minted' = minted + 1
        /\ \A g \in 0 .. minted : hist'[g] = hist[g]
        /\ \A p \in Pools : \/ hist'[minted'][p] = hist[minted][p]
                            \/ hist'[minted'][p].ver = minted'
    BY <1>2, Minting
  <2>2. minted \in Nat
    BY BoundsAssumption DEF TypeOK, Gens
  <2>3. \A p \in Pools : hist[minted][p].ver \in Nat
    BY <2>2, VersionType
  <2>4. \A p \in Pools : /\ hist'[minted'][p].ver >= hist[minted][p].ver
                         /\ hist'[minted'][p].ver <= minted'
    BY <2>1, <2>2, <2>3 DEF HistInv
  <2>5. \A g \in 0 .. minted' : \A p \in Pools : hist'[g][p].ver <= g
    BY <2>1, <2>2, <2>4 DEF HistInv
  <2>6. ASSUME NEW g \in 0 .. minted', NEW h \in 0 .. minted', g <= h,
               NEW p \in Pools
        PROVE  hist'[g][p].ver <= hist'[h][p].ver
    <3>1. CASE h \in 0 .. minted
      BY <2>1, <2>2, <2>6, <3>1 DEF HistInv
    <3>2. CASE h = minted' /\ g = minted'
      BY <2>1, <2>2, <2>3, <3>2
    <3>3. CASE h = minted' /\ g \in 0 .. minted
      <4>1. hist[g][p].ver <= hist[minted][p].ver
        BY <2>2, <3>3 DEF HistInv
      <4>2. hist[g][p].ver \in Nat
        BY <3>3, VersionType
      <4>3. hist'[minted'][p].ver \in Nat
        BY <2>1, <2>2, <2>3
      <4> QED
        BY <2>1, <2>3, <2>4, <3>3, <4>1, <4>2, <4>3
    <3> QED
      BY <2>1, <2>2, <3>1, <3>2, <3>3
  <2> QED
    BY <2>5, <2>6 DEF HistInv
<1> QED
  BY <1>1, <1>2, ChainFrame

-----------------------------------------------------------------------------
(***************************************************************************)
(* What is on its way.                                                     *)
(***************************************************************************)

LEMMA QueueTail ==
  ASSUME TypeOK, deltaQ # <<>>, deltaQ' = Tail(deltaQ)
  PROVE  Head(deltaQ) \in Queued /\ Queued' \subseteq Queued
<1>1. /\ Len(deltaQ) \in Nat
      /\ Len(deltaQ) > 0
      /\ Head(deltaQ) = deltaQ[1]
  BY DEF TypeOK
<1>2. /\ Len(Tail(deltaQ)) = Len(deltaQ) - 1
      /\ \A i \in 1 .. Len(deltaQ) - 1 : Tail(deltaQ)[i] = deltaQ[i + 1]
  BY DEF TypeOK
<1>3. \A i \in 1 .. Len(deltaQ') : /\ i + 1 \in 1 .. Len(deltaQ)
                                   /\ deltaQ'[i] = deltaQ[i + 1]
  BY <1>1, <1>2
<1> QED
  BY <1>1, <1>3 DEF Queued

LEMMA QueueAppend ==
  ASSUME TypeOK, NEW d \in DeltaMsgs, deltaQ' = Append(deltaQ, d)
  PROVE  Queued' \subseteq Queued \cup {d}
<1>1. /\ Len(deltaQ) \in Nat
      /\ Len(deltaQ') = Len(deltaQ) + 1
      /\ \A i \in 1 .. Len(deltaQ') :
           deltaQ'[i] = IF i = Len(deltaQ) + 1 THEN d ELSE deltaQ[i]
  BY DEF TypeOK
<1> QED
  BY <1>1 DEF Queued

\* Only minting puts a new delta on its way.
LEMMA NoNewDelta ==
  ASSUME TypeOK, [Next]_vars,
         \A up, rm \in SUBSET Pools : ~MintDelta(up, rm)
  PROVE  InFlight' \subseteq InFlight
<1>1. CASE UNCHANGED <<deltas, deltaQ, pending, pc, cur>>
  BY <1>1 DEF InFlight, Queued
<1>2. CASE Disconnect
  BY <1>2 DEF Disconnect, InFlight, Queued, queueVars, loopVars
<1>3. ASSUME NEW d \in deltas, SubmitDelta(d)
      PROVE  InFlight' \subseteq InFlight
  <2>1. d \in DeltaMsgs
    BY DEF TypeOK
  <2>2. Queued' \subseteq Queued \cup {d}
    <3>1. CASE deltaQ' = Append(deltaQ, d)
      BY <2>1, <3>1, QueueAppend
    <3>2. CASE UNCHANGED deltaQ
      BY <3>2 DEF Queued
    <3> QED
      BY <1>3, <3>1, <3>2 DEF SubmitDelta
  <2> QED
    BY <1>3, <2>2 DEF SubmitDelta, InFlight, loopVars
<1>4. CASE WakePass \/ TickPass
  BY <1>4 DEF WakePass, TickPass, RunOnce, InFlight, Queued
<1>5. CASE PassOK \/ \E done \in SUBSET Pools : PassFail(done)
  BY <1>5 DEF PassOK, PassFail, InFlight, Queued, queueVars
<1>6. CASE Submit
  <2>1. Head(deltaQ) \in Queued /\ Queued' \subseteq Queued
    BY <1>6, QueueTail DEF Submit
  <2>2. pending' \subseteq pending \cup {Head(deltaQ)}
    BY <1>6 DEF Submit, Evicted, Buffer
  <2>3. \/ UNCHANGED <<pc, cur>>
        \/ cur' = Head(deltaQ)
    BY <1>6 DEF Submit, StartApply
  <2>4. UNCHANGED deltas
    BY <1>6 DEF Submit
  <2> QED
    BY <2>1, <2>2, <2>3, <2>4 DEF InFlight
<1>7. CASE ApplyOK \/ \E done \in SUBSET Pools : ApplyFail(done)
  <2>1. Adopt /\ Drain /\ UNCHANGED <<deltas, deltaQ>>
    BY <1>7 DEF ApplyOK, ApplyFail, queueVars
  <2> QED
    BY <2>1 DEF Adopt, Drain, InFlight, Queued
<1>8. ASSUME NEW done \in SUBSET Pools, AgentRestart(done)
      PROVE  InFlight' \subseteq InFlight
  BY <1>8 DEF AgentRestart, InFlight, Queued
<1>9. CASE \/ \E k \in Gens : MintFull(k)
           \/ Resync
           \/ Connect
           \/ \E m \in fulls : AcceptFull(m)
           \/ UNCHANGED vars
  BY <1>1, <1>9, Zenon DEF MintFull, Resync, Connect, AcceptFull, vars, queueVars,
     loopVars
<1> QED
  BY <1>2, <1>3, <1>4, <1>5, <1>6, <1>7, <1>8, <1>9 DEF Next

LEMMA InFlightType ==
  ASSUME TypeOK
  PROVE  InFlight \subseteq DeltaMsgs
<1>1. Queued \subseteq DeltaMsgs
  BY DEF Queued, TypeOK
<1> QED
  BY <1>1 DEF InFlight, TypeOK

\* A delta made on the chain stays made as the chain grows.
LEMMA MadeStays ==
  ASSUME TypeOK, [Next]_vars, NEW d \in DeltaMsgs, Made(d, hist, minted)
  PROVE  Made(d, hist', minted')
<1>1. d.base \in 0 .. minted /\ d.gen \in 0 .. minted
  BY BoundsAssumption DEF Made, DeltaMsgs, Gens, TypeOK
<1>2. hist'[d.base] = hist[d.base] /\ hist'[d.gen] = hist[d.gen]
  BY <1>1, ChainGrows
<1>3. d.gen <= minted'
  BY <1>1, ChainGrows
<1> QED
  BY <1>2, <1>3 DEF Made

LEMMA NextFlightInv ==
  ASSUME TypeOK, FlightInv, [Next]_vars
  PROVE  FlightInv'
<1>1. \A d \in InFlight : Made(d, hist', minted')
  BY InFlightType, MadeStays DEF FlightInv
<1>2. \A d \in InFlight' : Made(d, hist', minted')
  <2>1. ASSUME NEW up \in SUBSET Pools, NEW rm \in SUBSET Pools,
               MintDelta(up, rm)
        PROVE  \A d \in InFlight' : Made(d, hist', minted')
    <3> DEFINE new == [base |-> minted, gen |-> minted + 1, touch |-> up \cup rm]
    <3>1. InFlight' \subseteq InFlight \cup {new}
      BY <2>1 DEF MintDelta, InFlight, Queued, queueVars, loopVars
    <3>2. Made(new, hist', minted')
      BY <2>1, BoundsAssumption DEF MintDelta, Made, TypeOK, Gens
    <3> QED
      BY <1>1, <3>1, <3>2
  <2>2. CASE \A up, rm \in SUBSET Pools : ~MintDelta(up, rm)
    BY <1>1, <2>2, NoNewDelta
  <2> QED
    BY <2>1, <2>2
<1>3. \A m \in fulls' : /\ m.gen <= minted'
                        /\ m.asOf <= m.gen
                        /\ m.gen - MaxStale <= m.asOf
  <2>1. \A m \in fulls : m.gen \in Nat /\ m.asOf \in Nat
    BY BoundsAssumption DEF TypeOK, FullMsgs, Gens
  <2>2. \A m \in fulls : /\ m.gen <= minted'
                         /\ m.asOf <= m.gen
                         /\ m.gen - MaxStale <= m.asOf
    BY <2>1, ChainGrows DEF FlightInv
  <2> DEFINE latest == [gen |-> minted, asOf |-> minted]
  <2>3. /\ latest.gen <= minted'
        /\ latest.asOf <= latest.gen
        /\ latest.gen - MaxStale <= latest.asOf
    BY ChainGrows, BoundsAssumption
  <2>4. CASE fulls' \subseteq fulls \cup {latest}
    BY <2>2, <2>3, <2>4
  <2>5. ASSUME NEW k \in Gens, MintFull(k)
        PROVE  \A m \in fulls' : /\ m.gen <= minted'
                                 /\ m.asOf <= m.gen
                                 /\ m.gen - MaxStale <= m.asOf
    BY <2>2, <2>5, ChainGrows DEF MintFull
  <2>6. \/ fulls' \subseteq fulls \cup {latest}
        \/ \E k \in Gens : MintFull(k)
    BY Zenon DEF Next, vars, MintDelta, Resync, Connect, Disconnect, AcceptFull,
       SubmitDelta, WakePass, TickPass, RunOnce, PassOK, PassFail, Submit,
       ApplyOK, ApplyFail, AgentRestart
  <2> QED
    BY <2>4, <2>5, <2>6
<1> QED
  BY <1>2, <1>3 DEF FlightInv

-----------------------------------------------------------------------------
(***************************************************************************)
(* Generations: applied, being applied, held.                              *)
(***************************************************************************)

LEMMA NumberTypes ==
  ASSUME TypeOK
  PROVE  /\ minted \in Nat /\ gen \in Nat /\ lastGen \in Nat
         /\ contentAsOf \in Nat
         /\ snap.gen \in Nat
         /\ cur.gen \in Nat /\ cur.base \in Nat
         /\ \A m \in fulls : m.gen \in Nat /\ m.asOf \in Nat
         /\ \A d \in InFlight : d.gen \in Nat /\ d.base \in Nat
<1>1. Gens \subseteq Nat
  BY BoundsAssumption DEF Gens
<1>2. \A d \in DeltaMsgs : d.gen \in Nat /\ d.base \in Nat
  BY <1>1 DEF DeltaMsgs
<1>3. \A m \in fulls : m.gen \in Nat /\ m.asOf \in Nat
  BY <1>1 DEF TypeOK, FullMsgs
<1>4. minted \in Nat /\ gen \in Nat /\ lastGen \in Nat /\ snap.gen \in Nat
  BY <1>1 DEF TypeOK
<1>5. contentAsOf \in Nat
  BY BoundsAssumption DEF TypeOK
<1>6. cur.gen \in Nat /\ cur.base \in Nat
  BY <1>2 DEF TypeOK
<1> QED
  BY <1>2, <1>3, <1>4, <1>5, <1>6, InFlightType

LEMMA NextGenInv ==
  ASSUME TypeOK, FlightInv, GenInv, [Next]_vars
  PROVE  GenInv'
<1> USE NumberTypes
<1>1. CASE UNCHANGED <<gen, lastGen, haveState, contentAsOf, pc, snap, cur>>
  BY <1>1, ChainGrows DEF GenInv
<1>2. ASSUME NEW m \in fulls, AcceptFull(m)
      PROVE  GenInv'
  <2>1. CASE Refused(m)
    BY <1>1, <1>2, <2>1 DEF AcceptFull, storeVars, loopVars
  <2>2. CASE ~Refused(m)
    <3>1. haveState => m.gen >= gen
      BY <2>2 DEF Refused
    <3>2. m.gen <= minted
      BY DEF FlightInv
    <3>3. /\ gen' = m.gen
          /\ haveState' = TRUE
          /\ UNCHANGED <<minted, lastGen, pc, snap, cur>>
      BY <1>2, <2>2 DEF AcceptFull, chainVars, loopVars
    <3> QED
      BY <3>1, <3>2, <3>3 DEF GenInv
  <2> QED
    BY <2>1, <2>2
<1>3. CASE WakePass \/ TickPass
  <2>1. UNCHANGED <<minted, gen, lastGen, haveState, contentAsOf, cur>>
    BY <1>3 DEF WakePass, TickPass, RunOnce, chainVars, storeVars
  <2>2. \/ UNCHANGED <<pc, snap>>
        \/ haveState /\ pc' = "pass" /\ snap'.gen = gen
    BY <1>3 DEF WakePass, TickPass, RunOnce
  <2> QED
    BY <2>1, <2>2 DEF GenInv
<1>4. CASE PassOK
  BY <1>4 DEF PassOK, GenInv, chainVars, storeVars
<1>5. ASSUME NEW done \in SUBSET Pools, PassFail(done)
      PROVE  GenInv'
  BY <1>5 DEF PassFail, GenInv, chainVars, storeVars
<1>6. CASE Submit
  <2>1. CASE UNCHANGED <<storeVars, pc, cur>>
    BY <1>1, <1>6, <2>1 DEF Submit, storeVars
  <2>2. CASE haveState /\ InSequence(Head(deltaQ)) /\ StartApply(Head(deltaQ))
    <3>1. Head(deltaQ) \in InFlight
      BY <1>6, QueueTail DEF Submit, InFlight
    <3> DEFINE d == Head(deltaQ)
    <3>2. /\ gen' = d.gen
          /\ cur' = d
          /\ pc' = "delta"
          /\ haveState' = haveState
      BY <2>2 DEF StartApply, Merge
    <3>3. UNCHANGED <<minted, lastGen>>
      BY <1>6 DEF Submit, chainVars
    <3>4. d.gen = lastGen + 1 /\ d.gen <= minted
      BY <2>2, <3>1 DEF InSequence, FlightInv, Made
    <3> HIDE DEF d
    <3> QED
      BY <2>2, <3>2, <3>3, <3>4 DEF GenInv
  <2> QED
    BY <1>6, <2>1, <2>2 DEF Submit, StartApply
<1>7. CASE ApplyOK \/ \E done \in SUBSET Pools : ApplyFail(done)
  <2>1. pc = "delta" /\ Adopt /\ Drain /\ UNCHANGED minted
    BY <1>7 DEF ApplyOK, ApplyFail, chainVars
  <2>2. lastGen' = cur.gen /\ haveState
    BY <2>1 DEF Adopt, Drain, GenInv
  <2>3. ASSUME NEW e \in pending, e.base = cur.gen, Merge(e), cur' = e,
               UNCHANGED pc
        PROVE  GenInv'
    <3>1. e \in InFlight
      BY DEF InFlight
    <3>2. e.gen = cur.gen + 1 /\ e.gen <= minted
      BY <2>3, <3>1 DEF FlightInv, Made
    <3> QED
      BY <2>1, <2>2, <2>3, <3>1, <3>2 DEF Merge, GenInv
  <2>4. CASE pc' = "idle" /\ UNCHANGED storeVars
    BY <2>1, <2>2, <2>4 DEF GenInv, storeVars
  <2> QED
    BY <2>1, <2>3, <2>4 DEF Adopt, Drain
<1>8. ASSUME NEW done \in SUBSET Pools, AgentRestart(done)
      PROVE  GenInv'
  BY <1>8 DEF AgentRestart, GenInv, chainVars
<1>9. CASE \/ \E up, rm \in SUBSET Pools : MintDelta(up, rm)
           \/ \E k \in Gens : MintFull(k)
           \/ Resync
           \/ Connect
           \/ Disconnect
           \/ \E d \in deltas : SubmitDelta(d)
           \/ UNCHANGED vars
  BY <1>1, <1>9, Zenon DEF MintDelta, MintFull, Resync, Connect, Disconnect,
     SubmitDelta, vars, storeVars, loopVars
<1> QED
  BY <1>2, <1>3, <1>4, <1>5, <1>6, <1>7, <1>8, <1>9 DEF Next

-----------------------------------------------------------------------------
(***************************************************************************)
(* The content watermark.                                                  *)
(***************************************************************************)

\* Merging a delta of the chain keeps the held contributions below the mark.
LEMMA MergeMarkInv ==
  ASSUME TypeOK, HistInv, MarkInv, haveState, NEW d \in DeltaMsgs,
         Made(d, hist, minted), Merge(d), UNCHANGED chainVars
  PROVE  MarkInv'
<1>1. d.gen \in 0 .. minted /\ minted \in Nat /\ contentAsOf \in 1 .. minted + 1
  BY BoundsAssumption DEF Made, DeltaMsgs, Gens, TypeOK, MarkInv
<1>2. PICK k \in 0 .. minted : k = contentAsOf - 1
  BY <1>1
<1>3. PICK n \in 0 .. minted : /\ contentAsOf' = n + 1
                               /\ k <= n
                               /\ d.gen <= n
  <2>1. contentAsOf' = IF contentAsOf >= d.gen + 1 THEN contentAsOf ELSE d.gen + 1
    BY DEF Merge, Larger, Stamp
  <2>2. CASE contentAsOf >= d.gen + 1
    BY <1>1, <1>2, <2>1, <2>2
  <2>3. CASE ~(contentAsOf >= d.gen + 1)
    BY <1>1, <1>2, <2>1, <2>3
  <2> QED
    BY <2>2, <2>3
<1>4. ASSUME NEW p \in Pools
      PROVE  held'[p].ver <= hist[n][p].ver
  <2>1. /\ hist[d.gen][p].ver \in Nat
        /\ hist[k][p].ver \in Nat
        /\ hist[n][p].ver \in Nat
    BY <1>1, <1>3, VersionType
  <2>2. /\ hist[d.gen][p].ver <= hist[n][p].ver
        /\ hist[k][p].ver <= hist[n][p].ver
    BY <1>1, <1>3 DEF HistInv
  <2>3. held[p].ver <= hist[k][p].ver /\ held[p].ver \in Nat
    BY <1>2, BoundsAssumption DEF MarkInv, TypeOK, Contribution, Gens
  <2>4. held'[p] = hist[d.gen][p] \/ held'[p] = held[p]
    BY DEF Merge, Overlay
  <2> QED
    BY <2>1, <2>2, <2>3, <2>4
<1>5. contentAsOf' \in 1 .. minted + 1 /\ contentAsOf' - 1 = n
  BY <1>1, <1>3
<1>6. minted' = minted /\ hist' = hist
  BY DEF chainVars
<1> QED
  BY <1>4, <1>5, <1>6 DEF MarkInv

LEMMA NextMarkInv ==
  ASSUME TypeOK, HistInv, FlightInv, GenInv, MarkInv, [Next]_vars
  PROVE  MarkInv'
<1> USE NumberTypes
<1>1. CASE UNCHANGED <<haveState, contentAsOf, held>>
  <2> SUFFICES ASSUME haveState
               PROVE  /\ contentAsOf \in 1 .. minted' + 1
                      /\ \A p \in Pools :
                           held[p].ver <= hist'[contentAsOf - 1][p].ver
    BY <1>1 DEF MarkInv
  <2>1. contentAsOf \in 1 .. minted' + 1 /\ contentAsOf - 1 \in 0 .. minted
    BY ChainGrows DEF MarkInv
  <2>2. hist'[contentAsOf - 1] = hist[contentAsOf - 1]
    BY <2>1, ChainGrows
  <2> QED
    BY <2>1, <2>2 DEF MarkInv
<1>2. ASSUME NEW m \in fulls, AcceptFull(m)
      PROVE  MarkInv'
  <2>1. CASE Refused(m)
    BY <1>1, <1>2, <2>1 DEF AcceptFull, storeVars
  <2>2. CASE ~Refused(m)
    <3>1. m.asOf \in 0 .. minted
      BY DEF FlightInv
    <3>2. contentAsOf' = m.asOf + 1
      BY <1>2, <2>2 DEF AcceptFull, Refused, Stamp, Larger, GenInv
    <3>3. /\ held' = hist[m.asOf]
          /\ haveState' = TRUE
          /\ UNCHANGED <<minted, hist>>
      BY <1>2, <2>2 DEF AcceptFull, chainVars
    <3>4. \A p \in Pools : hist[m.asOf][p].ver \in Nat
      BY <3>1, VersionType
    <3> QED
      BY <3>1, <3>2, <3>3, <3>4 DEF MarkInv
  <2> QED
    BY <2>1, <2>2
<1>3. CASE Submit
  <2>1. CASE UNCHANGED storeVars
    BY <1>1, <2>1 DEF storeVars
  <2>2. CASE haveState /\ StartApply(Head(deltaQ))
    <3>1. Head(deltaQ) \in InFlight
      BY <1>3, QueueTail DEF Submit, InFlight
    <3>2. Merge(Head(deltaQ)) /\ UNCHANGED chainVars
      BY <1>3, <2>2 DEF Submit, StartApply
    <3> QED
      BY <2>2, <3>1, <3>2, InFlightType, MergeMarkInv DEF FlightInv
  <2> QED
    BY <1>3, <2>1, <2>2 DEF Submit, StartApply
<1>4. CASE ApplyOK \/ \E done \in SUBSET Pools : ApplyFail(done)
  <2>1. haveState /\ Adopt /\ Drain /\ UNCHANGED chainVars
    BY <1>4 DEF ApplyOK, ApplyFail, GenInv
  <2>2. ASSUME NEW e \in pending, Merge(e)
        PROVE  MarkInv'
    <3>1. e \in InFlight
      BY DEF InFlight
    <3> QED
      BY <2>1, <2>2, <3>1, InFlightType, MergeMarkInv DEF FlightInv
  <2>3. CASE UNCHANGED storeVars
    BY <1>1, <2>3 DEF storeVars
  <2> QED
    BY <2>1, <2>2, <2>3 DEF Adopt, Drain
<1>5. ASSUME NEW done \in SUBSET Pools, AgentRestart(done)
      PROVE  MarkInv'
  BY <1>5 DEF AgentRestart, MarkInv
<1>6. CASE \/ \E up, rm \in SUBSET Pools : MintDelta(up, rm)
           \/ \E k \in Gens : MintFull(k)
           \/ Resync
           \/ Connect
           \/ Disconnect
           \/ \E d \in deltas : SubmitDelta(d)
           \/ WakePass
           \/ TickPass
           \/ PassOK
           \/ \E done \in SUBSET Pools : PassFail(done)
           \/ UNCHANGED vars
  BY <1>1, <1>6, Zenon DEF MintDelta, MintFull, Resync, Connect, Disconnect,
     SubmitDelta, WakePass, TickPass, RunOnce, PassOK, PassFail, vars, storeVars
<1> QED
  BY <1>2, <1>3, <1>4, <1>5, <1>6 DEF Next

-----------------------------------------------------------------------------
(***************************************************************************)
(* The theorems.                                                           *)
(***************************************************************************)

LEMMA InitSyncInv == Init => SyncInv
<1> SUFFICES ASSUME Init
             PROVE  SyncInv
  OBVIOUS
<1>1. TypeOK
  BY InitType
<1>2. HistInv
  <2>1. \A p \in Pools : hist[0][p].ver = 0
    BY ConstantTypes DEF Init, Nothing, Absent
  <2>2. minted = 0
    BY DEF Init
  <2> QED
    BY <2>1, <2>2 DEF HistInv
<1>3. FlightInv
  BY DEF Init, FlightInv, InFlight, Queued
<1>4. GenInv /\ MarkInv
  BY DEF Init, GenInv, MarkInv
<1> QED
  BY <1>1, <1>2, <1>3, <1>4 DEF SyncInv

LEMMA NextSyncInv == SyncInv /\ [Next]_vars => SyncInv'
  BY NextType, NextHistInv, NextFlightInv, NextGenInv, NextMarkInv DEF SyncInv

\* SyncInv is an invariant.
LEMMA Inductive == Spec => []SyncInv
  BY InitSyncInv, NextSyncInv, PTL DEF Spec

\* Within one life of the agent the applied generation never goes back, for any
\* interleaving of the dispatch and the reconcile goroutine, any reordering,
\* loss and overflow (the assignments of lastGen).
THEOREM AppliedForward == Spec => AppliedNeverRegresses
<1>1. SyncInv /\ [Next]_vars => [haveState' => lastGen' >= lastGen]_vars
  <2> SUFFICES ASSUME SyncInv, [Next]_vars, haveState'
               PROVE  lastGen' >= lastGen
    OBVIOUS
  <2>1. lastGen \in Nat /\ snap.gen \in Nat /\ cur.gen \in Nat
    BY NumberTypes DEF SyncInv
  <2>2. CASE UNCHANGED lastGen
    BY <2>1, <2>2
  <2>3. CASE PassOK
    BY <2>1, <2>3 DEF PassOK, SyncInv, GenInv
  <2>4. CASE ApplyOK \/ \E done \in SUBSET Pools : ApplyFail(done)
    <3>1. pc = "delta" /\ lastGen' = cur.gen
      BY <2>4 DEF ApplyOK, ApplyFail, Adopt, Drain
    <3> QED
      BY <2>1, <3>1 DEF SyncInv, GenInv
  <2>5. \/ UNCHANGED lastGen
        \/ PassOK
        \/ ApplyOK \/ \E done \in SUBSET Pools : ApplyFail(done)
    BY Zenon DEF Next, vars, MintDelta, MintFull, Resync, Connect, Disconnect,
       AcceptFull, SubmitDelta, WakePass, TickPass, RunOnce, PassFail, Submit,
       AgentRestart, loopVars
  <2> QED
    BY <2>2, <2>3, <2>4, <2>5
<1> QED
  BY <1>1, Inductive, PTL DEF Spec, AppliedNeverRegresses

\* Accepting a full snapshot never takes a pool back to an older contribution,
\* however far behind the snapshot was rendered (the watermark of Accept).
THEOREM AcceptForward == Spec => AcceptNeverLosesNewer
<1>1. SyncInv /\ [Next]_vars =>
        [(haveState /\ \E m \in fulls : AcceptFull(m))
           => \A p \in Pools : held'[p].ver >= held[p].ver]_vars
  <2> SUFFICES ASSUME SyncInv, haveState, NEW m \in fulls, AcceptFull(m),
                      NEW p \in Pools
               PROVE  held'[p].ver >= held[p].ver
    OBVIOUS
  <2>1. TypeOK
    BY DEF SyncInv
  <2>2. held[p].ver \in Nat
    BY <2>1, BoundsAssumption DEF TypeOK, Contribution, Gens
  <2>3. CASE Refused(m)
    BY <2>2, <2>3 DEF AcceptFull, storeVars
  <2>4. CASE ~Refused(m)
    <3>1. m.asOf \in 0 .. minted /\ minted \in Nat /\ contentAsOf \in 1 .. minted + 1
      BY <2>1, NumberTypes DEF SyncInv, FlightInv, MarkInv
    <3>2. contentAsOf - 1 <= m.asOf
      BY <2>4, <3>1 DEF Refused, Stamp
    <3> DEFINE k == contentAsOf - 1
    <3>3. k \in 0 .. minted
      BY <3>1
    <3>4. held[p].ver <= hist[k][p].ver
      BY DEF SyncInv, MarkInv
    <3> HIDE DEF k
    <3>5. hist[k][p].ver <= hist[m.asOf][p].ver
      BY <3>1, <3>2, <3>3 DEF SyncInv, HistInv, k
    <3>6. hist[k][p].ver \in Nat /\ hist[m.asOf][p].ver \in Nat
      BY <2>1, <3>1, <3>3, VersionType
    <3>7. held' = hist[m.asOf]
      BY <2>4 DEF AcceptFull
    <3> QED
      BY <2>2, <3>4, <3>5, <3>6, <3>7
  <2> QED
    BY <2>3, <2>4
<1> QED
  BY <1>1, Inductive, PTL DEF Spec, AcceptNeverLosesNewer

\* Nothing in VPP changes before the agent has accepted a state, whatever deltas,
\* wakes and ticks arrive first (runOnce, Merge).
THEOREM ColdStart == Spec => ColdStartTouchesNothing
<1>1. SyncInv /\ [Next]_vars => [vpp' # vpp => haveState]_vars
  <2> SUFFICES ASSUME SyncInv, [Next]_vars, vpp' # vpp
               PROVE  haveState
    OBVIOUS
  <2>1. pc # "idle"
    <3>1. ASSUME NEW done \in SUBSET Pools, AgentRestart(done), pc = "idle"
          PROVE  FALSE
      BY <3>1 DEF AgentRestart
    <3>2. CASE \/ PassOK
               \/ \E done \in SUBSET Pools : PassFail(done)
               \/ ApplyOK
               \/ \E done \in SUBSET Pools : ApplyFail(done)
      BY <3>2 DEF PassOK, PassFail, ApplyOK, ApplyFail
    <3>3. \/ PassOK
          \/ \E done \in SUBSET Pools : PassFail(done)
          \/ ApplyOK
          \/ \E done \in SUBSET Pools : ApplyFail(done)
          \/ \E done \in SUBSET Pools : AgentRestart(done)
      BY Zenon DEF Next, vars, MintDelta, MintFull, Resync, Connect, Disconnect,
         AcceptFull, SubmitDelta, WakePass, TickPass, RunOnce, Submit, loopVars
    <3> QED
      BY <3>1, <3>2, <3>3
  <2> QED
    BY <2>1 DEF SyncInv, GenInv
<1> QED
  BY <1>1, Inductive, PTL DEF Spec, ColdStartTouchesNothing

\* A delta of the chain, folded onto a held state that is at or past its base,
\* leaves a state that misses nothing up to the delta's generation.
LEMMA MergeMissesNothing ==
  ASSUME SyncInv, NothingMissed, haveState, NEW d \in DeltaMsgs,
         Made(d, hist, minted), d.base <= gen, Merge(d), UNCHANGED chainVars
  PROVE  NothingMissed'
<1>1. /\ d.base \in 0 .. minted /\ d.gen \in 0 .. minted
      /\ gen \in 0 .. minted
  BY BoundsAssumption DEF Made, DeltaMsgs, Gens, SyncInv, TypeOK, GenInv
<1>2. ASSUME NEW p \in Pools
      PROVE  held'[p].ver >= hist[d.gen][p].ver
  <2>1. /\ hist[d.gen][p].ver \in Nat
        /\ hist[d.base][p].ver \in Nat
        /\ hist[gen][p].ver \in Nat
    BY <1>1, VersionType DEF SyncInv
  <2>2. CASE p \in d.touch
    BY <2>1, <2>2 DEF Merge, Overlay
  <2>3. CASE p \notin d.touch
    <3>1. held'[p] = held[p]
      BY <2>3 DEF Merge, Overlay
    <3>2. held[p].ver >= hist[gen][p].ver
      BY DEF NothingMissed
    <3>3. hist[d.base][p].ver <= hist[gen][p].ver
      BY <1>1 DEF SyncInv, HistInv
    <3>4. hist[d.gen][p] = hist[d.base][p]
      BY <2>3 DEF Made
    <3>5. held[p].ver \in Nat
      BY BoundsAssumption DEF SyncInv, TypeOK, Contribution, Gens
    <3> QED
      BY <2>1, <3>1, <3>2, <3>3, <3>4, <3>5
  <2> QED
    BY <2>2, <2>3
<1>3. gen' = d.gen /\ hist' = hist
  BY DEF Merge, chainVars
<1> QED
  BY <1>2, <1>3 DEF NothingMissed

LEMMA NextNothingMissed ==
  ASSUME MaxStale = 0, SyncInv, NothingMissed, [Next]_vars
  PROVE  NothingMissed'
<1>1. CASE UNCHANGED <<haveState, gen, held>>
  <2>1. gen \in 0 .. minted
    BY NumberTypes DEF SyncInv, GenInv
  <2>2. hist'[gen] = hist[gen]
    BY <2>1, ChainGrows DEF SyncInv
  <2> QED
    BY <1>1, <2>2 DEF NothingMissed
<1>2. ASSUME NEW m \in fulls, AcceptFull(m)
      PROVE  NothingMissed'
  <2>1. CASE Refused(m)
    BY <1>1, <1>2, <2>1 DEF AcceptFull, storeVars
  <2>2. CASE ~Refused(m)
    <3>1. m.asOf = m.gen /\ m.gen \in 0 .. minted
      BY NumberTypes DEF SyncInv, FlightInv
    <3>2. held' = hist[m.gen] /\ gen' = m.gen /\ hist' = hist
      BY <1>2, <2>2, <3>1 DEF AcceptFull, chainVars
    <3>3. \A p \in Pools : hist[m.gen][p].ver \in Nat
      BY <3>1, VersionType DEF SyncInv
    <3> QED
      BY <3>2, <3>3 DEF NothingMissed
  <2> QED
    BY <2>1, <2>2
<1>3. CASE Submit
  <2>1. CASE UNCHANGED storeVars
    BY <1>1, <2>1 DEF storeVars
  <2>2. CASE haveState /\ InSequence(Head(deltaQ)) /\ StartApply(Head(deltaQ))
    <3>1. Head(deltaQ) \in InFlight
      BY <1>3, QueueTail DEF SyncInv, Submit, InFlight
    <3>2. Merge(Head(deltaQ)) /\ UNCHANGED chainVars
      BY <1>3, <2>2 DEF Submit, StartApply
    <3>3. Head(deltaQ).base <= gen
      BY <2>2 DEF InSequence, SyncInv, GenInv
    <3> QED
      BY <2>2, <3>1, <3>2, <3>3, InFlightType, MergeMissesNothing
      DEF SyncInv, FlightInv
  <2> QED
    BY <1>3, <2>1, <2>2 DEF Submit, StartApply
<1>4. CASE ApplyOK \/ \E done \in SUBSET Pools : ApplyFail(done)
  <2>1. haveState /\ pc = "delta" /\ Adopt /\ Drain /\ UNCHANGED chainVars
    BY <1>4 DEF ApplyOK, ApplyFail, SyncInv, GenInv
  <2>2. ASSUME NEW e \in pending, e.base = cur.gen, Merge(e)
        PROVE  NothingMissed'
    <3>1. e \in InFlight
      BY DEF InFlight
    <3>2. e.base <= gen
      BY <2>1, <2>2 DEF SyncInv, GenInv
    <3> QED
      BY <2>1, <2>2, <3>1, <3>2, InFlightType, MergeMissesNothing
      DEF SyncInv, FlightInv
  <2>3. CASE UNCHANGED storeVars
    BY <1>1, <2>3 DEF storeVars
  <2> QED
    BY <2>1, <2>2, <2>3 DEF Adopt, Drain
<1>5. ASSUME NEW done \in SUBSET Pools, AgentRestart(done)
      PROVE  NothingMissed'
  BY <1>5 DEF AgentRestart, NothingMissed
<1>6. CASE \/ \E up, rm \in SUBSET Pools : MintDelta(up, rm)
           \/ \E k \in Gens : MintFull(k)
           \/ Resync
           \/ Connect
           \/ Disconnect
           \/ \E d \in deltas : SubmitDelta(d)
           \/ WakePass
           \/ TickPass
           \/ PassOK
           \/ \E done \in SUBSET Pools : PassFail(done)
           \/ UNCHANGED vars
  BY <1>1, <1>6, Zenon DEF MintDelta, MintFull, Resync, Connect, Disconnect,
     SubmitDelta, WakePass, TickPass, RunOnce, PassOK, PassFail, vars, storeVars
<1> QED
  BY <1>2, <1>3, <1>4, <1>5, <1>6 DEF Next

\* With full snapshots rendered from current reads, the held state has every
\* change up to its own generation, for any order of arrival and any loss
\* (Accept, Merge and DeltaSequencer.Submit together).
THEOREM MissesNothing ==
  ASSUME MaxStale = 0
  PROVE  Spec => []NothingMissed
<1>1. Init => NothingMissed
  BY DEF Init, NothingMissed
<1>2. SyncInv /\ NothingMissed /\ [Next]_vars => NothingMissed'
  BY NextNothingMissed
<1> QED
  BY <1>1, <1>2, Inductive, PTL DEF Spec
=============================================================================
