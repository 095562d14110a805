-------------------------- MODULE ReconcilerProofs --------------------------
(***************************************************************************)
(* Proofs about the reconcile goroutine against VPP (Reconciler) and the   *)
(* counts it attests (AttestedCounts), for any number of pools, keys,      *)
(* masks, specs and policer indexes, and any number of changes and faults. *)
(***************************************************************************)
EXTENDS AttestedCounts, FiniteSetTheorems, TLAPS

-----------------------------------------------------------------------------
(***************************************************************************)
(* VPP's policer slots: what a dump by name says of them, and what an add, *)
(* an update by index and a delete by name do to it.                       *)
(***************************************************************************)

Slots == [Idxs -> [name : Pools, spec : Specs] \cup {Free}]

\* The dump of module Reconciler, of any slots v.
SpecOf(v, p) == IF \E i \in Idxs : v[i].name = p
                THEN v[CHOOSE i \in Idxs : v[i].name = p].spec
                ELSE NoSpec

OneSlotEach(v) ==
  \A i, j \in Idxs : v[i].name = v[j].name /\ v[i].name # NoPool => i = j

\* A slot is free or holds the spec of a pool.
LEMMA SlotShape ==
  ASSUME NEW v \in Slots, NEW i \in Idxs
  PROVE  /\ v[i].name \in Pools \cup {NoPool}
         /\ v[i].name = NoPool <=> v[i] = Free
         /\ v[i].name \in Pools => v[i].spec \in Specs
BY ReconcilerAssumption DEF Slots, Free

\* A name is absent from the dump when no slot has it.
LEMMA DumpedIsThere ==
  ASSUME NEW v \in Slots, NEW p \in Pools
  PROVE  /\ SpecOf(v, p) \in Specs \cup {NoSpec}
         /\ SpecOf(v, p) = NoSpec <=> \A i \in Idxs : v[i].name # p
<1>1. CASE \E i \in Idxs : v[i].name = p
  <2>1. PICK j \in Idxs : /\ j = CHOOSE i \in Idxs : v[i].name = p
                          /\ v[j].name = p
    BY <1>1
  <2>2. SpecOf(v, p) = v[j].spec
    BY <1>1, <2>1 DEF SpecOf
  <2>3. v[j].spec \in Specs
    BY <2>1, SlotShape
  <2>. QED  BY <1>1, <2>2, <2>3, ReconcilerAssumption
<1>2. CASE ~ \E i \in Idxs : v[i].name = p
  BY <1>2 DEF SpecOf
<1>. QED  BY <1>1, <1>2

\* With one slot per name, the dump has the spec of that slot.
LEMMA DumpedSpec ==
  ASSUME NEW v \in Slots, OneSlotEach(v), NEW i \in Idxs, v[i].name \in Pools
  PROVE  SpecOf(v, v[i].name) = v[i].spec
<1>. DEFINE p == v[i].name
<1>1. PICK j \in Idxs : /\ j = CHOOSE l \in Idxs : v[l].name = p
                        /\ v[j].name = p
  OBVIOUS
<1>2. j = i
  BY <1>1, ReconcilerAssumption DEF OneSlotEach
<1>. QED  BY <1>1, <1>2 DEF SpecOf

\* Slots that agree on where a name is agree on its dump.
LEMMA SameDump ==
  ASSUME NEW v \in Slots, NEW w \in Slots, OneSlotEach(v), OneSlotEach(w),
         NEW p \in Pools,
         \A i \in Idxs : v[i].name = p \/ w[i].name = p => v[i] = w[i]
  PROVE  SpecOf(w, p) = SpecOf(v, p)
<1>1. CASE \E i \in Idxs : v[i].name = p
  <2>1. PICK i \in Idxs : v[i].name = p
    BY <1>1
  <2>2. w[i].name = p /\ w[i].spec = v[i].spec
    BY <2>1
  <2>. QED  BY <2>1, <2>2, DumpedSpec
<1>2. CASE \A i \in Idxs : v[i].name # p
  <2>1. \A i \in Idxs : w[i].name # p
    BY <1>2
  <2>. QED  BY <1>2, <2>1, DumpedIsThere
<1>. QED  BY <1>1, <1>2

\* policer_add of an absent name at a free index.
LEMMA AddEffect ==
  ASSUME NEW v \in Slots, OneSlotEach(v), NEW i \in Idxs, NEW p \in Pools,
         NEW s \in Specs, v[i] = Free, SpecOf(v, p) = NoSpec,
         NEW w \in Slots, w[i] = [name |-> p, spec |-> s],
         \A j \in Idxs \ {i} : w[j] = v[j]
  PROVE  /\ OneSlotEach(w)
         /\ SpecOf(w, p) = s
         /\ \A q \in Pools \ {p} : SpecOf(w, q) = SpecOf(v, q)
<1>2. w[i].name = p /\ w[i].spec = s
  OBVIOUS
<1>3. \A j \in Idxs : v[j].name # p
  BY DumpedIsThere
<1>4. v[i].name = NoPool
  BY DEF Free
<1>5. OneSlotEach(w)
  BY <1>2, <1>3 DEF OneSlotEach
<1>6. SpecOf(w, p) = s
  BY <1>2, <1>5, DumpedSpec
<1>7. ASSUME NEW q \in Pools \ {p}
      PROVE  SpecOf(w, q) = SpecOf(v, q)
  <2>1. \A j \in Idxs : v[j].name = q \/ w[j].name = q => v[j] = w[j]
    BY <1>2, <1>4, ReconcilerAssumption
  <2>. QED  BY <1>5, <2>1, SameDump
<1>. QED  BY <1>5, <1>6, <1>7

\* policer_update of an index in use.
LEMMA UpdateEffect ==
  ASSUME NEW v \in Slots, OneSlotEach(v), NEW i \in Idxs, NEW s \in Specs,
         v[i] # Free,
         NEW w \in Slots, w[i].name = v[i].name, w[i].spec = s,
         \A j \in Idxs \ {i} : w[j] = v[j]
  PROVE  /\ OneSlotEach(w)
         /\ \A j \in Idxs : w[j].name = v[j].name
         /\ v[i].name \in Pools
         /\ SpecOf(w, v[i].name) = s
         /\ \A q \in Pools : q # v[i].name => SpecOf(w, q) = SpecOf(v, q)
<1>3. \A j \in Idxs : w[j].name = v[j].name
  OBVIOUS
<1>4. OneSlotEach(w)
  BY <1>3 DEF OneSlotEach
<1>5. v[i].name \in Pools
  BY SlotShape
<1>6. SpecOf(w, v[i].name) = s
  BY <1>4, <1>5, DumpedSpec
<1>7. ASSUME NEW q \in Pools, q # v[i].name
      PROVE  SpecOf(w, q) = SpecOf(v, q)
  <2>1. \A j \in Idxs : v[j].name = q \/ w[j].name = q => v[j] = w[j]
    BY <1>7
  <2>. QED  BY <1>4, <2>1, SameDump
<1>. QED  BY <1>3, <1>4, <1>5, <1>6, <1>7

\* policer_add_del by name.
LEMMA DeleteEffect ==
  ASSUME NEW v \in Slots, OneSlotEach(v), NEW p \in Pools,
         NEW w, w = [i \in Idxs |-> IF v[i].name = p THEN Free ELSE v[i]]
  PROVE  /\ w \in Slots
         /\ OneSlotEach(w)
         /\ SpecOf(w, p) = NoSpec
         /\ \A i \in Idxs : w[i].name # NoPool => w[i] = v[i]
         /\ \A q \in Pools \ {p} : SpecOf(w, q) = SpecOf(v, q)
<1>1. w \in Slots
  BY DEF Slots
<1>2. \A i \in Idxs : w[i] = IF v[i].name = p THEN Free ELSE v[i]
  OBVIOUS
<1>3. Free.name = NoPool /\ p # NoPool
  BY ReconcilerAssumption DEF Free
<1>4. OneSlotEach(w)
  BY <1>2, <1>3 DEF OneSlotEach
<1>5. \A i \in Idxs : w[i].name # p
  BY <1>2, <1>3
<1>6. SpecOf(w, p) = NoSpec
  BY <1>1, <1>5, DumpedIsThere
<1>7. \A i \in Idxs : w[i].name # NoPool => w[i] = v[i]
  BY <1>2, <1>3
<1>8. ASSUME NEW q \in Pools \ {p}
      PROVE  SpecOf(w, q) = SpecOf(v, q)
  <2>1. q # NoPool
    BY ReconcilerAssumption
  <2>2. \A j \in Idxs : v[j].name = q \/ w[j].name = q => v[j] = w[j]
    BY <1>2, <1>3, <2>1
  <2>. QED  BY <1>1, <1>4, <2>2, SameDump
<1>. QED  BY <1>1, <1>4, <1>6, <1>7, <1>8

-----------------------------------------------------------------------------
(***************************************************************************)
(* The inductive invariant.                                                *)
(***************************************************************************)

InPass == pc \in {"policers", "sessions"}
Converged(p) == p \in Wanted(want) \ todo

\* VPP refuses a name it has, and an index stands in a session only of a table
\* that exists.
VppSound ==
  /\ OneSlotEach(vpol)
  /\ \A k \in Keys : vsess[k] # NoIdx => MaskOf[k] \in tables

\* The session phase starts with no policer left and every index known.
PhasesInOrder ==
  pc = "sessions" => todo = {} /\ ~IndexMissing

\* While VPP is connected: the names the pass is done with are there when they
\* are desired, the dump is true of the names still to do, and unless the
\* cached index of a converged pool is wrong, the converged pools have their
\* specs (an update by a wrong index changes another pool's).
PassSound ==
  up /\ InPass =>
    /\ \A p \in Pools \ todo : Dump[p] = NoSpec <=> want.spec[p] = NoSpec
    /\ pc = "policers" => \A p \in todo : dump[p] = NoSpec <=> Dump[p] = NoSpec
    /\ (\A p \in Pools : Converged(p) => IndexRight(p)) =>
         \A p \in Pools : Converged(p) => Dump[p] = want.spec[p]

\* The pools a delta removes are no longer desired; a pool whose sessions it
\* upserts has a policer index.
DeltaSound ==
  /\ pc = "idle" \/ InPass => removing = {} /\ upserting = {}
  /\ removing \cap Wanted(want) = {}
  /\ upserting \subseteq Wanted(want)
  /\ pc = "rmPool" => pool \in Pools \ Wanted(want)
  /\ pc = "upPolicer" => pool \in Wanted(want)
  /\ pc = "upSessions" => pool \in Pools /\ polIdx[pool] # NoIdx

ReconcilerInv == TypeOK /\ VppSound /\ PhasesInOrder /\ PassSound /\ DeltaSound

\* Counts are held only outside of a pass, and are then VPP's at every call.
CountsFollow ==
  act # NoCounts => ~InPass /\ act = [pol |-> PolicersIn, sess |-> SessionsIn]

\* The dump of a state is that of its slots.
LEMMA DumpIs ==
  /\ Dump = [p \in Pools |-> SpecOf(vpol, p)]
  /\ Dump' = [p \in Pools |-> SpecOf(vpol', p)]
BY DEF Dump, SpecOf

\* What the three policer calls do, in terms of the dump.
LEMMA PolicerAdded ==
  ASSUME TypeOK, OneSlotEach(vpol), NEW i \in Idxs, NEW p \in Pools,
         NEW s \in Specs, PolicerAdd(i, p, s)
  PROVE  /\ vpol' \in Slots
         /\ OneSlotEach(vpol')
         /\ vpol[i] = Free
         /\ vpol'[i] = [name |-> p, spec |-> s]
         /\ \A j \in Idxs \ {i} : vpol'[j] = vpol[j]
         /\ Dump[p] = NoSpec
         /\ Dump'[p] = s
         /\ \A q \in Pools \ {p} : Dump'[q] = Dump[q]
<1>1. /\ vpol \in Slots
      /\ vpol[i] = Free
      /\ SpecOf(vpol, p) = NoSpec
  BY DumpIs DEF PolicerAdd, TypeOK, Slots
<1>2. /\ vpol' \in Slots
      /\ vpol'[i] = [name |-> p, spec |-> s]
      /\ \A j \in Idxs \ {i} : vpol'[j] = vpol[j]
  BY <1>1 DEF Slots, PolicerAdd
<1>3. /\ OneSlotEach(vpol')
      /\ SpecOf(vpol', p) = s
      /\ \A q \in Pools \ {p} : SpecOf(vpol', q) = SpecOf(vpol, q)
  BY <1>1, <1>2, AddEffect
<1>. QED  BY <1>1, <1>2, <1>3, DumpIs

LEMMA PolicerUpdated ==
  ASSUME TypeOK, OneSlotEach(vpol), NEW i \in Idxs, NEW s \in Specs,
         PolicerUpdate(i, s)
  PROVE  /\ vpol' \in Slots
         /\ OneSlotEach(vpol')
         /\ \A j \in Idxs : vpol'[j].name = vpol[j].name
         /\ vpol[i].name \in Pools
         /\ Dump'[vpol[i].name] = s
         /\ \A q \in Pools : q # vpol[i].name => Dump'[q] = Dump[q]
         /\ \A q \in Pools : Dump'[q] = NoSpec <=> Dump[q] = NoSpec
<1>1. /\ vpol \in Slots
      /\ vpol[i] # Free
  BY DEF PolicerUpdate, TypeOK, Slots
<1>2. vpol[i] \in [name : Pools, spec : Specs]
  BY <1>1 DEF Slots
<1>3. /\ vpol' \in Slots
      /\ vpol'[i].name = vpol[i].name
      /\ vpol'[i].spec = s
      /\ \A j \in Idxs \ {i} : vpol'[j] = vpol[j]
  BY <1>1, <1>2 DEF Slots, PolicerUpdate
<1>4. /\ OneSlotEach(vpol')
      /\ \A j \in Idxs : vpol'[j].name = vpol[j].name
      /\ vpol[i].name \in Pools
      /\ SpecOf(vpol', vpol[i].name) = s
      /\ \A q \in Pools : q # vpol[i].name => SpecOf(vpol', q) = SpecOf(vpol, q)
  BY <1>1, <1>3, UpdateEffect
<1>5. ASSUME NEW q \in Pools
      PROVE  SpecOf(vpol', q) = NoSpec <=> SpecOf(vpol, q) = NoSpec
  <2>1. SpecOf(vpol', q) = NoSpec <=> \A j \in Idxs : vpol'[j].name # q
    BY <1>3, DumpedIsThere
  <2>2. SpecOf(vpol, q) = NoSpec <=> \A j \in Idxs : vpol[j].name # q
    BY <1>1, DumpedIsThere
  <2>. QED  BY <1>4, <2>1, <2>2
<1>. QED  BY <1>3, <1>4, <1>5, DumpIs

LEMMA PolicerDeleted ==
  ASSUME TypeOK, OneSlotEach(vpol), NEW p \in Pools, DeleteByName(p)
  PROVE  /\ vpol' \in Slots
         /\ OneSlotEach(vpol')
         /\ vpol' = [i \in Idxs |-> IF vpol[i].name = p THEN Free ELSE vpol[i]]
         /\ \A i \in Idxs : vpol'[i].name # NoPool => vpol'[i] = vpol[i]
         /\ Dump[p] # NoSpec
         /\ Dump'[p] = NoSpec
         /\ \A q \in Pools \ {p} : Dump'[q] = Dump[q]
<1>1. /\ vpol \in Slots
      /\ Dump[p] # NoSpec
      /\ vpol' = [i \in Idxs |-> IF vpol[i].name = p THEN Free ELSE vpol[i]]
  BY DEF DeleteByName, TypeOK, Slots
<1>2. /\ vpol' \in Slots
      /\ OneSlotEach(vpol')
      /\ SpecOf(vpol', p) = NoSpec
      /\ \A i \in Idxs : vpol'[i].name # NoPool => vpol'[i] = vpol[i]
      /\ \A q \in Pools \ {p} : SpecOf(vpol', q) = SpecOf(vpol, q)
  BY <1>1, DeleteEffect
<1>. QED  BY <1>1, <1>2, DumpIs

\* The pools a state wants have a spec in it.
LEMMA WantedSpec ==
  ASSUME TypeOK
  PROVE  /\ \A p \in Wanted(want) : p \in Pools /\ want.spec[p] \in Specs
         /\ \A p \in Pools : want.spec[p] \in Specs \cup {NoSpec}
         /\ \A k \in Keys : /\ want.owner[k] \in Pools \cup {NoPool}
                            /\ want.owner[k] # NoPool => want.owner[k] \in Wanted(want)
BY ReconcilerAssumption DEF TypeOK, Desired, Wanted

LEMMA InitSound == Init => ReconcilerInv
<1>. SUFFICES ASSUME Init PROVE ReconcilerInv
  OBVIOUS
<1>1. vpol \in Slots /\ OneSlotEach(vpol)
  BY DEF Init, EmptyVpp, Slots, OneSlotEach, Free
<1>2. want \in Desired
  BY DEF Init, NoDesired, Desired
<1>3. up \in BOOLEAN /\ reconnect \in BOOLEAN /\ have \in BOOLEAN
  BY Zenon DEF Init
<1>4. changes \in 0 .. MaxChanges /\ faults \in 0 .. MaxFaults
  BY ReconcilerAssumption DEF Init
<1>5. /\ vsess \in [Keys -> Idxs \cup {NoIdx}]
      /\ tables \in SUBSET Masks
      /\ attached \in SUBSET Masks
      /\ polIdx \in [Pools -> Idxs \cup {NoIdx}]
      /\ pc = "idle"
      /\ todo \in SUBSET Pools
      /\ dump \in [Pools -> Specs \cup {NoSpec}]
      /\ prev \in [Keys -> Pools \cup {NoPool}]
      /\ removing = {}
      /\ upserting = {}
      /\ pool = NoPool
  BY DEF Init, EmptyVpp, EmptyLocals, Unknown, NoDesired
<1>6. TypeOK
  BY <1>1, <1>2, <1>3, <1>4, <1>5 DEF TypeOK, Slots
<1>7. VppSound
  BY <1>1 DEF VppSound, Init, EmptyVpp
<1>8. PhasesInOrder /\ PassSound /\ DeltaSound
  BY <1>5 DEF PhasesInOrder, PassSound, DeltaSound, InPass
<1>. QED  BY <1>6, <1>7, <1>8 DEF ReconcilerInv

-----------------------------------------------------------------------------
(***************************************************************************)
(* The full pass keeps the invariant.                                      *)
(***************************************************************************)

\* Re-learning yields an index per pool, whatever it picks.
LEMMA RelearnedType ==
  ASSUME NEW known \in [Pools -> Idxs \cup {NoIdx}], NEW d \in Desired,
         NEW f \in Relearned(known, d)
  PROVE  f \in [Pools -> Idxs \cup {NoIdx}]
BY DEF Relearned

LEMMA StartPassSound ==
  ASSUME ReconcilerInv, reconnect' \in BOOLEAN, NEW d \in Desired,
         NEW known \in [Pools -> Idxs \cup {NoIdx}], StartPass(known, d)
  PROVE  ReconcilerInv'
<1>1. /\ pc = "idle" /\ up
      /\ changes' = changes \/ (changes < MaxChanges /\ changes' = changes + 1)
      /\ have' = TRUE
      /\ want' = d
      /\ polIdx' \in Relearned(known, d)
      /\ pc' = "policers"
      /\ dump' = Dump
      /\ todo' = PolicersToDo(d, polIdx')
      /\ UNCHANGED <<vppVars, up, prev, removing, upserting, pool, faults>>
  BY DEF StartPass
<1>2. TypeOK'
  <2>1. /\ vpol \in Slots
        /\ polIdx' \in [Pools -> Idxs \cup {NoIdx}]
        /\ todo' \in SUBSET Pools
    BY <1>1, RelearnedType DEF ReconcilerInv, TypeOK, Slots, PolicersToDo
  <2>2. dump' \in [Pools -> Specs \cup {NoSpec}]
    BY <1>1, <2>1, DumpIs, DumpedIsThere
  <2>3. changes' \in 0 .. MaxChanges
    BY <1>1, ReconcilerAssumption DEF ReconcilerInv, TypeOK
  <2>4. have' \in BOOLEAN
    BY <1>1, Zenon
  <2>. QED  BY <1>1, <2>1, <2>2, <2>3, <2>4 DEF ReconcilerInv, TypeOK, vppVars
<1>3. VppSound' /\ Dump' = Dump
  BY <1>1, DumpIs DEF ReconcilerInv, VppSound, vppVars
<1>4. PhasesInOrder'
  BY <1>1 DEF PhasesInOrder
<1>5. PassSound'
  <2>1. \A p \in Pools \ todo' : Dump'[p] = want'.spec[p]
    BY <1>1, <1>3 DEF PolicersToDo
  <2>2. dump' = Dump'
    BY <1>1, <1>3
  <2>3. \A p \in Pools : Converged(p)' => p \in Pools \ todo'
    BY DEF Converged
  <2>. QED  BY <2>1, <2>2, <2>3 DEF PassSound
<1>6. DeltaSound'
  BY <1>1 DEF ReconcilerInv, DeltaSound, InPass
<1>. QED  BY <1>2, <1>3, <1>4, <1>5, <1>6 DEF ReconcilerInv

LEMMA SomePassSound == ReconcilerInv /\ SomePass => ReconcilerInv'
<1>1. ASSUME ReconcilerInv, NEW d \in Desired, TickPass(d)
      PROVE  ReconcilerInv'
  <2>1. polIdx \in [Pools -> Idxs \cup {NoIdx}] /\ reconnect \in BOOLEAN
    BY <1>1 DEF ReconcilerInv, TypeOK
  <2>2. StartPass(polIdx, d) /\ reconnect' = reconnect
    BY <1>1 DEF TickPass
  <2>. QED  BY <1>1, <2>1, <2>2, StartPassSound
<1>2. ASSUME ReconcilerInv, NEW d \in Desired, ReconnectPass(d)
      PROVE  ReconcilerInv'
  <2>1. Unknown \in [Pools -> Idxs \cup {NoIdx}]
    BY DEF Unknown
  <2>2. StartPass(Unknown, d) /\ reconnect' = FALSE
    BY <1>2 DEF ReconnectPass
  <2>3. reconnect' \in BOOLEAN
    BY <2>2, Zenon
  <2>. QED  BY <1>2, <2>1, <2>2, <2>3, StartPassSound
<1>. QED  BY <1>1, <1>2 DEF SomePass

\* What a pass is done with a policer leaves alone, and what it asks of the rest.
LEMMA PolicerDoneSound ==
  ASSUME ReconcilerInv, pc = "policers", up, NEW p \in todo, PolicerDone(p),
         vpol' \in Slots, OneSlotEach(vpol'),
         polIdx' \in [Pools -> Idxs \cup {NoIdx}],
         \A q \in Pools \ {p} : polIdx'[q] = polIdx[q],
         \A q \in Pools \ {p} : Dump'[q] = NoSpec <=> Dump[q] = NoSpec,
         Dump'[p] = NoSpec <=> want.spec[p] = NoSpec,
         (\A q \in Pools : Converged(q)' => IndexRight(q)')
           => \A q \in Pools : Converged(q)' => Dump'[q] = want.spec[q]
  PROVE  ReconcilerInv'
<1>1. /\ todo' = todo \ {p}
      /\ pool' = NoPool
      /\ UNCHANGED <<vsess, tables, attached, up, reconnect, have, want, pc,
                     dump, prev, removing, upserting, changes, faults>>
  BY DEF PolicerDone
<1>2. TypeOK'
  BY <1>1 DEF ReconcilerInv, TypeOK, Slots
<1>3. VppSound'
  BY <1>1 DEF ReconcilerInv, VppSound
<1>4. PhasesInOrder'
  BY <1>1 DEF PhasesInOrder
<1>5. p \in Pools /\ todo \subseteq Pools
  BY DEF ReconcilerInv, TypeOK
<1>6. /\ \A q \in Pools \ todo : Dump[q] = NoSpec <=> want.spec[q] = NoSpec
      /\ \A q \in todo : dump[q] = NoSpec <=> Dump[q] = NoSpec
  BY DEF ReconcilerInv, PassSound, InPass
<1>7. \A q \in Pools \ todo' : Dump'[q] = NoSpec <=> want'.spec[q] = NoSpec
  BY <1>1, <1>5, <1>6
<1>8. \A q \in todo' : dump'[q] = NoSpec <=> Dump'[q] = NoSpec
  BY <1>1, <1>5, <1>6
<1>9. PassSound'
  BY <1>1, <1>7, <1>8 DEF PassSound
<1>10. DeltaSound'
  BY <1>1 DEF ReconcilerInv, DeltaSound, InPass
<1>. QED  BY <1>2, <1>3, <1>4, <1>9, <1>10 DEF ReconcilerInv

\* If the pools converged before p all have a right index, they have their specs.
LEMMA ConvergedSpecs ==
  ASSUME ReconcilerInv, pc = "policers", up,
         \A q \in Pools : Converged(q) => IndexRight(q)
  PROVE  \A q \in Pools : Converged(q) => Dump[q] = want.spec[q]
BY DEF ReconcilerInv, PassSound, InPass

LEMMA DeleteOrphanSound ==
  ASSUME ReconcilerInv, NEW p \in Pools, DeleteOrphan(p)
  PROVE  ReconcilerInv'
<1>1. /\ pc = "policers"
      /\ up
      /\ p \in todo
      /\ want.spec[p] = NoSpec
      /\ DeleteByName(p)
      /\ polIdx' = [polIdx EXCEPT ![p] = NoIdx]
      /\ PolicerDone(p)
  BY DEF DeleteOrphan, Orphans, DeleteByName
<1>2. TypeOK /\ OneSlotEach(vpol)
  BY DEF ReconcilerInv, VppSound
<1>3. /\ vpol' \in Slots
      /\ OneSlotEach(vpol')
      /\ \A i \in Idxs : vpol'[i].name # NoPool => vpol'[i] = vpol[i]
      /\ Dump'[p] = NoSpec
      /\ \A q \in Pools \ {p} : Dump'[q] = Dump[q]
  BY <1>1, <1>2, PolicerDeleted
<1>4. /\ polIdx' \in [Pools -> Idxs \cup {NoIdx}]
      /\ \A q \in Pools \ {p} : polIdx'[q] = polIdx[q]
  BY <1>1, <1>2 DEF TypeOK
<1>5. \A q \in Pools : Converged(q)' <=> Converged(q)
  BY <1>1 DEF Converged, PolicerDone, Wanted
<1>6. ASSUME \A q \in Pools : Converged(q)' => IndexRight(q)'
      PROVE  \A q \in Pools : Converged(q)' => Dump'[q] = want.spec[q]
  <2>1. \A q \in Pools : Converged(q) => q # p
    BY <1>1 DEF Converged
  <2>2. ASSUME NEW q \in Pools, Converged(q)
        PROVE  IndexRight(q)
    <3>1. polIdx[q] \in Idxs /\ vpol'[polIdx[q]].name = q
      BY <1>2, <1>4, <1>5, <1>6, <2>1, <2>2 DEF IndexRight, TypeOK
    <3>. QED  BY <1>3, <3>1, ReconcilerAssumption DEF IndexRight
  <2>. QED  BY <1>1, <1>3, <1>5, <2>1, <2>2, ConvergedSpecs
<1>7. Dump'[p] = NoSpec <=> want.spec[p] = NoSpec
  BY <1>1, <1>3
<1>. QED  BY <1>1, <1>3, <1>4, <1>6, <1>7, PolicerDoneSound

LEMMA AddMissingSound ==
  ASSUME ReconcilerInv, NEW p \in Pools, NEW i \in Idxs, AddMissing(p, i)
  PROVE  ReconcilerInv'
<1>1. /\ pc = "policers"
      /\ up
      /\ p \in todo
      /\ want.spec[p] # NoSpec
      /\ PolicerAdd(i, p, want.spec[p])
      /\ polIdx' = [polIdx EXCEPT ![p] = i]
      /\ PolicerDone(p)
  BY DEF AddMissing, Converging, Orphans, PolicerAdd
<1>2. TypeOK /\ OneSlotEach(vpol)
  BY DEF ReconcilerInv, VppSound
<1>3. want.spec[p] \in Specs
  BY <1>1, <1>2, WantedSpec
<1>4. /\ vpol' \in Slots
      /\ OneSlotEach(vpol')
      /\ vpol'[i] = [name |-> p, spec |-> want.spec[p]]
      /\ \A j \in Idxs \ {i} : vpol'[j] = vpol[j]
      /\ Dump'[p] = want.spec[p]
      /\ \A q \in Pools \ {p} : Dump'[q] = Dump[q]
  BY <1>1, <1>2, <1>3, PolicerAdded
<1>5. /\ polIdx' \in [Pools -> Idxs \cup {NoIdx}]
      /\ \A q \in Pools \ {p} : polIdx'[q] = polIdx[q]
  BY <1>1, <1>2 DEF TypeOK
<1>6. \A q \in Pools : /\ Converged(q) => q # p /\ Converged(q)'
                       /\ Converged(q)' => q = p \/ Converged(q)
  BY <1>1 DEF Converged, PolicerDone, Wanted
<1>7. ASSUME \A q \in Pools : Converged(q)' => IndexRight(q)'
      PROVE  \A q \in Pools : Converged(q)' => Dump'[q] = want.spec[q]
  <2>1. ASSUME NEW q \in Pools, Converged(q)
        PROVE  IndexRight(q)
    <3>1. q # p /\ polIdx[q] \in Idxs /\ vpol'[polIdx[q]].name = q
      BY <1>2, <1>5, <1>6, <1>7, <2>1 DEF IndexRight, TypeOK
    <3>2. polIdx[q] # i
      BY <1>4, <3>1
    <3>. QED  BY <1>4, <3>1, <3>2, ReconcilerAssumption DEF IndexRight
  <2>2. \A q \in Pools : Converged(q) => Dump[q] = want.spec[q]
    BY <1>1, <2>1, ConvergedSpecs
  <2>. QED  BY <1>4, <1>6, <2>2
<1>8. Dump'[p] = NoSpec <=> want.spec[p] = NoSpec
  BY <1>4
<1>. QED  BY <1>1, <1>4, <1>5, <1>7, <1>8, PolicerDoneSound

LEMMA UpdateDriftedSound ==
  ASSUME ReconcilerInv, NEW p \in Pools, UpdateDrifted(p)
  PROVE  ReconcilerInv'
<1>1. /\ pc = "policers"
      /\ up
      /\ p \in todo
      /\ want.spec[p] # NoSpec
      /\ dump[p] # NoSpec
      /\ polIdx[p] # NoIdx
      /\ PolicerUpdate(polIdx[p], want.spec[p])
      /\ polIdx' = polIdx
      /\ PolicerDone(p)
  BY DEF UpdateDrifted, Converging, Orphans, PolicerUpdate
<1>2. TypeOK /\ OneSlotEach(vpol)
  BY DEF ReconcilerInv, VppSound
<1>3. polIdx[p] \in Idxs /\ want.spec[p] \in Specs
  BY <1>1, <1>2, WantedSpec DEF TypeOK
<1>4. /\ vpol' \in Slots
      /\ OneSlotEach(vpol')
      /\ \A j \in Idxs : vpol'[j].name = vpol[j].name
      /\ Dump'[vpol[polIdx[p]].name] = want.spec[p]
      /\ \A q \in Pools : q # vpol[polIdx[p]].name => Dump'[q] = Dump[q]
      /\ \A q \in Pools : Dump'[q] = NoSpec <=> Dump[q] = NoSpec
  BY <1>1, <1>2, <1>3, PolicerUpdated
<1>5. polIdx' \in [Pools -> Idxs \cup {NoIdx}]
  BY <1>1, <1>2 DEF TypeOK
<1>6. \A q \in Pools : /\ Converged(q) => q # p /\ Converged(q)'
                       /\ Converged(p)'
                       /\ Converged(q)' => q = p \/ Converged(q)
  BY <1>1 DEF Converged, PolicerDone, Wanted
<1>7. ASSUME \A q \in Pools : Converged(q)' => IndexRight(q)'
      PROVE  \A q \in Pools : Converged(q)' => Dump'[q] = want.spec[q]
  <2>1. \A q \in Pools : IndexRight(q)' => IndexRight(q)
    BY <1>1, <1>2, <1>4 DEF IndexRight, TypeOK
  <2>2. \A q \in Pools : Converged(q) => Dump[q] = want.spec[q]
    BY <1>1, <1>6, <1>7, <2>1, ConvergedSpecs
  <2>3. vpol[polIdx[p]].name = p
    BY <1>6, <1>7, <2>1 DEF IndexRight
  <2>. QED  BY <1>4, <1>6, <2>2, <2>3
<1>8. Dump[p] # NoSpec
  BY <1>1 DEF ReconcilerInv, PassSound, InPass
<1>9. Dump'[p] = NoSpec <=> want.spec[p] = NoSpec
  BY <1>1, <1>4, <1>8
<1>. QED  BY <1>1, <1>4, <1>5, <1>7, <1>9, PolicerDoneSound

LEMMA RecreateUnknownSound ==
  ASSUME ReconcilerInv, NEW p \in Pools, RecreateUnknown(p)
  PROVE  ReconcilerInv'
<1>1. /\ pc = "policers"
      /\ up
      /\ p \in todo
      /\ DeleteByName(p)
      /\ dump' = [dump EXCEPT ![p] = NoSpec]
      /\ pool' = p
      /\ UNCHANGED <<vsess, tables, attached, up, reconnect, have, want, polIdx,
                     pc, todo, prev, removing, upserting, changes, faults>>
  BY DEF RecreateUnknown, Converging, DeleteByName
<1>2. TypeOK /\ OneSlotEach(vpol)
  BY DEF ReconcilerInv, VppSound
<1>3. /\ vpol' \in Slots
      /\ OneSlotEach(vpol')
      /\ \A i \in Idxs : vpol'[i].name # NoPool => vpol'[i] = vpol[i]
      /\ Dump'[p] = NoSpec
      /\ \A q \in Pools \ {p} : Dump'[q] = Dump[q]
  BY <1>1, <1>2, PolicerDeleted
<1>4. TypeOK'
  BY <1>1, <1>2, <1>3 DEF TypeOK, Slots
<1>5. VppSound'
  BY <1>1, <1>3 DEF ReconcilerInv, VppSound
<1>6. PhasesInOrder' /\ DeltaSound'
  BY <1>1 DEF ReconcilerInv, DeltaSound, InPass, PhasesInOrder
<1>7. PassSound'
  <2>1. /\ \A q \in Pools \ todo : Dump[q] = NoSpec <=> want.spec[q] = NoSpec
        /\ \A q \in todo : dump[q] = NoSpec <=> Dump[q] = NoSpec
    BY <1>1 DEF ReconcilerInv, PassSound, InPass
  <2>2. \A q \in Pools \ todo' : Dump'[q] = NoSpec <=> want'.spec[q] = NoSpec
    BY <1>1, <1>3, <2>1
  <2>3. \A q \in todo' : dump'[q] = NoSpec <=> Dump'[q] = NoSpec
    BY <1>1, <1>2, <1>3, <2>1 DEF TypeOK
  <2>4. \A q \in Pools : /\ Converged(q)' <=> Converged(q)
                         /\ Converged(q) => q # p
    BY <1>1 DEF Converged, Wanted
  <2>5. ASSUME \A q \in Pools : Converged(q)' => IndexRight(q)'
        PROVE  \A q \in Pools : Converged(q)' => Dump'[q] = want'.spec[q]
    <3>1. \A q \in Pools : IndexRight(q)' => IndexRight(q)
      BY <1>1, <1>2, <1>3, ReconcilerAssumption DEF IndexRight, TypeOK
    <3>. QED  BY <1>1, <1>3, <2>4, <2>5, <3>1, ConvergedSpecs
  <2>. QED  BY <2>2, <2>3, <2>5 DEF PassSound
<1>. QED  BY <1>4, <1>5, <1>6, <1>7 DEF ReconcilerInv

\* Steps that leave policers, desired state and locals alone: those of sessions,
\* tables and bindings.
LEMMA SessionStepSound ==
  ASSUME ReconcilerInv,
         UNCHANGED <<vpol, up, reconnect, have, want, polIdx, localVars, changes,
                     faults>>,
         vsess' \in [Keys -> Idxs \cup {NoIdx}],
         tables' \in SUBSET Masks,
         attached' \in SUBSET Masks,
         \A k \in Keys : vsess'[k] # NoIdx => MaskOf[k] \in tables'
  PROVE  ReconcilerInv'
<1>1. UNCHANGED <<pc, todo, dump, prev, removing, upserting, pool>>
  BY DEF localVars
<1>2. TypeOK'
  BY <1>1 DEF ReconcilerInv, TypeOK
<1>3. VppSound'
  BY DEF ReconcilerInv, VppSound
<1>4. PhasesInOrder'
  BY <1>1 DEF ReconcilerInv, PhasesInOrder, IndexMissing
<1>5. DeltaSound'
  BY <1>1 DEF ReconcilerInv, DeltaSound, InPass
<1>6. PassSound'
  <2>1. Dump' = Dump
    BY DumpIs
  <2>2. \A p : (Converged(p)' <=> Converged(p)) /\ (IndexRight(p)' <=> IndexRight(p))
    BY <1>1 DEF Converged, IndexRight, Wanted
  <2>. QED  BY <1>1, <2>1, <2>2 DEF ReconcilerInv, PassSound, InPass
<1>. QED  BY <1>2, <1>3, <1>4, <1>5, <1>6 DEF ReconcilerInv

LEMMA StartSessionsSound == ReconcilerInv /\ StartSessions => ReconcilerInv'
<1>. SUFFICES ASSUME ReconcilerInv, StartSessions PROVE ReconcilerInv'
  OBVIOUS
<1>1. /\ pc = "policers"
      /\ todo = {}
      /\ ~IndexMissing
      /\ pc' = "sessions"
      /\ UNCHANGED <<vpol, vsess, tables, attached, up, reconnect, have, want,
                     polIdx, todo, dump, prev, removing, upserting, pool,
                     changes, faults>>
  BY DEF StartSessions, vppVars
<1>2. TypeOK'
  BY <1>1 DEF ReconcilerInv, TypeOK
<1>3. VppSound'
  BY <1>1 DEF ReconcilerInv, VppSound
<1>4. PhasesInOrder'
  BY <1>1 DEF PhasesInOrder, IndexMissing
<1>5. DeltaSound'
  BY <1>1 DEF ReconcilerInv, DeltaSound, InPass
<1>6. PassSound'
  <2>1. Dump' = Dump
    BY <1>1, DumpIs
  <2>2. \A p : (Converged(p)' <=> Converged(p)) /\ (IndexRight(p)' <=> IndexRight(p))
    BY <1>1 DEF Converged, IndexRight, Wanted
  <2>. QED  BY <1>1, <2>1, <2>2 DEF ReconcilerInv, PassSound, InPass
<1>. QED  BY <1>2, <1>3, <1>4, <1>5, <1>6 DEF ReconcilerInv

LEMMA SessionCallSound ==
  ASSUME ReconcilerInv,
         \/ \E m \in Masks : EnsureTable(m) \/ Attach(m) \/ UpsertTable(m)
         \/ \E k \in Keys : SweepSession(k) \/ PutSession(k) \/ UpsertSession(k)
  PROVE  ReconcilerInv'
<1>0. /\ vsess \in [Keys -> Idxs \cup {NoIdx}]
      /\ tables \in SUBSET Masks
      /\ attached \in SUBSET Masks
      /\ polIdx \in [Pools -> Idxs \cup {NoIdx}]
      /\ \A k \in Keys : vsess[k] # NoIdx => MaskOf[k] \in tables
  BY DEF ReconcilerInv, TypeOK, VppSound
<1>1. ASSUME NEW m \in Masks, EnsureTable(m) \/ UpsertTable(m)
      PROVE  ReconcilerInv'
  <2>1. tables' = tables \cup {m} /\ UNCHANGED vsess /\ SessionDone
    BY <1>1 DEF EnsureTable, UpsertTable, AddTable
  <2>. QED  BY <1>0, <2>1, SessionStepSound DEF SessionDone
<1>2. ASSUME NEW m \in Masks, Attach(m)
      PROVE  ReconcilerInv'
  <2>1. /\ attached' = attached \cup {m}
        /\ UNCHANGED <<vpol, vsess, tables, up, reconnect, have, want, polIdx,
                       localVars, changes, faults>>
    BY <1>2 DEF Attach
  <2>. QED  BY <1>0, <2>1, SessionStepSound
<1>3. ASSUME NEW k \in Keys, SweepSession(k)
      PROVE  ReconcilerInv'
  <2>1. vsess' = [vsess EXCEPT ![k] = NoIdx] /\ UNCHANGED tables /\ SessionDone
    BY <1>3 DEF SweepSession, DelSession
  <2>. QED  BY <1>0, <2>1, SessionStepSound DEF SessionDone
<1>4. ASSUME NEW k \in Keys, PutSession(k) \/ UpsertSession(k)
      PROVE  ReconcilerInv'
  <2>1. PICK p \in Pools : /\ MaskOf[k] \in tables
                           /\ vsess' = [vsess EXCEPT ![k] = polIdx[p]]
                           /\ UNCHANGED tables
                           /\ SessionDone
    <3>1. CASE PutSession(k)
      <4>1. TypeOK /\ want.owner[k] # NoPool
        BY <3>1 DEF ReconcilerInv, PutSession, StaleSession
      <4>2. want.owner[k] \in Pools
        BY <4>1, WantedSpec
      <4>. QED  BY <3>1, <4>2 DEF PutSession, AddSession
    <3>2. CASE UpsertSession(k)
      <4>1. pool \in Pools
        BY <3>2 DEF UpsertSession, ReconcilerInv, DeltaSound
      <4>. QED  BY <3>2, <4>1 DEF UpsertSession, AddSession
    <3>. QED  BY <1>4, <3>1, <3>2
  <2>. QED  BY <1>0, <2>1, SessionStepSound DEF SessionDone
<1>. QED  BY <1>1, <1>2, <1>3, <1>4

-----------------------------------------------------------------------------
(***************************************************************************)
(* The other steps end outside of a pass, or with VPP away.                *)
(***************************************************************************)

\* Back in the select, whatever became of VPP's tables on the way.
LEMMA IdleSound ==
  ASSUME TypeOK', VppSound', pc' = "idle", removing' = {}, upserting' = {}
  PROVE  ReconcilerInv'
BY DEF ReconcilerInv, PhasesInOrder, PassSound, DeltaSound, InPass

LEMMA BackToIdleType ==
  ASSUME BackToIdle
  PROVE  /\ pc' = "idle"
         /\ todo' \in SUBSET Pools
         /\ dump' \in [Pools -> Specs \cup {NoSpec}]
         /\ prev' \in [Keys -> Pools \cup {NoPool}]
         /\ removing' = {}
         /\ upserting' = {}
         /\ pool' \in Pools \cup {NoPool}
BY DEF BackToIdle, NoDesired

LEMMA EndPassSound == ReconcilerInv /\ EndPass => ReconcilerInv'
<1>. SUFFICES ASSUME ReconcilerInv, EndPass PROVE ReconcilerInv'
  OBVIOUS
<1>1. /\ pc = "sessions"
      /\ pc' = "idle"
      /\ dump' = NoDesired.spec
      /\ UNCHANGED <<vpol, vsess, tables, attached, up, reconnect, have, want,
                     polIdx, todo, prev, removing, upserting, pool, changes,
                     faults>>
  BY DEF EndPass, PassSucceeds, vppVars
<1>2. TypeOK'
  BY <1>1 DEF ReconcilerInv, TypeOK, NoDesired
<1>3. VppSound'
  BY <1>1 DEF ReconcilerInv, VppSound
<1>4. removing' = {} /\ upserting' = {}
  BY <1>1 DEF ReconcilerInv, DeltaSound, InPass
<1>. QED  BY <1>1, <1>2, <1>3, <1>4, IdleSound

LEMMA ReconnectSound ==
  ReconcilerInv /\ (ReconnectNoPass \/ VppReconnect) => ReconcilerInv'
<1>. SUFFICES ASSUME ReconcilerInv, ReconnectNoPass \/ VppReconnect
              PROVE  ReconcilerInv'
  OBVIOUS
<1>1. /\ pc = "idle"
      /\ polIdx' = polIdx \/ polIdx' = Unknown
      /\ UNCHANGED <<vpol, vsess, tables, attached, have, want, pc, todo, dump,
                     prev, removing, upserting, pool, changes, faults>>
  BY DEF ReconnectNoPass, VppReconnect, vppVars, localVars
<1>2. up' \in BOOLEAN /\ reconnect' \in BOOLEAN
  <2>1. /\ up' = up \/ up' = TRUE
        /\ reconnect' = FALSE \/ reconnect' = TRUE
    BY DEF ReconnectNoPass, VppReconnect
  <2>2. up \in BOOLEAN
    BY DEF ReconcilerInv, TypeOK
  <2>. QED  BY <2>1, <2>2, Zenon
<1>3. TypeOK'
  BY <1>1, <1>2 DEF ReconcilerInv, TypeOK, Unknown
<1>4. VppSound'
  BY <1>1 DEF ReconcilerInv, VppSound
<1>5. removing' = {} /\ upserting' = {} /\ pc' = "idle"
  BY <1>1 DEF ReconcilerInv, DeltaSound
<1>. QED  BY <1>3, <1>4, <1>5, IdleSound

LEMMA CallFailsSound == ReconcilerInv /\ CallFails => ReconcilerInv'
<1>. SUFFICES ASSUME ReconcilerInv, CallFails PROVE ReconcilerInv'
  OBVIOUS
<1>1. /\ BackToIdle
      /\ faults' = faults \/ (faults < MaxFaults /\ faults' = faults + 1)
      /\ UNCHANGED <<vpol, vsess, tables, attached, up, reconnect, have, want,
                     polIdx, changes>>
  BY DEF CallFails, vppVars
<1>2. faults' \in 0 .. MaxFaults
  BY <1>1, ReconcilerAssumption DEF ReconcilerInv, TypeOK
<1>3. TypeOK'
  BY <1>1, <1>2, BackToIdleType DEF ReconcilerInv, TypeOK
<1>4. VppSound'
  BY <1>1 DEF ReconcilerInv, VppSound
<1>. QED  BY <1>1, <1>3, <1>4, IdleSound, BackToIdleType

\* A lost reply, whatever valid policers its call left behind.
LEMMA UnheardSound ==
  ASSUME ReconcilerInv, vpol' \in Slots, OneSlotEach(vpol'), Unheard
  PROVE  ReconcilerInv'
<1>1. /\ faults < MaxFaults
      /\ faults' = faults + 1
      /\ BackToIdle
      /\ UNCHANGED <<vsess, tables, attached, reconnect, have, want, polIdx, changes>>
  BY DEF Unheard
<1>2. faults' \in 0 .. MaxFaults
  BY <1>1, ReconcilerAssumption DEF ReconcilerInv, TypeOK
<1>3. up' \in BOOLEAN
  BY Zenon DEF Unheard
<1>4. TypeOK'
  BY <1>1, <1>2, <1>3, BackToIdleType DEF ReconcilerInv, TypeOK, Slots
<1>5. VppSound'
  BY <1>1 DEF ReconcilerInv, VppSound
<1>. QED  BY <1>1, <1>4, <1>5, IdleSound, BackToIdleType

LEMMA AddUnheardSound ==
  ASSUME ReconcilerInv, NEW p \in Pools, NEW i \in Idxs, AddUnheard(p, i)
  PROVE  ReconcilerInv'
<1>1. TypeOK /\ OneSlotEach(vpol)
  BY DEF ReconcilerInv, VppSound
<1>2. want.spec[p] # NoSpec
  BY DEF AddUnheard, Converging, Orphans, ReconcilerInv, DeltaSound, Wanted
<1>3. want.spec[p] \in Specs
  BY <1>1, <1>2, WantedSpec
<1>4. vpol' \in Slots /\ OneSlotEach(vpol')
  BY <1>1, <1>3, PolicerAdded DEF AddUnheard
<1>. QED  BY <1>4, UnheardSound DEF AddUnheard

LEMMA DeleteUnheardSound ==
  ASSUME ReconcilerInv, NEW p \in Pools, DeleteUnheard(p)
  PROVE  ReconcilerInv'
<1>1. TypeOK /\ OneSlotEach(vpol)
  BY DEF ReconcilerInv, VppSound
<1>2. vpol' \in Slots /\ OneSlotEach(vpol')
  BY <1>1, PolicerDeleted DEF DeleteUnheard
<1>. QED  BY <1>2, UnheardSound DEF DeleteUnheard

LEMMA AgentRestartSound == ReconcilerInv /\ AgentRestart => ReconcilerInv'
<1>. SUFFICES ASSUME ReconcilerInv, AgentRestart PROVE ReconcilerInv'
  OBVIOUS
<1>1. /\ faults < MaxFaults
      /\ faults' = faults + 1
      /\ want' = NoDesired
      /\ polIdx' = Unknown
      /\ BackToIdle
      /\ UNCHANGED <<vpol, vsess, tables, attached, changes>>
  BY DEF AgentRestart, vppVars
<1>2. up' \in BOOLEAN /\ reconnect' \in BOOLEAN /\ have' \in BOOLEAN
  BY Zenon DEF AgentRestart
<1>3. faults' \in 0 .. MaxFaults
  BY <1>1, ReconcilerAssumption DEF ReconcilerInv, TypeOK
<1>4. want' \in Desired
  BY <1>1 DEF NoDesired, Desired
<1>5. TypeOK'
  BY <1>1, <1>2, <1>3, <1>4, BackToIdleType DEF ReconcilerInv, TypeOK, Unknown
<1>6. VppSound'
  BY <1>1 DEF ReconcilerInv, VppSound
<1>. QED  BY <1>1, <1>5, <1>6, IdleSound, BackToIdleType

LEMMA VppAwaySound == ReconcilerInv /\ (VppCrash \/ VppFlap) => ReconcilerInv'
<1>. SUFFICES ASSUME ReconcilerInv, VppCrash \/ VppFlap PROVE ReconcilerInv'
  OBVIOUS
<1>1. /\ faults < MaxFaults
      /\ faults' = faults + 1
      /\ UNCHANGED <<reconnect, have, want, polIdx, pc, todo, dump, prev,
                     removing, upserting, pool, changes>>
  BY DEF VppCrash, VppFlap, localVars
<1>2. up' = FALSE
  BY DEF VppCrash, VppFlap
<1>3. up' \in BOOLEAN
  BY <1>2, Zenon
<1>4. /\ vpol' \in Slots
      /\ OneSlotEach(vpol')
      /\ vsess' \in [Keys -> Idxs \cup {NoIdx}]
      /\ tables' \in SUBSET Masks
      /\ attached' \in SUBSET Masks
      /\ \A k \in Keys : vsess'[k] # NoIdx => MaskOf[k] \in tables'
  <2>1. CASE VppCrash
    BY <2>1 DEF VppCrash, Slots, OneSlotEach, Free
  <2>2. CASE VppFlap
    BY <2>2 DEF VppFlap, vppVars, ReconcilerInv, TypeOK, VppSound, Slots
  <2>. QED  BY <2>1, <2>2
<1>5. faults' \in 0 .. MaxFaults
  BY <1>1, ReconcilerAssumption DEF ReconcilerInv, TypeOK
<1>6. TypeOK'
  BY <1>1, <1>3, <1>4, <1>5 DEF ReconcilerInv, TypeOK, Slots
<1>7. VppSound'
  BY <1>4 DEF VppSound
<1>8. PhasesInOrder' /\ DeltaSound'
  BY <1>1 DEF ReconcilerInv, PhasesInOrder, DeltaSound, IndexMissing, InPass
<1>9. PassSound'
  BY <1>2 DEF PassSound
<1>. QED  BY <1>6, <1>7, <1>8, <1>9 DEF ReconcilerInv

-----------------------------------------------------------------------------
(***************************************************************************)
(* The delta path keeps the invariant.                                     *)
(***************************************************************************)

\* At work on a delta, nothing is claimed of a pass.
LEMMA AtWorkSound ==
  ASSUME TypeOK', VppSound', DeltaSound',
         pc' \in {"next", "rmPool", "upPolicer", "upSessions"}
  PROVE  ReconcilerInv'
BY DEF ReconcilerInv, PhasesInOrder, PassSound, InPass

LEMMA StartDeltaSound ==
  ASSUME ReconcilerInv, NEW d \in Desired, NEW rm \in SUBSET Pools,
         NEW ups \in SUBSET Pools, StartDelta(d, rm, ups)
  PROVE  ReconcilerInv'
<1>1. /\ pc = "idle"
      /\ changes < MaxChanges
      /\ changes' = changes + 1
      /\ want' = d
      /\ faults' = faults \/ (faults < MaxFaults /\ faults' = faults + 1)
      /\ UNCHANGED <<vpol, vsess, tables, attached, up, reconnect, have, polIdx,
                     todo, dump, pool>>
  BY DEF StartDelta, vppVars
<1>2. /\ changes' \in 0 .. MaxChanges
      /\ faults' \in 0 .. MaxFaults
      /\ removing = {}
      /\ upserting = {}
      /\ want.owner \in [Keys -> Pools \cup {NoPool}]
  BY <1>1, ReconcilerAssumption DEF ReconcilerInv, TypeOK, DeltaSound, Desired
<1>3. VppSound'
  BY <1>1 DEF ReconcilerInv, VppSound
<1>4. CASE up
  <2>1. /\ pc' = "next"
        /\ prev' = want.owner
        /\ removing' = rm
        /\ upserting' = ups
        /\ ups \subseteq Wanted(d)
        /\ rm \cap Wanted(d) = {}
    BY <1>4 DEF StartDelta, DeltaTo
  <2>2. TypeOK'
    BY <1>1, <1>2, <2>1 DEF ReconcilerInv, TypeOK
  <2>3. DeltaSound'
    BY <1>1, <2>1 DEF DeltaSound, InPass
  <2>. QED  BY <1>3, <2>1, <2>2, <2>3, AtWorkSound
<1>5. CASE ~up
  <2>1. UNCHANGED <<pc, prev, removing, upserting>>
    BY <1>5 DEF StartDelta
  <2>2. TypeOK'
    BY <1>1, <1>2, <2>1 DEF ReconcilerInv, TypeOK
  <2>. QED  BY <1>1, <1>2, <1>3, <2>1, <2>2, IdleSound
<1>. QED  BY <1>4, <1>5

LEMMA NextPoolSound ==
  ASSUME ReconcilerInv, NEW p \in Pools, NextPool(p)
  PROVE  ReconcilerInv'
<1>1. /\ pc = "next"
      /\ \/ /\ p \in removing
            /\ removing' = removing \ {p}
            /\ pc' = "rmPool"
            /\ upserting' = upserting
         \/ /\ p \in upserting
            /\ upserting' = upserting \ {p}
            /\ pc' = "upPolicer"
            /\ removing' = removing
      /\ pool' = p
      /\ UNCHANGED <<vpol, vsess, tables, attached, up, reconnect, have, want,
                     polIdx, todo, dump, prev, changes, faults>>
  BY DEF NextPool, vppVars
<1>2. TypeOK'
  BY <1>1 DEF ReconcilerInv, TypeOK
<1>3. VppSound'
  BY <1>1 DEF ReconcilerInv, VppSound
<1>4. DeltaSound'
  BY <1>1 DEF ReconcilerInv, DeltaSound, InPass, Wanted
<1>. QED  BY <1>1, <1>2, <1>3, <1>4, AtWorkSound

LEMMA DropSessionSound ==
  ASSUME ReconcilerInv, NEW k \in Keys, DropSession(k)
  PROVE  ReconcilerInv'
<1>1. /\ pc \in {"rmPool", "upSessions"}
      /\ vsess' = [vsess EXCEPT ![k] = NoIdx]
      /\ prev' = [prev EXCEPT ![k] = NoPool]
      /\ UNCHANGED <<vpol, tables, attached, up, reconnect, have, want, polIdx,
                     pc, todo, dump, removing, upserting, pool, changes, faults>>
  BY DEF DropSession, DelSession
<1>2. TypeOK'
  BY <1>1 DEF ReconcilerInv, TypeOK
<1>3. VppSound'
  BY <1>1 DEF ReconcilerInv, TypeOK, VppSound
<1>4. DeltaSound'
  BY <1>1 DEF ReconcilerInv, DeltaSound, InPass
<1>. QED  BY <1>1, <1>2, <1>3, <1>4, AtWorkSound

LEMMA RemovePolicerSound == ReconcilerInv /\ RemovePolicer => ReconcilerInv'
<1>. SUFFICES ASSUME ReconcilerInv, RemovePolicer PROVE ReconcilerInv'
  OBVIOUS
<1>1. /\ pc = "rmPool"
      /\ \/ UNCHANGED <<vpol, polIdx>>
         \/ DeleteByName(pool) /\ polIdx' = [polIdx EXCEPT ![pool] = NoIdx]
      /\ pc' = "next"
      /\ UNCHANGED <<vsess, tables, attached, up, reconnect, have, want, todo,
                     dump, prev, removing, upserting, pool, changes, faults>>
  BY DEF RemovePolicer
<1>2. TypeOK /\ OneSlotEach(vpol) /\ pool \in Pools
  BY <1>1 DEF ReconcilerInv, VppSound, DeltaSound
<1>3. /\ vpol' \in Slots
      /\ OneSlotEach(vpol')
      /\ polIdx' \in [Pools -> Idxs \cup {NoIdx}]
  <2>1. CASE UNCHANGED <<vpol, polIdx>>
    BY <1>2, <2>1 DEF TypeOK, Slots
  <2>2. CASE DeleteByName(pool) /\ polIdx' = [polIdx EXCEPT ![pool] = NoIdx]
    <3>1. vpol' \in Slots /\ OneSlotEach(vpol')
      BY <1>2, <2>2, PolicerDeleted
    <3>2. polIdx' \in [Pools -> Idxs \cup {NoIdx}]
      BY <1>2, <2>2 DEF TypeOK
    <3>. QED  BY <3>1, <3>2
  <2>. QED  BY <1>1, <2>1, <2>2
<1>4. TypeOK'
  BY <1>1, <1>2, <1>3 DEF TypeOK, Slots
<1>5. VppSound'
  BY <1>1, <1>3 DEF ReconcilerInv, VppSound
<1>6. DeltaSound'
  BY <1>1 DEF ReconcilerInv, DeltaSound, InPass
<1>. QED  BY <1>1, <1>4, <1>5, <1>6, AtWorkSound

LEMMA UpsertPolicerSound ==
  ASSUME ReconcilerInv, NEW i \in Idxs, UpsertPolicer(i)
  PROVE  ReconcilerInv'
<1>1. /\ pc = "upPolicer"
      /\ pc' = "upSessions"
      /\ UNCHANGED <<vsess, tables, attached, up, reconnect, have, want, todo,
                     dump, prev, removing, upserting, pool, changes, faults>>
  BY DEF UpsertPolicer
<1>2. /\ TypeOK
      /\ OneSlotEach(vpol)
      /\ pool \in Wanted(want)
  BY <1>1 DEF ReconcilerInv, VppSound, DeltaSound
<1>3. pool \in Pools /\ want.spec[pool] \in Specs
  BY <1>2, WantedSpec
<1>4. /\ vpol' \in Slots
      /\ OneSlotEach(vpol')
      /\ polIdx' \in [Pools -> Idxs \cup {NoIdx}]
      /\ polIdx'[pool] = i
  <2>1. CASE /\ PolicerAdd(i, pool, want.spec[pool])
             /\ polIdx' = [polIdx EXCEPT ![pool] = i]
    <3>1. vpol' \in Slots /\ OneSlotEach(vpol')
      BY <1>2, <1>3, <2>1, PolicerAdded
    <3>2. polIdx' \in [Pools -> Idxs \cup {NoIdx}] /\ polIdx'[pool] = i
      BY <1>2, <1>3, <2>1 DEF TypeOK
    <3>. QED  BY <3>1, <3>2
  <2>2. CASE /\ polIdx[pool] = i
             /\ PolicerUpdate(i, want.spec[pool])
             /\ polIdx' = polIdx
    <3>1. vpol' \in Slots /\ OneSlotEach(vpol')
      BY <1>2, <1>3, <2>2, PolicerUpdated
    <3>. QED  BY <1>2, <2>2, <3>1 DEF TypeOK
  <2>. QED  BY <2>1, <2>2 DEF UpsertPolicer
<1>5. TypeOK'
  BY <1>1, <1>2, <1>4 DEF TypeOK, Slots
<1>6. VppSound'
  BY <1>1, <1>4 DEF ReconcilerInv, VppSound
<1>7. DeltaSound'
  BY <1>1, <1>3, <1>4, ReconcilerAssumption DEF ReconcilerInv, DeltaSound, InPass
<1>. QED  BY <1>1, <1>5, <1>6, <1>7, AtWorkSound

LEMMA EndUpsertSound == ReconcilerInv /\ EndUpsert => ReconcilerInv'
<1>. SUFFICES ASSUME ReconcilerInv, EndUpsert PROVE ReconcilerInv'
  OBVIOUS
<1>1. /\ pc = "upSessions"
      /\ pc' = "next"
      /\ UNCHANGED <<vpol, vsess, tables, attached, up, reconnect, have, want,
                     polIdx, todo, dump, prev, removing, upserting, pool,
                     changes, faults>>
  BY DEF EndUpsert, PoolUpserted, vppVars
<1>2. TypeOK'
  BY <1>1 DEF ReconcilerInv, TypeOK
<1>3. VppSound' /\ DeltaSound'
  BY <1>1 DEF ReconcilerInv, VppSound, DeltaSound, InPass
<1>. QED  BY <1>1, <1>2, <1>3, AtWorkSound

LEMMA EndDeltaSound == ReconcilerInv /\ EndDelta => ReconcilerInv'
<1>. SUFFICES ASSUME ReconcilerInv, EndDelta PROVE ReconcilerInv'
  OBVIOUS
<1>1. /\ BackToIdle
      /\ UNCHANGED <<vpol, vsess, tables, attached, up, reconnect, have, want,
                     polIdx, changes, faults>>
  BY DEF EndDelta, vppVars
<1>2. TypeOK'
  BY <1>1, BackToIdleType DEF ReconcilerInv, TypeOK
<1>3. VppSound'
  BY <1>1 DEF ReconcilerInv, VppSound
<1>. QED  BY <1>1, <1>2, <1>3, IdleSound, BackToIdleType

-----------------------------------------------------------------------------
(***************************************************************************)
(* What follows.                                                           *)
(***************************************************************************)

LEMMA StillSound == ReconcilerInv /\ UNCHANGED vars => ReconcilerInv'
<1>. SUFFICES ASSUME ReconcilerInv, UNCHANGED vars PROVE ReconcilerInv'
  OBVIOUS
<1>1. /\ UNCHANGED <<vpol, up, reconnect, have, want, polIdx, localVars, changes,
                     faults>>
      /\ UNCHANGED <<vsess, tables, attached>>
  BY DEF vars, vppVars
<1>. QED  BY <1>1, SessionStepSound DEF ReconcilerInv, TypeOK, VppSound

LEMMA NextSound == ReconcilerInv /\ [Next]_vars => ReconcilerInv'
<1>. SUFFICES ASSUME ReconcilerInv, [Next]_vars PROVE ReconcilerInv'
  OBVIOUS
<1>1. CASE SomePass
  BY <1>1, SomePassSound
<1>2. CASE PassCall
  BY <1>2, DeleteOrphanSound, RecreateUnknownSound, UpdateDriftedSound,
     AddMissingSound, StartSessionsSound, SessionCallSound DEF PassCall
<1>3. CASE EndPass
  BY <1>3, EndPassSound
<1>4. CASE SomeDelta
  BY <1>4, StartDeltaSound DEF SomeDelta
<1>5. CASE Delta
  BY <1>5, NextPoolSound, DropSessionSound, SessionCallSound, RemovePolicerSound,
     UpsertPolicerSound, EndUpsertSound, EndDeltaSound DEF Delta
<1>6. CASE \/ \E p \in Pools, i \in Idxs : AddUnheard(p, i)
           \/ \E p \in Pools : DeleteUnheard(p)
  BY <1>6, AddUnheardSound, DeleteUnheardSound
<1>7. CASE ReconnectNoPass \/ VppReconnect
  BY <1>7, ReconnectSound
<1>8. CASE CallFails
  BY <1>8, CallFailsSound
<1>9. CASE VppCrash \/ VppFlap
  BY <1>9, VppAwaySound
<1>10. CASE AgentRestart
  BY <1>10, AgentRestartSound
<1>11. CASE UNCHANGED vars
  BY <1>11, StillSound
<1>. QED
  BY <1>1, <1>2, <1>3, <1>4, <1>5, <1>6, <1>7, <1>8, <1>9, <1>10, <1>11
  DEF Next, Pass

LEMMA AlwaysSound == Spec => []ReconcilerInv
BY InitSound, NextSound, PTL DEF Spec

\* What the invariant says of a pass that succeeds.
LEMMA SoundPassCovers == ReconcilerInv => PassCovers
<1>. SUFFICES ASSUME ReconcilerInv, PassSucceeds
              PROVE  /\ Names = Wanted(want)
                     /\ {k \in Keys : vsess[k] # NoIdx} = Owned(want)
                     /\ WantedMasks(want) \subseteq attached
                     /\ (\A p \in Wanted(want) : IndexRight(p)) =>
                          /\ Dump = want.spec
                          /\ \A k \in Owned(want) : Policed(k)
  BY DEF PassCovers
<1>1. /\ up
      /\ pc = "sessions"
      /\ SessionsMatch
      /\ attached = tables
      /\ todo = {}
      /\ ~IndexMissing
      /\ TypeOK
  BY DEF ReconcilerInv, PassSucceeds, PhasesInOrder
<1>2. \A p \in Pools : Dump[p] = NoSpec <=> want.spec[p] = NoSpec
  BY <1>1 DEF ReconcilerInv, PassSound, InPass
<1>3. Names = Wanted(want)
  BY <1>2 DEF Names, Wanted
<1>4. \A k \in Keys : /\ want.owner[k] = NoPool => vsess[k] = NoIdx
                      /\ want.owner[k] # NoPool =>
                           /\ vsess[k] = polIdx[want.owner[k]]
                           /\ vsess[k] # NoIdx
  BY <1>1 DEF SessionsMatch, OrphanSession, StaleSession, IndexMissing
<1>5. {k \in Keys : vsess[k] # NoIdx} = Owned(want)
  BY <1>4 DEF Owned
<1>6. WantedMasks(want) \subseteq attached
  BY <1>1, <1>4 DEF WantedMasks, ReconcilerInv, VppSound
<1>7. ASSUME \A p \in Wanted(want) : IndexRight(p)
      PROVE  Dump = want.spec /\ \A k \in Owned(want) : Policed(k)
  <2>1. \A p \in Wanted(want) : Dump[p] = want.spec[p]
    BY <1>1, <1>7 DEF ReconcilerInv, PassSound, InPass, Converged, Wanted
  <2>2. \A p \in Pools : Dump[p] = want.spec[p]
    BY <1>2, <2>1 DEF Wanted
  <2>3. want.spec \in [Pools -> Specs \cup {NoSpec}]
    BY <1>1 DEF TypeOK, Desired
  <2>4. Dump = want.spec
    BY <2>2, <2>3 DEF Dump
  <2>5. \A k \in Owned(want) : Policed(k)
    BY <1>1, <1>4, <1>7, WantedSpec DEF Owned, Policed, IndexRight
  <2>. QED  BY <2>4, <2>5
<1>. QED  BY <1>3, <1>5, <1>6, <1>7

\* A successful pass covers the desired state (PassCovers), for any number of
\* pools, members, masks and indexes and however many failed passes, deltas,
\* unheard calls, crashes and restarts came before it.
THEOREM PassesCover == Spec => []PassCovers
BY AlwaysSound, SoundPassCovers, PTL

\* The steps of [Next]_vars, one by one.
LEMMA Steps ==
  ASSUME [Next]_vars
  PROVE  \/ \E d \in Desired : TickPass(d) \/ ReconnectPass(d)
         \/ \E p \in Pools : DeleteOrphan(p) \/ RecreateUnknown(p) \/ UpdateDrifted(p)
         \/ \E p \in Pools, i \in Idxs : AddMissing(p, i) \/ AddUnheard(p, i)
         \/ \E p \in Pools : DeleteUnheard(p)
         \/ \E k \in Keys : SweepSession(k) \/ PutSession(k)
         \/ \E m \in Masks : EnsureTable(m) \/ Attach(m) \/ UpsertTable(m)
         \/ StartSessions \/ EndPass \/ EndUpsert \/ EndDelta \/ CallFails
         \/ \E d \in Desired, rm, ups \in SUBSET Pools : StartDelta(d, rm, ups)
         \/ \E p \in Pools : NextPool(p)
         \/ \E k \in Keys : DropSession(k) \/ UpsertSession(k)
         \/ RemovePolicer
         \/ \E i \in Idxs : UpsertPolicer(i)
         \/ ReconnectNoPass
         \/ VppReconnect
         \/ VppCrash
         \/ VppFlap
         \/ AgentRestart
         \/ UNCHANGED vars
BY DEF Next, Pass, PassCall, SomePass, SomeDelta, Delta

\* A step that cuts a pass or a delta off deletes the policer of p.
CutDeleting(p) ==
  pc # "idle" /\ pc' = "idle" /\ Dump[p] # NoSpec /\ Dump'[p] = NoSpec

\* While VPP lives, a slot keeps its name, unless the policer is deleted: one that
\* is not desired any more, or one whose index the agent does not know; the agent
\* then holds no index for the name, or the delete cut it off.
SlotKept(i) ==
  vpol[i].name \in Pools =>
    \/ vpol'[i].name = vpol[i].name
    \/ /\ \/ polIdx'[vpol[i].name] = NoIdx
          \/ CutDeleting(vpol[i].name)
       /\ \/ polIdx[vpol[i].name] = NoIdx
          \/ vpol[i].name \notin Wanted(want)

LEMMA SlotsKept ==
  ASSUME ReconcilerInv, [Next]_vars, up', NEW i \in Idxs
  PROVE  SlotKept(i)
<1>0. TypeOK /\ OneSlotEach(vpol) /\ vpol \in Slots
  BY DEF ReconcilerInv, VppSound, TypeOK, Slots
<1>1. CASE UNCHANGED vpol
  BY <1>1 DEF SlotKept
<1>2. ASSUME NEW p \in Pools, DeleteByName(p), polIdx'[p] = NoIdx \/ CutDeleting(p),
             polIdx[p] = NoIdx \/ p \notin Wanted(want)
      PROVE  SlotKept(i)
  <2>1. vpol' = [j \in Idxs |-> IF vpol[j].name = p THEN Free ELSE vpol[j]]
    BY <1>2 DEF DeleteByName
  <2>. QED  BY <1>2, <2>1 DEF SlotKept
<1>3. ASSUME NEW p \in Pools, NEW j \in Idxs, NEW s, PolicerAdd(j, p, s)
      PROVE  SlotKept(i)
  <2>1. /\ vpol[j] = Free
        /\ vpol' = [vpol EXCEPT ![j] = [name |-> p, spec |-> s]]
    BY <1>3 DEF PolicerAdd
  <2>2. vpol[j].name \notin Pools
    BY <2>1, ReconcilerAssumption DEF Free
  <2>3. i # j => vpol'[i] = vpol[i]
    BY <1>0, <2>1 DEF Slots
  <2>. QED  BY <2>2, <2>3 DEF SlotKept
<1>4. ASSUME NEW j \in Idxs, NEW s \in Specs, PolicerUpdate(j, s)
      PROVE  SlotKept(i)
  <2>1. vpol'[i].name = vpol[i].name
    BY <1>0, <1>4, PolicerUpdated
  <2>. QED  BY <2>1 DEF SlotKept
<1>5. ASSUME NEW p \in Pools, DeleteOrphan(p)
      PROVE  SlotKept(i)
  <2>1. DeleteByName(p) /\ polIdx'[p] = NoIdx /\ p \notin Wanted(want)
    BY <1>0, <1>5 DEF DeleteOrphan, Orphans, Wanted, TypeOK
  <2>. QED  BY <1>2, <2>1
<1>6. ASSUME NEW p \in Pools, RecreateUnknown(p)
      PROVE  SlotKept(i)
  BY <1>2, <1>6 DEF RecreateUnknown
<1>7. ASSUME NEW p \in Pools, UpdateDrifted(p)
      PROVE  SlotKept(i)
  <2>1. /\ PolicerUpdate(polIdx[p], want.spec[p])
        /\ polIdx[p] \in Idxs
        /\ want.spec[p] # NoSpec
    BY <1>0, <1>7 DEF UpdateDrifted, Converging, Orphans, TypeOK
  <2>. QED  BY <1>0, <1>4, <2>1, WantedSpec
<1>8. ASSUME RemovePolicer, ~UNCHANGED vpol
      PROVE  SlotKept(i)
  <2>1. /\ pool \in Pools \ Wanted(want)
        /\ DeleteByName(pool)
        /\ polIdx' = [polIdx EXCEPT ![pool] = NoIdx]
    BY <1>8 DEF RemovePolicer, ReconcilerInv, DeltaSound
  <2>2. polIdx'[pool] = NoIdx
    BY <1>0, <2>1 DEF TypeOK
  <2>. QED  BY <1>2, <2>1, <2>2
<1>9. ASSUME NEW j \in Idxs, UpsertPolicer(j)
      PROVE  SlotKept(i)
  <2>1. pool \in Wanted(want)
    BY <1>9 DEF UpsertPolicer, ReconcilerInv, DeltaSound
  <2>2. pool \in Pools /\ want.spec[pool] \in Specs
    BY <1>0, <2>1, WantedSpec
  <2>. QED  BY <1>3, <1>4, <1>9, <2>2 DEF UpsertPolicer
<1>10. ASSUME NEW p \in Pools, NEW j \in Idxs, AddMissing(p, j) \/ AddUnheard(p, j)
      PROVE  SlotKept(i)
  BY <1>3, <1>10 DEF AddMissing, AddUnheard
<1>12. ASSUME NEW p \in Pools, DeleteUnheard(p)
       PROVE  SlotKept(i)
  <2>1. DeleteByName(p) /\ Dump[p] # NoSpec /\ Dump'[p] = NoSpec
    BY <1>0, <1>12, PolicerDeleted DEF DeleteUnheard
  <2>2. polIdx[p] = NoIdx \/ p \notin Wanted(want)
    BY <1>0, <1>12
    DEF DeleteUnheard, Orphans, Wanted, ReconcilerInv, DeltaSound
  <2>3. pc # "idle" /\ pc' = "idle"
    BY <1>12 DEF DeleteUnheard, Converging, Unheard, BackToIdle
  <2>. QED  BY <1>2, <2>1, <2>2, <2>3 DEF CutDeleting
<1>11. \/ UNCHANGED vpol
       \/ \E p \in Pools : DeleteOrphan(p) \/ RecreateUnknown(p) \/ UpdateDrifted(p)
       \/ \E p \in Pools, j \in Idxs : AddMissing(p, j) \/ AddUnheard(p, j)
       \/ \E p \in Pools : DeleteUnheard(p)
       \/ RemovePolicer
       \/ \E j \in Idxs : UpsertPolicer(j)
  BY Steps DEF TickPass, ReconnectPass, StartPass, SweepSession, PutSession,
     SessionDone, EnsureTable, Attach, UpsertTable, StartSessions, EndPass,
     EndUpsert, EndDelta, CallFails, StartDelta, NextPool, DropSession,
     UpsertSession, ReconnectNoPass, VppReconnect, VppCrash, VppFlap,
     AgentRestart, vars, vppVars
<1>. QED  BY <1>1, <1>5, <1>6, <1>7, <1>8, <1>9, <1>10, <1>11, <1>12

\* Where a cached index comes from: it was cached before, by an agent that was
\* settled if it is so now; or it is right; or a pass has just re-learned it.
IndexKept(p) ==
  polIdx'[p] # NoIdx =>
    \/ polIdx'[p] = polIdx[p] /\ (Settled' => Settled)
    \/ IndexRight(p)'
    \/ pc = "idle" /\ pc' = "policers" /\ polIdx'[p] \in InstalledHits(want', p)

LEMMA IndexesKept ==
  ASSUME ReconcilerInv, [Next]_vars, NEW p \in Pools
  PROVE  IndexKept(p)
<1>0. /\ TypeOK
      /\ OneSlotEach(vpol)
      /\ vpol \in Slots
      /\ polIdx \in [Pools -> Idxs \cup {NoIdx}]
  BY DEF ReconcilerInv, VppSound, TypeOK, Slots
<1>1. CASE polIdx' = polIdx /\ (Settled' => Settled)
  BY <1>1 DEF IndexKept
<1>2. ASSUME NEW q \in Pools, polIdx' = [polIdx EXCEPT ![q] = NoIdx],
             Settled' => Settled
      PROVE  IndexKept(p)
  BY <1>0, <1>2 DEF IndexKept
<1>3. CASE polIdx' = Unknown
  BY <1>3 DEF IndexKept, Unknown
<1>4. ASSUME NEW q \in Pools, NEW i \in Idxs, NEW s,
             PolicerAdd(i, q, s), polIdx' = [polIdx EXCEPT ![q] = i],
             Settled' => Settled
      PROVE  IndexKept(p)
  <2>1. vpol' = [vpol EXCEPT ![i] = [name |-> q, spec |-> s]]
    BY <1>4 DEF PolicerAdd
  <2>2. vpol'[i].name = q
    BY <1>0, <2>1 DEF Slots
  <2>3. IndexRight(q)'
    BY <1>0, <1>4, <2>2, ReconcilerAssumption DEF IndexRight
  <2>4. p # q => polIdx'[p] = polIdx[p]
    BY <1>0, <1>4
  <2>. QED  BY <1>4, <2>3, <2>4 DEF IndexKept
<1>5. ASSUME NEW d \in Desired, NEW known, StartPass(known, d),
             known[p] = NoIdx \/ (known = polIdx /\ reconnect' = reconnect)
      PROVE  IndexKept(p)
  <2>1. /\ pc = "idle"
        /\ pc' = "policers"
        /\ up' = up
        /\ want' = d
        /\ polIdx' \in Relearned(known, d)
    BY <1>5 DEF StartPass
  <2>2. polIdx'[p] = known[p] \/ polIdx'[p] \in InstalledHits(want', p)
    BY <2>1 DEF Relearned, InstalledHits
  <2>. QED  BY <1>5, <2>1, <2>2 DEF IndexKept, Settled
<1>6. ASSUME NEW d \in Desired, TickPass(d) \/ ReconnectPass(d)
      PROVE  IndexKept(p)
  BY <1>5, <1>6 DEF TickPass, ReconnectPass, Unknown
<1>7. ASSUME NEW q \in Pools, DeleteOrphan(q)
      PROVE  IndexKept(p)
  BY <1>2, <1>7 DEF DeleteOrphan, PolicerDone, Settled
<1>8. ASSUME NEW q \in Pools, NEW i \in Idxs, AddMissing(q, i)
      PROVE  IndexKept(p)
  BY <1>4, <1>8 DEF AddMissing, PolicerDone, Settled
<1>9. CASE RemovePolicer
  <2>1. pool \in Pools /\ (Settled' => Settled)
    BY <1>9 DEF RemovePolicer, Settled, ReconcilerInv, DeltaSound
  <2>. QED  BY <1>1, <1>2, <1>9, <2>1 DEF RemovePolicer
<1>10. ASSUME NEW i \in Idxs, UpsertPolicer(i)
       PROVE  IndexKept(p)
  <2>1. pool \in Pools /\ (Settled' => Settled)
    BY <1>10 DEF UpsertPolicer, Settled, ReconcilerInv, DeltaSound, Wanted
  <2>. QED  BY <1>1, <1>4, <1>10, <2>1 DEF UpsertPolicer
<1>11. CASE ReconnectNoPass \/ AgentRestart
  BY <1>3, <1>11 DEF ReconnectNoPass, AgentRestart
<1>12. ASSUME NEW q \in Pools, \/ DeleteUnheard(q)
                               \/ \E i \in Idxs : AddUnheard(q, i)
       PROVE  polIdx' = polIdx /\ (Settled' => Settled)
  <2>1. up /\ Unheard
    BY <1>12 DEF AddUnheard, PolicerAdd, DeleteUnheard, DeleteByName
  <2>. QED  BY <2>1 DEF Unheard, Settled
<1>13. \/ polIdx' = polIdx /\ (Settled' => Settled)
       \/ \E q \in Pools : DeleteUnheard(q) \/ \E i \in Idxs : AddUnheard(q, i)
       \/ \E d \in Desired : TickPass(d) \/ ReconnectPass(d)
       \/ \E q \in Pools : DeleteOrphan(q)
       \/ \E q \in Pools, i \in Idxs : AddMissing(q, i)
       \/ RemovePolicer
       \/ \E i \in Idxs : UpsertPolicer(i)
       \/ ReconnectNoPass \/ AgentRestart
  BY Steps DEF RecreateUnknown, UpdateDrifted, PolicerDone,
     SweepSession, PutSession, SessionDone, EnsureTable, Attach, UpsertTable,
     StartSessions, EndPass, EndUpsert, EndDelta, CallFails, StartDelta,
     NextPool, DropSession, UpsertSession, VppReconnect, VppCrash, VppFlap,
     Settled, vars
<1>. QED  BY <1>1, <1>6, <1>7, <1>8, <1>9, <1>10, <1>11, <1>12, <1>13

\* Only re-learning, and a delete whose reply is lost, make a cached index wrong
\* (WrongHasCause), for any number of pools, members, indexes, changes and faults.
THEOREM WrongIndexHasCause == Spec => WrongHasCause
<1>1. ASSUME ReconcilerInv, [Next]_vars, NEW p \in Pools, polIdx'[p] # NoIdx,
             Settled'
      PROVE  \/ IndexRight(p)'
             \/ /\ pc = "idle"
                /\ pc' = "policers"
                /\ polIdx'[p] \in InstalledHits(want', p)
             \/ CutDeleting(p)
             \/ Settled /\ polIdx[p] = polIdx'[p] /\ ~IndexRight(p)
  <2>1. IndexKept(p)
    BY <1>1, IndexesKept
  <2>2. ASSUME polIdx'[p] = polIdx[p], IndexRight(p)
        PROVE  IndexRight(p)' \/ CutDeleting(p)
    <3>1. up' /\ polIdx[p] \in Idxs /\ vpol[polIdx[p]].name = p
      BY <1>1, <2>2 DEF Settled, IndexRight, ReconcilerInv, TypeOK
    <3>2. SlotKept(polIdx[p])
      BY <1>1, <3>1, SlotsKept
    <3>. QED  BY <1>1, <2>2, <3>1, <3>2 DEF SlotKept, IndexRight
  <2>. QED  BY <1>1, <2>1, <2>2 DEF IndexKept
<1>2. ReconcilerInv /\ [Next]_vars =>
        [\A p \in Pools :
           /\ polIdx'[p] # NoIdx
           /\ Settled'
           => \/ IndexRight(p)'
              \/ /\ pc = "idle"
                 /\ pc' = "policers"
                 /\ polIdx'[p] \in InstalledHits(want', p)
              \/ /\ pc # "idle"
                 /\ pc' = "idle"
                 /\ Dump[p] # NoSpec
                 /\ Dump'[p] = NoSpec
              \/ Settled /\ polIdx[p] = polIdx'[p] /\ ~IndexRight(p)]_vars
  BY <1>1 DEF CutDeleting
<1>. QED  BY <1>2, AlwaysSound, PTL DEF Spec, WrongHasCause

\* What a step may do to the session of a policed member that no delta moves:
\* nothing, or point it at its pool's index.
LEMMA SessionsKept ==
  ASSUME ReconcilerInv, [Next]_vars, up', NEW k \in Keys,
         want.owner[k] # NoPool, want'.owner[k] = want.owner[k],
         prev[k] \in {NoPool, want.owner[k]}
  PROVE  \/ vsess'[k] = vsess[k]
         \/ vsess'[k] = polIdx[want.owner[k]] /\ UNCHANGED vpol
<1>0. vsess \in [Keys -> Idxs \cup {NoIdx}]
  BY DEF ReconcilerInv, TypeOK
<1>1. ASSUME NEW j \in Keys, SweepSession(j)
      PROVE  vsess'[k] = vsess[k]
  BY <1>0, <1>1 DEF SweepSession, OrphanSession, DelSession
<1>2. ASSUME NEW j \in Keys, DropSession(j)
      PROVE  vsess'[k] = vsess[k]
  <2>1. /\ pool \in Pools
        /\ prev[j] = pool
        /\ want.owner[j] # pool
        /\ vsess' = [vsess EXCEPT ![j] = NoIdx]
    BY <1>2 DEF DropSession, Dropped, DelSession, ReconcilerInv, DeltaSound
  <2>2. j # k
    BY <2>1, ReconcilerAssumption
  <2>. QED  BY <1>0, <2>1, <2>2
<1>3. ASSUME NEW j \in Keys, PutSession(j)
      PROVE  \/ vsess'[k] = vsess[k]
             \/ vsess'[k] = polIdx[want.owner[k]] /\ UNCHANGED vpol
  BY <1>0, <1>3 DEF PutSession, AddSession, SessionDone
<1>4. ASSUME NEW j \in Keys, UpsertSession(j)
      PROVE  \/ vsess'[k] = vsess[k]
             \/ vsess'[k] = polIdx[want.owner[k]] /\ UNCHANGED vpol
  <2>1. /\ want.owner[j] = pool
        /\ vsess' = [vsess EXCEPT ![j] = polIdx[pool]]
        /\ UNCHANGED vpol
    BY <1>4 DEF UpsertSession, Stale, Members, AddSession, SessionDone
  <2>. QED  BY <1>0, <2>1
<1>5. \/ UNCHANGED vsess
      \/ \E j \in Keys : SweepSession(j) \/ PutSession(j)
      \/ \E j \in Keys : DropSession(j) \/ UpsertSession(j)
  BY Steps DEF TickPass, ReconnectPass, StartPass, DeleteOrphan, RecreateUnknown,
     UpdateDrifted, AddMissing, PolicerDone, AddUnheard, DeleteUnheard, Unheard,
     EnsureTable, Attach, UpsertTable, SessionDone, StartSessions, EndPass, EndUpsert, EndDelta,
     CallFails, StartDelta, NextPool, RemovePolicer, UpsertPolicer,
     ReconnectNoPass, VppReconnect, VppCrash, VppFlap, AgentRestart, vars, vppVars
<1>. QED  BY <1>1, <1>2, <1>3, <1>4, <1>5

\* A member that no delta moves keeps its bucket while its pool's cached index is
\* right (KeepsUnmoved), for deltas and passes over any number of pools.
THEOREM UnmovedStayPoliced == Spec => KeepsUnmoved
<1>1. ASSUME ReconcilerInv, [Next]_vars, NEW k \in Keys, Policed(k),
             want'.owner[k] = want.owner[k],
             prev[k] \in {NoPool, want.owner[k]},
             IndexRight(want.owner[k]), up'
      PROVE  Policed(k)'
  <2>. DEFINE p == want.owner[k]
  <2>1. /\ TypeOK
        /\ p # NoPool
        /\ vsess[k] \in Idxs
        /\ vpol[vsess[k]].name = p
        /\ vsess[k] # NoIdx
    BY <1>1 DEF Policed, ReconcilerInv, TypeOK
  <2>2. p \in Wanted(want) /\ p \in Pools
    BY <2>1, WantedSpec
  <2>3. polIdx[p] # NoIdx /\ vpol[polIdx[p]].name = p
    BY <1>1 DEF IndexRight
  <2>4. CASE vsess'[k] = vsess[k]
    <3>1. SlotKept(vsess[k])
      BY <1>1, <2>1, SlotsKept
    <3>2. vpol'[vsess[k]].name = p
      BY <2>1, <2>2, <2>3, <3>1 DEF SlotKept
    <3>. QED  BY <1>1, <2>1, <2>4, <3>2 DEF Policed
  <2>5. CASE vsess'[k] = polIdx[p] /\ UNCHANGED vpol
    BY <1>1, <2>1, <2>3, <2>5 DEF Policed
  <2>. QED  BY <1>1, <2>1, <2>4, <2>5, SessionsKept
<1>2. ReconcilerInv /\ [Next]_vars =>
        [\A k \in Keys :
           /\ Policed(k)
           /\ want'.owner[k] = want.owner[k]
           /\ prev[k] \in {NoPool, want.owner[k]}
           /\ IndexRight(want.owner[k])
           /\ up'
           => Policed(k)']_vars
  BY <1>1
<1>. QED  BY <1>2, AlwaysSound, PTL DEF Spec, KeepsUnmoved

-----------------------------------------------------------------------------
(***************************************************************************)
(* One mishap is healed.  Before it, cache, policers and sessions agree;   *)
(* after it, enough is left of that for a pass to succeed only with every  *)
(* member in its bucket, as long as no member ever changes its pool.       *)
(***************************************************************************)

\* The sessions of p's possible members hit p's own policer, or nothing at all.
HitsOwn(p) ==
  \A k \in Keys : p \in Homes[k] /\ vsess[k] # NoIdx => vpol[vsess[k]].name = p
HitsNone(p) == \A k \in Keys : p \in Homes[k] => vsess[k] = NoIdx

\* The pools a delta is not done with.
AtWork == removing \cup upserting
            \cup (IF pc \in {"rmPool", "upPolicer", "upSessions"} THEN {pool} ELSE {})

\* Before the first mishap: the index cache is exact, the sessions of a policer that
\* exists hit it, a policer that does not exist has none (a pass removes an orphan's
\* policer first and its sessions later), and a session nobody owns is one that
\* the delta at work is about to drop.
CacheExact ==
  \A p \in Pools : IF Dump[p] = NoSpec THEN polIdx[p] = NoIdx ELSE IndexRight(p)
PresentHit == \A p \in Pools : Dump[p] # NoSpec => HitsOwn(p)
AbsentUnhit ==
  \A p \in Pools : Dump[p] = NoSpec => HitsNone(p) \/ (InPass /\ p \notin Wanted(want))
UnownedAtWork ==
  ~InPass => \A k \in Keys : vsess[k] # NoIdx /\ want.owner[k] = NoPool =>
               prev[k] \in Homes[k] \cap AtWork

Unharmed == up /\ ~reconnect /\ CacheExact /\ PresentHit /\ AbsentUnhit /\ UnownedAtWork

\* After one: a cached index of a policer that exists is right, a policer whose index
\* is not cached is hit by its own members only (so that re-learning is right), and
\* so is every policer while VPP is away or the signal waits (so that Reset may
\* forget the indexes).  No delta is at work while the signal waits.
SignalIdle == reconnect => up /\ (pc = "idle" \/ InPass)
KnownRight == \A p \in Pools : Dump[p] # NoSpec /\ polIdx[p] # NoIdx => IndexRight(p)
UnknownHit == \A p \in Pools : Dump[p] # NoSpec /\ polIdx[p] = NoIdx => HitsOwn(p)
AwayHit == ~up \/ (reconnect /\ pc = "idle") => PresentHit

HarmedOnce == SignalIdle /\ KnownRight /\ UnknownHit /\ AwayHit

\* A pass knows the index of every desired pool it is done with.
DoneIsKnown == InPass => \A p \in Wanted(want) \ todo : polIdx[p] # NoIdx

HealInv ==
  FixedHomes => /\ faults = 0 => Unharmed
                /\ faults = 1 => HarmedOnce
                /\ DoneIsKnown

\* What the calls do to them.  A delete or an add of p leaves the others alone.
LEMMA DeleteHits ==
  ASSUME ReconcilerInv, NEW p \in Pools, DeleteByName(p), UNCHANGED vsess,
         NEW q \in Pools, q # p
  PROVE  /\ Dump'[p] = NoSpec
         /\ Dump'[q] = Dump[q]
         /\ HitsOwn(q) => HitsOwn(q)'
         /\ HitsNone(q) => HitsNone(q)'
         /\ IndexRight(q) /\ polIdx'[q] = polIdx[q] => IndexRight(q)'
<1>1. /\ TypeOK
      /\ OneSlotEach(vpol)
      /\ vsess \in [Keys -> Idxs \cup {NoIdx}]
      /\ polIdx \in [Pools -> Idxs \cup {NoIdx}]
  BY DEF ReconcilerInv, VppSound, TypeOK
<1>2. /\ vpol' = [i \in Idxs |-> IF vpol[i].name = p THEN Free ELSE vpol[i]]
      /\ Dump'[p] = NoSpec
      /\ Dump'[q] = Dump[q]
  BY <1>1, PolicerDeleted
<1>3. \A i \in Idxs : vpol[i].name = q => vpol'[i].name = q
  BY <1>2
<1>. QED  BY <1>1, <1>2, <1>3 DEF HitsOwn, HitsNone, IndexRight

LEMMA AddHits ==
  ASSUME ReconcilerInv, NEW p \in Pools, NEW i \in Idxs, NEW s \in Specs,
         PolicerAdd(i, p, s), UNCHANGED vsess
  PROVE  /\ Dump[p] = NoSpec
         /\ Dump'[p] # NoSpec
         /\ vpol'[i].name = p
         /\ HitsNone(p) => HitsOwn(p)'
         /\ \A q \in Pools : q # p =>
              /\ Dump'[q] = Dump[q]
              /\ HitsOwn(q) => HitsOwn(q)'
              /\ HitsNone(q) => HitsNone(q)'
              /\ IndexRight(q) /\ polIdx'[q] = polIdx[q] => IndexRight(q)'
<1>1. /\ TypeOK
      /\ OneSlotEach(vpol)
      /\ vsess \in [Keys -> Idxs \cup {NoIdx}]
      /\ polIdx \in [Pools -> Idxs \cup {NoIdx}]
  BY DEF ReconcilerInv, VppSound, TypeOK
<1>2. /\ vpol[i] = Free
      /\ vpol'[i] = [name |-> p, spec |-> s]
      /\ \A j \in Idxs \ {i} : vpol'[j] = vpol[j]
      /\ Dump[p] = NoSpec
      /\ Dump'[p] = s
      /\ \A q \in Pools \ {p} : Dump'[q] = Dump[q]
  BY <1>1, PolicerAdded
<1>3. vpol[i].name = NoPool /\ s # NoSpec
  BY <1>2, ReconcilerAssumption DEF Free
<1>4. \A q \in Pools, j \in Idxs : vpol[j].name = q => vpol'[j].name = q
  BY <1>2, <1>3, ReconcilerAssumption
<1>5. HitsNone(p) => HitsOwn(p)'
  BY DEF HitsNone, HitsOwn
<1>6. ASSUME NEW q \in Pools, q # p
      PROVE  /\ HitsOwn(q) => HitsOwn(q)'
             /\ HitsNone(q) => HitsNone(q)'
             /\ IndexRight(q) /\ polIdx'[q] = polIdx[q] => IndexRight(q)'
  BY <1>1, <1>4, <1>6 DEF HitsOwn, HitsNone, IndexRight
<1>. QED  BY <1>2, <1>3, <1>5, <1>6

\* A session that is put hits the index of its owner; one that is deleted, none.
LEMMA PutHits ==
  ASSUME TypeOK, NEW k \in Keys, NEW i, vsess' = [vsess EXCEPT ![k] = i],
         UNCHANGED vpol, NEW q \in Pools
  PROVE  /\ HitsOwn(q) /\ (q \in Homes[k] => i = NoIdx \/ vpol[i].name = q) => HitsOwn(q)'
         /\ HitsNone(q) /\ (q \in Homes[k] => i = NoIdx) => HitsNone(q)'
BY DEF TypeOK, HitsOwn, HitsNone

\* Whatever keeps the names in the slots, the sessions and the cache keeps the rest.
LEMMA SameHits ==
  ASSUME TypeOK, \A i \in Idxs : vpol'[i].name = vpol[i].name, UNCHANGED <<vsess, polIdx>>,
         NEW p \in Pools
  PROVE  /\ HitsOwn(p)' <=> HitsOwn(p)
         /\ HitsNone(p)' <=> HitsNone(p)
         /\ IndexRight(p)' <=> IndexRight(p)
BY DEF TypeOK, HitsOwn, HitsNone, IndexRight

LEMMA DoneStaysKnown ==
  ASSUME ReconcilerInv, DoneIsKnown, [Next]_vars
  PROVE  DoneIsKnown'
<1>0. polIdx \in [Pools -> Idxs \cup {NoIdx}] /\ todo \subseteq Pools
  BY DEF ReconcilerInv, TypeOK
<1>1. ASSUME NEW d \in Desired, TickPass(d) \/ ReconnectPass(d)
      PROVE  DoneIsKnown'
  <2>1. want' = d /\ todo' = PolicersToDo(d, polIdx')
    BY <1>1 DEF TickPass, ReconnectPass, StartPass
  <2>. QED  BY <2>1 DEF DoneIsKnown, PolicersToDo, Wanted
<1>2. ASSUME NEW p \in Pools, DeleteOrphan(p)
      PROVE  DoneIsKnown'
  BY <1>0, <1>2 DEF DoneIsKnown, DeleteOrphan, Orphans, PolicerDone, Wanted, InPass
<1>3. ASSUME NEW p \in Pools, NEW i \in Idxs, AddMissing(p, i)
      PROVE  DoneIsKnown'
  BY <1>0, <1>3, ReconcilerAssumption
  DEF DoneIsKnown, AddMissing, Converging, PolicerDone, Wanted, InPass
<1>4. ASSUME NEW p \in Pools, UpdateDrifted(p)
      PROVE  DoneIsKnown'
  BY <1>0, <1>4 DEF DoneIsKnown, UpdateDrifted, Converging, PolicerDone, Wanted, InPass
<1>5. CASE pc' \notin {"policers", "sessions"}
  BY <1>5 DEF DoneIsKnown, InPass
<1>6. CASE UNCHANGED <<want, todo, polIdx>> /\ (InPass' => InPass)
  BY <1>6 DEF DoneIsKnown, Wanted
<1>7. \/ \E d \in Desired : TickPass(d) \/ ReconnectPass(d)
      \/ \E p \in Pools : DeleteOrphan(p) \/ UpdateDrifted(p)
      \/ \E p \in Pools, i \in Idxs : AddMissing(p, i)
      \/ pc' \notin {"policers", "sessions"}
      \/ UNCHANGED <<want, todo, polIdx>> /\ (InPass' => InPass)
  BY Steps DEF RecreateUnknown, Converging, AddUnheard, DeleteUnheard, Unheard,
     BackToIdle, SweepSession,
     PutSession, SessionDone, EnsureTable, Attach, UpsertTable, StartSessions,
     EndPass, EndUpsert, EndDelta, CallFails, StartDelta, NextPool, DropSession,
     UpsertSession, RemovePolicer, UpsertPolicer, ReconnectNoPass, VppReconnect,
     VppCrash, VppFlap, AgentRestart, InPass, vars, localVars
<1>. QED  BY <1>1, <1>2, <1>3, <1>4, <1>5, <1>6, <1>7

\* VPP refuses no call of a pass whose cached indexes are right where it has a
\* policer, and none of a delta while the cache is exact.
LEMMA PassNotRefused ==
  ASSUME ReconcilerInv, DoneIsKnown, KnownRight, up, InPass
  PROVE  ~Refused
<1>0. TypeOK /\ vpol \in Slots /\ polIdx \in [Pools -> Idxs \cup {NoIdx}]
  BY DEF ReconcilerInv, TypeOK, Slots
<1>1. ASSUME pc = "policers", todo = {}, IndexMissing
      PROVE  FALSE
  <2>1. PICK k \in Keys : want.owner[k] # NoPool /\ polIdx[want.owner[k]] = NoIdx
    BY <1>1 DEF IndexMissing
  <2>. QED  BY <1>0, <1>1, <2>1, WantedSpec DEF DoneIsKnown
<1>2. ASSUME NEW p \in todo, Converging(p), dump[p] # NoSpec, polIdx[p] # NoIdx,
             vpol[polIdx[p]] = Free
      PROVE  FALSE
  <2>1. p \in Pools /\ Dump[p] # NoSpec
    BY <1>0, <1>2 DEF Converging, ReconcilerInv, PassSound, TypeOK
  <2>2. vpol[polIdx[p]].name = p
    BY <1>2, <2>1 DEF KnownRight, IndexRight
  <2>. QED  BY <1>2, <2>1, <2>2, ReconcilerAssumption DEF Free
<1>. QED  BY <1>1, <1>2 DEF Refused, InPass

LEMMA UnharmedNotRefused ==
  ASSUME ReconcilerInv, DoneIsKnown, Unharmed
  PROVE  ~Refused
<1>1. up /\ CacheExact /\ KnownRight
  BY DEF Unharmed, CacheExact, KnownRight
<1>2. CASE InPass
  BY <1>1, <1>2, PassNotRefused
<1>3. CASE ~InPass
  <2>1. ASSUME pc = "upPolicer" \/ pc = "rmPool"
        PROVE  pool \in Pools
    BY <2>1 DEF ReconcilerInv, DeltaSound, Wanted
  <2>2. ASSUME pool \in Pools, polIdx[pool] # NoIdx
        PROVE  Dump[pool] # NoSpec /\ vpol[polIdx[pool]] # Free
    BY <1>1, <2>2, ReconcilerAssumption DEF CacheExact, IndexRight, Free
  <2>3. ASSUME pool \in Pools, polIdx[pool] = NoIdx
        PROVE  Dump[pool] = NoSpec
    BY <1>1, <2>3 DEF CacheExact, IndexRight
  <2>. QED  BY <1>3, <2>1, <2>2, <2>3 DEF Refused, Converging, InPass
<1>. QED  BY <1>2, <1>3

\* The owner of a member is its only home.
LEMMA OneHome ==
  ASSUME FixedHomes, TypeOK, NEW k \in Keys, want.owner[k] # NoPool
  PROVE  /\ want.owner[k] \in Wanted(want)
         /\ want.owner[k] \in Homes[k]
         /\ \A q \in Homes[k] : q = want.owner[k]
<1>1. want.owner[k] \in Homes[k] /\ want.owner[k] \in Wanted(want)
  BY WantedSpec DEF TypeOK, Desired
<1>. QED  BY <1>1 DEF FixedHomes

\* Without a mishap the agent stays unharmed.  First, steps that only move on.
LEMMA UnharmedMovesOn ==
  ASSUME ReconcilerInv, Unharmed,
         \A i \in Idxs : vpol'[i].name = vpol[i].name,
         \A p \in Pools : Dump'[p] = NoSpec <=> Dump[p] = NoSpec,
         UNCHANGED <<vsess, polIdx, want, up, reconnect, prev>>,
         InPass' <=> InPass, ~InPass => AtWork \subseteq AtWork'
  PROVE  Unharmed'
<1>1. \A p \in Pools : /\ HitsOwn(p)' <=> HitsOwn(p)
                       /\ HitsNone(p)' <=> HitsNone(p)
                       /\ IndexRight(p)' <=> IndexRight(p)
  BY SameHits DEF ReconcilerInv
<1>2. up' /\ ~reconnect'
  BY DEF Unharmed
<1>3. CacheExact'
  BY <1>1 DEF Unharmed, CacheExact
<1>4. PresentHit' /\ AbsentUnhit'
  BY <1>1 DEF Unharmed, PresentHit, AbsentUnhit, Wanted
<1>5. UnownedAtWork'
  BY DEF Unharmed, UnownedAtWork
<1>. QED  BY <1>2, <1>3, <1>4, <1>5 DEF Unharmed

\* A pass that starts re-learns nothing: a pool whose index is not cached is absent,
\* and hit by no member.
LEMMA UnharmedStartPass ==
  ASSUME ReconcilerInv, Unharmed, NEW d \in Desired, TickPass(d)
  PROVE  Unharmed'
<1>1. /\ pc = "idle" /\ pc' = "policers"
      /\ want' = d
      /\ polIdx' \in Relearned(polIdx, d)
      /\ UNCHANGED <<vpol, vsess, up, reconnect, prev>>
  BY DEF TickPass, StartPass, vppVars
<1>2. polIdx \in [Pools -> Idxs \cup {NoIdx}] /\ polIdx' \in [Pools -> Idxs \cup {NoIdx}]
  BY <1>1, RelearnedType DEF ReconcilerInv, TypeOK
<1>3. ASSUME NEW p \in Pools, polIdx[p] = NoIdx
      PROVE  InstalledHits(d, p) = {}
  <2>1. HitsNone(p)
    BY <1>1, <1>3 DEF Unharmed, CacheExact, IndexRight, AbsentUnhit, InPass
  <2>2. \A k \in Members(d, p) : k \in Keys /\ p \in Homes[k]
    BY ReconcilerAssumption DEF Members, Desired
  <2>. QED  BY <2>1, <2>2 DEF HitsNone, InstalledHits
<1>4. polIdx' = polIdx
  <2>1. \A p \in Pools : polIdx'[p] = polIdx[p]
    BY <1>1, <1>3 DEF Relearned
  <2>. QED  BY <1>2, <2>1
<1>5. Dump' = Dump /\ up' /\ ~reconnect'
  BY <1>1, DumpIs DEF Unharmed
<1>6. CacheExact' /\ PresentHit' /\ AbsentUnhit'
  <2>1. \A p \in Pools : /\ HitsOwn(p)' <=> HitsOwn(p)
                         /\ HitsNone(p)' <=> HitsNone(p)
                         /\ IndexRight(p)' <=> IndexRight(p)
    BY <1>1, <1>4, SameHits DEF ReconcilerInv
  <2>2. ~InPass
    BY <1>1 DEF InPass
  <2>. QED
    BY <1>4, <1>5, <2>1, <2>2 DEF Unharmed, CacheExact, PresentHit, AbsentUnhit
<1>7. UnownedAtWork'
  BY <1>1 DEF UnownedAtWork, InPass
<1>. QED  BY <1>5, <1>6, <1>7 DEF Unharmed

LEMMA UnharmedDeleteOrphan ==
  ASSUME ReconcilerInv, Unharmed, NEW p \in Pools, DeleteOrphan(p)
  PROVE  Unharmed'
<1>1. /\ pc = "policers" /\ pc' = "policers"
      /\ p \in Pools \ Wanted(want)
      /\ DeleteByName(p)
      /\ polIdx' = [polIdx EXCEPT ![p] = NoIdx]
      /\ polIdx \in [Pools -> Idxs \cup {NoIdx}]
      /\ UNCHANGED <<vsess, want, up, reconnect>>
  BY DEF DeleteOrphan, Orphans, PolicerDone, Wanted, ReconcilerInv, TypeOK
<1>2. Dump'[p] = NoSpec /\ polIdx'[p] = NoIdx
  BY <1>1, PolicerDeleted DEF ReconcilerInv, VppSound
<1>3. ASSUME NEW q \in Pools, q # p
      PROVE  /\ Dump'[q] = Dump[q]
             /\ polIdx'[q] = polIdx[q]
             /\ HitsOwn(q) => HitsOwn(q)'
             /\ HitsNone(q) => HitsNone(q)'
             /\ IndexRight(q) => IndexRight(q)'
  BY <1>1, <1>3, DeleteHits
<1>4. CacheExact'
  BY <1>2, <1>3 DEF Unharmed, CacheExact
<1>5. PresentHit'
  BY <1>2, <1>3 DEF Unharmed, PresentHit
<1>6. AbsentUnhit'
  BY <1>1, <1>3 DEF Unharmed, AbsentUnhit, InPass, Wanted
<1>7. UnownedAtWork' /\ up' /\ ~reconnect'
  BY <1>1 DEF Unharmed, UnownedAtWork, InPass
<1>. QED  BY <1>4, <1>5, <1>6, <1>7 DEF Unharmed

\* An absent policer is added with no session that its index could be mistaken for.
LEMMA UnharmedAdd ==
  ASSUME ReconcilerInv, Unharmed, NEW p \in Wanted(want), NEW i \in Idxs,
         PolicerAdd(i, p, want.spec[p]), polIdx' = [polIdx EXCEPT ![p] = i],
         UNCHANGED <<vsess, want, up, reconnect, prev>>,
         InPass' <=> InPass, ~InPass => AtWork \subseteq AtWork'
  PROVE  Unharmed'
<1>1. /\ p \in Pools
      /\ want.spec[p] \in Specs
      /\ polIdx \in [Pools -> Idxs \cup {NoIdx}]
  BY WantedSpec DEF ReconcilerInv, TypeOK
<1>2. /\ Dump[p] = NoSpec
      /\ Dump'[p] # NoSpec
      /\ vpol'[i].name = p
      /\ HitsNone(p) => HitsOwn(p)'
  BY <1>1, AddHits
<1>3. ASSUME NEW q \in Pools, q # p
      PROVE  /\ Dump'[q] = Dump[q]
             /\ polIdx'[q] = polIdx[q]
             /\ HitsOwn(q) => HitsOwn(q)'
             /\ HitsNone(q) => HitsNone(q)'
             /\ IndexRight(q) => IndexRight(q)'
  <2>1. polIdx'[q] = polIdx[q]
    BY <1>1, <1>3
  <2>. QED  BY <1>1, <1>3, <2>1, AddHits
<1>4. IndexRight(p)'
  BY <1>1, <1>2, ReconcilerAssumption DEF IndexRight
<1>5. HitsOwn(p)'
  BY <1>1, <1>2 DEF Unharmed, AbsentUnhit
<1>6. CacheExact'
  BY <1>2, <1>3, <1>4 DEF Unharmed, CacheExact
<1>7. PresentHit'
  BY <1>3, <1>5 DEF Unharmed, PresentHit
<1>8. AbsentUnhit'
  BY <1>2, <1>3 DEF Unharmed, AbsentUnhit, Wanted
<1>9. UnownedAtWork' /\ up' /\ ~reconnect'
  BY DEF Unharmed, UnownedAtWork
<1>. QED  BY <1>6, <1>7, <1>8, <1>9 DEF Unharmed

\* A session is put at the right index of its owner, and taken away.
LEMMA UnharmedPut ==
  ASSUME FixedHomes, ReconcilerInv, Unharmed, NEW k \in Keys, want.owner[k] # NoPool,
         polIdx[want.owner[k]] # NoIdx,
         vsess' = [vsess EXCEPT ![k] = polIdx[want.owner[k]]],
         UNCHANGED <<vpol, polIdx, want, up, reconnect, localVars>>
  PROVE  Unharmed'
<1>. DEFINE p == want.owner[k]
<1>1. /\ p \in Wanted(want)
      /\ p \in Pools
      /\ p \in Homes[k]
      /\ \A q \in Homes[k] : q = p
  BY OneHome, WantedSpec DEF ReconcilerInv
<1>2. IndexRight(p) /\ Dump[p] # NoSpec
  BY <1>1 DEF Unharmed, CacheExact
<1>3. Dump' = Dump /\ TypeOK
  BY DumpIs DEF ReconcilerInv
<1>4. ASSUME NEW q \in Pools
      PROVE  /\ HitsOwn(q) => HitsOwn(q)'
             /\ HitsNone(q) /\ q # p => HitsNone(q)'
             /\ IndexRight(q)' <=> IndexRight(q)
  BY <1>1, <1>2, <1>3, PutHits DEF IndexRight
<1>5. CacheExact' /\ PresentHit'
  BY <1>3, <1>4 DEF Unharmed, CacheExact, PresentHit
<1>6. AbsentUnhit'
  BY <1>2, <1>3, <1>4 DEF Unharmed, AbsentUnhit, InPass, Wanted, localVars
<1>7. UnownedAtWork' /\ up' /\ ~reconnect'
  BY <1>3 DEF Unharmed, UnownedAtWork, InPass, AtWork, localVars, TypeOK
<1>. QED  BY <1>5, <1>6, <1>7 DEF Unharmed

LEMMA UnharmedDel ==
  ASSUME ReconcilerInv, Unharmed, NEW k \in Keys, vsess' = [vsess EXCEPT ![k] = NoIdx],
         \A j \in Keys : j # k => prev'[j] = prev[j],
         UNCHANGED <<vpol, polIdx, want, up, reconnect, pc, removing, upserting, pool>>
  PROVE  Unharmed'
<1>1. Dump' = Dump /\ TypeOK
  BY DumpIs DEF ReconcilerInv
<1>2. ASSUME NEW q \in Pools
      PROVE  /\ HitsOwn(q) => HitsOwn(q)'
             /\ HitsNone(q) => HitsNone(q)'
             /\ IndexRight(q)' <=> IndexRight(q)
  BY <1>1, PutHits DEF IndexRight
<1>3. CacheExact' /\ PresentHit' /\ AbsentUnhit'
  BY <1>1, <1>2 DEF Unharmed, CacheExact, PresentHit, AbsentUnhit, InPass, Wanted
<1>4. UnownedAtWork' /\ up' /\ ~reconnect'
  BY <1>1 DEF Unharmed, UnownedAtWork, InPass, AtWork, TypeOK
<1>. QED  BY <1>3, <1>4 DEF Unharmed

\* A pass that succeeds leaves no session but its members', all at known indexes.
LEMMA SucceededHits ==
  ASSUME FixedHomes, ReconcilerInv, DoneIsKnown, KnownRight, PassSucceeds
  PROVE  /\ \A p \in Pools : Dump[p] = NoSpec <=> p \notin Wanted(want)
         /\ \A k \in Keys : want.owner[k] = NoPool => vsess[k] = NoIdx
         /\ \A p \in Wanted(want) : IndexRight(p)
         /\ PresentHit
         /\ \A p \in Pools : Dump[p] = NoSpec => HitsNone(p)
<1>1. /\ up
      /\ InPass
      /\ todo = {}
      /\ SessionsMatch
      /\ TypeOK
  BY DEF ReconcilerInv, PassSucceeds, PhasesInOrder, InPass
<1>2. \A p \in Pools : Dump[p] = NoSpec <=> p \notin Wanted(want)
  BY <1>1 DEF ReconcilerInv, PassSound, Wanted
<1>3. \A p \in Wanted(want) : p \in Pools /\ IndexRight(p)
  BY <1>1, <1>2 DEF DoneIsKnown, KnownRight, Wanted
<1>4. \A k \in Keys : IF want.owner[k] = NoPool THEN vsess[k] = NoIdx
                                                ELSE vsess[k] = polIdx[want.owner[k]]
  BY <1>1 DEF SessionsMatch, OrphanSession, StaleSession
<1>5. ASSUME NEW k \in Keys, vsess[k] # NoIdx, NEW p \in Homes[k]
      PROVE  p \in Wanted(want) /\ vpol[vsess[k]].name = p
  <2>1. want.owner[k] # NoPool
    BY <1>4, <1>5
  <2>2. p = want.owner[k] /\ p \in Wanted(want)
    BY <1>1, <2>1, OneHome
  <2>. QED  BY <1>3, <1>4, <2>1, <2>2 DEF IndexRight
<1>. QED  BY <1>2, <1>3, <1>4, <1>5 DEF PresentHit, HitsOwn, HitsNone

LEMMA UnharmedEndPass ==
  ASSUME FixedHomes, ReconcilerInv, DoneIsKnown, Unharmed, EndPass
  PROVE  Unharmed'
<1>1. /\ PassSucceeds
      /\ pc' = "idle"
      /\ UNCHANGED <<vpol, vsess, polIdx, want, up, reconnect>>
  BY DEF EndPass, vppVars
<1>2. KnownRight
  BY DEF Unharmed, CacheExact, KnownRight
<1>3. /\ Dump' = Dump
      /\ \A p \in Pools : /\ HitsOwn(p)' <=> HitsOwn(p)
                          /\ HitsNone(p)' <=> HitsNone(p)
                          /\ IndexRight(p)' <=> IndexRight(p)
  BY <1>1, DumpIs, SameHits DEF ReconcilerInv
<1>4. /\ \A k \in Keys : want.owner[k] = NoPool => vsess[k] = NoIdx
      /\ \A p \in Pools : Dump[p] = NoSpec => HitsNone(p)
  BY <1>1, <1>2, SucceededHits
<1>5. CacheExact' /\ PresentHit'
  BY <1>1, <1>3 DEF Unharmed, CacheExact, PresentHit
<1>6. AbsentUnhit' /\ UnownedAtWork'
  BY <1>1, <1>3, <1>4 DEF AbsentUnhit, UnownedAtWork
<1>7. up' /\ ~reconnect'
  BY <1>1 DEF Unharmed
<1>. QED  BY <1>5, <1>6, <1>7 DEF Unharmed

\* A delta starts: a member it leaves without an owner was in a pool it touches.
LEMMA UnharmedStartDelta ==
  ASSUME ReconcilerInv, Unharmed, NEW d \in Desired, NEW rm \in SUBSET Pools,
         NEW ups \in SUBSET Pools, StartDelta(d, rm, ups)
  PROVE  Unharmed'
<1>1. /\ pc = "idle" /\ pc' = "next"
      /\ want' = d
      /\ prev' = want.owner
      /\ removing' = rm
      /\ upserting' = ups
      /\ UNCHANGED <<vpol, vsess, polIdx, up, reconnect>>
  BY DEF StartDelta, Unharmed, vppVars
<1>2. \A p \in Pools \ (rm \cup ups) : Members(d, p) = Members(want, p)
  BY DEF StartDelta, DeltaTo
<1>3. AtWork = {} /\ ~InPass /\ ~InPass'
  BY <1>1 DEF AtWork, InPass, ReconcilerInv, DeltaSound
<1>4. /\ Dump' = Dump
      /\ \A p \in Pools : /\ HitsOwn(p)' <=> HitsOwn(p)
                          /\ HitsNone(p)' <=> HitsNone(p)
                          /\ IndexRight(p)' <=> IndexRight(p)
  BY <1>1, DumpIs, SameHits DEF ReconcilerInv
<1>5. CacheExact' /\ PresentHit' /\ AbsentUnhit'
  BY <1>1, <1>3, <1>4 DEF Unharmed, CacheExact, PresentHit, AbsentUnhit
<1>6. ASSUME NEW k \in Keys, vsess[k] # NoIdx, d.owner[k] = NoPool
      PROVE  want.owner[k] \in Homes[k] \cap (rm \cup ups)
  <2>1. want.owner[k] # NoPool
    BY <1>3, <1>6 DEF Unharmed, UnownedAtWork
  <2>2. want.owner[k] \in Pools /\ want.owner[k] \in Homes[k]
    BY <2>1, WantedSpec DEF ReconcilerInv, TypeOK, Desired
  <2>3. k \in Members(want, want.owner[k]) /\ k \notin Members(d, want.owner[k])
    BY <1>6, <2>1 DEF Members
  <2>. QED  BY <1>2, <2>2, <2>3
<1>7. UnownedAtWork'
  BY <1>1, <1>6 DEF UnownedAtWork, AtWork
<1>8. up' /\ ~reconnect'
  BY <1>1 DEF Unharmed
<1>. QED  BY <1>5, <1>7, <1>8 DEF Unharmed

\* The delta is done with a pool once it has dropped its sessions.
LEMMA DroppedIsGone ==
  ASSUME ReconcilerInv, pool \in Pools, Dropped = {}, NEW k \in Keys, vsess[k] # NoIdx,
         want.owner[k] # pool
  PROVE  prev[k] # pool
<1>1. MaskOf[k] \in tables
  BY DEF ReconcilerInv, VppSound
<1>. QED  BY <1>1 DEF Dropped

LEMMA UnharmedPoolDone ==
  ASSUME ReconcilerInv, UnownedAtWork, pool \in Pools, Dropped = {},
         pc \in {"rmPool", "upSessions"}, pc' = "next",
         UNCHANGED <<vsess, want, prev, removing, upserting>>
  PROVE  UnownedAtWork'
<1>1. ASSUME NEW k \in Keys, vsess[k] # NoIdx, want.owner[k] = NoPool
      PROVE  prev[k] \in Homes[k] \cap (removing \cup upserting)
  <2>1. prev[k] \in Homes[k] \cap (removing \cup upserting \cup {pool})
    BY <1>1 DEF UnownedAtWork, AtWork, InPass
  <2>2. prev[k] # pool
    BY <1>1, DroppedIsGone, ReconcilerAssumption
  <2>. QED  BY <2>1, <2>2
<1>. QED  BY <1>1 DEF UnownedAtWork, AtWork

LEMMA UnharmedRemovePolicer ==
  ASSUME FixedHomes, ReconcilerInv, Unharmed, RemovePolicer
  PROVE  Unharmed'
<1>1. /\ pc = "rmPool" /\ pc' = "next"
      /\ pool \in Pools \ Wanted(want)
      /\ Dropped = {}
      /\ UNCHANGED <<vsess, want, up, reconnect, prev, removing, upserting>>
      /\ polIdx \in [Pools -> Idxs \cup {NoIdx}]
  BY DEF RemovePolicer, ReconcilerInv, DeltaSound, TypeOK
<1>2. UnownedAtWork' /\ up' /\ ~reconnect' /\ ~InPass /\ ~InPass'
  BY <1>1, UnharmedPoolDone DEF Unharmed, InPass
<1>3. CASE polIdx[pool] = NoIdx
  <2>1. UNCHANGED <<vpol, polIdx>>
    BY <1>3 DEF RemovePolicer
  <2>2. /\ Dump' = Dump
        /\ \A p \in Pools : /\ HitsOwn(p)' <=> HitsOwn(p)
                            /\ HitsNone(p)' <=> HitsNone(p)
                            /\ IndexRight(p)' <=> IndexRight(p)
    BY <1>1, <2>1, DumpIs, SameHits DEF ReconcilerInv
  <2>. QED
    BY <1>1, <1>2, <2>1, <2>2 DEF Unharmed, CacheExact, PresentHit, AbsentUnhit
<1>4. CASE polIdx[pool] # NoIdx
  <2>. PICK p \in Pools : p = pool
    BY <1>1
  <2>1. /\ DeleteByName(p)
        /\ polIdx' = [polIdx EXCEPT ![p] = NoIdx]
    BY <1>4 DEF RemovePolicer
  <2>2. Dump'[p] = NoSpec /\ polIdx'[p] = NoIdx
    BY <1>1, <2>1, PolicerDeleted DEF ReconcilerInv, VppSound
  <2>3. ASSUME NEW q \in Pools, q # p
        PROVE  /\ Dump'[q] = Dump[q]
               /\ polIdx'[q] = polIdx[q]
               /\ HitsOwn(q) => HitsOwn(q)'
               /\ HitsNone(q) => HitsNone(q)'
               /\ IndexRight(q) => IndexRight(q)'
    BY <1>1, <2>1, <2>3, DeleteHits
  <2>4. HitsNone(p)'
    <3>1. SUFFICES ASSUME NEW k \in Keys, p \in Homes[k], vsess[k] # NoIdx
                   PROVE  FALSE
      BY <1>1 DEF HitsNone
    <3>2. want.owner[k] = NoPool
      BY <1>1, <3>1, OneHome DEF ReconcilerInv
    <3>3. prev[k] \in Homes[k]
      BY <1>2, <3>1, <3>2 DEF Unharmed, UnownedAtWork
    <3>4. prev[k] = p
      BY <3>1, <3>3 DEF FixedHomes
    <3>. QED  BY <1>1, <3>1, <3>2, <3>4, DroppedIsGone, ReconcilerAssumption
  <2>5. CacheExact'
    BY <2>2, <2>3 DEF Unharmed, CacheExact
  <2>6. PresentHit'
    BY <2>2, <2>3 DEF Unharmed, PresentHit
  <2>7. AbsentUnhit'
    BY <1>2, <2>3, <2>4 DEF Unharmed, AbsentUnhit
  <2>. QED  BY <1>2, <2>5, <2>6, <2>7 DEF Unharmed
<1>. QED  BY <1>3, <1>4

LEMMA UnharmedStays ==
  ASSUME FixedHomes, ReconcilerInv, DoneIsKnown, Unharmed, [Next]_vars, faults' = faults
  PROVE  Unharmed'
<1>0. /\ TypeOK /\ up /\ ~reconnect /\ ~Refused
      /\ faults + 1 # faults
      /\ polIdx \in [Pools -> Idxs \cup {NoIdx}]
      /\ pool \in Pools \cup {NoPool}
  BY UnharmedNotRefused, ReconcilerAssumption DEF ReconcilerInv, TypeOK, Unharmed
<1>1. ASSUME NEW p \in Pools, UpdateDrifted(p)
      PROVE  Unharmed'
  <2>1. /\ polIdx[p] \in Idxs
        /\ want.spec[p] \in Specs
        /\ PolicerUpdate(polIdx[p], want.spec[p])
        /\ UNCHANGED <<vsess, polIdx, want, up, reconnect, prev, pc>>
        /\ pc = "policers"
    BY <1>0, <1>1, WantedSpec DEF UpdateDrifted, Converging, Orphans, PolicerDone
  <2>. QED
    BY <1>0, <2>1, PolicerUpdated, UnharmedMovesOn DEF ReconcilerInv, VppSound, InPass
<1>2. ASSUME NEW p \in Pools, RecreateUnknown(p)
      PROVE  FALSE
  BY <1>0, <1>2 DEF RecreateUnknown, DeleteByName, Unharmed, CacheExact, IndexRight
<1>3. ASSUME NEW p \in Pools, NEW i \in Idxs, AddMissing(p, i)
      PROVE  Unharmed'
  <2>1. p \in Wanted(want) /\ pc = "policers"
    BY <1>3 DEF AddMissing, Converging, Orphans, Wanted
  <2>. QED  BY <1>3, <2>1, UnharmedAdd DEF AddMissing, PolicerDone, InPass
<1>4. ASSUME NEW i \in Idxs, UpsertPolicer(i)
      PROVE  Unharmed'
  <2>1. /\ pc = "upPolicer" /\ pc' = "upSessions"
        /\ UNCHANGED <<vsess, want, up, reconnect, prev, removing, upserting, pool>>
    BY <1>4 DEF UpsertPolicer
  <2>2. pool \in Wanted(want) /\ InPass = InPass' /\ AtWork \subseteq AtWork'
    BY <2>1 DEF ReconcilerInv, DeltaSound, InPass, AtWork
  <2>3. CASE polIdx[pool] = NoIdx /\ PolicerAdd(i, pool, want.spec[pool])
             /\ polIdx' = [polIdx EXCEPT ![pool] = i]
    BY <2>1, <2>2, <2>3, UnharmedAdd
  <2>4. CASE PolicerUpdate(i, want.spec[pool]) /\ UNCHANGED polIdx
    <3>1. want.spec[pool] \in Specs
      BY <1>0, <2>2, WantedSpec
    <3>. QED
      BY <1>0, <2>1, <2>2, <2>4, <3>1, PolicerUpdated, UnharmedMovesOn
      DEF ReconcilerInv, VppSound
  <2>. QED  BY <1>4, <2>3, <2>4 DEF UpsertPolicer
<1>5. ASSUME NEW k \in Keys, PutSession(k) \/ UpsertSession(k)
      PROVE  Unharmed'
  <2>1. CASE PutSession(k)
    <3>1. want.owner[k] # NoPool /\ polIdx[want.owner[k]] # NoIdx
      BY <2>1 DEF PutSession, StaleSession, ReconcilerInv, PhasesInOrder, IndexMissing
    <3>. QED  BY <2>1, <3>1, UnharmedPut DEF PutSession, AddSession, SessionDone
  <2>2. CASE UpsertSession(k)
    <3>1. /\ pool \in Pools
          /\ want.owner[k] = pool
          /\ polIdx[pool] # NoIdx
      BY <2>2 DEF UpsertSession, Stale, Members, ReconcilerInv, DeltaSound
    <3>. QED
      BY <2>2, <3>1, UnharmedPut, ReconcilerAssumption
      DEF UpsertSession, AddSession, SessionDone
  <2>. QED  BY <1>5, <2>1, <2>2
<1>6. ASSUME NEW k \in Keys, SweepSession(k) \/ DropSession(k)
      PROVE  Unharmed'
  <2>1. prev \in [Keys -> Pools \cup {NoPool}]
    BY <1>0 DEF TypeOK
  <2>. QED
    BY <1>6, <2>1, UnharmedDel
    DEF SweepSession, DropSession, DelSession, SessionDone, localVars
<1>7. CASE EndUpsert
  <2>1. /\ pc = "upSessions" /\ pc' = "next" /\ Dropped = {} /\ pool \in Pools
        /\ UNCHANGED <<vpol, vsess, polIdx, want, up, reconnect, prev, removing, upserting>>
    BY <1>7 DEF EndUpsert, PoolUpserted, vppVars, ReconcilerInv, DeltaSound
  <2>2. UnownedAtWork'
    BY <2>1, UnharmedPoolDone DEF Unharmed
  <2>3. /\ Dump' = Dump /\ ~InPass
        /\ \A p \in Pools : /\ HitsOwn(p)' <=> HitsOwn(p)
                            /\ HitsNone(p)' <=> HitsNone(p)
                            /\ IndexRight(p)' <=> IndexRight(p)
    BY <1>0, <2>1, DumpIs, SameHits DEF InPass
  <2>. QED
    BY <2>1, <2>2, <2>3 DEF Unharmed, CacheExact, PresentHit, AbsentUnhit
<1>8. CASE EndDelta
  <2>1. /\ pc = "next" /\ pc' = "idle" /\ AtWork = {} /\ ~InPass
        /\ UNCHANGED <<vpol, vsess, polIdx, want, up, reconnect>>
    BY <1>8 DEF EndDelta, BackToIdle, vppVars, AtWork, InPass
  <2>2. UnownedAtWork'
    BY <2>1 DEF Unharmed, UnownedAtWork
  <2>3. /\ Dump' = Dump
        /\ \A p \in Pools : /\ HitsOwn(p)' <=> HitsOwn(p)
                            /\ HitsNone(p)' <=> HitsNone(p)
                            /\ IndexRight(p)' <=> IndexRight(p)
    BY <1>0, <2>1, DumpIs, SameHits
  <2>. QED
    BY <2>1, <2>2, <2>3 DEF Unharmed, CacheExact, PresentHit, AbsentUnhit
<1>9. ASSUME UNCHANGED <<vpol, vsess, polIdx, want, up, reconnect, prev>>,
             InPass' <=> InPass, ~InPass => AtWork \subseteq AtWork'
      PROVE  Unharmed'
  BY <1>9, DumpIs, UnharmedMovesOn
<1>10. ASSUME NEW p \in Pools, NextPool(p)
       PROVE  Unharmed'
  <2>1. /\ UNCHANGED <<vpol, vsess, polIdx, want, up, reconnect, prev>>
        /\ InPass' <=> InPass
        /\ AtWork \subseteq AtWork'
    BY <1>10 DEF NextPool, vppVars, InPass, AtWork
  <2>. QED  BY <1>9, <2>1
<1>11. CASE StartSessions \/ UNCHANGED vars
            \/ \E m \in Masks : EnsureTable(m) \/ Attach(m) \/ UpsertTable(m)
  <2>1. /\ UNCHANGED <<vpol, vsess, polIdx, want, up, reconnect, prev>>
        /\ InPass' <=> InPass
        /\ ~InPass => AtWork \subseteq AtWork'
    BY <1>11 DEF StartSessions, EnsureTable, Attach, UpsertTable, SessionDone, vars,
       vppVars, localVars, InPass, AtWork
  <2>. QED  BY <1>9, <2>1
<1>12. \/ \E d \in Desired : TickPass(d)
       \/ \E p \in Pools : DeleteOrphan(p) \/ RecreateUnknown(p) \/ UpdateDrifted(p)
       \/ \E p \in Pools, i \in Idxs : AddMissing(p, i)
       \/ \E k \in Keys : SweepSession(k) \/ PutSession(k)
       \/ \E m \in Masks : EnsureTable(m) \/ Attach(m) \/ UpsertTable(m)
       \/ StartSessions \/ EndPass \/ EndUpsert \/ EndDelta
       \/ \E d \in Desired, rm, ups \in SUBSET Pools : StartDelta(d, rm, ups)
       \/ \E p \in Pools : NextPool(p)
       \/ \E k \in Keys : DropSession(k) \/ UpsertSession(k)
       \/ RemovePolicer
       \/ \E i \in Idxs : UpsertPolicer(i)
       \/ UNCHANGED vars
  BY <1>0, Steps DEF ReconnectPass, AddUnheard, DeleteUnheard, Unheard, CallFails,
     ReconnectNoPass,
     VppReconnect, VppCrash, VppFlap, AgentRestart
<1>. QED
  BY <1>1, <1>2, <1>3, <1>4, <1>5, <1>6, <1>7, <1>8, <1>10, <1>11, <1>12,
     UnharmedStartPass, UnharmedDeleteOrphan, UnharmedEndPass, UnharmedStartDelta,
     UnharmedRemovePolicer

\* The first mishap, whatever it is.
LEMMA FirstMishap ==
  ASSUME FixedHomes, ReconcilerInv, Unharmed, [Next]_vars, faults' # faults
  PROVE  HarmedOnce'
<1>0. TypeOK /\ up /\ ~reconnect /\ KnownRight /\ PresentHit
  BY DEF ReconcilerInv, Unharmed, CacheExact, KnownRight
<1>1. ASSUME UNCHANGED <<vpol, vsess>>, ~reconnect', polIdx' = polIdx \/ polIdx' = Unknown
      PROVE  HarmedOnce'
  <2>1. Dump' = Dump /\ PresentHit'
    BY <1>0, <1>1, DumpIs DEF PresentHit, HitsOwn
  <2>2. KnownRight'
    BY <1>0, <1>1, <2>1 DEF KnownRight, IndexRight, Unknown
  <2>. QED  BY <1>1, <2>1, <2>2 DEF HarmedOnce, SignalIdle, UnknownHit, AwayHit, PresentHit
<1>2. CASE CallFails \/ VppFlap \/ AgentRestart
  BY <1>0, <1>1, <1>2 DEF CallFails, VppFlap, AgentRestart, vppVars
<1>3. CASE VppCrash
  <2>1. vpol' = [i \in Idxs |-> Free] /\ ~reconnect'
    BY <1>0, <1>3 DEF VppCrash
  <2>2. \A i \in Idxs : vpol'[i].name = NoPool
    BY <2>1 DEF Free
  <2>3. vpol' \in Slots
    BY <2>1 DEF Slots
  <2>4. \A p \in Pools : Dump'[p] = NoSpec
    BY <2>2, <2>3, DumpIs, DumpedIsThere, ReconcilerAssumption
  <2>. QED
    BY <2>1, <2>4 DEF HarmedOnce, SignalIdle, KnownRight, UnknownHit, AwayHit, PresentHit
<1>4. ASSUME NEW p \in Pools, NEW i \in Idxs, AddUnheard(p, i)
      PROVE  HarmedOnce'
  <2>1. /\ PolicerAdd(i, p, want.spec[p])
        /\ UNCHANGED <<vsess, polIdx, reconnect>>
        /\ pc' = "idle"
    BY <1>4 DEF AddUnheard, Unheard, BackToIdle
  <2>2. p \in Wanted(want) /\ want.spec[p] \in Specs
    BY <1>0, <1>4, WantedSpec
    DEF AddUnheard, Converging, Orphans, Wanted, ReconcilerInv, DeltaSound
  <2>3. /\ Dump[p] = NoSpec
        /\ Dump'[p] # NoSpec
        /\ HitsNone(p) => HitsOwn(p)'
    BY <2>1, <2>2, AddHits
  <2>4. polIdx'[p] = NoIdx /\ HitsOwn(p)'
    <3>1. pc \in {"policers", "upPolicer"}
      BY <1>4 DEF AddUnheard, Converging
    <3>. QED  BY <2>1, <2>2, <2>3, <3>1 DEF Unharmed, CacheExact, AbsentUnhit
  <2>5. ASSUME NEW q \in Pools, q # p
        PROVE  /\ Dump'[q] = Dump[q]
               /\ polIdx'[q] = polIdx[q]
               /\ HitsOwn(q) => HitsOwn(q)'
               /\ IndexRight(q) => IndexRight(q)'
    BY <2>1, <2>2, <2>5, AddHits
  <2>6. KnownRight'
    BY <1>0, <2>4, <2>5 DEF KnownRight
  <2>7. PresentHit'
    BY <1>0, <2>4, <2>5 DEF PresentHit
  <2>. QED
    BY <1>0, <2>1, <2>6, <2>7 DEF HarmedOnce, SignalIdle, UnknownHit, AwayHit, PresentHit
<1>6. ASSUME NEW p \in Pools, DeleteUnheard(p)
      PROVE  HarmedOnce'
  <2>1. /\ DeleteByName(p)
        /\ UNCHANGED <<vsess, polIdx, reconnect>>
        /\ pc' = "idle"
    BY <1>6 DEF DeleteUnheard, Unheard, BackToIdle
  <2>2. Dump'[p] = NoSpec
    BY <1>0, <2>1, PolicerDeleted DEF ReconcilerInv, VppSound
  <2>3. ASSUME NEW q \in Pools, q # p
        PROVE  /\ Dump'[q] = Dump[q]
               /\ polIdx'[q] = polIdx[q]
               /\ HitsOwn(q) => HitsOwn(q)'
               /\ IndexRight(q) => IndexRight(q)'
    BY <2>1, <2>3, DeleteHits
  <2>4. KnownRight' /\ PresentHit'
    BY <1>0, <2>2, <2>3 DEF KnownRight, PresentHit
  <2>. QED
    BY <1>0, <2>1, <2>4 DEF HarmedOnce, SignalIdle, UnknownHit, AwayHit, PresentHit
<1>5. \/ CallFails \/ VppFlap \/ AgentRestart \/ VppCrash
      \/ \E p \in Pools, i \in Idxs : AddUnheard(p, i)
      \/ \E p \in Pools : DeleteUnheard(p)
  BY <1>0, Steps DEF TickPass, ReconnectPass, StartPass, DeleteOrphan,
     RecreateUnknown, UpdateDrifted, AddMissing, PolicerDone, SweepSession,
     PutSession, SessionDone, EnsureTable, Attach, UpsertTable, StartSessions,
     EndPass, EndUpsert, EndDelta, StartDelta, NextPool, DropSession,
     UpsertSession, RemovePolicer, UpsertPolicer, ReconnectNoPass, VppReconnect, vars
<1>. QED  BY <1>2, <1>3, <1>4, <1>5, <1>6

\* After it, steps that only move on.
LEMMA HarmedMovesOn ==
  ASSUME ReconcilerInv, HarmedOnce,
         \A i \in Idxs : vpol'[i].name = vpol[i].name,
         \A p \in Pools : Dump'[p] = NoSpec <=> Dump[p] = NoSpec,
         UNCHANGED <<vsess, polIdx>>, SignalIdle',
         ~up' \/ (reconnect' /\ pc' = "idle") => ~up \/ (reconnect /\ pc = "idle")
  PROVE  HarmedOnce'
<1>1. \A p \in Pools : (HitsOwn(p)' <=> HitsOwn(p)) /\ (IndexRight(p)' <=> IndexRight(p))
  BY SameHits DEF ReconcilerInv
<1>2. KnownRight' /\ UnknownHit'
  BY <1>1 DEF HarmedOnce, KnownRight, UnknownHit
<1>3. PresentHit' <=> PresentHit
  BY <1>1 DEF PresentHit
<1>. QED  BY <1>2, <1>3 DEF HarmedOnce, AwayHit

\* A pass that starts re-learns right indexes only, with the cache that it finds or,
\* after a reconnect, without one.
LEMMA HarmedStartPass ==
  ASSUME ReconcilerInv, NEW known \in [Pools -> Idxs \cup {NoIdx}], NEW d \in Desired,
         StartPass(known, d),
         \A p \in Pools : Dump[p] # NoSpec => IF known[p] = NoIdx THEN HitsOwn(p)
                                              ELSE vpol[known[p]].name = p
  PROVE  HarmedOnce'
<1>1. /\ up' /\ pc' = "policers"
      /\ polIdx' \in Relearned(known, d)
      /\ UNCHANGED <<vpol, vsess>>
  BY DEF StartPass, vppVars
<1>2. Dump' = Dump
  BY <1>1, DumpIs
<1>3. ASSUME NEW p \in Pools
      PROVE  \/ polIdx'[p] = known[p]
             \/ known[p] = NoIdx /\ polIdx'[p] \in InstalledHits(d, p)
  BY <1>1 DEF Relearned
<1>4. ASSUME NEW p \in Pools, Dump'[p] # NoSpec, polIdx'[p] # NoIdx
      PROVE  IndexRight(p)'
  <2>1. CASE polIdx'[p] = known[p]
    BY <1>1, <1>2, <1>4, <2>1 DEF IndexRight
  <2>2. CASE known[p] = NoIdx /\ polIdx'[p] \in InstalledHits(d, p)
    <3>1. PICK k \in Keys : d.owner[k] = p /\ polIdx'[p] = vsess[k] /\ vsess[k] # NoIdx
      BY <2>2 DEF InstalledHits, Members
    <3>2. p \in Homes[k]
      BY <3>1, ReconcilerAssumption DEF Desired
    <3>3. HitsOwn(p)
      BY <1>2, <1>4, <2>2
    <3>. QED  BY <1>1, <3>1, <3>2, <3>3 DEF HitsOwn, IndexRight
  <2>. QED  BY <1>3, <2>1, <2>2
<1>5. ASSUME NEW p \in Pools, Dump'[p] # NoSpec, polIdx'[p] = NoIdx
      PROVE  HitsOwn(p)'
  <2>1. known[p] = NoIdx
    BY <1>1, <1>5 DEF Relearned
  <2>2. HitsOwn(p)
    BY <1>2, <1>5, <2>1
  <2>. QED  BY <1>1, <2>2 DEF HitsOwn
<1>. QED
  BY <1>1, <1>4, <1>5
  DEF HarmedOnce, SignalIdle, KnownRight, UnknownHit, AwayHit, InPass

LEMMA HarmedDelete ==
  ASSUME ReconcilerInv, HarmedOnce, NEW p \in Pools, DeleteByName(p),
         \A q \in Pools : q # p => polIdx'[q] = polIdx[q],
         UNCHANGED <<vsess, up, reconnect>>, pc' # "idle", SignalIdle'
  PROVE  HarmedOnce'
<1>1. Dump'[p] = NoSpec /\ up'
  BY PolicerDeleted DEF ReconcilerInv, VppSound, DeleteByName
<1>2. ASSUME NEW q \in Pools, q # p
      PROVE  /\ Dump'[q] = Dump[q]
             /\ polIdx'[q] = polIdx[q]
             /\ HitsOwn(q) => HitsOwn(q)'
             /\ IndexRight(q) => IndexRight(q)'
  BY <1>2, DeleteHits
<1>3. KnownRight' /\ UnknownHit'
  BY <1>1, <1>2 DEF HarmedOnce, KnownRight, UnknownHit
<1>. QED  BY <1>1, <1>3 DEF HarmedOnce, AwayHit

LEMMA HarmedAdd ==
  ASSUME ReconcilerInv, HarmedOnce, NEW p \in Wanted(want), NEW i \in Idxs,
         PolicerAdd(i, p, want.spec[p]), polIdx' = [polIdx EXCEPT ![p] = i],
         UNCHANGED <<vsess, up, reconnect>>, pc' # "idle", SignalIdle'
  PROVE  HarmedOnce'
<1>1. /\ p \in Pools
      /\ want.spec[p] \in Specs
      /\ polIdx \in [Pools -> Idxs \cup {NoIdx}]
  BY WantedSpec DEF ReconcilerInv, TypeOK
<1>2. vpol'[i].name = p /\ polIdx'[p] = i /\ i # NoIdx /\ up'
  BY <1>1, AddHits, ReconcilerAssumption DEF PolicerAdd
<1>3. ASSUME NEW q \in Pools, q # p
      PROVE  /\ Dump'[q] = Dump[q]
             /\ polIdx'[q] = polIdx[q]
             /\ HitsOwn(q) => HitsOwn(q)'
             /\ IndexRight(q) => IndexRight(q)'
  <2>1. polIdx'[q] = polIdx[q]
    BY <1>1, <1>3
  <2>. QED  BY <1>1, <1>3, <2>1, AddHits
<1>4. IndexRight(p)'
  BY <1>2 DEF IndexRight
<1>5. KnownRight'
  BY <1>3, <1>4 DEF HarmedOnce, KnownRight
<1>6. UnknownHit'
  BY <1>2, <1>3 DEF HarmedOnce, UnknownHit
<1>. QED  BY <1>2, <1>5, <1>6 DEF HarmedOnce, AwayHit

\* The session of a member whose pool's index is known, or one that is deleted.
LEMMA HarmedPut ==
  ASSUME FixedHomes, ReconcilerInv, HarmedOnce, up, pc # "idle", NEW k \in Keys, NEW i,
         vsess' = [vsess EXCEPT ![k] = i],
         i = NoIdx \/ (want.owner[k] # NoPool /\ polIdx[want.owner[k]] # NoIdx),
         UNCHANGED <<vpol, polIdx, up, reconnect, pc>>
  PROVE  HarmedOnce'
<1>1. Dump' = Dump /\ TypeOK
  BY DumpIs DEF ReconcilerInv
<1>2. KnownRight'
  BY <1>1 DEF HarmedOnce, KnownRight, IndexRight
<1>3. ASSUME NEW q \in Pools, Dump[q] # NoSpec, polIdx[q] = NoIdx
      PROVE  HitsOwn(q)'
  <2>1. q \in Homes[k] => i = NoIdx
    BY <1>1, <1>3, OneHome
  <2>. QED  BY <1>1, <1>3, <2>1, PutHits DEF HarmedOnce, UnknownHit
<1>4. UnknownHit'
  BY <1>1, <1>3 DEF UnknownHit
<1>. QED  BY <1>2, <1>4 DEF HarmedOnce, SignalIdle, AwayHit, InPass

LEMMA HarmedStays ==
  ASSUME FixedHomes, ReconcilerInv, DoneIsKnown, HarmedOnce, [Next]_vars, faults' = faults
  PROVE  HarmedOnce'
<1>0. /\ TypeOK /\ faults + 1 # faults
      /\ polIdx \in [Pools -> Idxs \cup {NoIdx}]
      /\ SignalIdle
  BY DEF ReconcilerInv, TypeOK, HarmedOnce
<1>1. ASSUME NEW d \in Desired, TickPass(d)
      PROVE  HarmedOnce'
  BY <1>0, <1>1, HarmedStartPass
  DEF TickPass, HarmedOnce, KnownRight, UnknownHit, IndexRight
<1>2. ASSUME NEW d \in Desired, ReconnectPass(d)
      PROVE  HarmedOnce'
  <2>1. PresentHit
    BY <1>2 DEF ReconnectPass, StartPass, HarmedOnce, AwayHit
  <2>2. Unknown \in [Pools -> Idxs \cup {NoIdx}] /\ \A p \in Pools : Unknown[p] = NoIdx
    BY DEF Unknown
  <2>. QED  BY <1>2, <2>1, <2>2, HarmedStartPass DEF ReconnectPass, PresentHit
<1>3. CASE ReconnectNoPass
  <2>1. PresentHit /\ up /\ pc = "idle"
    BY <1>0, <1>3 DEF ReconnectNoPass, HarmedOnce, AwayHit, SignalIdle
  <2>2. /\ \A p \in Pools : polIdx'[p] = NoIdx
        /\ ~reconnect'
        /\ UNCHANGED <<vpol, vsess, up>>
    BY <1>3 DEF ReconnectNoPass, Unknown, vppVars
  <2>3. Dump' = Dump /\ PresentHit'
    BY <2>1, <2>2, DumpIs DEF PresentHit, HitsOwn
  <2>. QED
    BY <2>2, <2>3 DEF HarmedOnce, SignalIdle, KnownRight, UnknownHit, AwayHit, PresentHit
<1>4. ASSUME NEW p \in Pools, DeleteOrphan(p) \/ RecreateUnknown(p)
      PROVE  HarmedOnce'
  <2>1. /\ pc = "policers" /\ pc' = "policers"
        /\ DeleteByName(p)
        /\ \A q \in Pools : q # p => polIdx'[q] = polIdx[q]
        /\ UNCHANGED <<vsess, up, reconnect>>
    BY <1>0, <1>4 DEF DeleteOrphan, RecreateUnknown, Converging, PolicerDone
  <2>. QED  BY <1>0, <2>1, HarmedDelete DEF SignalIdle, InPass
<1>5. ASSUME NEW p \in Pools, NEW i \in Idxs, AddMissing(p, i)
      PROVE  HarmedOnce'
  <2>1. /\ pc = "policers" /\ pc' = "policers"
        /\ p \in Wanted(want)
        /\ UNCHANGED <<vsess, up, reconnect>>
    BY <1>5 DEF AddMissing, Converging, Orphans, Wanted, PolicerDone
  <2>. QED  BY <1>0, <1>5, <2>1, HarmedAdd DEF AddMissing, SignalIdle, InPass
<1>6. ASSUME NEW p \in Pools, UpdateDrifted(p)
      PROVE  HarmedOnce'
  <2>1. /\ polIdx[p] \in Idxs
        /\ want.spec[p] \in Specs
        /\ PolicerUpdate(polIdx[p], want.spec[p])
        /\ UNCHANGED <<vsess, polIdx, up, reconnect, pc>>
    BY <1>0, <1>6, WantedSpec DEF UpdateDrifted, Converging, Orphans, PolicerDone
  <2>. QED
    BY <1>0, <2>1, PolicerUpdated, HarmedMovesOn
    DEF ReconcilerInv, VppSound, SignalIdle, InPass
<1>7. ASSUME NEW i \in Idxs, UpsertPolicer(i)
      PROVE  HarmedOnce'
  <2>1. /\ pc = "upPolicer" /\ pc' = "upSessions"
        /\ pool \in Wanted(want) /\ want.spec[pool] \in Specs
        /\ ~reconnect
        /\ UNCHANGED <<vsess, up, reconnect>>
    BY <1>0, <1>7, WantedSpec
    DEF UpsertPolicer, ReconcilerInv, DeltaSound, SignalIdle, InPass
  <2>2. CASE PolicerAdd(i, pool, want.spec[pool]) /\ polIdx' = [polIdx EXCEPT ![pool] = i]
    BY <2>1, <2>2, HarmedAdd DEF SignalIdle
  <2>3. CASE PolicerUpdate(i, want.spec[pool]) /\ UNCHANGED polIdx
    BY <1>0, <2>1, <2>3, PolicerUpdated, HarmedMovesOn
    DEF ReconcilerInv, VppSound, SignalIdle
  <2>. QED  BY <1>7, <2>2, <2>3 DEF UpsertPolicer
<1>8. ASSUME RemovePolicer
      PROVE  HarmedOnce'
  <2>1. /\ pc = "rmPool" /\ pc' = "next"
        /\ pool \in Pools
        /\ ~reconnect
        /\ UNCHANGED <<vsess, up, reconnect>>
    BY <1>0, <1>8 DEF RemovePolicer, ReconcilerInv, DeltaSound, SignalIdle, InPass
  <2>2. CASE UNCHANGED <<vpol, polIdx>>
    BY <2>1, <2>2, DumpIs, HarmedMovesOn DEF SignalIdle
  <2>3. CASE DeleteByName(pool) /\ polIdx' = [polIdx EXCEPT ![pool] = NoIdx]
    BY <1>0, <2>1, <2>3, HarmedDelete DEF SignalIdle
  <2>. QED  BY <1>8, <2>2, <2>3 DEF RemovePolicer
<1>9. ASSUME NEW k \in Keys, SweepSession(k) \/ DropSession(k)
      PROVE  HarmedOnce'
  BY <1>9, HarmedPut DEF SweepSession, DropSession, DelSession, SessionDone, localVars
<1>10. ASSUME NEW k \in Keys, PutSession(k)
       PROVE  HarmedOnce'
  <2>1. want.owner[k] # NoPool /\ polIdx[want.owner[k]] # NoIdx
    BY <1>10 DEF PutSession, StaleSession, ReconcilerInv, PhasesInOrder, IndexMissing
  <2>. QED  BY <1>10, <2>1, HarmedPut DEF PutSession, AddSession, SessionDone, localVars
<1>11. ASSUME NEW k \in Keys, UpsertSession(k)
       PROVE  HarmedOnce'
  <2>1. want.owner[k] = pool /\ pool # NoPool /\ polIdx[pool] # NoIdx
    BY <1>11, ReconcilerAssumption
    DEF UpsertSession, Stale, Members, ReconcilerInv, DeltaSound
  <2>. QED
    BY <1>11, <2>1, HarmedPut DEF UpsertSession, AddSession, SessionDone, localVars
<1>12. CASE EndPass
  <2>1. /\ PassSucceeds /\ up
        /\ pc' = "idle"
        /\ UNCHANGED <<vpol, vsess, polIdx, up, reconnect>>
    BY <1>12 DEF EndPass, PassSucceeds, vppVars
  <2>2. PresentHit
    BY <2>1, SucceededHits DEF HarmedOnce
  <2>3. Dump' = Dump /\ PresentHit'
    BY <2>1, <2>2, DumpIs DEF PresentHit, HitsOwn
  <2>4. KnownRight' /\ UnknownHit'
    BY <2>1, <2>3 DEF HarmedOnce, KnownRight, UnknownHit, IndexRight, HitsOwn
  <2>. QED  BY <1>0, <2>1, <2>3, <2>4 DEF HarmedOnce, SignalIdle, AwayHit
<1>13. CASE CallFails
  <2>1. /\ pc' = "idle" /\ pc # "idle"
        /\ UNCHANGED <<vpol, vsess, polIdx, up, reconnect>>
        /\ ~up \/ Refused
    BY <1>0, <1>13 DEF CallFails, BackToIdle, vppVars
  <2>2. ~reconnect
    BY <1>0, <2>1, PassNotRefused DEF HarmedOnce, SignalIdle
  <2>. QED  BY <2>1, <2>2, DumpIs, HarmedMovesOn DEF SignalIdle
<1>14. CASE VppReconnect
  BY <1>14, DumpIs, HarmedMovesOn DEF VppReconnect, SignalIdle, vppVars, localVars
<1>15. ASSUME UNCHANGED <<vpol, vsess, polIdx, up, reconnect>>,
              \/ ~reconnect
              \/ pc' = pc
              \/ InPass /\ InPass'
       PROVE  HarmedOnce'
  BY <1>0, <1>15, DumpIs, HarmedMovesOn DEF SignalIdle, InPass
<1>16. CASE EndUpsert \/ EndDelta \/ \E p \in Pools : NextPool(p)
  <2>1. ~reconnect /\ UNCHANGED <<vpol, vsess, polIdx, up, reconnect>>
    BY <1>0, <1>16
    DEF EndUpsert, PoolUpserted, EndDelta, NextPool, vppVars, SignalIdle, InPass
  <2>. QED  BY <1>15, <2>1
<1>17. ASSUME NEW d \in Desired, NEW rm \in SUBSET Pools, NEW ups \in SUBSET Pools,
              StartDelta(d, rm, ups)
       PROVE  HarmedOnce'
  BY <1>0, <1>15, <1>17 DEF StartDelta, vppVars
<1>18. CASE StartSessions \/ UNCHANGED vars
            \/ \E m \in Masks : EnsureTable(m) \/ Attach(m) \/ UpsertTable(m)
  <2>1. /\ UNCHANGED <<vpol, vsess, polIdx, up, reconnect>>
        /\ pc' = pc \/ (InPass /\ InPass')
    BY <1>18 DEF StartSessions, EnsureTable, Attach, UpsertTable, SessionDone, vars,
       vppVars, localVars, InPass
  <2>. QED  BY <1>15, <2>1
<1>19. /\ ~VppCrash /\ ~VppFlap /\ ~AgentRestart
       /\ ~\E p \in Pools, i \in Idxs : AddUnheard(p, i)
       /\ ~\E p \in Pools : DeleteUnheard(p)
  BY <1>0 DEF VppCrash, VppFlap, AgentRestart, AddUnheard, DeleteUnheard, Unheard
<1>. QED
  BY <1>1, <1>2, <1>3, <1>4, <1>5, <1>6, <1>7, <1>8, <1>9, <1>10, <1>11, <1>12,
     <1>13, <1>14, <1>16, <1>17, <1>18, <1>19, Steps

\* However far it got.
LEMMA FaultsGrow == ReconcilerInv /\ [Next]_vars => faults' \in {faults, faults + 1}
BY Steps DEF TickPass, ReconnectPass, StartPass, DeleteOrphan, RecreateUnknown,
   UpdateDrifted, AddMissing, PolicerDone, AddUnheard, DeleteUnheard, Unheard,
   SweepSession, PutSession, SessionDone, EnsureTable, Attach, UpsertTable, StartSessions, EndPass, EndUpsert,
   EndDelta, CallFails, StartDelta, NextPool, DropSession, UpsertSession,
   RemovePolicer, UpsertPolicer, ReconnectNoPass, VppReconnect, VppCrash, VppFlap,
   AgentRestart, vars

LEMMA HealStep == ReconcilerInv /\ HealInv /\ [Next]_vars => HealInv'
<1>. SUFFICES ASSUME ReconcilerInv, HealInv, [Next]_vars, FixedHomes
              PROVE  /\ faults' = 0 => Unharmed'
                     /\ faults' = 1 => HarmedOnce'
                     /\ DoneIsKnown'
  BY DEF HealInv
<1>1. /\ faults \in Nat
      /\ faults' \in {faults, faults + 1}
      /\ faults = 0 => Unharmed
      /\ faults = 1 => HarmedOnce
      /\ DoneIsKnown
  BY FaultsGrow, ReconcilerAssumption DEF HealInv, ReconcilerInv, TypeOK
<1>2. DoneIsKnown'
  BY <1>1, DoneStaysKnown
<1>3. faults' = 0 => Unharmed'
  BY <1>1, UnharmedStays
<1>4. faults' = 1 => HarmedOnce'
  BY <1>1, FirstMishap, HarmedStays
<1>. QED  BY <1>2, <1>3, <1>4

LEMMA HealInit == Init => HealInv
<1>. SUFFICES ASSUME Init PROVE HealInv
  OBVIOUS
<1>1. /\ faults = 0 /\ pc = "idle" /\ up /\ ~reconnect
      /\ \A k \in Keys : vsess[k] = NoIdx
      /\ \A p \in Pools : polIdx[p] = NoIdx
      /\ vpol \in Slots
      /\ \A i \in Idxs : vpol[i].name = NoPool
  BY DEF Init, EmptyLocals, EmptyVpp, Unknown, Slots, Free
<1>2. \A p \in Pools : Dump[p] = NoSpec
  BY <1>1, DumpIs, DumpedIsThere, ReconcilerAssumption
<1>3. Unharmed
  BY <1>1, <1>2 DEF Unharmed, CacheExact, PresentHit, AbsentUnhit, UnownedAtWork, HitsNone
<1>4. DoneIsKnown
  BY <1>1 DEF DoneIsKnown, InPass
<1>. QED  BY <1>1, <1>3, <1>4 DEF HealInv

\* A pass that succeeds in a life with at most one mishap leaves VPP as desired
\* (PassHeals), for any number of pools, members, indexes and changes: one failed
\* call, lost reply, restart or flap is healed, if no member ever changes its
\* pool and no delta is taken ahead of the reconnect signal.
THEOREM OneMishapIsHealed == Spec => []PassHeals
<1>1. Spec => []HealInv
  BY HealInit, HealStep, AlwaysSound, PTL DEF Spec
<1>2. ReconcilerInv /\ HealInv => PassHeals
  <2>. SUFFICES ASSUME ReconcilerInv, HealInv, FixedHomes, PassSucceeds, faults <= 1
                PROVE  Matches
    BY DEF PassHeals
  <2>1. DoneIsKnown /\ KnownRight
    <3>1. faults = 0 \/ faults = 1
      BY ReconcilerAssumption DEF ReconcilerInv, TypeOK
    <3>. QED  BY <3>1 DEF HealInv, Unharmed, HarmedOnce, CacheExact, KnownRight
  <2>2. /\ \A k \in Keys : want.owner[k] = NoPool => vsess[k] = NoIdx
        /\ \A p \in Wanted(want) : IndexRight(p)
    BY <2>1, SucceededHits
  <2>3. /\ WantedMasks(want) \subseteq attached
        /\ Dump = want.spec
        /\ \A k \in Owned(want) : Policed(k)
    BY <2>2, SoundPassCovers DEF PassCovers
  <2>. QED  BY <2>2, <2>3 DEF Matches, Owned
<1>. QED  BY <1>1, <1>2, AlwaysSound, PTL

-----------------------------------------------------------------------------
(***************************************************************************)
(* The attested counts.                                                    *)
(***************************************************************************)

\* One element more, one less, or the same.
LEMMA OneMore ==
  ASSUME NEW S, IsFiniteSet(S), NEW A \in SUBSET S, NEW B \in SUBSET S,
         NEW x \in S, x \notin A, B = A \cup {x}
  PROVE  Cardinality(A) \in Nat /\ Cardinality(B) = Cardinality(A) + 1
<1>1. IsFiniteSet(A)
  BY FS_Subset
<1>. QED  BY <1>1, FS_AddElement, FS_CardinalityType

LEMMA OneLess ==
  ASSUME NEW S, IsFiniteSet(S), NEW A \in SUBSET S, NEW B \in SUBSET S,
         NEW x \in A, B = A \ {x}
  PROVE  Cardinality(A) \in Nat /\ Cardinality(B) = Cardinality(A) - 1
<1>1. IsFiniteSet(A)
  BY FS_Subset
<1>. QED  BY <1>1, FS_RemoveElement, FS_CardinalityType

UsedSlots == {i \in Idxs : vpol[i] # Free}
UsedKeys == {k \in Keys : vsess[k] # NoIdx}

LEMMA CountsAre ==
  /\ PolicersIn = Cardinality(UsedSlots) /\ PolicersIn \in Nat
  /\ SessionsIn = Cardinality(UsedKeys) /\ SessionsIn \in Nat
  /\ PolicersIn' = Cardinality(UsedSlots')
  /\ SessionsIn' = Cardinality(UsedKeys')
<1>1. UsedSlots \subseteq Idxs /\ UsedKeys \subseteq Keys
  BY DEF UsedSlots, UsedKeys
<1>2. IsFiniteSet(UsedSlots) /\ IsFiniteSet(UsedKeys)
  BY <1>1, CountAssumption, FS_Subset
<1>3. Cardinality(UsedSlots) \in Nat /\ Cardinality(UsedKeys) \in Nat
  BY <1>2, FS_CardinalityType
<1>. QED  BY <1>3 DEF PolicersIn, SessionsIn, UsedSlots, UsedKeys

\* The counting steps are steps of the reconciler.
LEMMA CountingIsReconciling == CountSpec => Spec
<1>1. CountInit => Init
  BY DEF CountInit
<1>2. [CountNext]_<<vars, act>> => [Next]_vars
  BY DEF CountNext, CountedPass, CountedDelta, Uncounted, Still, Next, Pass, Delta
<1>. QED  BY <1>1, <1>2, PTL DEF CountSpec, Spec

\* A call that changes both counts by what Adjust says keeps them exact.
LEMMA AdjustSound ==
  ASSUME CountsFollow, NEW dp \in Int, NEW ds \in Int, Adjust(dp, ds), ~InPass',
         PolicersIn' = PolicersIn + dp, SessionsIn' = SessionsIn + ds
  PROVE  CountsFollow'
<1>1. CASE act = NoCounts
  BY <1>1 DEF Adjust, CountsFollow
<1>2. CASE act # NoCounts
  <2>1. act' = [pol |-> act.pol + dp, sess |-> act.sess + ds]
    BY <1>2 DEF Adjust
  <2>2. act.pol = PolicersIn /\ act.sess = SessionsIn
    BY <1>2 DEF CountsFollow
  <2>3. act' = [pol |-> PolicersIn', sess |-> SessionsIn']
    BY <2>1, <2>2
  <2>. QED  BY <2>3 DEF CountsFollow
<1>. QED  BY <1>1, <1>2

LEMMA DropCount ==
  ASSUME ReconcilerInv, CountsFollow, NEW k \in Keys, vsess[k] # NoIdx,
         DropSession(k), Adjust(0, -1)
  PROVE  CountsFollow'
<1>1. /\ pc' \in {"rmPool", "upSessions"}
      /\ vsess' = [vsess EXCEPT ![k] = NoIdx]
      /\ vpol' = vpol
      /\ vsess \in [Keys -> Idxs \cup {NoIdx}]
  BY DEF DropSession, DelSession, ReconcilerInv, TypeOK
<1>2. UsedKeys' = UsedKeys \ {k} /\ UsedSlots' = UsedSlots
  BY <1>1 DEF UsedKeys, UsedSlots
<1>3. UsedKeys \in SUBSET Keys /\ UsedKeys' \in SUBSET Keys /\ k \in UsedKeys
  BY DEF UsedKeys
<1>4. Cardinality(UsedKeys') = Cardinality(UsedKeys) - 1
  BY <1>2, <1>3, CountAssumption, OneLess
<1>5. PolicersIn' = PolicersIn + 0 /\ SessionsIn' = SessionsIn + (-1)
  BY <1>2, <1>4, CountsAre
<1>6. ~InPass'
  BY <1>1 DEF InPass
<1>. QED  BY <1>5, <1>6, AdjustSound

LEMMA UpsertCount ==
  ASSUME ReconcilerInv, CountsFollow, NEW k \in Keys, UpsertSession(k),
         Adjust(0, AddsOne(k))
  PROVE  CountsFollow'
<1>1. /\ pc = "upSessions"
      /\ pc' = pc
      /\ vsess' = [vsess EXCEPT ![k] = polIdx[pool]]
      /\ vpol' = vpol
      /\ vsess \in [Keys -> Idxs \cup {NoIdx}]
      /\ polIdx[pool] # NoIdx
  BY DEF UpsertSession, AddSession, SessionDone, localVars, ReconcilerInv, TypeOK,
     DeltaSound
<1>2. UsedKeys' = UsedKeys \cup {k} /\ UsedSlots' = UsedSlots
  BY <1>1 DEF UsedKeys, UsedSlots
<1>3. UsedKeys \in SUBSET Keys /\ UsedKeys' \in SUBSET Keys
  BY DEF UsedKeys
<1>4. SessionsIn' = SessionsIn + AddsOne(k) /\ AddsOne(k) \in Int
  <2>1. CASE vsess[k] = NoIdx
    <3>1. k \notin UsedKeys
      BY <2>1 DEF UsedKeys
    <3>2. Cardinality(UsedKeys') = Cardinality(UsedKeys) + 1
      BY <1>2, <1>3, <3>1, CountAssumption, OneMore
    <3>. QED  BY <2>1, <3>2, CountsAre DEF AddsOne
  <2>2. CASE vsess[k] # NoIdx
    <3>1. UsedKeys' = UsedKeys
      BY <1>2, <2>2 DEF UsedKeys
    <3>. QED  BY <2>2, <3>1, CountsAre DEF AddsOne
  <2>. QED  BY <2>1, <2>2
<1>5. PolicersIn' = PolicersIn + 0
  BY <1>2, CountsAre
<1>6. ~InPass'
  BY <1>1 DEF InPass
<1>. QED  BY <1>4, <1>5, <1>6, AdjustSound

LEMMA RemoveCount ==
  ASSUME ReconcilerInv, CountsFollow, RemovePolicer,
         Adjust(IF polIdx[pool] = NoIdx THEN 0 ELSE -1, 0)
  PROVE  CountsFollow'
<1>1. /\ pc = "rmPool"
      /\ pc' = "next"
      /\ vsess' = vsess
      /\ pool \in Pools
      /\ TypeOK
      /\ OneSlotEach(vpol)
      /\ vpol \in Slots
  BY DEF RemovePolicer, ReconcilerInv, TypeOK, DeltaSound, VppSound, Slots
<1>2. SessionsIn' = SessionsIn + 0 /\ ~InPass'
  BY <1>1, CountsAre DEF UsedKeys, InPass
<1>3. CASE polIdx[pool] = NoIdx
  <2>1. UNCHANGED vpol /\ Adjust(0, 0)
    BY <1>3 DEF RemovePolicer
  <2>2. PolicersIn' = PolicersIn + 0
    BY <2>1, CountsAre DEF UsedSlots
  <2>. QED  BY <1>2, <2>1, <2>2, AdjustSound
<1>4. CASE polIdx[pool] # NoIdx
  <2>1. DeleteByName(pool) /\ Adjust(-1, 0)
    BY <1>4 DEF RemovePolicer
  <2>2. SpecOf(vpol, pool) # NoSpec
    BY <1>1, <2>1, DumpIs DEF DeleteByName
  <2>3. PICK i \in Idxs : vpol[i].name = pool
    BY <1>1, <2>2, DumpedIsThere
  <2>4. \A j \in Idxs : vpol[j].name = pool => j = i
    BY <1>1, <2>3, ReconcilerAssumption DEF OneSlotEach
  <2>5. vpol' = [j \in Idxs |-> IF vpol[j].name = pool THEN Free ELSE vpol[j]]
    BY <2>1 DEF DeleteByName
  <2>6. i \in UsedSlots
    BY <1>1, <2>3, SlotShape, ReconcilerAssumption DEF UsedSlots
  <2>7. UsedSlots' = UsedSlots \ {i}
    BY <2>3, <2>4, <2>5 DEF UsedSlots
  <2>8. UsedSlots \in SUBSET Idxs /\ UsedSlots' \in SUBSET Idxs
    BY DEF UsedSlots
  <2>9. Cardinality(UsedSlots') = Cardinality(UsedSlots) - 1
    BY <2>6, <2>7, <2>8, CountAssumption, OneLess
  <2>10. PolicersIn' = PolicersIn + (-1)
    BY <2>9, CountsAre
  <2>. QED  BY <1>2, <2>1, <2>10, AdjustSound
<1>. QED  BY <1>3, <1>4

LEMMA UpsertPolicerCount ==
  ASSUME ReconcilerInv, CountsFollow, NEW i \in Idxs, UpsertPolicer(i),
         Adjust(IF polIdx[pool] = NoIdx THEN 1 ELSE 0, 0)
  PROVE  CountsFollow'
<1>1. /\ pc = "upPolicer"
      /\ pc' = "upSessions"
      /\ vsess' = vsess
      /\ pool \in Wanted(want)
      /\ TypeOK
      /\ OneSlotEach(vpol)
      /\ vpol \in Slots
  BY DEF UpsertPolicer, ReconcilerInv, TypeOK, DeltaSound, VppSound, Slots
<1>2. SessionsIn' = SessionsIn + 0 /\ ~InPass'
  BY <1>1, CountsAre DEF UsedKeys, InPass
<1>3. pool \in Pools /\ want.spec[pool] \in Specs
  BY <1>1, WantedSpec
<1>4. UsedSlots \in SUBSET Idxs /\ UsedSlots' \in SUBSET Idxs
  BY DEF UsedSlots
<1>5. CASE polIdx[pool] = NoIdx
  <2>1. PolicerAdd(i, pool, want.spec[pool]) /\ Adjust(1, 0)
    BY <1>5, ReconcilerAssumption DEF UpsertPolicer
  <2>2. /\ vpol' \in Slots
        /\ vpol[i] = Free
        /\ vpol'[i] = [name |-> pool, spec |-> want.spec[pool]]
        /\ \A j \in Idxs \ {i} : vpol'[j] = vpol[j]
    BY <1>1, <1>3, <2>1, PolicerAdded
  <2>3. vpol'[i] # Free
    BY <1>3, <2>2, ReconcilerAssumption DEF Free
  <2>4. UsedSlots' = UsedSlots \cup {i} /\ i \notin UsedSlots
    BY <2>2, <2>3 DEF UsedSlots
  <2>5. Cardinality(UsedSlots') = Cardinality(UsedSlots) + 1
    BY <1>4, <2>4, CountAssumption, OneMore
  <2>6. PolicersIn' = PolicersIn + 1
    BY <2>5, CountsAre
  <2>. QED  BY <1>2, <2>1, <2>6, AdjustSound
<1>6. CASE polIdx[pool] # NoIdx
  <2>1. PolicerUpdate(i, want.spec[pool]) /\ Adjust(0, 0)
    BY <1>6 DEF UpsertPolicer
  <2>2. /\ vpol' \in Slots
        /\ \A j \in Idxs : vpol'[j].name = vpol[j].name
    BY <1>1, <1>3, <2>1, PolicerUpdated
  <2>3. \A j \in Idxs : vpol'[j] = Free <=> vpol[j] = Free
    BY <1>1, <2>2, SlotShape
  <2>4. UsedSlots' = UsedSlots
    BY <2>3 DEF UsedSlots
  <2>5. PolicersIn' = PolicersIn + 0
    BY <2>4, CountsAre
  <2>. QED  BY <1>2, <2>1, <2>5, AdjustSound
<1>. QED  BY <1>5, <1>6

LEMMA CountStep ==
  ASSUME ReconcilerInv, CountsFollow, [CountNext]_<<vars, act>>
  PROVE  CountsFollow'
<1>1. ASSUME UNCHANGED <<vpol, vsess, act>>, InPass' => InPass
      PROVE  CountsFollow'
  <2>1. PolicersIn' = PolicersIn /\ SessionsIn' = SessionsIn
    BY <1>1 DEF PolicersIn, SessionsIn
  <2>. QED  BY <1>1, <2>1 DEF CountsFollow
<1>2. CASE CountedPass
  <2>1. UNCHANGED <<vpol, vsess>> /\ pc' = "idle"
    BY <1>2 DEF CountedPass, EndPass, vppVars
  <2>2. CASE act' = [pol |-> PolicersIn, sess |-> SessionsIn]
    BY <2>1, <2>2 DEF CountsFollow, PolicersIn, SessionsIn, InPass
  <2>3. CASE UNCHANGED act
    BY <1>1, <2>1, <2>3 DEF InPass
  <2>. QED  BY <1>2, <2>2, <2>3 DEF CountedPass
<1>3. CASE CountedDelta
  BY <1>3, DropCount, UpsertCount, RemoveCount, UpsertPolicerCount
  DEF CountedDelta
<1>4. CASE Uncounted
  BY <1>4 DEF Uncounted, CountsFollow
<1>5. CASE PassCall /\ UNCHANGED act
  <2>1. InPass
    BY <1>5 DEF PassCall, InPass, DeleteOrphan, RecreateUnknown, UpdateDrifted,
       AddMissing, Converging, StartSessions, EnsureTable, Attach, SweepSession,
       PutSession
  <2>. QED  BY <1>5, <2>1 DEF CountsFollow
<1>6. CASE Still /\ ~PassCall
  <2>1. UNCHANGED <<vpol, vsess, act>> /\ (InPass' => InPass)
    BY <1>6 DEF Still, SomeDelta, StartDelta, ReconnectNoPass, NextPool,
       UpsertTable, SessionDone, EndUpsert, EndDelta, BackToIdle, VppFlap,
       VppReconnect, vppVars, localVars, InPass
  <2>. QED  BY <1>1, <2>1
<1>7. CASE UNCHANGED <<vars, act>>
  BY <1>1, <1>7 DEF vars, vppVars, localVars, InPass
<1>8. Still => UNCHANGED act
  BY DEF Still
<1>. QED  BY <1>2, <1>3, <1>4, <1>5, <1>6, <1>7, <1>8 DEF CountNext

\* The reconciler's state is well typed and, between deltas, the counts it attests
\* are VPP's (CountInv), for any number of pools, members and indexes.
THEOREM CountsAreTrue == CountSpec => []CountInv
<1>1. CountInit => CountsFollow
  BY DEF CountInit, CountsFollow
<1>2. CountSpec => []ReconcilerInv
  BY CountingIsReconciling, AlwaysSound, PTL
<1>3. ReconcilerInv /\ CountsFollow /\ [CountNext]_<<vars, act>> => CountsFollow'
  BY CountStep
<1>4. CountSpec => []CountsFollow
  BY <1>1, <1>2, <1>3, PTL DEF CountSpec
<1>5. ReconcilerInv /\ CountsFollow => CountInv
  <2>. SUFFICES ASSUME ReconcilerInv, CountsFollow PROVE CountInv
    OBVIOUS
  <2>1. act \in [pol : Int, sess : Int]
    BY CountsAre DEF CountsFollow, NoCounts
  <2>. QED  BY <2>1 DEF CountInv, CountTypeOK, CountsTrue, CountsFollow, ReconcilerInv
<1>. QED  BY <1>2, <1>4, <1>5, PTL

\* With the counts kept beside it, the reconciler is the same: its passes cover and
\* heal, its unmoved members stay policed and its index cache goes wrong by
\* re-learning and by a delete whose reply is lost only.
THEOREM CountingChangesNothing ==
  CountSpec => []PassCovers /\ []PassHeals /\ KeepsUnmoved /\ WrongHasCause
BY CountingIsReconciling, PassesCover, OneMishapIsHealed, UnmovedStayPoliced,
   WrongIndexHasCause, PTL

=============================================================================
