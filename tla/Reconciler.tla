----------------------------- MODULE Reconciler -----------------------------
(***************************************************************************)
(* The reconcile goroutine against VPP, one step per VPP call.             *)
(*                                                                         *)
(* A full pass (Reconcile) re-learns policer indexes, converges policers   *)
(* by name, then classify sessions, then the interface bindings.  The      *)
(* delta path (ApplyDelta) touches only the pools of one delta.  Any call  *)
(* can fail, carried out or not, and ends the pass or the delta where it   *)
(* is; VPP can restart (losing everything) or its socket flap (losing      *)
(* nothing); the agent can restart (losing its index cache).  VPP carries  *)
(* out the calls of the agent in their order.                              *)
(*                                                                         *)
(* One policer per pool; a session key stands for a mask and a prefix.  A  *)
(* spec is a kbps rate and burst, which VPP's dump returns as they were    *)
(* set (a pps burst, which toConfig converts, is not in this model).       *)
(* How desired states arrive, and the empty-state guard, are the subject   *)
(* of module DesiredSync: here a pass reads either the desired state of    *)
(* the last one or a new one.  The order in which Go ranges over its maps  *)
(* and in which the controller lists a delta's pools is left open.         *)
(***************************************************************************)
EXTENDS Integers, FiniteSets

CONSTANTS
  Pools,       \* pool identifiers; each has one policer, named after it
  Keys,        \* classify session keys
  Masks,       \* mask kinds, one classify table each
  MaskOf,      \* the mask kind of each key
  Homes,       \* the pools each key may belong to
  Specs,       \* policer parameters
  Idxs,        \* policer indexes of VPP
  NoSpec, NoPool, NoIdx,
  MaxTouch,    \* bound: how many pools one delta touches
  MaxChanges,  \* bound: desired states after the first, and deltas
  MaxFaults    \* bound: failed calls, VPP and agent restarts, flaps, deltas that
               \* are taken before a waiting reconnect signal

ASSUME ReconcilerAssumption ==
  /\ MaskOf \in [Keys -> Masks]
  /\ Homes \in [Keys -> SUBSET Pools]
  /\ NoSpec \notin Specs
  /\ NoPool \notin Pools
  /\ NoIdx \notin Idxs
  /\ MaxTouch \in Nat
  /\ MaxChanges \in Nat
  /\ MaxFaults \in Nat

VARIABLES
  \* VPP and the connection to it (external)
  vpol,        \* vpol[i]: the policer at index i, or Free
  vsess,       \* vsess[k]: the policer index the session of k hits, or NoIdx
  tables,      \* masks that have a classify table
  attached,    \* masks whose table is in the chain bound to the interfaces
  up,          \* Conn.healthy
  \* the agent
  reconnect,   \* the slot of Conn.Reconnects() is full
  have,        \* a desired state was received
  want,        \* the desired state last read by a pass or merged by a delta
  polIdx,
  \* locals of the running pass or delta
  pc,          \* "idle", or what it is doing
  todo,        \* pools whose policers the pass still has to converge
  dump,        \* the pass's policer dump: spec per name, or NoSpec
  prev,        \* the delta's prevSessions: owner of each key before the merge
  removing, upserting,  \* the delta's pools not started yet
  pool,        \* the pool the delta is working on, or the pass re-creates
  \* budgets of the bounded model
  changes, faults

vppVars   == <<vpol, vsess, tables, attached>>
localVars == <<pc, todo, dump, prev, removing, upserting, pool>>
vars == <<vppVars, up, reconnect, have, want, polIdx, localVars, changes,
          faults>>

Free == [name |-> NoPool, spec |-> NoSpec]
Unknown == [p \in Pools |-> NoIdx]

\* A desired state: a policer spec per pool, an owning pool per key.
Desired == {d \in [spec : [Pools -> Specs \cup {NoSpec}],
                   owner : [Keys -> Pools \cup {NoPool}]] :
              \A k \in Keys : d.owner[k] # NoPool =>
                /\ d.owner[k] \in Homes[k]
                /\ d.spec[d.owner[k]] # NoSpec}
NoDesired == [spec |-> [p \in Pools |-> NoSpec], owner |-> [k \in Keys |-> NoPool]]

Wanted(d) == {p \in Pools : d.spec[p] # NoSpec}
Members(d, p) == {k \in Keys : d.owner[k] = p}
WantedMasks(d) == {MaskOf[k] : k \in {j \in Keys : d.owner[j] # NoPool}}

\* VPP's policer dump: the spec of each name (the index is not in it).
Dump == [p \in Pools |-> IF \E i \in Idxs : vpol[i].name = p
                         THEN vpol[CHOOSE i \in Idxs : vpol[i].name = p].spec
                         ELSE NoSpec]

TypeOK ==
  /\ vpol \in [Idxs -> [name : Pools, spec : Specs] \cup {Free}]
  /\ vsess \in [Keys -> Idxs \cup {NoIdx}]
  /\ tables \in SUBSET Masks
  /\ attached \in SUBSET Masks
  /\ up \in BOOLEAN
  /\ reconnect \in BOOLEAN
  /\ have \in BOOLEAN
  /\ want \in Desired
  /\ polIdx \in [Pools -> Idxs \cup {NoIdx}]
  /\ pc \in {"idle", "policers", "sessions", "next", "rmPool", "upPolicer",
             "upSessions"}
  /\ todo \in SUBSET Pools
  /\ dump \in [Pools -> Specs \cup {NoSpec}]
  /\ prev \in [Keys -> Pools \cup {NoPool}]
  /\ removing \in SUBSET Pools
  /\ upserting \in SUBSET Pools
  /\ pool \in Pools \cup {NoPool}
  /\ changes \in 0 .. MaxChanges
  /\ faults \in 0 .. MaxFaults

EmptyVpp ==
  /\ vpol = [i \in Idxs |-> Free]
  /\ vsess = [k \in Keys |-> NoIdx]
  /\ tables = {}
  /\ attached = {}

EmptyLocals ==
  /\ pc = "idle"
  /\ todo = {}
  /\ dump = [p \in Pools |-> NoSpec]
  /\ prev = NoDesired.owner
  /\ removing = {}
  /\ upserting = {}
  /\ pool = NoPool

Init ==
  /\ EmptyVpp
  /\ up = TRUE
  /\ reconnect = FALSE
  /\ have = FALSE
  /\ want = NoDesired
  /\ polIdx = Unknown
  /\ EmptyLocals
  /\ changes = 0
  /\ faults = 0

-----------------------------------------------------------------------------
(***************************************************************************)
(* VPP calls (external), each enabled only when VPP would accept it.       *)
(***************************************************************************)

\* policer_add refuses a name that exists; it picks a free index.
PolicerAdd(i, p, s) ==
  /\ up
  /\ Dump[p] = NoSpec
  /\ vpol[i] = Free
  /\ vpol' = [vpol EXCEPT ![i] = [name |-> p, spec |-> s]]

\* policer_update refuses an index that is not in use.
PolicerUpdate(i, s) ==
  /\ up
  /\ vpol[i] # Free
  /\ vpol' = [vpol EXCEPT ![i].spec = s]

\* Mutant: the slot of a deleted policer keeps its parameters.
DeleteNameOnly(p) ==
  /\ up
  /\ Dump[p] # NoSpec
  /\ vpol' = [i \in Idxs |-> IF vpol[i].name = p
                             THEN [vpol[i] EXCEPT !.name = NoPool]
                             ELSE vpol[i]]

\* policer_add_del by name.
DeleteByName(p) ==
  /\ up
  /\ Dump[p] # NoSpec
  /\ vpol' = [i \in Idxs |-> IF vpol[i].name = p THEN Free ELSE vpol[i]]

AddTable(m) ==
  /\ up
  /\ m \notin tables
  /\ tables' = tables \cup {m}

\* classify_add_del_session: an add overwrites the hit index of the key.
AddSession(k, i) ==
  /\ up
  /\ MaskOf[k] \in tables
  /\ vsess' = [vsess EXCEPT ![k] = i]

DelSession(k) ==
  /\ up
  /\ vsess' = [vsess EXCEPT ![k] = NoIdx]

-----------------------------------------------------------------------------
(***************************************************************************)
(* The full pass.                                                          *)
(***************************************************************************)

\* relearnPolicerIndexes: skipped when every wanted index is known; otherwise
\* an unknown index is taken from an installed session of one of the pool's
\* desired members.
InstalledHits(d, p) == {vsess[k] : k \in Members(d, p)} \ {NoIdx}
Relearned(known, d) ==
  IF \A p \in Wanted(d) : known[p] # NoIdx
  THEN {known}
  ELSE {f \in [Pools -> Idxs \cup {NoIdx}] :
          \A p \in Pools :
            IF known[p] # NoIdx \/ InstalledHits(d, p) = {}
            THEN f[p] = known[p]
            ELSE f[p] \in InstalledHits(d, p)}

\* Mutant: drifted parameters go unnoticed.
PolicersMissing(d, idx) ==
  {p \in Pools : \/ (Dump[p] = NoSpec) # (d.spec[p] = NoSpec)
                 \/ d.spec[p] # NoSpec /\ idx[p] = NoIdx}

\* Policers reconcilePolicers has a call to make for: orphans, missing ones,
\* ones whose index is unknown, drifted ones.
PolicersToDo(d, idx) ==
  {p \in Pools : \/ Dump[p] # d.spec[p]
                 \/ d.spec[p] # NoSpec /\ idx[p] = NoIdx}

\* The pass up to the policer dump: it needs a channel, and a desired state.
StartPass(known, d) ==
  /\ pc = "idle"
  /\ up
  /\ \/ /\ have => d = want
        /\ UNCHANGED changes
     \/ /\ have
        /\ d # want
        /\ changes < MaxChanges
        /\ changes' = changes + 1
  /\ have' = TRUE
  /\ want' = d
  /\ polIdx' \in Relearned(known, d)
  /\ pc' = "policers"
  /\ dump' = Dump
  /\ todo' = PolicersToDo(d, polIdx')
  /\ UNCHANGED <<vppVars, up, prev, removing, upserting, pool, faults>>

\* Run: the timer and the wake cases of the select.
TickPass(d) == StartPass(polIdx, d) /\ UNCHANGED reconnect

\* Mutant: Reset is forgotten.
ReconnectKeeping(d) == reconnect /\ reconnect' = FALSE /\ StartPass(polIdx, d)

\* Run: the reconnect case of the select, Reset and a pass.
ReconnectPass(d) == reconnect /\ reconnect' = FALSE /\ StartPass(Unknown, d)

\* The same when the pass gets no channel, or has no state to converge to.
ReconnectNoPass ==
  /\ pc = "idle"
  /\ reconnect
  /\ ~up \/ ~have
  /\ reconnect' = FALSE
  /\ polIdx' = Unknown
  /\ UNCHANGED <<vppVars, up, have, want, localVars, changes, faults>>

Orphans == {p \in todo : want.spec[p] = NoSpec}

\* The loop over the desired policers, after the one over the orphans: a policer
\* deleted to be re-created is added again before the next is looked at.
Converging(p) ==
  /\ pc = "policers"
  /\ Orphans = {}
  /\ p \in todo
  /\ pool \in {NoPool, p}

PolicerDone(p) ==
  /\ todo' = todo \ {p}
  /\ pool' = NoPool
  /\ UNCHANGED <<vsess, tables, attached, up, reconnect, have, want, pc, dump,
                 prev, removing, upserting, changes, faults>>

DeleteOrphan(p) ==
  /\ pc = "policers"
  /\ p \in Orphans
  /\ DeleteByName(p)
  /\ polIdx' = [polIdx EXCEPT ![p] = NoIdx]
  /\ PolicerDone(p)

\* Mutant: the index VPP returns is not recorded.
AddForgettingIndex(p, i) ==
  /\ Converging(p)
  /\ dump[p] = NoSpec
  /\ PolicerAdd(i, p, want.spec[p])
  /\ UNCHANGED polIdx
  /\ PolicerDone(p)

AddMissing(p, i) ==
  /\ Converging(p)
  /\ dump[p] = NoSpec
  /\ PolicerAdd(i, p, want.spec[p])
  /\ polIdx' = [polIdx EXCEPT ![p] = i]
  /\ PolicerDone(p)

\* Present with an unknown index: deleted by name, then added like a missing one.
RecreateUnknown(p) ==
  /\ Converging(p)
  /\ dump[p] # NoSpec
  /\ polIdx[p] = NoIdx
  /\ DeleteByName(p)
  /\ dump' = [dump EXCEPT ![p] = NoSpec]
  /\ pool' = p
  /\ UNCHANGED <<vsess, tables, attached, up, reconnect, have, want, polIdx, pc,
                 todo, prev, removing, upserting, changes, faults>>

UpdateDrifted(p) ==
  /\ Converging(p)
  /\ dump[p] # NoSpec
  /\ polIdx[p] # NoIdx
  /\ PolicerUpdate(polIdx[p], want.spec[p])
  /\ UNCHANGED polIdx
  /\ PolicerDone(p)

\* buildSessionWants fails when the index of an owning pool is not known.
IndexMissing ==
  \E k \in Keys : want.owner[k] # NoPool /\ polIdx[want.owner[k]] = NoIdx

\* reconcileClassify starts.
StartSessions ==
  /\ pc = "policers"
  /\ up
  /\ todo = {}
  /\ ~IndexMissing
  /\ pc' = "sessions"
  /\ UNCHANGED <<vppVars, up, reconnect, have, want, polIdx, todo, dump, prev,
                 removing, upserting, pool, changes, faults>>

SessionDone ==
  UNCHANGED <<vpol, attached, up, reconnect, have, want, polIdx, localVars,
              changes, faults>>

EnsureTable(m) ==
  /\ pc = "sessions"
  /\ m \in WantedMasks(want)
  /\ AddTable(m)
  /\ UNCHANGED vsess
  /\ SessionDone

OrphanSession(k) == vsess[k] # NoIdx /\ want.owner[k] = NoPool
\* Mutant: a session that hits another index is taken for installed.
AbsentSession(k) == want.owner[k] # NoPool /\ vsess[k] = NoIdx

StaleSession(k) == want.owner[k] # NoPool /\ vsess[k] # polIdx[want.owner[k]]

\* Orphans of a mask still in use go before its adds; tables of masks no longer
\* desired are emptied after all of them.
SweepSession(k) ==
  /\ pc = "sessions"
  /\ OrphanSession(k)
  /\ MaskOf[k] \in WantedMasks(want) \/ \A j \in Keys : ~StaleSession(j)
  /\ DelSession(k)
  /\ UNCHANGED tables
  /\ SessionDone

\* applySessionUpserts after a dump: a missing member is added, one that hits
\* another index is re-pointed.
PutSession(k) ==
  /\ pc = "sessions"
  /\ StaleSession(k)
  /\ \A j \in Keys : MaskOf[j] = MaskOf[k] => ~OrphanSession(j)
  /\ AddSession(k, polIdx[want.owner[k]])
  /\ UNCHANGED tables
  /\ SessionDone

SessionsMatch == \A k \in Keys : ~OrphanSession(k) /\ ~StaleSession(k)

\* reconcileBindings: the tables are linked and bound one call at a time.
Attach(m) ==
  /\ pc = "sessions"
  /\ SessionsMatch
  /\ up
  /\ m \in tables \ attached
  /\ attached' = attached \cup {m}
  /\ UNCHANGED <<vpol, vsess, tables, up, reconnect, have, want, polIdx,
                 localVars, changes, faults>>

PassSucceeds ==
  /\ pc = "sessions"
  /\ up
  /\ SessionsMatch
  /\ attached = tables

EndPass ==
  /\ PassSucceeds
  /\ pc' = "idle"
  /\ dump' = NoDesired.spec
  /\ UNCHANGED <<vppVars, up, reconnect, have, want, polIdx, todo, prev,
                 removing, upserting, pool, changes, faults>>

-----------------------------------------------------------------------------
(***************************************************************************)
(* The delta path.                                                         *)
(***************************************************************************)

\* d is want with the pools in rm removed and those in ups replaced.
DeltaTo(d, rm, ups) ==
  /\ rm \cap ups = {}
  /\ rm \cup ups # {}
  /\ Cardinality(rm \cup ups) <= MaxTouch
  /\ rm \subseteq Wanted(want)
  /\ ups \subseteq Wanted(d)
  /\ rm \cap Wanted(d) = {}
  /\ \A p \in Pools \ (rm \cup ups) :
       /\ d.spec[p] = want.spec[p]
       /\ Members(d, p) = Members(want, p)

\* applyOneDelta: Merge, then ApplyDelta opens a channel.  Without one the
\* merged state is kept all the same.  That the select takes a delta while a
\* reconnect signal waits is bad luck, and counted as such.
StartDelta(d, rm, ups) ==
  /\ pc = "idle"
  /\ have
  /\ changes < MaxChanges
  /\ DeltaTo(d, rm, ups)
  /\ changes' = changes + 1
  /\ want' = d
  /\ IF up
     THEN /\ pc' = "next"
          /\ prev' = want.owner
          /\ removing' = rm
          /\ upserting' = ups
     ELSE UNCHANGED <<pc, prev, removing, upserting>>
  /\ IF reconnect THEN faults < MaxFaults /\ faults' = faults + 1 ELSE UNCHANGED faults
  /\ UNCHANGED <<vppVars, up, reconnect, have, polIdx, todo, dump, pool>>

\* Removed pools first, then upserted ones.
NextPool(p) ==
  /\ pc = "next"
  /\ \/ /\ p \in removing
        /\ removing' = removing \ {p}
        /\ pc' = "rmPool"
        /\ UNCHANGED upserting
     \/ /\ removing = {}
        /\ p \in upserting
        /\ upserting' = upserting \ {p}
        /\ pc' = "upPolicer"
        /\ UNCHANGED removing
  /\ pool' = p
  /\ UNCHANGED <<vppVars, up, reconnect, have, want, polIdx, todo, dump, prev,
                 changes, faults>>

\* Mutant: the members the pool keeps are deleted as well.
DroppedAll == {k \in Keys : prev[k] = pool /\ MaskOf[k] \in tables}

\* Members of the pool before the delta that it has not any more; those of a
\* mask without a table are skipped.
Dropped == {k \in Keys : /\ prev[k] = pool
                         /\ want.owner[k] # pool
                         /\ MaskOf[k] \in tables}

\* deletePoolSessions, and the deletes of upsertPoolSessions.
DropSession(k) ==
  /\ pc \in {"rmPool", "upSessions"}
  /\ k \in Dropped
  /\ DelSession(k)
  /\ prev' = [prev EXCEPT ![k] = NoPool]
  /\ UNCHANGED <<vpol, tables, attached, up, reconnect, have, want, polIdx, pc,
                 todo, dump, removing, upserting, pool, changes, faults>>

\* deletePoolPolicers: the names of the pool in polIdx.
RemovePolicer ==
  /\ pc = "rmPool"
  /\ Dropped = {}
  /\ IF polIdx[pool] = NoIdx
     THEN UNCHANGED <<vpol, polIdx>>
     ELSE DeleteByName(pool) /\ polIdx' = [polIdx EXCEPT ![pool] = NoIdx]
  /\ pc' = "next"
  /\ UNCHANGED <<vsess, tables, attached, up, reconnect, have, want, todo, dump,
                 prev, removing, upserting, pool, changes, faults>>

\* upsertPoolPolicers: presence is decided by polIdx.
UpsertPolicer(i) ==
  /\ pc = "upPolicer"
  /\ \/ /\ polIdx[pool] = NoIdx
        /\ PolicerAdd(i, pool, want.spec[pool])
        /\ polIdx' = [polIdx EXCEPT ![pool] = i]
     \/ /\ polIdx[pool] = i
        /\ PolicerUpdate(i, want.spec[pool])
        /\ UNCHANGED polIdx
  /\ pc' = "upSessions"
  /\ UNCHANGED <<vsess, tables, attached, up, reconnect, have, want, todo, dump,
                 prev, removing, upserting, pool, changes, faults>>

\* The pool's members whose session is missing or hits another index.
Stale == {k \in Members(want, pool) : vsess[k] # polIdx[pool]}

UpsertTable(m) ==
  /\ pc = "upSessions"
  /\ Dropped = {}
  /\ \E k \in Members(want, pool) : MaskOf[k] = m
  /\ AddTable(m)
  /\ UNCHANGED vsess
  /\ SessionDone

UpsertSession(k) ==
  /\ pc = "upSessions"
  /\ Dropped = {}
  /\ k \in Stale
  /\ AddSession(k, polIdx[pool])
  /\ UNCHANGED tables
  /\ SessionDone

PoolUpserted == pc = "upSessions" /\ up /\ Dropped = {} /\ Stale = {}

EndUpsert ==
  /\ PoolUpserted
  /\ pc' = "next"
  /\ UNCHANGED <<vppVars, up, reconnect, have, want, polIdx, todo, dump, prev,
                 removing, upserting, pool, changes, faults>>

BackToIdle ==
  /\ pc' = "idle"
  /\ todo' = {}
  /\ dump' = NoDesired.spec
  /\ prev' = NoDesired.owner
  /\ removing' = {}
  /\ upserting' = {}
  /\ pool' = NoPool

EndDelta ==
  /\ pc = "next"
  /\ removing \cup upserting = {}
  /\ BackToIdle
  /\ UNCHANGED <<vppVars, up, reconnect, have, want, polIdx, changes, faults>>

-----------------------------------------------------------------------------
(***************************************************************************)
(* Failures.                                                               *)
(***************************************************************************)

\* The index VPP is asked to update is not in use, the name to add exists, or
\* the name to delete does not: the call is refused.  buildSessionWants has an
\* error of its own.
Refused ==
  \/ pc = "policers" /\ todo = {} /\ IndexMissing
  \/ \E p \in todo : /\ Converging(p)
                     /\ dump[p] # NoSpec
                     /\ polIdx[p] # NoIdx
                     /\ vpol[polIdx[p]] = Free
  \/ pc = "upPolicer" /\ polIdx[pool] = NoIdx /\ Dump[pool] # NoSpec
  \/ pc = "upPolicer" /\ polIdx[pool] # NoIdx /\ vpol[polIdx[pool]] = Free
  \/ pc = "rmPool" /\ Dropped = {} /\ polIdx[pool] # NoIdx /\ Dump[pool] = NoSpec

\* A call returns an error: the pass or the delta ends where it is.  For the calls
\* after which the agent keeps no books (an update, a table, a session, a binding)
\* one that was carried out with its reply lost is that step and this one.
CallFails ==
  /\ pc # "idle"
  /\ IF up /\ ~Refused
     THEN faults < MaxFaults /\ faults' = faults + 1
     ELSE UNCHANGED faults
  /\ BackToIdle
  /\ UNCHANGED <<vppVars, up, reconnect, have, want, polIdx, changes>>

\* The reply of a call VPP carried out is lost, with the connection or without it,
\* and the caller returns the error before it touches polIdx.
Unheard ==
  /\ faults < MaxFaults
  /\ faults' = faults + 1
  /\ up' \in BOOLEAN
  /\ BackToIdle
  /\ UNCHANGED <<vsess, tables, attached, reconnect, have, want, polIdx, changes>>

\* policer_add, of a pass or a delta; also when the policer is there and its bind
\* to a worker fails.
AddUnheard(p, i) ==
  /\ \/ Converging(p) /\ dump[p] = NoSpec
     \/ pc = "upPolicer" /\ p = pool /\ polIdx[p] = NoIdx
  /\ PolicerAdd(i, p, want.spec[p])
  /\ Unheard

\* policer_add_del of an orphan, of a policer to re-create, and of a removed pool.
DeleteUnheard(p) ==
  /\ \/ pc = "policers" /\ p \in Orphans
     \/ Converging(p) /\ dump[p] # NoSpec /\ polIdx[p] = NoIdx
     \/ pc = "rmPool" /\ p = pool /\ Dropped = {} /\ polIdx[p] # NoIdx
  /\ DeleteByName(p)
  /\ Unheard

\* VPP dies and loses its state.
VppCrash ==
  /\ up
  /\ faults < MaxFaults
  /\ faults' = faults + 1
  /\ up' = FALSE
  /\ vpol' = [i \in Idxs |-> Free]
  /\ vsess' = [k \in Keys |-> NoIdx]
  /\ tables' = {}
  /\ attached' = {}
  /\ UNCHANGED <<reconnect, have, want, polIdx, localVars, changes>>

\* The socket drops, VPP keeps its state.
VppFlap ==
  /\ up
  /\ faults < MaxFaults
  /\ faults' = faults + 1
  /\ up' = FALSE
  /\ UNCHANGED <<vppVars, reconnect, have, want, polIdx, localVars, changes>>

\* handleEvent(Connected).  A call in flight has failed by then.
VppReconnect ==
  /\ ~up
  /\ pc = "idle"
  /\ up' = TRUE
  /\ reconnect' = TRUE
  /\ UNCHANGED <<vppVars, have, want, polIdx, localVars, changes, faults>>

\* The agent process restarts; VPP keeps its state.
AgentRestart ==
  /\ faults < MaxFaults
  /\ faults' = faults + 1
  /\ up' = TRUE
  /\ reconnect' = FALSE
  /\ have' = FALSE
  /\ want' = NoDesired
  /\ polIdx' = Unknown
  /\ BackToIdle
  /\ UNCHANGED <<vppVars, changes>>

PassCall ==
  \/ \E p \in Pools : DeleteOrphan(p) \/ RecreateUnknown(p) \/ UpdateDrifted(p)
  \/ \E p \in Pools, i \in Idxs : AddMissing(p, i)
  \/ StartSessions
  \/ \E m \in Masks : EnsureTable(m) \/ Attach(m)
  \/ \E k \in Keys : SweepSession(k) \/ PutSession(k)

Pass == PassCall \/ EndPass

Delta ==
  \/ \E p \in Pools : NextPool(p)
  \/ \E k \in Keys : DropSession(k) \/ UpsertSession(k)
  \/ RemovePolicer
  \/ \E i \in Idxs : UpsertPolicer(i)
  \/ \E m \in Masks : UpsertTable(m)
  \/ EndUpsert
  \/ EndDelta

\* Starting requires an idle agent: said first, so that TLC enumerates no inputs otherwise.
SomePass == pc = "idle" /\ up /\ \E d \in Desired : TickPass(d) \/ ReconnectPass(d)
SomeDelta == pc = "idle" /\ have /\ changes < MaxChanges
             /\ \E d \in Desired, rm, ups \in SUBSET Pools : StartDelta(d, rm, ups)

Next ==
  \/ SomePass
  \/ ReconnectNoPass
  \/ Pass
  \/ SomeDelta
  \/ Delta
  \/ CallFails
  \/ \E p \in Pools, i \in Idxs : AddUnheard(p, i)
  \/ \E p \in Pools : DeleteUnheard(p)
  \/ VppCrash
  \/ VppFlap
  \/ VppReconnect
  \/ AgentRestart

Spec == Init /\ [][Next]_vars

\* The interval timer keeps firing on the state held, calls return (reply
\* timeout), govpp keeps reconnecting, and the select picks among ready cases at
\* random.
Fairness ==
  /\ WF_vars(TickPass(want))
  /\ SF_vars(ReconnectPass(want) \/ ReconnectNoPass)
  /\ WF_vars(Pass)
  /\ WF_vars(Delta)
  /\ WF_vars((~up \/ Refused) /\ CallFails)
  /\ WF_vars(VppReconnect)

FairSpec == Spec /\ Fairness

-----------------------------------------------------------------------------
(***************************************************************************)
(* Properties.                                                             *)
(***************************************************************************)

\* The traffic of k goes through the bucket of the pool that owns it.
Policed(k) ==
  /\ want.owner[k] # NoPool
  /\ vsess[k] # NoIdx
  /\ vpol[vsess[k]].name = want.owner[k]

IndexRight(p) == polIdx[p] # NoIdx /\ vpol[polIdx[p]].name = p

Names == {p \in Pools : Dump[p] # NoSpec}
Owned(d) == {k \in Keys : d.owner[k] # NoPool}

\* While a member stays in its pool, and the pool's cached index is right, no
\* step of a pass or of a delta for any pool takes the member out of its bucket,
\* however indexes are freed and reused (Reconcile's order of policers before
\* sessions, ApplyDelta's prev-driven deletes).
KeepsPoliced ==
  [][\A k \in Keys :
       /\ Policed(k)
       /\ want'.owner[k] = want.owner[k]
       /\ IndexRight(want.owner[k])
       /\ up'
       => Policed(k)']_vars

\* The same with deltas of several pools, for every member but those that the delta
\* at work takes from one pool to another.
KeepsUnmoved ==
  [][\A k \in Keys :
       /\ Policed(k)
       /\ want'.owner[k] = want.owner[k]
       /\ prev[k] \in {NoPool, want.owner[k]}
       /\ IndexRight(want.owner[k])
       /\ up'
       => Policed(k)']_vars

\* While VPP is connected and no reconnect signal waits.
Settled == up /\ ~reconnect

\* What upsertPoolPolicers relies on ("polIdx reflects what we installed"): in a
\* settled state a cached index is that of the pool's own policer, through deletes,
\* re-creations, failed calls and restarts, with two exceptions: a pass has just
\* re-learned it from a session of the pool, or the very policer has just been
\* deleted by a call whose reply was lost.  Once wrong it may stay so.  Nothing else
\* lets an update by index reach another pool (relearnPolicerIndexes, Reset,
\* deletePoolPolicers, reconcilePolicers).
WrongHasCause ==
  [][\A p \in Pools :
       /\ polIdx'[p] # NoIdx
       /\ Settled'
       => \/ IndexRight(p)'
          \/ /\ pc = "idle"
             /\ pc' = "policers"
             /\ polIdx'[p] \in InstalledHits(want', p)
          \/ /\ pc # "idle"
             /\ pc' = "idle"
             /\ Dump[p] # NoSpec
             /\ Dump'[p] = NoSpec
          \/ Settled /\ polIdx[p] = polIdx'[p] /\ ~IndexRight(p)]_vars

\* A successful pass has installed exactly the desired policers by name and
\* exactly the desired sessions on attached tables, whatever failed passes,
\* deltas and restarts left behind; and if no cached index is wrong, every rate
\* is the desired one and every member is in its own pool's bucket (Reconcile).
PassCovers ==
  PassSucceeds =>
    /\ Names = Wanted(want)
    /\ {k \in Keys : vsess[k] # NoIdx} = Owned(want)
    /\ WantedMasks(want) \subseteq attached
    /\ (\A p \in Wanted(want) : IndexRight(p)) =>
         /\ Dump = want.spec
         /\ \A k \in Owned(want) : Policed(k)

\* VPP as desired, the tables attached that the members need.
Matches ==
  /\ Dump = want.spec
  /\ WantedMasks(want) \subseteq attached
  /\ \A k \in Keys : IF want.owner[k] = NoPool THEN vsess[k] = NoIdx ELSE Policed(k)

\* Reconcile's comment: the full pass "has just made VPP match desired".
PassMakesVppMatch ==
  PassSucceeds => Matches

\* No key ever changes its pool.
FixedHomes == \A k \in Keys : \A p, q \in Homes[k] : p = q

\* The same of any pass in a life of VPP and agent with at most one mishap, if no
\* member moves: a failed call, a call carried out with its reply lost, a restart of
\* either side or a flap, in the middle of whatever; also of a timer pass that runs
\* with the index cache of the old VPP (relearnPolicerIndexes, Reset, Run).  Two may
\* be too many: the second, which may be a delta ahead of the reconnect signal, meets
\* or leaves behind one of the wrong indexes of WrongHasCause.
PassHeals ==
  FixedHomes /\ PassSucceeds /\ faults <= 1 => Matches

\* After the last change and a fault, if there was one, VPP comes to match the
\* desired state and stays so, if one was received (T-501, T-503): also a table that a
\* delta created, which only the next full pass attaches (upsertPoolSessions).
Converges ==
  <>[](FixedHomes /\ have /\ faults <= 1 => Matches)
=============================================================================
