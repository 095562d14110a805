--------------------------- MODULE AttestedCounts ---------------------------
(***************************************************************************)
(* The counts of installed policers and sessions that the agent reports    *)
(* (Reconciler.ActualCounts): a successful pass takes them from VPP, a     *)
(* delta adjusts them call by call.  The steps are those of Reconciler.    *)
(* What the counters hold while a pass is at work, or after a failure that *)
(* only the next pass makes up for, is left open (NoCounts).               *)
(***************************************************************************)
EXTENDS Reconciler

\* VPP's tables are finite: policer indexes are 32 bits, sessions have a maximum.
ASSUME CountAssumption == IsFiniteSet(Idxs) /\ IsFiniteSet(Keys)

VARIABLE act   \* actPol and actSess, once actAnchored

NoCounts == [pol |-> -1, sess |-> -1]

CountTypeOK ==
  /\ TypeOK
  /\ act \in [pol : Int, sess : Int]

CountInit == Init /\ act = NoCounts

\* What countProgrammed finds.
PolicersIn == Cardinality({i \in Idxs : vpol[i] # Free})
SessionsIn == Cardinality({k \in Keys : vsess[k] # NoIdx})

Adjust(pol, sess) ==
  act' = IF act = NoCounts THEN act ELSE [pol |-> act.pol + pol, sess |-> act.sess + sess]

\* The end of a pass; counting may fail and then leaves the counters alone.
CountedPass ==
  /\ EndPass
  /\ \/ act' = [pol |-> PolicersIn, sess |-> SessionsIn]
     \/ UNCHANGED act

\* Mutant: a session that is pointed elsewhere is counted as added.
CountsMoves(k) == 1

\* applySessionUpserts tells sessions added from sessions moved.
AddsOne(k) == IF vsess[k] = NoIdx THEN 1 ELSE 0

CountedDelta ==
  \/ \E k \in Keys : vsess[k] # NoIdx /\ DropSession(k) /\ Adjust(0, -1)
  \/ \E k \in Keys : UpsertSession(k) /\ Adjust(0, AddsOne(k))
  \/ RemovePolicer /\ Adjust(IF polIdx[pool] = NoIdx THEN 0 ELSE -1, 0)
  \/ \E i \in Idxs : UpsertPolicer(i) /\ Adjust(IF polIdx[pool] = NoIdx THEN 1 ELSE 0, 0)

\* Steps the counters do not follow: the calls of a pass, failures, a restart of
\* either side, a delta merged while VPP is away, and the delete of a session VPP
\* has not (counted, although nothing goes: a "silent VPP reject").
Uncounted ==
  /\ \/ SomePass
     \/ CallFails
     \/ \E p \in Pools, i \in Idxs : AddUnheard(p, i)
     \/ \E p \in Pools : DeleteUnheard(p)
     \/ VppCrash
     \/ ~up /\ SomeDelta
     \/ AgentRestart
     \/ \E k \in Keys : vsess[k] = NoIdx /\ DropSession(k)
  /\ act' = NoCounts

\* Steps that change nothing that is counted, or that belong to a pass.
Still ==
  /\ \/ ReconnectNoPass
     \/ PassCall
     \/ up /\ SomeDelta
     \/ \E p \in Pools : NextPool(p)
     \/ \E m \in Masks : UpsertTable(m)
     \/ EndUpsert
     \/ EndDelta
     \/ VppFlap
     \/ VppReconnect
  /\ UNCHANGED act

CountNext == CountedPass \/ CountedDelta \/ Uncounted \/ Still

CountSpec == CountInit /\ [][CountNext]_<<vars, act>>

-----------------------------------------------------------------------------

\* Between deltas the counts reported are those of VPP, as long as no call has failed
\* or hit nothing since the pass that took them: no delta makes them drift, whichever way its pools
\* and members come, go and change places (actPol, actSess in ApplyDelta).
CountsTrue ==
  pc = "idle" /\ act # NoCounts => act = [pol |-> PolicersIn, sess |-> SessionsIn]

\* The state of reconciler and VPP is well formed and the attested counts are VPP's.
CountInv == CountTypeOK /\ CountsTrue
=============================================================================
