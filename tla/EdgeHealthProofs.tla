-------------------------- MODULE EdgeHealthProofs --------------------------
(***************************************************************************)
(* Proofs about EdgeHealth, for any grace, any number of failing rounds    *)
(* and any faults: a VPP that is only busy is never judged dead, and the   *)
(* rebuild of a restarted VPP is never taken for a black hole.             *)
(***************************************************************************)
EXTENDS EdgeHealth, TLAPS

\* While there was no trouble VPP runs and is connected, the heartbeat's reader is
\* on its segment, no pass failed, and what starves it is work under way: the phase
\* is Reconciling whenever the heartbeat may stand still.
OnlyBusy ==
  ~trouble =>
    /\ vpp = "run"
    /\ link
    /\ healthy
    /\ ~stale
    /\ ~dead
    /\ apply # "err"
    /\ starved => applying \/ birdFails

\* An armed probe that knows of no new generation was armed by this VPP, whose FIB
\* was fed; or else VPP was restarted since, nobody has connected to it, and it was
\* not told of the target: it has no gauge to read.
ArmedOnFed ==
  /\ fib => fed
  /\ everHealthy => "probe" \in sensors
  /\ everHealthy /\ ~newGen /\ ~fed => ~target /\ ~link

SensorInv == TypeOK /\ OnlyBusy /\ ArmedOnFed

-----------------------------------------------------------------------------
(***************************************************************************)
(* The type invariant.                                                     *)
(***************************************************************************)

LEMMA Consts == Grace \in Nat /\ K \in Nat /\ K # 0 /\ MaxFaults \in Nat
  BY EdgeHealthAssumption

LEMMA InitType == Init => TypeOK
  <1> SUFFICES ASSUME Init PROVE TypeOK
    OBVIOUS
  <1>1. age \in 0 .. Grace /\ fails \in 0 .. K /\ faults \in 0 .. MaxFaults
    BY Consts DEF Init
  <1>2. /\ {starved, fib, fed, target, carrier, stale} \subseteq BOOLEAN
        /\ {link, healthy, newGen} \subseteq BOOLEAN
        /\ {applying, birdFails} \subseteq BOOLEAN
        /\ {haveBeat, dead, due} \subseteq BOOLEAN
        /\ {everHealthy, broken} \subseteq BOOLEAN
        /\ forced \in BOOLEAN
        /\ trouble \in BOOLEAN
    <2>1. target \in BOOLEAN
      BY DEF Init
    <2> QED
      BY <2>1, Zenon DEF Init
  <1>3. /\ sensors \in Setups
        /\ vpp \in {"run", "wedged", "down"}
        /\ apply \in {"ok", "pending", "err"}
        /\ last \in States \cup {NoHealth}
        /\ told \in Faults \cup {"nothing"}
    BY DEF Init
  <1> QED
    BY <1>1, <1>2, <1>3 DEF TypeOK

LEMMA FaultCounts == TypeOK /\ Fault => faults' \in 0 .. MaxFaults
  BY Consts DEF TypeOK, Fault

LEMMA WorldType ==
  ASSUME TypeOK,
         \/ \E how \in {"wedged", "down"} : Crash(how)
         \/ \E old \in BOOLEAN : Restart(old)
         \/ PathUp \/ PathDown \/ CarrierDown \/ CarrierUp \/ Starve \/ CatchUp
         \/ FeedChanges
  PROVE  TypeOK'
  <1>1. ASSUME NEW how \in {"wedged", "down"}, Crash(how)
        PROVE  TypeOK'
    BY <1>1, FaultCounts DEF Crash, TypeOK, applyVars, liveVars, probeVars, toldVars
  <1>2. ASSUME NEW old \in BOOLEAN, Restart(old)
        PROVE  TypeOK'
    BY <1>2 DEF Restart, TypeOK, applyVars, liveVars, probeVars, toldVars
  <1>3. CASE PathUp
    BY <1>3 DEF PathUp, TypeOK, connVars, applyVars, liveVars, probeVars, toldVars
  <1>4. CASE PathDown
    BY <1>4, FaultCounts DEF PathDown, TypeOK, connVars, applyVars, liveVars, probeVars, toldVars
  <1>5. CASE CarrierDown
    BY <1>5, FaultCounts DEF CarrierDown, TypeOK, connVars, applyVars, liveVars, probeVars, toldVars
  <1>6. CASE CarrierUp
    BY <1>6 DEF CarrierUp, TypeOK, connVars, applyVars, liveVars, probeVars, toldVars
  <1>7. CASE Starve
    BY <1>7 DEF Starve, TypeOK, connVars, applyVars, liveVars, probeVars, toldVars
  <1>8. CASE CatchUp
    BY <1>8 DEF CatchUp, TypeOK, connVars, applyVars, liveVars, probeVars, toldVars
  <1>9. CASE FeedChanges
    BY <1>9 DEF FeedChanges, TypeOK, vppVars, connVars, liveVars, probeVars, toldVars
  <1> QED
    BY <1>1, <1>2, <1>3, <1>4, <1>5, <1>6, <1>7, <1>8, <1>9

LEMMA AgentType ==
  ASSUME TypeOK,
         \/ ConnLost
         \/ \E c \in BOOLEAN : Connected(c)
         \/ PassStarts
         \/ \E o \in {"ok", "pending", "err"}, rep \in BOOLEAN : PassEnds(o, rep)
         \/ ChaosHook
         \/ ReconnectDue
         \/ \E s, d \in BOOLEAN : Report(s, d)
  PROVE  TypeOK'
  <1>1. CASE ConnLost
    BY <1>1 DEF ConnLost, TypeOK, vppVars, applyVars, liveVars, probeVars, toldVars
  <1>2. ASSUME NEW c \in BOOLEAN, Connected(c)
        PROVE  TypeOK'
    <2>1. CASE c
      BY <1>2, <2>1 DEF Connected, TypeOK, vppVars, applyVars, liveVars, probeVars, toldVars
    <2>2. CASE ~c
      BY <1>2, <2>2 DEF Connected, TypeOK, vppVars, connVars, applyVars, liveVars, probeVars,
         toldVars
    <2> QED
      BY <2>1, <2>2
  <1>3. CASE PassStarts
    BY <1>3 DEF PassStarts, TypeOK, vppVars, connVars, liveVars, probeVars, toldVars
  <1>4. ASSUME NEW o \in {"ok", "pending", "err"}, NEW rep \in BOOLEAN, PassEnds(o, rep)
        PROVE  TypeOK'
    <2>1. Classify(healthy, o, rep) \in States
      BY DEF Classify, States
    <2>2. last' \in States
      BY <1>4, <2>1 DEF PassEnds, States
    <2> QED
      BY <1>4, <2>2 DEF PassEnds, TypeOK, vppVars, connVars, liveVars, probeVars
  <1>5. CASE ChaosHook
    BY <1>5, FaultCounts DEF ChaosHook, TypeOK, vppVars, connVars, applyVars, liveVars, probeVars
  <1>6. CASE ReconnectDue
    BY <1>6 DEF ReconnectDue, TypeOK, vppVars, connVars, applyVars, probeVars, toldVars
  <1>7. ASSUME NEW s \in BOOLEAN, NEW d \in BOOLEAN, Report(s, d)
        PROVE  TypeOK'
    <2>1. FaultKind(s, d) \in Faults
      BY DEF FaultKind, Faults
    <2> QED
      BY <1>7, <2>1 DEF Report, TypeOK, vppVars, connVars, applyVars, liveVars, probeVars
  <1> QED
    BY <1>1, <1>2, <1>3, <1>4, <1>5, <1>6, <1>7

LEMMA LiveType ==
  ASSUME TypeOK, NEW r \in Reads, LiveCheck(r)
  PROVE  TypeOK'
  <1>1. Aged(r) \in 0 .. Grace
    BY Consts DEF Aged, TypeOK
  <1>2. /\ haveBeat' = (haveBeat \/ Alive(r))
        /\ age' = Aged(r)
        /\ dead' = Verdict(r)
        /\ due' \in {due, FALSE}
        /\ stale' \in {stale, FALSE, stale /\ vpp # "run"}
        /\ UNCHANGED <<sensors, vpp, starved, fib, fed, target, carrier, connVars, applyVars,
                       probeVars, toldVars, trouble, faults>>
    BY DEF LiveCheck
  <1>3. Verdict(r) \in BOOLEAN
    BY DEF Verdict, TypeOK
  <1> QED
    BY <1>1, <1>2, <1>3 DEF TypeOK, connVars, applyVars, probeVars, toldVars

\* A round leaves the probe's counter in its bounds.
LEMMA RoundType ==
  ASSUME TypeOK, NEW r
  PROVE  LET p == Round(r, Disarmed)
         IN  r \in {"error", "one", "zero"} =>
               p.fails \in 0 .. K /\ p.armed \in BOOLEAN /\ p.broken \in BOOLEAN
  <1> DEFINE d == Disarmed
  <1>1. d \in [fails : 0 .. K, armed : BOOLEAN, broken : BOOLEAN]
    BY Consts DEF Disarmed, TypeOK
  <1> HIDE DEF d
  <1>2. Regression(d) \in [fails : 0 .. K, armed : BOOLEAN, broken : BOOLEAN]
    <2>1. d.fails \in 0 .. K /\ K \in Nat
      BY <1>1, Consts
    <2>2. CASE Busy
      BY <1>1, <2>2 DEF Regression
    <2>3. CASE ~Busy /\ d.fails + 1 >= K
      <3>1. Regression(d) = [d EXCEPT !.fails = K, !.broken = TRUE]
        BY <2>3 DEF Regression
      <3>2. K \in 0 .. K
        BY <2>1
      <3> QED
        BY <1>1, <3>1, <3>2
    <2>4. CASE ~Busy /\ ~(d.fails + 1 >= K)
      <3>1. d.fails + 1 \in 0 .. K
        BY <2>1, <2>4
      <3> QED
        BY <1>1, <2>4, <3>1 DEF Regression
    <2> QED
      BY <2>2, <2>3, <2>4
  <1>3. r \in {"error", "one", "zero"} =>
          Round(r, d) \in [fails : 0 .. K, armed : BOOLEAN, broken : BOOLEAN]
    BY <1>1, <1>2, Consts DEF Round
  <1> QED
    BY <1>3 DEF d

LEMMA GaugeValues == ASSUME TypeOK PROVE GaugeReads \subseteq {"error", "one", "zero"}
  BY DEF GaugeReads, TypeOK

LEMMA ProbeType ==
  ASSUME TypeOK, NEW r \in Reads, ProbeRound(r)
  PROVE  TypeOK'
  <1>1. r \in {"error", "one", "zero"}
    BY GaugeValues DEF ProbeRound
  <1>2. fails' \in 0 .. K /\ everHealthy' \in BOOLEAN /\ broken' \in BOOLEAN
    BY <1>1, RoundType DEF ProbeRound
  <1> QED
    BY <1>2 DEF ProbeRound, TypeOK, applyVars, liveVars, toldVars

LEMMA Typing == TypeOK /\ [Next]_vars => TypeOK'
  <1> SUFFICES ASSUME TypeOK, [Next]_vars PROVE TypeOK'
    OBVIOUS
  <1>1. CASE Next
    BY <1>1, WorldType, AgentType, LiveType, ProbeType DEF Next
  <1>2. CASE UNCHANGED vars
    BY <1>2 DEF TypeOK, vars, vppVars, connVars, applyVars, liveVars, probeVars, toldVars
  <1> QED
    BY <1>1, <1>2

-----------------------------------------------------------------------------
(***************************************************************************)
(* Busy is not dead.                                                       *)
(***************************************************************************)

\* A check of a heartbeat that was only ever starved by work finds it moving, or
\* finds the phase Reconciling and leaves the verdict as it is.
LEMMA BusyVerdict ==
  ASSUME TypeOK, OnlyBusy, ~trouble, NEW r \in BeatReads
  PROVE  ~Verdict(r)
  <1>1. vpp = "run" /\ ~stale /\ ~dead /\ healthy /\ apply # "err"
    BY DEF OnlyBusy
  <1>2. CASE ~starved
    <2>1. r = "moved"
      BY <1>1, <1>2 DEF BeatReads
    <2> QED
      BY <2>1 DEF Verdict, Alive
  <1>3. CASE starved
    <2>1. r \in {"moved", "same", "error"}
      BY <1>1, <1>3 DEF BeatReads
    <2>2. applying \/ birdFails
      BY <1>3 DEF OnlyBusy
    <2>3. Busy
      BY <1>1, <2>2 DEF Busy, Phase, ComputePhase
    <2> QED
      BY <1>1, <2>1, <2>3 DEF Verdict
  <1> QED
    BY <1>2, <1>3

LEMMA OnlyBusyStep ==
  ASSUME TypeOK, OnlyBusy, [Next]_vars
  PROVE  OnlyBusy'
  <1> SUFFICES ASSUME ~trouble' PROVE OnlyBusy'
    BY DEF OnlyBusy
  <1>1. ASSUME NEW how \in {"wedged", "down"}, Crash(how)
        PROVE  FALSE
    BY <1>1 DEF Crash
  <1>2. ASSUME NEW old \in BOOLEAN, Restart(old)
        PROVE  FALSE
    BY <1>2 DEF Restart, OnlyBusy
  <1>3. CASE PathUp \/ PathDown \/ CarrierDown \/ CarrierUp
    BY <1>3 DEF PathUp, PathDown, CarrierDown, CarrierUp, OnlyBusy, connVars, applyVars, liveVars
  <1>4. CASE Starve \/ CatchUp
    BY <1>4 DEF Starve, CatchUp, OnlyBusy, connVars, applyVars, liveVars
  <1>5. CASE FeedChanges
    BY <1>5 DEF FeedChanges, OnlyBusy, vppVars, connVars, liveVars
  <1>6. CASE ConnLost
    BY <1>6 DEF ConnLost
  <1>7. ASSUME NEW c \in BOOLEAN, Connected(c)
        PROVE  FALSE
    BY <1>7 DEF Connected, OnlyBusy
  <1>8. CASE PassStarts
    BY <1>8 DEF PassStarts, OnlyBusy, vppVars, connVars, liveVars
  <1>9. ASSUME NEW o \in {"ok", "pending", "err"}, NEW rep \in BOOLEAN, PassEnds(o, rep)
        PROVE  OnlyBusy'
    BY <1>9 DEF PassEnds, OnlyBusy, vppVars, connVars, liveVars
  <1>10. CASE ChaosHook
    BY <1>10 DEF ChaosHook, OnlyBusy, vppVars, connVars, applyVars, liveVars
  <1>11. ASSUME NEW r \in Reads, LiveCheck(r)
         PROVE  OnlyBusy'
    <2>1. ~trouble
      BY <1>11 DEF LiveCheck
    <2>2. ~dead'
      BY <1>11, <2>1, BusyVerdict DEF LiveCheck
    <2>3. ~stale'
      BY <1>11, <2>1 DEF LiveCheck, OnlyBusy
    <2> QED
      BY <1>11, <2>1, <2>2, <2>3 DEF LiveCheck, OnlyBusy, connVars, applyVars
  <1>12. CASE ReconnectDue
    BY <1>12 DEF ReconnectDue, OnlyBusy, vppVars, connVars, applyVars
  <1>13. ASSUME NEW r \in Reads, ProbeRound(r)
         PROVE  OnlyBusy'
    BY <1>13 DEF ProbeRound, OnlyBusy, applyVars, liveVars
  <1>14. ASSUME NEW s \in BOOLEAN, NEW d \in BOOLEAN, Report(s, d)
         PROVE  OnlyBusy'
    BY <1>14 DEF Report, OnlyBusy, vppVars, connVars, applyVars, liveVars
  <1>15. CASE UNCHANGED vars
    BY <1>15 DEF OnlyBusy, vars, vppVars, connVars, applyVars, liveVars
  <1> QED
    BY <1>1, <1>2, <1>3, <1>4, <1>5, <1>6, <1>7, <1>8, <1>9, <1>10, <1>11, <1>12, <1>13,
       <1>14, <1>15 DEF Next

-----------------------------------------------------------------------------
(***************************************************************************)
(* A rebuild is no black hole.                                             *)
(***************************************************************************)

\* A round arms the probe on a path that is up, keeps it armed only within one
\* generation, and tells VPP of the target only over a connection of its own.
LEMMA ProbeArmed ==
  ASSUME TypeOK, ArmedOnFed, NEW r \in Reads, ProbeRound(r)
  PROVE  /\ ArmedOnFed'
         /\ broken' /\ ~broken => fed
  <1>1. r \in GaugeReads /\ r \in {"error", "one", "zero"}
    BY GaugeValues DEF ProbeRound
  <1>2. /\ UNCHANGED <<sensors, vpp, fib, fed, link, healthy>>
        /\ "probe" \in sensors
        /\ everHealthy' = Round(r, Disarmed).armed
        /\ broken' = Round(r, Disarmed).broken
        /\ target' = (target \/ (r = "error" /\ healthy /\ Works))
    BY DEF ProbeRound
  <1>3. /\ Disarmed.armed = (everHealthy /\ ~newGen)
        /\ Disarmed.broken => broken
    BY DEF Disarmed, TypeOK
  <1> DEFINE d == Disarmed
  <1>4. d \in [fails : 0 .. K, armed : BOOLEAN, broken : BOOLEAN]
    BY Consts DEF Disarmed, TypeOK
  <1>5. /\ d.armed = (everHealthy /\ ~newGen)
        /\ d.broken => broken
    BY <1>3
  <1>6. /\ everHealthy' = Round(r, d).armed
        /\ broken' = Round(r, d).broken
    BY <1>2
  <1> HIDE DEF d
  <1>7. CASE r = "one"
    <2>1. fib
      BY <1>1, <1>7 DEF GaugeReads
    <2>2. fed /\ fed'
      BY <2>1, <1>2 DEF ArmedOnFed
    <2> QED
      BY <1>2, <2>2 DEF ArmedOnFed
  <1>8. CASE r = "error"
    <2>1. Round(r, d) = d
      BY <1>8 DEF Round
    <2>2. everHealthy' = (everHealthy /\ ~newGen) /\ (broken' => broken)
      BY <1>5, <1>6, <2>1
    <2> QED
      BY <1>2, <2>2 DEF ArmedOnFed, Works
  <1>9. CASE r = "zero"
    <2>1. target
      BY <1>1, <1>9 DEF GaugeReads
    <2>2. Regression(d).armed = d.armed
      BY <1>4 DEF Regression
    <2>3. /\ ~d.armed => Round(r, d) = d
          /\ d.armed => Round(r, d) = Regression(d)
      BY <1>9, <1>4 DEF Round
    <2>4. Round(r, d).armed = d.armed
      BY <2>2, <2>3, <1>4
    <2>5. everHealthy' = d.armed
      BY <1>6, <2>4
    <2>6. d.armed => fed
      BY <1>5, <2>1 DEF ArmedOnFed
    <2>7. broken' /\ ~broken => fed
      BY <2>3, <2>6, <1>5, <1>6
    <2> QED
      BY <1>2, <2>5, <2>6, <2>7 DEF ArmedOnFed
  <1> QED
    BY <1>1, <1>7, <1>8, <1>9

LEMMA ArmedStep ==
  ASSUME TypeOK, ArmedOnFed, [Next]_vars
  PROVE  /\ ArmedOnFed'
         /\ broken' /\ ~broken => fed
  <1>1. ASSUME NEW r \in Reads, ProbeRound(r)
        PROVE  ArmedOnFed' /\ (broken' /\ ~broken => fed)
    BY <1>1, ProbeArmed
  <1>2. ASSUME NEW how \in {"wedged", "down"}, Crash(how)
        PROVE  ArmedOnFed' /\ broken' = broken
    BY <1>2 DEF Crash, ArmedOnFed, probeVars
  <1>3. ASSUME NEW old \in BOOLEAN, Restart(old)
        PROVE  ArmedOnFed' /\ broken' = broken
    BY <1>3 DEF Restart, ArmedOnFed, probeVars
  <1>4. ASSUME PathUp \/ PathDown \/ CarrierDown \/ CarrierUp \/ Starve \/ CatchUp
        PROVE  ArmedOnFed' /\ broken' = broken
    BY <1>4 DEF PathUp, PathDown, CarrierDown, CarrierUp, Starve, CatchUp, ArmedOnFed, connVars,
       probeVars
  <1>5. ASSUME FeedChanges \/ ConnLost \/ PassStarts \/ ChaosHook \/ ReconnectDue
        PROVE  ArmedOnFed' /\ broken' = broken
    BY <1>5 DEF FeedChanges, ConnLost, PassStarts, ChaosHook, ReconnectDue, ArmedOnFed, vppVars,
       connVars, probeVars
  <1>6. ASSUME NEW c \in BOOLEAN, Connected(c)
        PROVE  ArmedOnFed' /\ broken' = broken
    BY <1>6 DEF Connected, ArmedOnFed, vppVars, connVars, probeVars
  <1>7. ASSUME NEW o \in {"ok", "pending", "err"}, NEW rep \in BOOLEAN, PassEnds(o, rep)
        PROVE  ArmedOnFed' /\ broken' = broken
    BY <1>7 DEF PassEnds, ArmedOnFed, vppVars, connVars, probeVars
  <1>8. ASSUME NEW r \in Reads, LiveCheck(r)
        PROVE  ArmedOnFed' /\ broken' = broken
    BY <1>8 DEF LiveCheck, ArmedOnFed, connVars, probeVars
  <1>9. ASSUME NEW s \in BOOLEAN, NEW d \in BOOLEAN, Report(s, d)
        PROVE  ArmedOnFed' /\ broken' = broken
    BY <1>9 DEF Report, ArmedOnFed, vppVars, connVars, probeVars
  <1>10. ASSUME UNCHANGED vars
         PROVE  ArmedOnFed' /\ broken' = broken
    BY <1>10 DEF ArmedOnFed, vars, vppVars, connVars, probeVars
  <1> QED
    BY <1>1, <1>2, <1>3, <1>4, <1>5, <1>6, <1>7, <1>8, <1>9, <1>10 DEF Next

-----------------------------------------------------------------------------

LEMMA Inductive == Spec => []SensorInv
  <1>1. Init => SensorInv
    BY InitType DEF Init, SensorInv, OnlyBusy, ArmedOnFed
  <1>2. SensorInv /\ [Next]_vars => SensorInv'
    BY Typing, OnlyBusyStep, ArmedStep DEF SensorInv
  <1> QED
    BY <1>1, <1>2, PTL DEF Spec

\* Whatever VPP, govpp and BIRD do, and for any grace: the sensors' state is well
\* formed, and a VPP that was only ever starved by the agent's own work is never
\* judged dead (VppLiveness.check, sensorBusy).
THEOREM BusyIsNeverDead == Spec => []HealthInv
  <1>1. SensorInv => HealthInv
    BY DEF SensorInv, OnlyBusy, HealthInv, BusyIsNotDead, TypeOK
  <1> QED
    BY <1>1, Inductive, PTL

\* For any number of failing rounds: the probe calls a path broken only on a VPP
\* whose FIB was fed since it started, whoever noticed its restart and in whatever
\* order the probe, the connection and the feed come back (ForwardingProbe.round).
THEOREM RebuildNeverBlackHole == Spec => RebuildIsNoBlackHole
  <1>1. SensorInv /\ [Next]_vars => [broken' /\ ~broken => fed]_vars
    BY ArmedStep DEF SensorInv
  <1> QED
    BY <1>1, Inductive, PTL DEF Spec, RebuildIsNoBlackHole
=============================================================================
