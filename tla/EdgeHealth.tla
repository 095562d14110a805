----------------------------- MODULE EdgeHealth -----------------------------
(***************************************************************************)
(* How the agent judges its data plane: the managed connection to VPP      *)
(* (vpp.Conn), the phase (PhaseTracker), the stats-segment heartbeat       *)
(* (VppLiveness), the forwarding probe (ForwardingProbe, plugin gauge),    *)
(* the outcome of the reconcile passes (HealthChecker), the fault typed    *)
(* into a report (FaultSensor, Reporter.Build).                            *)
(*                                                                         *)
(* VPP (external) crashes, wedges and is restarted; it starves its own     *)
(* main thread while it is given work; a restarted VPP has an empty FIB    *)
(* until BIRD feeds it again.  govpp (external) may or may not notice.     *)
(*                                                                         *)
(* The tracker's phase is recomputed whenever it is used, so it is no      *)
(* variable here.  Time is counted in checks of the heartbeat (age).  When *)
(* a report is sent, and by which wake, is the subject of ServerLink.      *)
(***************************************************************************)
EXTENDS Integers

CONSTANTS
  Setups,      \* sets of optional sensors: "liveness", "probe"
  Grace,       \* wedgeGrace, in checks of the heartbeat
  K,           \* ForwardingProbeFails
  MaxFaults    \* bound: crashes, wedges, black holes, carrier losses, toggles

ASSUME EdgeHealthAssumption ==
  /\ Setups \subseteq SUBSET {"liveness", "probe"}
  /\ Grace \in Nat
  /\ K \in Nat \ {0}
  /\ MaxFaults \in Nat

VARIABLES
  sensors,     \* which sensors are configured
  \* the data plane (external)
  vpp,         \* "run", "wedged" or "down"
  starved,     \* its main thread does not get to its process nodes
  fib,         \* the probe's target is reachable
  fed,         \* it was, at some time since VPP started
  target,      \* the probe's target is registered with the plugin
  carrier,     \* the policer interfaces have their carrier
  stale,       \* the heartbeat's reader is on the segment of a dead process
  \* Conn
  link,        \* the API socket is one of the running process (external)
  healthy,
  newGen,      \* Generation() differs from the probe's lastGen
  \* PhaseTracker's inputs
  applying,    \* Reconciler.Busy
  apply,       \* the last pass: "ok", "pending" (work left) or "err"
  birdFails,   \* the bird feed is failing
  \* VppLiveness
  haveBeat, age, dead,
  due,         \* reconnectEvery has passed since the reader was rebuilt
  \* ForwardingProbe
  fails, everHealthy, broken,
  \* HealthChecker, and the last report sent
  last, forced, told,
  \* history and budget
  trouble,     \* VPP was ever more than busy
  faults

vppVars   == <<vpp, starved, fib, fed, target, carrier, stale>>
connVars  == <<link, healthy, newGen>>
applyVars == <<applying, apply, birdFails>>
liveVars  == <<haveBeat, age, dead, due>>
probeVars == <<fails, everHealthy, broken>>
toldVars  == <<last, forced, told>>
vars == <<sensors, vppVars, connVars, applyVars, liveVars, probeVars, toldVars,
          trouble, faults>>

States == {"healthy", "degraded", "down"}
Faults == {"none", "vpp-gone", "link-down", "forwarding-broken"}
NoHealth == "none"

TypeOK ==
  /\ sensors \in Setups
  /\ vpp \in {"run", "wedged", "down"}
  /\ {starved, fib, fed, target, carrier, stale} \subseteq BOOLEAN
  /\ {link, healthy, newGen} \subseteq BOOLEAN
  /\ {applying, birdFails} \subseteq BOOLEAN
  /\ apply \in {"ok", "pending", "err"}
  /\ {haveBeat, dead, due} \subseteq BOOLEAN
  /\ age \in 0 .. Grace
  /\ fails \in 0 .. K
  /\ {everHealthy, broken} \subseteq BOOLEAN
  /\ last \in States \cup {NoHealth}
  /\ forced \in BOOLEAN
  /\ told \in Faults \cup {"nothing"}
  /\ trouble \in BOOLEAN
  /\ faults \in 0 .. MaxFaults

\* Connect has returned: the connection is up; BIRD is yet to feed the FIB.
Init ==
  /\ sensors \in Setups
  /\ vpp = "run"
  /\ starved = FALSE
  /\ fib = FALSE
  /\ fed = FALSE
  /\ target = ("probe" \in sensors)
  /\ carrier = TRUE
  /\ stale = FALSE
  /\ link = TRUE
  /\ healthy = TRUE
  /\ newGen = FALSE
  /\ applying = FALSE
  /\ apply = "ok"
  /\ birdFails = FALSE
  /\ haveBeat = FALSE
  /\ age = 0
  /\ dead = FALSE
  /\ due = TRUE
  /\ fails = 0
  /\ everHealthy = FALSE
  /\ broken = FALSE
  /\ last = NoHealth
  /\ forced = FALSE
  /\ told = "nothing"
  /\ trouble = FALSE
  /\ faults = 0

-----------------------------------------------------------------------------
(***************************************************************************)
(* The phase.                                                              *)
(***************************************************************************)

\* Mutant: work in flight is not looked at, only what the last pass left.
PhaseAtPassEnd(up, busy) ==
  CASE ~up                            -> "dead"
    [] up /\ apply = "err"            -> "degraded"
    [] up /\ apply = "pending"        -> "reconciling"
    [] OTHER                          -> "ready"

\* Mutant: work in flight hides that the last pass failed.
PhaseBusyFirst(up, busy) ==
  CASE ~up                                         -> "dead"
    [] up /\ (apply = "pending" \/ busy)           -> "reconciling"
    [] up /\ apply = "err" /\ ~busy                -> "degraded"
    [] OTHER                                       -> "ready"

\* ComputePhase, for a connection that was up before.
ComputePhase(up, busy) ==
  CASE ~up                                         -> "dead"
    [] up /\ apply = "err"                         -> "degraded"
    [] up /\ apply # "err" /\ (apply = "pending" \/ busy) -> "reconciling"
    [] OTHER                                       -> "ready"

\* recomputeLocked samples the connection and both busy sources.
Phase == ComputePhase(healthy, birdFails \/ applying)

\* sensorBusy: Tick() = Reconciling.
Busy == Phase = "reconciling"

-----------------------------------------------------------------------------
(***************************************************************************)
(* VPP and its surroundings (external).                                    *)
(***************************************************************************)

Works == vpp = "run" /\ link

Fault ==
  /\ faults < MaxFaults
  /\ faults' = faults + 1

Crash(how) ==
  /\ Fault
  /\ vpp = "run"
  /\ vpp' = how
  /\ link' = (how = "wedged" /\ link)
  /\ starved' = FALSE
  /\ trouble' = TRUE
  /\ UNCHANGED <<sensors, fib, fed, target, carrier, stale, healthy, newGen,
                 applyVars, liveVars, probeVars, toldVars>>

\* The supervisor starts VPP again; a reader may stay on the old segment.
Restart(old) ==
  /\ vpp # "run"
  /\ vpp' = "run"
  /\ link' = FALSE
  /\ fib' = FALSE
  /\ fed' = FALSE
  /\ target' = FALSE
  /\ stale' = (old /\ "liveness" \in sensors)
  /\ UNCHANGED <<sensors, starved, carrier, healthy, newGen, applyVars, liveVars,
                 probeVars, toldVars, trouble, faults>>

\* BIRD feeds the FIB, or routes come back.
PathUp ==
  /\ vpp = "run"
  /\ ~fib
  /\ fib' = TRUE
  /\ fed' = TRUE
  /\ UNCHANGED <<sensors, vpp, starved, target, carrier, stale, connVars,
                 applyVars, liveVars, probeVars, toldVars, trouble, faults>>

PathDown ==
  /\ Fault
  /\ fib
  /\ fib' = FALSE
  /\ UNCHANGED <<sensors, vpp, starved, fed, target, carrier, stale, connVars,
                 applyVars, liveVars, probeVars, toldVars, trouble>>

CarrierDown ==
  /\ Fault
  /\ carrier
  /\ carrier' = FALSE
  /\ UNCHANGED <<sensors, vpp, starved, fib, fed, target, stale, connVars,
                 applyVars, liveVars, probeVars, toldVars, trouble>>

CarrierUp ==
  /\ ~carrier
  /\ carrier' = TRUE
  /\ UNCHANGED <<sensors, vpp, starved, fib, fed, target, stale, connVars,
                 applyVars, liveVars, probeVars, toldVars, trouble, faults>>

\* Work saturates the main thread, until it has caught up.
Starve ==
  /\ vpp = "run"
  /\ ~starved
  /\ applying \/ birdFails
  /\ starved' = TRUE
  /\ UNCHANGED <<sensors, vpp, fib, fed, target, carrier, stale, connVars,
                 applyVars, liveVars, probeVars, toldVars, trouble, faults>>

CatchUp ==
  /\ starved
  /\ starved' = FALSE
  /\ UNCHANGED <<sensors, vpp, fib, fed, target, carrier, stale, connVars,
                 applyVars, liveVars, probeVars, toldVars, trouble, faults>>

FeedChanges ==
  /\ birdFails' = ~birdFails
  /\ trouble' = (trouble \/ (starved /\ birdFails /\ ~applying))
  /\ UNCHANGED <<sensors, vppVars, connVars, applying, apply, liveVars,
                 probeVars, toldVars, faults>>

-----------------------------------------------------------------------------
(***************************************************************************)
(* Conn.handleEvent on the events of govpp.                                *)
(***************************************************************************)

\* Disconnected or Failed: the socket is gone, or a ping was not answered.
ConnLost ==
  /\ healthy
  /\ ~Works \/ starved
  /\ healthy' = FALSE
  /\ trouble' = TRUE
  /\ UNCHANGED <<sensors, vppVars, link, newGen, applyVars, liveVars, probeVars,
                 toldVars, faults>>

\* Connected: unless the bindings do not fit, healthy and a new generation.
Connected(compatible) ==
  /\ ~healthy
  /\ vpp = "run"
  /\ IF compatible
     THEN /\ healthy' = TRUE
          /\ newGen' = ("probe" \in sensors)
          /\ link' = TRUE
     ELSE UNCHANGED connVars
  /\ UNCHANGED <<sensors, vppVars, applyVars, liveVars, probeVars, toldVars,
                 trouble, faults>>

-----------------------------------------------------------------------------
(***************************************************************************)
(* The reconcile goroutine, as far as the sensors see it.                  *)
(***************************************************************************)

PassStarts ==
  /\ ~applying
  /\ applying' = TRUE
  /\ UNCHANGED <<sensors, vppVars, connVars, apply, birdFails, liveVars,
                 probeVars, toldVars, trouble, faults>>

\* Mutant: a pass that succeeded leaves the state unknown.
ClassifyFailures(up, result, repaired) ==
  IF ~up THEN "down" ELSE IF result = "err" \/ repaired THEN "degraded" ELSE "unknown"

Classify(up, result, repaired) ==
  CASE ~up                               -> "down"
    [] up /\ (result = "err" \/ repaired) -> "degraded"
    [] OTHER                             -> "healthy"

\* The pass ends and HealthChecker.Observe is told: with VPP out of reach it
\* fails, with a starved one it may; what was counted may fall short of desired.
PassEnds(result, repaired) ==
  /\ applying
  /\ result # "err" => healthy /\ Works
  /\ result = "err" => ~(healthy /\ Works) \/ starved
  /\ applying' = FALSE
  /\ apply' = result
  /\ last' = IF forced THEN "down" ELSE Classify(healthy, result, repaired)
  /\ trouble' = (trouble \/ result = "err" \/ (starved /\ ~birdFails))
  /\ UNCHANGED <<sensors, vppVars, connVars, birdFails, liveVars, probeVars,
                 forced, told, faults>>

\* runChaosHook: SIGUSR1.
ChaosHook ==
  /\ Fault
  /\ forced' = ~forced
  /\ UNCHANGED <<sensors, vppVars, connVars, applyVars, liveVars, probeVars,
                 last, told, trouble>>

-----------------------------------------------------------------------------
(***************************************************************************)
(* VppLiveness.check.                                                      *)
(***************************************************************************)

\* What a read of the heartbeat may find (external): "moved" is another value
\* than the last, of a new process a smaller one.
BeatReads ==
  CASE vpp = "down"                        -> {"same", "gone"}
    [] vpp = "wedged"                      -> {"same", "error"}
    [] vpp = "run" /\ stale                -> {"same"}
    [] vpp = "run" /\ ~stale /\ starved    -> {"moved", "same", "error"}
    [] OTHER                               -> {"moved"}

Alive(r) == r = "moved" \/ (r = "same" /\ ~haveBeat)

Aged(r) ==
  IF Alive(r) THEN 0 ELSE IF age = Grace THEN age ELSE age + 1

\* The verdict stands while busy, and until a first beat was seen.
Verdict(r) ==
  CASE r = "gone"  -> TRUE
    [] Alive(r)    -> FALSE
    [] OTHER       -> dead \/ (~Busy /\ haveBeat /\ Aged(r) = Grace)

\* Mutant: a reader on a stale segment is kept.
RebuildNever(r) == FALSE

\* While wedged the reader is rebuilt now and then; that fails without a VPP.
Rebuild(r) ==
  r # "gone" /\ ~Alive(r) /\ ~Busy /\ haveBeat /\ Aged(r) = Grace /\ due

LiveCheck(r) ==
  /\ "liveness" \in sensors
  /\ r \in BeatReads
  /\ haveBeat' = (haveBeat \/ Alive(r))
  /\ age' = Aged(r)
  /\ dead' = Verdict(r)
  /\ IF Rebuild(r)
     THEN due' = FALSE /\ stale' = (stale /\ vpp # "run")
     ELSE UNCHANGED <<due, stale>>
  /\ UNCHANGED <<sensors, vpp, starved, fib, fed, target, carrier, connVars,
                 applyVars, probeVars, toldVars, trouble, faults>>

ReconnectDue ==
  /\ ~due
  /\ due' = TRUE
  /\ UNCHANGED <<sensors, vppVars, connVars, applyVars, haveBeat, age, dead,
                 probeVars, toldVars, trouble, faults>>

-----------------------------------------------------------------------------
(***************************************************************************)
(* ForwardingProbe.round, over the plugin's gauge.                         *)
(***************************************************************************)

\* What a read of the gauge may find (external): it is absent from a VPP that
\* was not told of the target; a VPP that stopped leaves its last value, if any;
\* a starved one may not get a round trip through.
GaugeReads ==
  LET value == IF fib THEN "one" ELSE "zero" IN
  CASE ~target                    -> {"error"}
    [] target /\ vpp # "run"      -> {"error", value}
    [] target /\ vpp = "run"      -> IF starved THEN {"zero", value} ELSE {value}

\* Mutant: a restart of VPP does not disarm.
NeverDisarmed == [fails |-> fails, armed |-> everHealthy, broken |-> broken]

\* A new generation disarms the probe, like boot.
Disarmed ==
  IF newGen
  THEN [fails |-> 0, armed |-> FALSE, broken |-> FALSE]
  ELSE [fails |-> fails, armed |-> everHealthy, broken |-> broken]

\* Mutant: an inconclusive round starts the count again.
CountAfresh(p) ==
  IF Busy THEN [p EXCEPT !.fails = 0]
  ELSE IF p.fails + 1 >= K THEN [p EXCEPT !.fails = K, !.broken = TRUE]
  ELSE [p EXCEPT !.fails = @ + 1]

\* A regression: inconclusive while busy, otherwise one more of K.
Regression(p) ==
  IF Busy THEN p
  ELSE IF p.fails + 1 >= K THEN [p EXCEPT !.fails = K, !.broken = TRUE]
  ELSE [p EXCEPT !.fails = @ + 1]

Round(r, p) ==
  CASE r = "error"             -> p
    [] r = "one"               -> [fails |-> 0, armed |-> TRUE, broken |-> FALSE]
    [] r = "zero" /\ ~p.armed  -> p
    [] r = "zero" /\ p.armed   -> Regression(p)

\* With the gauge absent the target is registered again, if VPP answers.
ProbeRound(r) ==
  /\ "probe" \in sensors
  /\ r \in GaugeReads
  /\ newGen' = FALSE
  /\ LET p == Round(r, Disarmed) IN
     /\ fails' = p.fails
     /\ everHealthy' = p.armed
     /\ broken' = p.broken
  /\ target' = (target \/ (r = "error" /\ healthy /\ Works))
  /\ UNCHANGED <<sensors, vpp, starved, fib, fed, carrier, stale, link, healthy,
                 applyVars, liveVars, toldVars, trouble, faults>>

-----------------------------------------------------------------------------
(***************************************************************************)
(* FaultSensor.Fault, laid over the last health by Reporter.Build.         *)
(***************************************************************************)

\* still: the connection is healthy when a failed dump asks again.
FaultKind(still, dumped) ==
  CASE ~healthy                                     -> "vpp-gone"
    [] healthy /\ dead                              -> "vpp-gone"
    [] healthy /\ ~dead /\ ~dumped /\ ~still        -> "vpp-gone"
    [] healthy /\ ~dead /\ dumped /\ ~carrier       -> "link-down"
    [] healthy /\ ~dead /\ broken /\ (dumped => carrier) /\ (~dumped => still)
                                                    -> "forwarding-broken"
    [] OTHER                                        -> "none"

\* A report, once a pass was observed; a starved VPP may not answer the dump.
Report(still, dumped) ==
  /\ last # NoHealth
  /\ dumped => Works
  /\ ~dumped => ~Works \/ starved
  /\ ~still => ~Works \/ starved
  /\ told' = FaultKind(still, dumped)
  /\ UNCHANGED <<sensors, vppVars, connVars, applyVars, liveVars, probeVars,
                 last, forced, trouble, faults>>

-----------------------------------------------------------------------------

Reads == {"moved", "same", "error", "gone", "zero", "one"}

Next ==
  \/ \E how \in {"wedged", "down"} : Crash(how)
  \/ \E old \in BOOLEAN : Restart(old)
  \/ PathUp
  \/ PathDown
  \/ CarrierDown
  \/ CarrierUp
  \/ Starve
  \/ CatchUp
  \/ FeedChanges
  \/ ConnLost
  \/ \E c \in BOOLEAN : Connected(c)
  \/ PassStarts
  \/ \E o \in {"ok", "pending", "err"}, rep \in BOOLEAN : PassEnds(o, rep)
  \/ ChaosHook
  \/ \E r \in Reads : LiveCheck(r)
  \/ ReconnectDue
  \/ \E r \in Reads : ProbeRound(r)
  \/ \E s, d \in BOOLEAN : Report(s, d)

Spec == Init /\ [][Next]_vars

\* The agent's timers fire and its calls return (every one has a deadline); a
\* sensor is now and then asked while no pass is in flight; a restarted VPP that
\* fits is connected to again (vppReconnectAttempts).  Nothing is assumed of
\* govpp noticing a loss, of VPP being restarted, or of the feed recovering.
FairSpec ==
  /\ Spec
  /\ WF_vars(PassStarts)
  /\ WF_vars(\E o \in {"ok", "pending", "err"}, rep \in BOOLEAN : PassEnds(o, rep))
  /\ WF_vars(\E r \in Reads : LiveCheck(r))
  /\ SF_vars(~applying /\ \E r \in Reads : LiveCheck(r))
  /\ WF_vars(\E r \in Reads : ProbeRound(r))
  /\ SF_vars(~applying /\ \E r \in Reads : ProbeRound(r))
  /\ WF_vars(ReconnectDue)
  /\ WF_vars(\E s, d \in BOOLEAN : Report(s, d))
  /\ WF_vars(Connected(TRUE))

-----------------------------------------------------------------------------

\* A VPP that was only ever busy (its main thread starved no longer than the
\* work lasts, no pass failed) is never judged dead: the heartbeat is not judged
\* while a pass or the feed keeps the phase Reconciling (check, sensorBusy).
BusyIsNotDead == dead => trouble

\* The probe never calls a path broken on a VPP whose FIB was not fed since it
\* started: a restart disarms it before the rebuild can be counted (round).
RebuildIsNoBlackHole ==
  [][broken' /\ ~broken => fed]_vars

\* A VPP that dies or wedges for good is told to the controller, and its health is
\* not healthy, even when govpp never notices and even when a failing feed keeps the
\* phase Reconciling: the failing passes open the gate (check, ComputePhase).
DeathTold ==
  <>[](vpp # "run" /\ haveBeat /\ last # NoHealth)
    => <>[](told = "vpp-gone" /\ last # "healthy")

\* A VPP that runs and forwards is in the end reported without a fault, after any
\* crash the API client noticed, also one that left the heartbeat's reader on a
\* stale segment (check).
RecoveryTold ==
  <>[](vpp = "run" /\ link /\ fib /\ carrier /\ ~starved /\ ~birdFails
         /\ last # NoHealth /\ apply # "pending")
    => <>[](told = "none")

\* A black hole behind an armed probe is "delayed by the busy window, never
\* lost", as long as the connection stays and the feed recovers (round).
BlackHoleTold ==
  <>[](vpp = "run" /\ healthy /\ everHealthy /\ ~fib /\ carrier /\ target /\ ~starved
         /\ ~birdFails /\ last # NoHealth /\ apply # "pending")
    => <>[](told = "forwarding-broken")

\* The sensors' state is well formed and a VPP that was only ever busy is not dead.
HealthInv == TypeOK /\ BusyIsNotDead
=============================================================================
