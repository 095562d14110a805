---------------------------- MODULE MCAgentData ----------------------------
(***************************************************************************)
(* The desired store, the BIRD control client and the pure translations,   *)
(* in one run: a behaviour is of one of them, the others stand still.      *)
(***************************************************************************)
EXTENDS DesiredStore, BirdControl, PolicerConfig, ClassifyMask, Telemetry, TableSizing,
        Announcements, AgentConfig

VARIABLE world   \* what this behaviour is of: "store", "bird" or "inputs"

NoInput == [of |-> "none"]

\* Addresses that differ in one byte, within a /24 and across two.
MCAddrs4 == {<<10, 0, 0, 1>>, <<10, 0, 0, 2>>, <<10, 0, 1, 1>>}
MCAddrs6 == {[i \in 1 .. 16 |-> IF i = 1 THEN 253 ELSE IF i = 16 THEN n ELSE i] : n \in 1 .. 3}

V4(a, b, n) == [addr |-> <<10, a, b, 0>>, bits |-> n]
V6(a, n) == [addr |-> [i \in 1 .. 16 |-> IF i = 1 THEN 253 ELSE IF i = 2 THEN a ELSE 0], bits |-> n]
Mapped == [addr |-> [i \in 1 .. 16 |-> IF i < 11 THEN 0 ELSE IF i < 13 THEN 255 ELSE 1], bits |-> 128]
MCPrefixes == {V4(0, 0, 16), V4(0, 0, 24), V4(1, 0, 24), V4(1, 1, 16), V6(0, 64), V6(0, 32),
               V6(1, 32), Mapped, Invalid}

\* So many communities, a few in descending order.
Comms(n) == [i \in 1 .. n |-> <<65000, (n + 1 - i) * 5>>]
Large(n) == [i \in 1 .. n |-> <<65000, i % 2, n + 1 - i>>]
MCAnchorLists ==
  {<<>>} \cup
  {[i \in DOMAIN ps |-> [prefix |-> ps[i], comms |-> Comms(n), large |-> Large(m)]] :
     ps \in [1 .. 2 -> MCPrefixes], n \in {0, 2}, m \in {0, 3}} \cup
  {<<[prefix |-> V4(0, 0, 24), comms |-> Comms(n), large |-> Large(m)]>> :
     n \in {0, 1, 62, 63, 64}, m \in {0, 1, 20, 21, 22}}
MCFlowLists == UNION {[1 .. n -> MCPrefixes] : n \in 0 .. 2}
MCNextHops4 == {<<>>, <<10, 9, 8, 7>>}
MCNextHops6 == {<<>>, [i \in 1 .. 16 |-> i]}

storeVars == vars

DataInit ==
  /\ world \in {"store", "bird", "inputs"}
  /\ Init
  /\ BirdInit
  /\ input = NoInput

StoreStep == world = "store" /\ Next /\ UNCHANGED <<world, birdVars, input>>

BirdStep == world = "bird" /\ BirdNext /\ UNCHANGED <<world, storeVars, input>>

Look ==
  /\ world = "inputs"
  /\ input = NoInput
  /\ \/ input' \in PolicerInputs
     \/ input' \in WireInputs
     \/ input' \in ClassifyInputs
     \/ input' \in LookupInputs
     \/ input' \in MeterInputs
     \/ input' \in GaugeInputs
     \/ input' \in LinkInputs
     \/ input' \in SizingInputs
     \/ input' \in AnchorInputs
     \/ input' \in FlowInputs
     \/ input' \in ConfigInputs
     \/ input' \in BootInputs
  /\ UNCHANGED <<world, storeVars, birdVars>>

Looked ==
  /\ world = "inputs"
  /\ input # NoInput
  /\ input' = NoInput
  /\ UNCHANGED <<world, storeVars, birdVars>>

DataNext == StoreStep \/ BirdStep \/ Look \/ Looked

allVars == <<world, storeVars, birdVars, input>>

\* The client's goroutine runs, and its deadline passes.
DataSpec ==
  /\ DataInit
  /\ [][DataNext]_allVars
  /\ WF_allVars(world = "bird" /\ (BirdClient /\ ~Begin) /\ UNCHANGED <<world, storeVars, input>>)
=============================================================================
