----------------------------- MODULE TableSizing -----------------------------
(***************************************************************************)
(* Sizing of the classify tables (agent/classifysizing.go): buckets and    *)
(* heap of a table, the session budget told to the controller, and the     *)
(* memory budget they come from.  The constants of the source are          *)
(* parameters, so that their boundaries lie within small numbers.          *)
(***************************************************************************)
EXTENDS Inputs, Integers

CONSTANTS
  PerEntry,                \* classifyPerEntryBytes, 128 in the code
  MinMembers, MinBuckets, MaxBuckets, MinMem, MaxMem,
  WordBits,                \* width of the member count, 32 in the code
  Members,                 \* values of BWPOOL_CLASSIFY_MEMBERS; 0 is unset
  Limits                   \* memory sizes

\* The smallest heap holds the smallest capacity and its headroom: 3000 entries need
\* 576000 bytes of the code's 16 MiB.
ASSUME SizingAssumption ==
  /\ PerEntry \in Nat \ {0}
  /\ MinBuckets <= MaxBuckets
  /\ MinMembers \in Nat
  /\ MinMem \in Nat
  /\ MaxMem \in Nat
  /\ (MinMembers * PerEntry * 3) \div 2 <= MinMem
  /\ MinMem <= MaxMem
  /\ 2^WordBits \in Nat \ {0}
  /\ Members \subseteq Nat
  /\ Limits \subseteq Nat

DefaultPct == 2
Absent == -1               \* a file that is missing, "max", or the v1 sentinel

AtLeast(v, low) == IF v < low THEN low ELSE v
AtMost(v, high) == IF v > high THEN high ELSE v

-----------------------------------------------------------------------------

\* nextPow2.
NextPow2(n) ==
  2^(CHOOSE e \in 0 .. 30 : 2^e >= n /\ \A d \in 0 .. e - 1 : 2^d < n)

\* classifyCapacity.
Capacity(members, pct, budget) ==
  AtLeast(IF members # 0 THEN members
          ELSE ((budget * (IF pct <= 0 THEN DefaultPct ELSE pct)) \div 100) \div PerEntry,
          MinMembers)

\* classifyTableSizing.
Nbuckets(c) == AtMost(AtLeast(NextPow2(c), MinBuckets), MaxBuckets)
MemorySize(c) == AtMost(AtLeast((c * PerEntry * 3) \div 2, MinMem), MaxMem)

\* Mutant: the pod's limit is not looked at.
PhysicalOnly(phys, v2, v1) == phys

\* memoryBudget: the least of what readCgroupLimit and procMemTotalBytes found; a
\* /proc/meminfo that cannot be read is 0.
MemoryBudget(phys, v2, v1) ==
  LET Cap(b, v) == IF v # Absent /\ v < b THEN v ELSE b
  IN Cap(Cap(phys, v2), v1)

\* envUint and the conversion to uint32.
MembersOf(in) == in.members % 2^WordBits

\* classifyAutoSizing.
AutoSizing(in) ==
  LET c == Capacity(MembersOf(in), in.pct, MemoryBudget(in.phys, in.v2, in.v1))
  IN [nbuckets |-> Nbuckets(c), memory |-> MemorySize(c)]

\* Mutant: an explicit member count is not asked for.
BudgetOfMemory(in) == Capacity(0, in.pct, MemoryBudget(in.phys, in.v2, in.v1))

\* ClassifySessionBudget.
SessionBudget(in) ==
  Capacity(MembersOf(in), in.pct, MemoryBudget(in.phys, in.v2, in.v1))

SizingInputs ==
  [of : {"sizing"}, members : Members, pct : {0, 10, 50}, phys : Limits \cup {0},
   v2 : Limits \cup {Absent}, v1 : Limits \cup {Absent}]

-----------------------------------------------------------------------------

\* The sessions the controller is told it may place fit the heap VPP makes of a table
\* ("so they never disagree"): one more than fits would stop VPP.  Beyond the largest
\* heap the API can name it is not so; see the README (ClassifySessionBudget,
\* classifyTableSizing).
BudgetFits ==
  input.of = "sizing" =>
    LET size == AutoSizing(input) IN
    size.memory < MaxMem => SessionBudget(input) * PerEntry <= size.memory

\* Without an explicit count no table takes more than its share, with the headroom, of
\* the least of the limits the process runs under, unless it is at its floor
\* (memoryBudget, classifyCapacity).
HeapWithinLimit ==
  input.of = "sizing" /\ MembersOf(input) = 0 =>
    LET pct == IF input.pct = 0 THEN DefaultPct ELSE input.pct
        limits == {l \in {input.phys, input.v2, input.v1} : l # Absent}
    IN \/ AutoSizing(input).memory = MinMem
       \/ \A l \in limits : AutoSizing(input).memory * 200 <= 3 * pct * l

\* The classify tables hold what the controller may place and fit the memory limits.
TablesFit == BudgetFits /\ HeapWithinLimit
=============================================================================
