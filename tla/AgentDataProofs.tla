-------------------------- MODULE AgentDataProofs --------------------------
(***************************************************************************)
(* Proofs about the BIRD control client (BirdControl), for any number of   *)
(* calls, and about the arithmetic of policer specs (PolicerConfig) and of *)
(* table sizes (TableSizing), for any rates, bursts, limits and counts.    *)
(***************************************************************************)
EXTENDS BirdControl, PolicerConfig, TableSizing, TLAPS

-----------------------------------------------------------------------------
(***************************************************************************)
(* Arithmetic.                                                             *)
(***************************************************************************)

LEMMA DivFacts ==
  ASSUME NEW a \in Nat, NEW b \in Nat \ {0}
  PROVE  /\ a \div b \in Nat
         /\ (a \div b) * b <= a
         /\ a < (a \div b) * b + b
OBVIOUS

LEMMA ModFacts ==
  ASSUME NEW a \in Nat, NEW b \in Nat \ {0}
  PROVE  /\ a % b \in Nat
         /\ a < b => a % b = a
OBVIOUS

LEMMA ProductIsNat ==
  ASSUME NEW a \in Nat, NEW b \in Nat
  PROVE  a * b \in Nat
OBVIOUS

LEMMA ProductGrows ==
  ASSUME NEW a \in Nat, NEW b \in Nat, NEW c \in Nat, a <= b
  PROVE  a * c <= b * c
OBVIOUS

\* The rounded quotient is the closest integer: one more or less is as far off at
\* best.
LEMMA RoundedIsClosest ==
  ASSUME NEW a \in Nat, NEW c \in Nat \ {0}, NEW m, m = (a + c \div 2) \div c
  PROVE  LET Off(n) == IF a - n * c < 0 THEN -(a - n * c) ELSE a - n * c
         IN  m \in Nat /\ Off(m) <= Off(m - 1) /\ Off(m) <= Off(m + 1)
<1>. DEFINE h == c \div 2  x == m * c
<1>1. h \in Nat /\ h * 2 <= c /\ c < h * 2 + 2
  BY DivFacts
<1>2. m \in Nat /\ x <= a + h /\ a + h < x + c
  BY <1>1, DivFacts
<1>3. x \in Int /\ (m + 1) * c = x + c /\ (m - 1) * c = x - c
  BY <1>2
<1>. HIDE DEF h, x
<1>4. /\ a - x <= h /\ x - a <= h
      /\ a - (x + c) <= -h \/ a - (x + c) >= h
      /\ a - (x - c) <= -h \/ a - (x - c) >= h
  BY <1>1, <1>2, <1>3
<1>5. m * c = x
  BY DEF x
<1>. QED  BY <1>1, <1>2, <1>3, <1>4, <1>5

-----------------------------------------------------------------------------
(***************************************************************************)
(* Policer specs.                                                          *)
(***************************************************************************)

LEMMA DriftIsExact == input \in PolicerInputs => KbpsDriftExact
<1>. SUFFICES ASSUME input \in PolicerInputs,
                     input.old.rate = "kbps", input.new.rate = "kbps",
                     {input.old.cir, input.new.cir} \subseteq 0 .. 2^CirBits - 1
              PROVE  PolicerDrifted(input.new, Dump(ToConfig(input.old)))
                       <=> \/ input.old.cir # input.new.cir
                           \/ input.old.bytes # input.new.bytes
  BY DEF KbpsDriftExact
<1>. DEFINE w == 2^CirBits  old == input.old  new == input.new
<1>1. w \in Nat \ {0}
  BY PolicerAssumption
<1>2. old.cir \in 0 .. w - 1 /\ new.cir \in 0 .. w - 1
  OBVIOUS
<1>3. old.cir % w = old.cir /\ new.cir % w = new.cir
  <2>. HIDE DEF w
  <2>. QED  BY <1>1, <1>2, ModFacts
<1>4. Dump(ToConfig(old)) = [cir |-> old.cir % w, cb |-> old.bytes]
  BY DEF Dump, ToConfig
<1>. QED  BY <1>3, <1>4 DEF PolicerDrifted

LEMMA BurstIsClosest == input \in PolicerInputs => PpsBurstClosest
<1>. SUFFICES ASSUME input \in PolicerInputs, input.new.rate = "pps"
              PROVE  PpsBurstClosest
  BY DEF PpsBurstClosest
<1>. DEFINE s == input.new
            a == s.packets * 1000
            cb == ToConfig(s).cb
            Off(ms) == IF a - ms * s.cir < 0 THEN -(a - ms * s.cir) ELSE a - ms * s.cir
<1>1. s.packets \in Nat /\ s.cir \in Nat /\ a \in Nat
  <2>1. s \in Specs
    BY DEF PolicerInputs
  <2>2. s.packets \in Bursts \cup {0} /\ s.cir \in Rates
    BY <2>1 DEF Specs
  <2>3. s.packets \in Nat /\ s.cir \in Nat
    BY <2>2, PolicerAssumption
  <2>. QED  BY <2>3, ProductIsNat
<1>2. cb = CbMsForPps(s.packets, s.cir)
  BY DEF ToConfig
<1>3. Off(cb) <= Off(cb - 1) /\ Off(cb) <= Off(cb + 1)
  <2>1. CASE s.cir = 0
    <3>1. cb = 0
      BY <1>2, <2>1 DEF CbMsForPps
    <3>. QED  BY <1>1, <2>1, <3>1
  <2>2. CASE s.cir # 0
    <3>1. cb = (a + s.cir \div 2) \div s.cir
      BY <1>2, <2>2 DEF CbMsForPps
    <3>. HIDE DEF a, cb
    <3>. QED  BY <1>1, <2>2, <3>1, RoundedIsClosest
  <2>. QED  BY <2>1, <2>2
<1>. QED  BY <1>3 DEF PpsBurstClosest

\* What is sent to VPP and compared with its dump is exact (PolicerExact), for any
\* rates and bursts and any width of the rate's field.
THEOREM PolicersAreExact ==
  (input.of = "policer" => input \in PolicerInputs) => PolicerExact
<1>1. CASE input.of = "policer"
  BY <1>1, DriftIsExact, BurstIsClosest DEF PolicerExact
<1>2. CASE input.of # "policer"
  BY <1>2 DEF PolicerExact, KbpsDriftExact, PpsBurstClosest
<1>. QED  BY <1>1, <1>2

-----------------------------------------------------------------------------
(***************************************************************************)
(* Table sizes.                                                            *)
(***************************************************************************)

LEMMA SizingTypes ==
  ASSUME input \in SizingInputs
  PROVE  /\ MembersOf(input) \in Nat
         /\ input.pct \in {0, 10, 50}
         /\ input.phys \in Nat
         /\ input.v2 \in Nat \cup {Absent}
         /\ input.v1 \in Nat \cup {Absent}
<1>1. /\ input.members \in Members
      /\ input.pct \in {0, 10, 50}
      /\ input.phys \in Limits \cup {0}
      /\ input.v2 \in Limits \cup {Absent}
      /\ input.v1 \in Limits \cup {Absent}
  BY DEF SizingInputs
<1>2. input.members \in Nat /\ 2^WordBits \in Nat \ {0}
  BY <1>1, SizingAssumption
<1>3. MembersOf(input) \in Nat
  <2>. DEFINE w == 2^WordBits
  <2>1. w \in Nat \ {0} /\ MembersOf(input) = input.members % w
    BY <1>2 DEF MembersOf
  <2>. HIDE DEF w
  <2>. QED  BY <1>2, <2>1, ModFacts
<1>4. Limits \subseteq Nat
  BY SizingAssumption
<1>5. input.phys \in Nat
  <2>1. 0 \in Nat
    OBVIOUS
  <2>. QED  BY <1>1, <1>4, <2>1, Zenon
<1>6. input.v2 \in Nat \cup {Absent} /\ input.v1 \in Nat \cup {Absent}
  BY <1>1, <1>4, Zenon
<1>. QED  BY <1>1, <1>3, <1>5, <1>6

\* The budget is a limit the process runs under, and the least of them.
LEMMA BudgetIsLeast ==
  ASSUME NEW phys \in Nat, NEW v2 \in Nat \cup {Absent}, NEW v1 \in Nat \cup {Absent}
  PROVE  /\ MemoryBudget(phys, v2, v1) \in Nat
         /\ MemoryBudget(phys, v2, v1) <= phys
         /\ v2 # Absent => MemoryBudget(phys, v2, v1) <= v2
         /\ v1 # Absent => MemoryBudget(phys, v2, v1) <= v1
BY DEF MemoryBudget, Absent

Share(pct) == IF pct = 0 THEN DefaultPct ELSE pct

\* The capacity: asked for, or what a share of the budget holds, but never too few.
LEMMA CapacityFacts ==
  ASSUME NEW members \in Nat, NEW pct \in {0, 10, 50}, NEW budget \in Nat
  PROVE  /\ Capacity(members, pct, budget) \in Nat
         /\ members = 0 => \/ Capacity(members, pct, budget) = MinMembers
                           \/ Capacity(members, pct, budget) * PerEntry * 100
                                <= budget * Share(pct)
<1>. DEFINE c == Capacity(members, pct, budget)
            share == Share(pct)
            q == (budget * share) \div 100
            n == q \div PerEntry
<1>1. /\ share \in Nat
      /\ share = IF pct <= 0 THEN DefaultPct ELSE pct
      /\ PerEntry \in Nat \ {0}
      /\ MinMembers \in Nat
  BY SizingAssumption DEF DefaultPct, Share
<1>. HIDE DEF share
<1>2. budget * share \in Nat
  BY <1>1, ProductIsNat
<1>3. q \in Nat /\ q * 100 <= budget * share
  BY <1>2, DivFacts
<1>. HIDE DEF q
<1>4. n \in Nat /\ n * PerEntry <= q
  BY <1>1, <1>3, DivFacts
<1>5. c = AtLeast(IF members # 0 THEN members ELSE n, MinMembers)
  BY <1>1 DEF Capacity, q
<1>. HIDE DEF n, c
<1>6. c \in Nat
  BY <1>1, <1>4, <1>5 DEF AtLeast
<1>7. ASSUME members = 0, c # MinMembers
      PROVE  c * PerEntry * 100 <= budget * share
  <2>1. c = n
    BY <1>5, <1>7 DEF AtLeast
  <2>2. n * PerEntry \in Nat
    BY <1>1, <1>4, ProductIsNat
  <2>. QED  BY <1>2, <1>3, <1>4, <2>1, <2>2
<1>. QED  BY <1>6, <1>7 DEF c, share

\* The heap of a table: its capacity and half as much again, within its bounds.
LEMMA MemoryFacts ==
  ASSUME NEW c \in Nat
  PROVE  /\ MemorySize(c) \in Nat
         /\ MemorySize(c) < MaxMem => c * PerEntry <= MemorySize(c)
         /\ MemorySize(c) = MinMem \/ MemorySize(c) * 2 <= c * PerEntry * 3
         /\ c = MinMembers => MemorySize(c) = MinMem
<1>. DEFINE y == c * PerEntry
            x == (y * 3) \div 2
<1>1. y \in Nat /\ MinMem \in Nat /\ MaxMem \in Nat /\ MinMem <= MaxMem
  BY SizingAssumption, ProductIsNat
<1>2. MemorySize(c) = AtMost(AtLeast(x, MinMem), MaxMem)
  BY DEF MemorySize
<1>3. c = MinMembers => x <= MinMem
  BY SizingAssumption
<1>. HIDE DEF y
<1>4. x \in Nat /\ x * 2 <= y * 3 /\ y <= x
  BY <1>1, DivFacts
<1>5. y = c * PerEntry
  BY DEF y
<1>. HIDE DEF x
<1>. QED  BY <1>1, <1>2, <1>3, <1>4, <1>5 DEF AtMost, AtLeast

LEMMA SessionsFit == input \in SizingInputs => BudgetFits
<1>. SUFFICES ASSUME input \in SizingInputs, AutoSizing(input).memory < MaxMem
              PROVE  SessionBudget(input) * PerEntry <= AutoSizing(input).memory
  BY DEF BudgetFits
<1>. DEFINE c == Capacity(MembersOf(input), input.pct,
                          MemoryBudget(input.phys, input.v2, input.v1))
<1>1. c \in Nat
  BY SizingTypes, BudgetIsLeast, CapacityFacts
<1>2. AutoSizing(input).memory = MemorySize(c) /\ SessionBudget(input) = c
  BY DEF AutoSizing, SessionBudget
<1>. HIDE DEF c
<1>. QED  BY <1>1, <1>2, MemoryFacts

LEMMA HeapOfShare ==
  ASSUME NEW pct \in {0, 10, 50}, NEW budget \in Nat, NEW l \in Nat, budget <= l,
         NEW m, m = MemorySize(Capacity(0, pct, budget))
  PROVE  m = MinMem \/ m * 200 <= 3 * Share(pct) * l
<1>. DEFINE c == Capacity(0, pct, budget)
            share == Share(pct)
<1>1. /\ c \in Nat
      /\ c = MinMembers \/ c * PerEntry * 100 <= budget * share
  BY CapacityFacts
<1>2. share \in Nat
  BY DEF Share, DefaultPct
<1>. HIDE DEF c, share
<1>3. m = MemorySize(c)
  BY DEF c
<1>4. ASSUME m # MinMem
      PROVE  m * 200 <= 3 * share * l
  <2>1. m \in Nat /\ m * 2 <= c * PerEntry * 3 /\ c * PerEntry * 100 <= budget * share
    BY <1>1, <1>3, <1>4, MemoryFacts
  <2>2. budget * share <= l * share
    BY <1>2, ProductGrows
  <2>3. c * PerEntry \in Nat /\ budget * share \in Nat /\ l * share \in Nat
    BY <1>1, <1>2, SizingAssumption, ProductIsNat
  <2>4. m * 200 <= 3 * (l * share)
    BY <2>1, <2>2, <2>3
  <2>5. 3 * (l * share) = 3 * share * l
    BY <1>2
  <2>. QED  BY <2>4, <2>5
<1>. QED  BY <1>4 DEF share

LEMMA HeapsAreModest == input \in SizingInputs => HeapWithinLimit
<1>. SUFFICES ASSUME input \in SizingInputs, MembersOf(input) = 0
              PROVE  HeapWithinLimit
  BY DEF HeapWithinLimit
<1>. DEFINE share == IF input.pct = 0 THEN DefaultPct ELSE input.pct
            limits == {l \in {input.phys, input.v2, input.v1} : l # Absent}
<1>1. PICK b : b = MemoryBudget(input.phys, input.v2, input.v1)
  OBVIOUS
<1>2. PICK m : m = AutoSizing(input).memory
  OBVIOUS
<1>3. PICK p : p = input.pct
  OBVIOUS
<1>4. p \in {0, 10, 50} /\ share = Share(p) /\ m = MemorySize(Capacity(0, p, b))
  BY <1>1, <1>2, <1>3, SizingTypes DEF Share, AutoSizing
<1>5. /\ b \in Nat
      /\ b <= input.phys
      /\ input.v2 # Absent => b <= input.v2
      /\ input.v1 # Absent => b <= input.v1
  <2>1. PICK phys, v2, v1 : phys = input.phys /\ v2 = input.v2 /\ v1 = input.v1
    OBVIOUS
  <2>2. phys \in Nat /\ v2 \in Nat \cup {Absent} /\ v1 \in Nat \cup {Absent}
    BY <2>1, SizingTypes, Zenon
  <2>3. b = MemoryBudget(phys, v2, v1)
    BY <1>1, <2>1
  <2>. QED  BY <2>1, <2>2, <2>3, BudgetIsLeast
<1>6. ASSUME NEW l \in limits
      PROVE  l \in Nat /\ b <= l
  BY <1>5, SizingTypes
<1>7. m = MinMem \/ \A l \in limits : m * 200 <= 3 * share * l
  BY <1>4, <1>5, <1>6, HeapOfShare
<1>. QED  BY <1>2, <1>7 DEF HeapWithinLimit

\* What the controller may place fits the tables, and the tables fit the memory
\* limits (TablesFit), for any limits, counts, widths and sizes of the source's
\* constants that leave the smallest heap room for the smallest capacity.
THEOREM TablesAlwaysFit ==
  (input.of = "sizing" => input \in SizingInputs) => TablesFit
<1>1. CASE input.of = "sizing"
  BY <1>1, SessionsFit, HeapsAreModest DEF TablesFit
<1>2. CASE input.of # "sizing"
  BY <1>2 DEF TablesFit, BudgetFits, HeapWithinLimit
<1>. QED  BY <1>1, <1>2

-----------------------------------------------------------------------------
(***************************************************************************)
(* The BIRD control client.                                                *)
(***************************************************************************)

Line == [call : Nat, kind : Lines]
Command == [call : Nat, live : BOOLEAN]

BirdTypeOK ==
  /\ at \in {"idle", "ensure", "write", "read"}
  /\ call \in Nat
  /\ attempt \in {0, 1}
  /\ pipe \in Seq(Line)
  /\ queue \in Seq(Command)
  /\ runs \in Nat

\* Only a call that reads finds lines, all of one reply to it: the last line of the
\* reply is the last line there is.
PipeIsOneReply ==
  /\ at # "read" => pipe = <<>>
  /\ \A i \in 1 .. Len(pipe) : pipe[i].call = call /\ (Final(pipe[i]) <=> i = Len(pipe))

\* BIRD can answer one command, the last it was told, and only while the call waits
\* with nothing read; the others are of connections that are gone.
OneLive ==
  \A i \in 1 .. Len(queue) :
    queue[i].live => /\ at = "read"
                     /\ pipe = <<>>
                     /\ queue[i].call = call
                     /\ i = Len(queue)

\* How often this call has written its command at most.
Written == IF at \in {"read", "idle"} THEN attempt + 1 ELSE attempt

\* What was carried out of the call and what may still be (a command behind one of this
\* call is of this call too) was written.
RunsAreWritten ==
  /\ runs <= Written
  /\ \A i \in 1 .. Len(queue) :
       /\ queue[i].call <= call
       /\ queue[i].call = call => runs + (Len(queue) - i) + 1 <= Written

FaultIsNoted == attempt = 1 => faulty

\* A line, and an answer, come of a command carried out.
LinesFollowRuns == pipe # <<>> => runs >= 1
AnswerIsOwn == Answered => out.of = call /\ runs >= 1

BirdInv ==
  /\ BirdTypeOK /\ PipeIsOneReply /\ OneLive /\ RunsAreWritten /\ FaultIsNoted
  /\ LinesFollowRuns /\ AnswerIsOwn

LEMMA BirdInitInv == BirdInit => BirdInv
BY DEF BirdInit, BirdInv, BirdTypeOK, PipeIsOneReply, OneLive, RunsAreWritten,
   Written, FaultIsNoted, LinesFollowRuns, AnswerIsOwn, Answered

\* A reply of BIRD: lines of one command, the last of them final.
LEMMA ReplyFacts ==
  ASSUME NEW lines \in Replies, NEW c \in Nat,
         NEW r, r = [i \in DOMAIN lines |-> [call |-> c, kind |-> lines[i]]]
  PROVE  /\ r \in Seq(Line)
         /\ r # <<>>
         /\ \A i \in 1 .. Len(r) : r[i].call = c /\ (Final(r[i]) <=> i = Len(r))
<1>. DEFINE line(kind) == [call |-> c, kind |-> kind]
<1>1. \A kind \in Lines :
        /\ line(kind) \in Line
        /\ line(kind).call = c
        /\ Final(line(kind)) <=> kind \in {"ok", "refused"}
  BY DEF Line, Final
<1>2. r = [i \in DOMAIN lines |-> line(lines[i])]
  OBVIOUS
<1>. HIDE DEF line
<1>3. CASE \E k \in {"ok", "refused"} : lines = <<k>>
  <2>1. PICK k \in {"ok", "refused"} : lines = <<k>>
    BY <1>3
  <2>2. r = <<line(k)>> /\ Len(r) = 1 /\ r[1] = line(k)
    BY <1>2, <2>1
  <2>3. line(k) \in Line /\ line(k).call = c /\ Final(line(k))
    BY <1>1, <2>1 DEF Lines
  <2>. QED  BY <2>2, <2>3
<1>4. CASE \E j \in {"more", "async"}, k \in {"ok", "refused"} : lines = <<j, k>>
  <2>1. PICK j \in {"more", "async"}, k \in {"ok", "refused"} : lines = <<j, k>>
    BY <1>4
  <2>2. r = <<line(j), line(k)>> /\ Len(r) = 2 /\ r[1] = line(j) /\ r[2] = line(k)
    BY <1>2, <2>1
  <2>3. /\ line(j) \in Line /\ line(j).call = c /\ ~Final(line(j))
        /\ line(k) \in Line /\ line(k).call = c /\ Final(line(k))
    BY <1>1, <2>1 DEF Lines
  <2>4. r \in Seq(Line) /\ 1 .. Len(r) = {1, 2}
    BY <2>2, <2>3
  <2>. QED  BY <2>2, <2>3, <2>4
<1>. QED  BY <1>3, <1>4 DEF Replies

\* A lost connection takes its lines, and BIRD's means to answer, with it.
LEMMA ConnFaultInv ==
  ASSUME BirdInv, at \in {"write", "read"}, ConnFault, faulty',
         UNCHANGED <<call, runs>>
  PROVE  BirdInv'
<1>1. /\ pipe' = <<>>
      /\ queue' = [i \in DOMAIN queue |-> [queue[i] EXCEPT !.live = FALSE]]
      /\ \/ at' = "ensure" /\ attempt' = attempt + 1 /\ attempt = 0 /\ UNCHANGED out
         \/ at' = "idle" /\ attempt' = attempt /\ out'.kind = "error"
  BY DEF ConnFault, Return, RetryOnce, BirdInv, BirdTypeOK
<1>2. BirdTypeOK
  BY DEF BirdInv
<1>3. /\ queue' \in Seq(Command)
      /\ Len(queue') = Len(queue)
      /\ \A i \in 1 .. Len(queue) : queue'[i].call = queue[i].call /\ ~queue'[i].live
  <2>1. queue \in Seq(Command) /\ DOMAIN queue = 1 .. Len(queue) /\ Len(queue) \in Nat
    BY <1>2 DEF BirdTypeOK
  <2>2. \A q \in Command : /\ [q EXCEPT !.live = FALSE] \in Command
                           /\ [q EXCEPT !.live = FALSE].call = q.call
                           /\ ~[q EXCEPT !.live = FALSE].live
    BY DEF Command
  <2>3. \A i \in 1 .. Len(queue) : queue[i] \in Command
    BY <2>1
  <2>4. queue' = [i \in 1 .. Len(queue) |-> [queue[i] EXCEPT !.live = FALSE]]
    BY <1>1, <2>1
  <2>5. \A i \in 1 .. Len(queue) : queue'[i] = [queue[i] EXCEPT !.live = FALSE]
    BY <2>4
  <2>6. queue' \in Seq(Command) /\ Len(queue') = Len(queue)
    BY <2>1, <2>2, <2>3, <2>4
  <2>. QED  BY <2>2, <2>3, <2>5, <2>6
<1>4. BirdTypeOK'
  BY <1>1, <1>2, <1>3 DEF BirdTypeOK
<1>5. PipeIsOneReply' /\ LinesFollowRuns' /\ OneLive' /\ FaultIsNoted'
  BY <1>1, <1>3 DEF PipeIsOneReply, LinesFollowRuns, OneLive, FaultIsNoted
<1>6. attempt' \in {0, 1} /\ Written <= Written' /\ Written \in Nat /\ Written' \in Nat
  BY <1>1, <1>2 DEF BirdTypeOK, Written
<1>7. RunsAreWritten'
  BY <1>2, <1>3, <1>6 DEF BirdInv, RunsAreWritten, BirdTypeOK
<1>8. AnswerIsOwn'
  BY <1>1 DEF AnswerIsOwn, Answered
<1>. QED  BY <1>4, <1>5, <1>7, <1>8 DEF BirdInv

LEMMA WriteInv == BirdInv /\ Write => BirdInv'
<1>. SUFFICES ASSUME BirdInv, Write PROVE BirdInv'
  OBVIOUS
<1>1. BirdTypeOK /\ at = "write" /\ UNCHANGED <<call, runs>>
  BY DEF BirdInv, Write
<1>2. CASE sock = "open"
  <2>1. /\ queue' = Append(queue, [call |-> call, live |-> TRUE])
        /\ at' = "read"
        /\ UNCHANGED <<attempt, pipe, faulty, out>>
        /\ pipe = <<>>
    BY <1>1, <1>2 DEF Write, BirdInv, PipeIsOneReply
  <2>2. /\ queue' \in Seq(Command)
        /\ Len(queue') = Len(queue) + 1
        /\ \A i \in 1 .. Len(queue) : queue'[i] = queue[i] /\ ~queue'[i].live
        /\ queue'[Len(queue) + 1] = [call |-> call, live |-> TRUE]
    BY <1>1, <2>1 DEF BirdTypeOK, Command, BirdInv, OneLive
  <2>3. BirdTypeOK'
    BY <1>1, <2>1, <2>2 DEF BirdTypeOK
  <2>4. OneLive'
    BY <1>1, <2>1, <2>2 DEF OneLive, BirdTypeOK
  <2>5. Written = attempt /\ Written' = attempt + 1 /\ Len(queue) \in Nat
    BY <1>1, <2>1 DEF Written, BirdTypeOK
  <2>6. RunsAreWritten'
    <3>1. /\ runs <= attempt
          /\ \A i \in 1 .. Len(queue) :
               /\ queue[i].call <= call
               /\ queue[i].call = call => runs + (Len(queue) - i) + 1 <= attempt
      BY <2>5 DEF BirdInv, RunsAreWritten
    <3>2. runs \in Nat /\ attempt \in Nat /\ call \in Nat
      BY <1>1 DEF BirdTypeOK
    <3>3. ASSUME NEW i \in 1 .. Len(queue')
          PROVE  /\ queue'[i].call <= call
                 /\ queue'[i].call = call => runs + (Len(queue') - i) + 1 <= attempt + 1
      <4>1. CASE i = Len(queue) + 1
        BY <2>2, <2>5, <3>1, <3>2, <4>1
      <4>2. CASE i \in 1 .. Len(queue)
        BY <2>2, <2>5, <3>1, <3>2, <4>2
      <4>. QED  BY <2>2, <2>5, <4>1, <4>2
    <3>. QED  BY <1>1, <2>5, <3>1, <3>2, <3>3 DEF RunsAreWritten
  <2>7. PipeIsOneReply' /\ LinesFollowRuns' /\ FaultIsNoted' /\ AnswerIsOwn'
    BY <2>1 DEF BirdInv, PipeIsOneReply, LinesFollowRuns, FaultIsNoted, AnswerIsOwn, Answered
  <2>. QED  BY <2>3, <2>4, <2>6, <2>7 DEF BirdInv
<1>3. CASE sock # "open"
  BY <1>1, <1>3, ConnFaultInv DEF Write
<1>. QED  BY <1>2, <1>3

LEMMA ReadInv == BirdInv /\ Read => BirdInv'
<1>. SUFFICES ASSUME BirdInv, Read PROVE BirdInv'
  OBVIOUS
<1>. DEFINE line == Head(pipe)
<1>1. /\ BirdTypeOK
      /\ at = "read"
      /\ pipe # <<>>
      /\ pipe' = Tail(pipe)
      /\ UNCHANGED <<attempt, queue, call, runs, faulty>>
      /\ \/ ~Final(line) /\ UNCHANGED <<at, out>>
         \/ Final(line) /\ at' = "idle" /\ out' = [kind |-> line.kind, of |-> line.call]
  BY DEF BirdInv, Read, IsConnFault, Return, Final
<1>2. /\ pipe' \in Seq(Line)
      /\ Len(pipe) \in Nat \ {0}
      /\ Len(pipe') = Len(pipe) - 1
      /\ \A i \in 1 .. Len(pipe') : pipe'[i] = pipe[i + 1]
      /\ line = pipe[1]
  BY <1>1 DEF BirdTypeOK
<1>3. BirdTypeOK'
  BY <1>1, <1>2 DEF BirdTypeOK
<1>4. line.call = call /\ (Final(line) <=> Len(pipe) = 1) /\ runs >= 1
  <2>1. 1 \in 1 .. Len(pipe)
    BY <1>2
  <2>2. line.call = call /\ (Final(line) <=> 1 = Len(pipe))
    BY <1>2, <2>1 DEF BirdInv, PipeIsOneReply
  <2>. QED  BY <1>1, <2>2 DEF BirdInv, LinesFollowRuns
<1>5. \A i \in 1 .. Len(pipe') : pipe'[i].call = call /\ (Final(pipe'[i]) <=> i = Len(pipe'))
  <2>1. SUFFICES ASSUME NEW i \in 1 .. Len(pipe')
                 PROVE  pipe[i + 1].call = call /\ (Final(pipe[i + 1]) <=> i = Len(pipe'))
    BY <1>2
  <2>2. i + 1 \in 1 .. Len(pipe) /\ (i = Len(pipe') <=> i + 1 = Len(pipe))
    BY <1>2
  <2>. QED  BY <2>2 DEF BirdInv, PipeIsOneReply
<1>6. at' # "read" => pipe' = <<>>
  BY <1>1, <1>2, <1>4
<1>7. PipeIsOneReply'
  BY <1>1, <1>5, <1>6 DEF PipeIsOneReply, Final
<1>8. OneLive'
  BY <1>1 DEF BirdInv, OneLive
<1>9. RunsAreWritten' /\ FaultIsNoted' /\ LinesFollowRuns'
  BY <1>1, <1>4 DEF BirdInv, RunsAreWritten, Written, FaultIsNoted, LinesFollowRuns
<1>10. AnswerIsOwn'
  BY <1>1, <1>4 DEF BirdInv, AnswerIsOwn, Answered
<1>. QED  BY <1>3, <1>7, <1>8, <1>9, <1>10 DEF BirdInv

\* BIRD carries out the next command, be it of this call, of an attempt it has given
\* up, or of an earlier call.
LEMMA ExecutesInv == BirdInv /\ Executes => BirdInv'
<1>. SUFFICES ASSUME BirdInv, Executes PROVE BirdInv'
  OBVIOUS
<1>. DEFINE next == queue[1]
<1>1. /\ BirdTypeOK
      /\ queue # <<>>
      /\ queue' = Tail(queue)
      /\ runs' = IF next.call = call THEN runs + 1 ELSE runs
      /\ UNCHANGED <<at, call, attempt, faulty, out>>
  BY DEF BirdInv, Executes, BirdTypeOK
<1>2. /\ next \in Command
      /\ queue' \in Seq(Command)
      /\ Len(queue) \in Nat \ {0}
      /\ Len(queue') = Len(queue) - 1
      /\ \A i \in 1 .. Len(queue') : queue'[i] = queue[i + 1]
  BY <1>1 DEF BirdTypeOK
<1>3. PICK lines \in Replies :
        pipe' = IF next.live
                THEN pipe \o [i \in DOMAIN lines |-> [call |-> next.call, kind |-> lines[i]]]
                ELSE pipe
  <2>1. Head(queue) = next
    BY <1>1 DEF BirdTypeOK
  <2>. QED  BY <2>1, Zenon DEF Executes
<1>4. PICK r : r = [i \in DOMAIN lines |-> [call |-> next.call, kind |-> lines[i]]]
  OBVIOUS
<1>5. next.live => /\ at = "read"
                   /\ pipe = <<>>
                   /\ next.call = call
                   /\ Len(queue) = 1
  BY <1>2 DEF BirdInv, OneLive
<1>6. /\ r \in Seq(Line)
      /\ r # <<>>
      /\ \A i \in 1 .. Len(r) : r[i].call = next.call /\ (Final(r[i]) <=> i = Len(r))
  <2>1. PICK c \in Nat : c = next.call
    BY <1>2 DEF Command
  <2>2. r = [i \in DOMAIN lines |-> [call |-> c, kind |-> lines[i]]]
    BY <1>4, <2>1
  <2>. QED  BY <2>1, <2>2, ReplyFacts
<1>7. pipe' = IF next.live THEN r ELSE pipe
  <2>1. CASE next.live
    <3>1. pipe' = pipe \o r
      BY <1>3, <1>4, <2>1, Zenon
    <3>. QED  BY <1>5, <1>6, <2>1, <3>1
  <2>2. CASE ~next.live
    BY <1>3, <2>2, Zenon
  <2>. QED  BY <2>1, <2>2
<1>8. runs' \in Nat /\ runs <= runs'
  BY <1>1 DEF BirdTypeOK
<1>9. BirdTypeOK'
  BY <1>1, <1>2, <1>6, <1>7, <1>8 DEF BirdTypeOK
<1>10. PipeIsOneReply'
  <2>1. CASE next.live
    BY <1>1, <1>5, <1>6, <1>7, <2>1 DEF PipeIsOneReply, Final
  <2>2. CASE ~next.live
    BY <1>1, <1>7, <2>2 DEF BirdInv, PipeIsOneReply, Final
  <2>. QED  BY <2>1, <2>2
<1>11. OneLive'
  <2>1. CASE next.live
    <3>1. Len(queue) = 1
      BY <1>5, <2>1, Zenon
    <3>2. ASSUME NEW i \in 1 .. Len(queue')
          PROVE  FALSE
      BY <1>2, <3>1, <3>2
    <3>. QED  BY <3>2 DEF OneLive
  <2>2. CASE ~next.live
    <3>1. ASSUME NEW i \in 1 .. Len(queue'), queue'[i].live
          PROVE  at = "read" /\ pipe = <<>> /\ queue'[i].call = call /\ i = Len(queue')
      <4>1. i + 1 \in 1 .. Len(queue) /\ queue[i + 1].live
        BY <1>2, <3>1
      <4>2. /\ at = "read" /\ pipe = <<>>
            /\ queue[i + 1].call = call /\ i + 1 = Len(queue)
        BY <4>1 DEF BirdInv, OneLive
      <4>. QED  BY <1>2, <4>2
    <3>2. pipe' = pipe
      BY <1>7, <2>2, Zenon
    <3>. QED  BY <1>1, <3>1, <3>2 DEF OneLive
  <2>. QED  BY <2>1, <2>2
<1>12. RunsAreWritten'
  <2>1. Written' = Written /\ Written \in Nat
    BY <1>1 DEF Written, BirdTypeOK
  <2>2. /\ runs <= Written
        /\ \A i \in 1 .. Len(queue) :
             /\ queue[i].call <= call
             /\ queue[i].call = call => runs + (Len(queue) - i) + 1 <= Written
    BY DEF BirdInv, RunsAreWritten
  <2>3. runs' <= Written
    BY <1>1, <1>2, <2>1, <2>2 DEF BirdTypeOK
  <2>4. ASSUME NEW i \in 1 .. Len(queue')
        PROVE  /\ queue'[i].call <= call
               /\ queue'[i].call = call => runs' + (Len(queue') - i) + 1 <= Written
    <3>1. i + 1 \in 1 .. Len(queue) /\ queue'[i] = queue[i + 1] /\ i \in Nat
      BY <1>2
    <3>2. CASE next.call = call
      <4>1. runs + Len(queue) <= Written /\ runs' = runs + 1
        BY <1>1, <1>2, <2>2, <3>2 DEF BirdTypeOK
      <4>. QED  BY <1>1, <1>2, <2>1, <2>2, <3>1, <4>1 DEF BirdTypeOK
    <3>3. CASE next.call # call
      BY <1>1, <1>2, <2>1, <2>2, <3>1, <3>3 DEF BirdTypeOK
    <3>. QED  BY <3>2, <3>3
  <2>. QED  BY <1>1, <2>1, <2>3, <2>4 DEF RunsAreWritten
<1>13. LinesFollowRuns'
  <2>1. next.live => runs' >= 1
    BY <1>1, <1>5 DEF BirdTypeOK
  <2>. QED  BY <1>1, <1>7, <1>8, <2>1 DEF BirdInv, LinesFollowRuns, BirdTypeOK
<1>14. FaultIsNoted' /\ AnswerIsOwn'
  BY <1>1, <1>8 DEF BirdInv, FaultIsNoted, AnswerIsOwn, Answered, BirdTypeOK
<1>. QED  BY <1>9, <1>10, <1>11, <1>12, <1>13, <1>14 DEF BirdInv

LEMMA BirdStepInv == BirdInv /\ [BirdNext]_birdVars => BirdInv'
<1>. SUFFICES ASSUME BirdInv, [BirdNext]_birdVars PROVE BirdInv'
  OBVIOUS
<1>1. CASE Begin
  <2>1. /\ at = "idle" /\ at' = "ensure"
        /\ call' = call + 1
        /\ attempt' = 0
        /\ runs' = 0
        /\ UNCHANGED <<pipe, queue>>
    BY <1>1 DEF Begin
  <2>2. pipe = <<>> /\ \A i \in 1 .. Len(queue) : ~queue[i].live /\ queue[i].call < call'
    <3>1. pipe = <<>>
      BY <2>1 DEF BirdInv, PipeIsOneReply
    <3>2. call' \in Nat /\ call \in Nat /\ queue \in Seq(Command) /\ Len(queue) \in Nat
      BY <2>1 DEF BirdInv, BirdTypeOK
    <3>3. ASSUME NEW i \in 1 .. Len(queue)
          PROVE  ~queue[i].live /\ queue[i].call < call'
      <4>1. PICK c : c = queue[i].call
        OBVIOUS
      <4>2. c \in Nat
        <5>1. queue[i] \in Command
          BY <3>2
        <5>. QED  BY <4>1, <5>1 DEF Command
      <4>3. c <= call
        BY <4>1 DEF BirdInv, RunsAreWritten
      <4>4. c < call'
        BY <2>1, <3>2, <4>2, <4>3
      <4>5. ~queue[i].live
        BY <2>1 DEF BirdInv, OneLive
      <4>. QED  BY <4>1, <4>4, <4>5
    <3>. QED  BY <3>1, <3>3
  <2>3. BirdTypeOK' /\ call' \in Nat
    BY <2>1 DEF BirdInv, BirdTypeOK
  <2>4. \A i \in 1 .. Len(queue) : queue[i].call <= call' /\ queue[i].call # call'
    <3>1. \A i \in 1 .. Len(queue) : queue[i] \in Command
      BY DEF BirdInv, BirdTypeOK
    <3>2. \A i \in 1 .. Len(queue) : queue[i].call \in Nat
      BY <3>1 DEF Command
    <3>. QED  BY <2>2, <2>3, <3>2
  <2>5. RunsAreWritten'
    BY <2>1, <2>4 DEF RunsAreWritten, Written
  <2>6. PipeIsOneReply' /\ OneLive' /\ LinesFollowRuns'
    BY <2>1, <2>2 DEF PipeIsOneReply, OneLive, LinesFollowRuns
  <2>7. FaultIsNoted' /\ AnswerIsOwn'
    BY <2>1 DEF FaultIsNoted, AnswerIsOwn, Answered
  <2>. QED  BY <2>3, <2>5, <2>6, <2>7 DEF BirdInv
<1>2. CASE Held \/ Dialled \/ DialFails
  <2>1. /\ at = "ensure"
        /\ at' = "write" \/ (at' = "idle" /\ out'.kind = "error")
        /\ pipe = <<>> /\ pipe' = <<>>
        /\ UNCHANGED <<call, attempt, queue, runs, faulty>>
    BY <1>2 DEF Held, Dialled, DialFails, Return, BirdInv, PipeIsOneReply
  <2>. QED
    BY <2>1
    DEF BirdInv, BirdTypeOK, PipeIsOneReply, OneLive, RunsAreWritten, Written,
        FaultIsNoted, LinesFollowRuns, AnswerIsOwn, Answered, Command
<1>3. CASE Write
  BY <1>3, WriteInv
<1>4. CASE Read
  BY <1>4, ReadInv
<1>5. CASE ReadFails
  BY <1>5, ConnFaultInv DEF ReadFails
<1>6. CASE Executes
  BY <1>6, ExecutesInv
<1>7. CASE GoesDown
  <2>1. queue' = <<>> /\ UNCHANGED <<at, call, attempt, pipe, runs, faulty, out>>
    BY <1>7 DEF GoesDown
  <2>. QED
    BY <2>1
    DEF BirdInv, BirdTypeOK, PipeIsOneReply, OneLive, RunsAreWritten, Written,
        FaultIsNoted, LinesFollowRuns, AnswerIsOwn, Answered, Final
<1>8. CASE ComesUp \/ UNCHANGED birdVars
  <2>1. UNCHANGED <<at, call, attempt, pipe, queue, runs, faulty, out>>
    BY <1>8 DEF ComesUp, birdVars
  <2>. QED
    BY <2>1
    DEF BirdInv, BirdTypeOK, PipeIsOneReply, OneLive, RunsAreWritten, Written,
        FaultIsNoted, LinesFollowRuns, AnswerIsOwn, Answered, Final
<1>. QED
  BY <1>1, <1>2, <1>3, <1>4, <1>5, <1>6, <1>7, <1>8 DEF BirdNext, BirdClient

\* Every call to BIRD has one answer, to a command that was carried out, once unless
\* the connection broke and never more than twice (OneAnswer), for any number of
\* calls and restarts and however late BIRD is.
THEOREM CallsAreAnsweredOnce == BirdSpec => []OneAnswer
<1>1. BirdSpec => []BirdInv
  BY BirdInitInv, BirdStepInv, PTL DEF BirdSpec
<1>2. BirdInv => OneAnswer
  <2>. SUFFICES ASSUME BirdInv PROVE OneAnswer
    OBVIOUS
  <2>1. runs <= Written /\ Written <= attempt + 1 /\ attempt \in {0, 1} /\ runs \in Nat
    BY DEF BirdInv, BirdTypeOK, RunsAreWritten, Written
  <2>2. AskedOnce
    BY <2>1 DEF BirdInv, FaultIsNoted, AskedOnce, Written
  <2>3. AnswersItsOwn /\ CarriedOut
    BY DEF BirdInv, AnswerIsOwn, AnswersItsOwn, CarriedOut, Answered
  <2>. QED  BY <2>2, <2>3 DEF OneAnswer
<1>. QED  BY <1>1, <1>2, PTL

=============================================================================
