------------------------------ MODULE Telemetry ------------------------------
(***************************************************************************)
(* What the agent reads from VPP and hands on: the policer counters and    *)
(* gauges of the stats segment (vpp.StatsReader), the samples made of them *)
(* (Metering.Run, Collect, Sink.Emit), and the interfaces (Interfaces.List,*)
(* IndexMap, linkDownAmong).  A combined counter is one number here: its   *)
(* packets and its bytes are folded alike.                                 *)
(***************************************************************************)
EXTENDS Wire

LOCAL INSTANCE SequencesExt

CONSTANTS
  Counts,      \* counter values
  MaxIndex     \* bound: policer indexes 0 .. MaxIndex

Colours == {"conform", "exceed", "violate"}

-----------------------------------------------------------------------------
(***************************************************************************)
(* ReadPolicers: entries are [colour, combined, threads]; a thread is the  *)
(* sequence of its counters, by index, and threads may differ in length.   *)
(***************************************************************************)

\* Mutant: the first thread says how many policers there are.
FirstThread(threads) == IF threads = <<>> THEN 0 ELSE Len(threads[1])

\* The widest thread gives the index count.
Width(threads) == IF threads = <<>> THEN 0 ELSE Max({Len(threads[t]) : t \in DOMAIN threads})

OverThreads(threads, i) ==
  FoldLeft(LAMBDA acc, t : acc + (IF i < Len(t) THEN t[i + 1] ELSE 0), 0, threads)

NoCounters == [c \in Colours |-> 0]

At(counters, i) == IF i \in DOMAIN counters THEN counters[i] ELSE NoCounters

ReadPolicers(entries) ==
  FoldLeft(LAMBDA out, e :
             IF ~e.combined THEN out
             ELSE [i \in DOMAIN out \cup 0 .. Width(e.threads) - 1 |->
                     IF i < Width(e.threads)
                     THEN [At(out, i) EXCEPT ![e.colour] = OverThreads(e.threads, i)]
                     ELSE out[i]],
           [i \in {} |-> NoCounters], entries)

\* Collect: one sample per managed policer; an index the read did not have is zero.
\* ParsePolicerName (external) refuses the names that are no pool's.
Collect(entries, indexes, managed) ==
  {[pool |-> n, counters |-> At(ReadPolicers(entries), indexes[n])] :
     n \in DOMAIN indexes \cap managed}

\* Emit: one record per sample, keyed by its pool.
Emit(samples) == {[key |-> s.pool, value |-> s.counters] : s \in samples}

\* Run, one tick: what was collected is shipped; an empty batch is not sent.
Ship(entries, indexes, managed) ==
  LET samples == Collect(entries, indexes, managed)
  IN IF samples = {} THEN {} ELSE Emit(samples)

-----------------------------------------------------------------------------
(***************************************************************************)
(* ReadGauge: the dump matches names by prefix.                            *)
(***************************************************************************)

NoGauge == -1    \* an error is returned

\* Mutant: whatever the dump found first.
FirstMatch(entries, name) ==
  IF entries = <<>> THEN NoGauge ELSE entries[1].value

\* The exact leaf; absent, or no scalar, is an error.
ReadGauge(entries, name) ==
  LET hits == {i \in DOMAIN entries : entries[i].name = name} IN
  IF hits = {} THEN NoGauge
  ELSE LET e == entries[Min(hits)] IN IF e.scalar THEN e.value ELSE NoGauge

\* DumpStats (external).
DumpStats(segment, name) ==
  SelectSeq(segment, LAMBDA e : Len(e.name) >= Len(name) /\ SubSeq(e.name, 1, Len(name)) = name)

-----------------------------------------------------------------------------
(***************************************************************************)
(* Interfaces.                                                             *)
(***************************************************************************)

\* Mutant: carrier and intent are mixed up.
InterfaceMixed(d) ==
  [name |-> d["interface_name"], index |-> d["sw_if_index"],
   up |-> (d["flags"] \div 2) % 2 = 1, linkUp |-> d["flags"] % 2 = 1]

\* List, of one sw_interface_details: bit 0 is ADMIN_UP, bit 1 LINK_UP.
InterfaceOf(d) ==
  [name |-> d["interface_name"], index |-> d["sw_if_index"],
   up |-> d["flags"] % 2 = 1, linkUp |-> (d["flags"] \div 2) % 2 = 1]

\* IndexMap: the names found, and all that are missing reported together.
IndexMap(list, names) ==
  [out     |-> [n \in {i.name : i \in list} \cap names |-> (CHOOSE i \in list : i.name = n).index],
   missing |-> names \ {i.name : i \in list}]

LinkDownAmong(list, names) ==
  {n \in names : \E i \in list : i.name = n /\ i.up /\ ~i.linkUp}

-----------------------------------------------------------------------------
(***************************************************************************)
(* Inputs.                                                                 *)
(***************************************************************************)

Threads == UNION {[1 .. n -> Counts] : n \in 0 .. MaxIndex + 1}

\* VPP has a vector per colour; the exceed vector's widths differ from conform's.
MeterInputs == [of : {"meter"}, main : Threads, worker : Threads]

EntriesOf(in) ==
  <<[colour |-> "conform", combined |-> TRUE, threads |-> <<in.main, in.worker>>],
    [colour |-> "exceed", combined |-> TRUE, threads |-> <<in.worker, in.main, in.worker>>],
    [colour |-> "violate", combined |-> FALSE, threads |-> <<>>]>>

\* Pools 0 .. MaxIndex hold the indexes; an unmanaged policer holds MaxIndex.
IndexesOf == [n \in 0 .. MaxIndex |-> n]

\* Names of gauges as tuples: one is a prefix of another.
GaugeInputs ==
  [of : {"gauge"},
   segment : UNION {[1 .. n -> [name : {<<"fwd">>, <<"fwd", "2">>, <<"x">>}, scalar : BOOLEAN,
                                value : {0, 1}]] : n \in 0 .. 2}]

\* Two interfaces as VPP sends them, and the names in the configuration.
LinkInputs == [of : {"iface"}, flags : [1 .. 2 -> 0 .. 3], want : SUBSET {<<1>>, <<2>>, <<3>>}]

DetailsOf(in) ==
  {LET m == MessageOf([layout |-> SwInterfaceDetails, seed |-> i, name |-> 1, list |-> 1])
   IN Unmarshal(SwInterfaceDetails,
        Marshal(SwInterfaceDetails,
                [m EXCEPT !["interface_name"] = <<i>>, !["flags"] = in.flags[i]])) : i \in {1, 2}}

-----------------------------------------------------------------------------

\* Nothing a worker counted is lost or counted twice on its way to the sink: over all
\* pools the conforming (exceeding) samples add up to what the threads counted below
\* the unmanaged index, however ragged the threads are (ReadPolicers, Collect).
NothingUncounted ==
  input.of = "meter" =>
    LET sent == Ship(EntriesOf(input), IndexesOf, 0 .. MaxIndex - 1)
        Total(threads) ==
          FoldLeft(LAMBDA acc, t :
                     acc + FoldLeft(LAMBDA a, b : a + b, 0,
                                    SubSeq(t, 1, IF Len(t) < MaxIndex THEN Len(t) ELSE MaxIndex)),
                   0, threads)
        Sent(c) == SumSet({s.key * 1000 + s.value[c] : s \in sent})
                     - SumSet({s.key * 1000 : s \in sent})
    IN /\ {s.key : s \in sent} = 0 .. MaxIndex - 1
       /\ Sent("conform") = Total(<<input.main, input.worker>>)
       /\ Sent("exceed") = Total(<<input.worker, input.main, input.worker>>)

\* The gauge of a target is never that of another whose name begins with its name, and
\* a target VPP does not know is an error, never "unreachable" (ReadGauge).
GaugeIsTheLeaf ==
  input.of = "gauge" =>
    LET got == ReadGauge(DumpStats(input.segment, <<"fwd">>), <<"fwd">>)
        own == {i \in DOMAIN input.segment : input.segment[i].name = <<"fwd">>}
    IN IF own = {} THEN got = NoGauge
       ELSE LET e == input.segment[Min(own)] IN got = (IF e.scalar THEN e.value ELSE NoGauge)

\* A configured interface is told as down exactly when it is present, enabled and
\* without carrier; one an operator disabled is no fault, and the names VPP does not
\* have are all found missing (List, IndexMap, linkDownAmong).
CarrierSeen ==
  input.of = "iface" =>
    LET list == {InterfaceOf(d) : d \in DetailsOf(input)}
        got  == IndexMap(list, input.want)
    IN /\ LinkDownAmong(list, input.want)
            = {n \in input.want \cap {<<1>>, <<2>>} : input.flags[n[1]] = 1}
       /\ got.missing = input.want \ {<<1>>, <<2>>}
       /\ DOMAIN got.out = input.want \ got.missing

\* What is read from VPP is what VPP has: the counters of every thread, the gauge that was
\* asked for, the carrier of every interface.
ReadsTrue == NothingUncounted /\ GaugeIsTheLeaf /\ CarrierSeen
=============================================================================
