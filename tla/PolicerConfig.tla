---------------------------- MODULE PolicerConfig ----------------------------
(***************************************************************************)
(* A pool's policer spec as VPP gets it and gives it back (vpp.toConfig,   *)
(* Policers.Dump), and the test for drift of a full pass (policerDrifted). *)
(* Numbers have the width of the binary API: CIR is cut to CirBits bits.   *)
(***************************************************************************)
EXTENDS Inputs, Integers

CONSTANTS
  CirBits,     \* width of PolicerConfig.Cir, 32 in the binary API
  Rates,       \* CIRs of the specs looked at
  Bursts       \* committed bursts, in bytes or packets

ASSUME PolicerAssumption ==
  /\ 2^CirBits \in Nat \ {0}
  /\ Rates \subseteq Nat
  /\ Bursts \subseteq Nat

\* A spec states its burst in the unit of its rate (PolicerSpec.Validate, external).
Specs ==
  {s \in [rate : {"kbps", "pps"}, cir : Rates, bytes : Bursts \cup {0},
          packets : Bursts \cup {0}, conform : {"transmit"}, exceed : {"drop", "mark"}] :
     IF s.rate = "kbps" THEN s.packets = 0 /\ s.bytes # 0
                        ELSE s.bytes = 0 /\ s.packets # 0}

PolicerInputs == [of : {"policer"}, old : Specs, new : Specs]

-----------------------------------------------------------------------------

\* Mutant: the quotient is cut.
CbMsCut(packets, cir) == IF cir = 0 THEN 0 ELSE (packets * 1000) \div cir

\* cbMsForPps: the packets of the burst at that rate, in milliseconds.
CbMsForPps(packets, cir) ==
  IF cir = 0 THEN 0 ELSE (packets * 1000 + cir \div 2) \div cir

\* rateType and action, as the binary API numbers them.
RateType(r) == IF r = "kbps" THEN 0 ELSE 1
Action(a) == CASE a = "drop" -> 0 [] a = "transmit" -> 1 [] a = "mark" -> 2

\* toConfig, a two-colour policer.
ToConfig(s) ==
  [cir     |-> s.cir % 2^CirBits,
   cb      |-> IF s.rate = "pps" THEN CbMsForPps(s.packets, s.cir) ELSE s.bytes,
   rate    |-> RateType(s.rate),
   conform |-> Action(s.conform),
   exceed  |-> Action(s.exceed),
   violate |-> Action(s.exceed)]

\* A policer_details of a policer with that configuration (external), as Dump
\* takes it.
Dump(cfg) == [cir |-> cfg.cir, cb |-> cfg.cb]

\* Mutant: the burst is forgotten.
DriftedRate(s, d) == s.cir % 2^CirBits # d.cir

\* policerDrifted.
PolicerDrifted(s, d) == s.cir % 2^CirBits # d.cir \/ s.bytes # d.cb

-----------------------------------------------------------------------------

\* Of a kbps pool drift is found exactly when rate or burst were changed, as long
\* as the rate fits its field: a pass repairs what it must and leaves a policer in
\* use alone (toConfig, Dump, policerDrifted).
KbpsDriftExact ==
  input.of = "policer" =>
    LET old == input.old new == input.new IN
    old.rate = "kbps" /\ new.rate = "kbps" /\ {old.cir, new.cir} \subseteq 0 .. 2^CirBits - 1
      => (PolicerDrifted(new, Dump(ToConfig(old)))
            <=> old.cir # new.cir \/ old.bytes # new.bytes)

\* The milliseconds sent for a pps pool are the closest to its burst at its rate
\* ("ms = round(...)", cbMsForPps).
PpsBurstClosest ==
  input.of = "policer" =>
    LET s == input.new
        Off(ms) == LET d == s.packets * 1000 - ms * s.cir IN IF d < 0 THEN -d ELSE d
        cb == ToConfig(s).cb
    IN s.rate = "pps" => \A ms \in {cb - 1, cb + 1} : Off(cb) <= Off(ms)

\* What the comment on policerDrifted says, of every pool: a policer that VPP holds
\* as it was last told is not taken for drifted.
InSyncIsNotDrifted ==
  input.of = "policer" => ~PolicerDrifted(input.new, Dump(ToConfig(input.new)))

\* VPP gets the policer that was asked for, and a kbps policer is updated when, and only
\* when, what VPP has differs.
PolicerExact == KbpsDriftExact /\ PpsBurstClosest
=============================================================================
