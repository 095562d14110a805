-------------------------------- MODULE Wire --------------------------------
(***************************************************************************)
(* The binary-API messages the agent exchanges with VPP, as the generated  *)
(* bindings lay them out (internal/binapi), and Size, Marshal, Unmarshal.  *)
(* A layout is the sequence of a message's fields; a message is a function *)
(* from its field names.  govpp's codec (external) writes integers         *)
(* big-endian, cuts or pads a string to its field, and counts what has no  *)
(* fixed length.  The count fields (json:"-") are no part of a message:    *)
(* Marshal takes the count from the list.                                  *)
(***************************************************************************)
EXTENDS Inputs, Integers, Sequences

LOCAL INSTANCE SequencesExt

CONSTANT
  NameBytes    \* width of a name, 64 in the bindings

ASSUME WireAssumption == NameBytes \in Nat \ {0}

U(f, w)    == [f |-> f, kind |-> "uint", w |-> w, n |-> 1]
I(f, w)    == [f |-> f, kind |-> "int", w |-> w, n |-> 1]
Name(f)    == [f |-> f, kind |-> "name", w |-> 1, n |-> NameBytes]
Text(f)    == [f |-> f, kind |-> "text", w |-> 1, n |-> 0]
Array(f, w, n) == [f |-> f, kind |-> "array", w |-> w, n |-> n]
List(f, w) == [f |-> f, kind |-> "list", w |-> w, n |-> 0]

-----------------------------------------------------------------------------
(***************************************************************************)
(* Layouts: classify.                                                      *)
(***************************************************************************)

ClassifyAddDelSession ==
  <<U("is_add", 1), U("table_index", 4), U("hit_next_index", 4), U("opaque_index", 4),
    I("advance", 4), U("action", 1), U("metadata", 4), List("match", 1)>>
ClassifyAddDelSessionReply == <<I("retval", 4)>>
ClassifyAddDelTable ==
  <<U("is_add", 1), U("del_chain", 1), U("table_index", 4), U("nbuckets", 4),
    U("memory_size", 4), U("skip_n_vectors", 4), U("match_n_vectors", 4),
    U("next_table_index", 4), U("miss_next_index", 4), U("current_data_flag", 1),
    I("current_data_offset", 2), List("mask", 1)>>
ClassifyAddDelTableReply ==
  <<I("retval", 4), U("new_table_index", 4), U("skip_n_vectors", 4), U("match_n_vectors", 4)>>
ClassifySessionDetails ==
  <<I("retval", 4), U("table_id", 4), U("hit_next_index", 4), I("advance", 4),
    U("opaque_index", 4), List("match", 1)>>
ClassifySessionDump == <<U("table_id", 4)>>
ClassifyTableIds == <<>>
ClassifyTableIdsReply == <<I("retval", 4), List("ids", 4)>>
ClassifyTableInfo == <<U("table_id", 4)>>
ClassifyTableInfoReply ==
  <<I("retval", 4), U("table_id", 4), U("nbuckets", 4), U("match_n_vectors", 4),
    U("skip_n_vectors", 4), U("active_sessions", 4), U("next_table_index", 4),
    U("miss_next_index", 4), List("mask", 1)>>
PolicerClassifyDetails == <<U("sw_if_index", 4), U("table_index", 4)>>
PolicerClassifyDump == <<U("type", 1), U("sw_if_index", 4)>>
PolicerClassifySetInterface ==
  <<U("sw_if_index", 4), U("ip4_table_index", 4), U("ip6_table_index", 4),
    U("l2_table_index", 4), U("is_add", 1)>>
PolicerClassifySetInterfaceReply == <<I("retval", 4)>>

-----------------------------------------------------------------------------
(***************************************************************************)
(* Layouts: policer.                                                       *)
(***************************************************************************)

Sse2QosAction(f) == <<U(f \o ".type", 1), U(f \o ".dscp", 1)>>
Rates4 == <<U("cir", 4), U("eir", 4), U("cb", 8), U("eb", 8), U("rate_type", 1),
            U("round_type", 1), U("type", 1)>>
Actions == Sse2QosAction("conform_action") \o Sse2QosAction("exceed_action")
             \o Sse2QosAction("violate_action")
PolicerConfigT == Rates4 \o <<U("color_aware", 1)>> \o Actions

PolicerAdd == <<Name("name")>> \o PolicerConfigT
PolicerAddReply == <<I("retval", 4), U("policer_index", 4)>>
PolicerAddDel == <<U("is_add", 1), Name("name")>> \o PolicerConfigT
PolicerAddDelReply == <<I("retval", 4), U("policer_index", 4)>>
PolicerBindV2 == <<U("policer_index", 4), U("worker_index", 4), U("bind_enable", 1)>>
PolicerBindV2Reply == <<I("retval", 4)>>
PolicerDel == <<U("policer_index", 4)>>
PolicerDelReply == <<I("retval", 4)>>
PolicerDetails ==
  <<Name("name")>> \o Rates4 \o Actions
    \o <<U("single_rate", 1), U("color_aware", 1), U("scale", 4),
         U("cir_tokens_per_period", 4), U("pir_tokens_per_period", 4),
         U("current_limit", 4), U("current_bucket", 4), U("extended_limit", 4),
         U("extended_bucket", 4), U("last_update_time", 8)>>
PolicerDump == <<U("match_name_valid", 1), Name("match_name")>>
PolicerUpdate == <<U("policer_index", 4)>> \o PolicerConfigT
PolicerUpdateReply == <<I("retval", 4)>>

-----------------------------------------------------------------------------
(***************************************************************************)
(* Layouts: interface and probe.                                           *)
(***************************************************************************)

SwInterfaceDetails ==
  <<U("sw_if_index", 4), U("sup_sw_if_index", 4), Array("l2_address", 1, 6), U("flags", 4),
    U("type", 4), U("link_duplex", 4), U("link_speed", 4), U("link_mtu", 2),
    Array("mtu", 4, 4), U("sub_id", 4), U("sub_number_of_tags", 1),
    U("sub_outer_vlan_id", 2), U("sub_inner_vlan_id", 2), U("sub_if_flags", 4),
    U("vtr_op", 4), U("vtr_push_dot1q", 4), U("vtr_tag1", 4), U("vtr_tag2", 4),
    U("outer_tag", 2), Array("b_dmac", 1, 6), Array("b_smac", 1, 6), U("b_vlanid", 2),
    U("i_sid", 4), Name("interface_name"), Name("interface_dev_type"), Name("tag")>>
SwInterfaceDump ==
  <<U("sw_if_index", 4), U("name_filter_valid", 1), Text("name_filter")>>
ProbeClassifyLookup == <<U("table_id", 4), U("key_len", 4), List("match", 1)>>
ProbeClassifyLookupReply == <<I("retval", 4), List("hits", 4)>>

Layouts ==
  {ClassifyAddDelSession, ClassifyAddDelSessionReply, ClassifyAddDelTable,
   ClassifyAddDelTableReply, ClassifySessionDetails, ClassifySessionDump,
   ClassifyTableIds, ClassifyTableIdsReply, ClassifyTableInfo, ClassifyTableInfoReply,
   PolicerClassifyDetails, PolicerClassifyDump, PolicerClassifySetInterface,
   PolicerClassifySetInterfaceReply, PolicerAdd, PolicerAddReply, PolicerAddDel,
   PolicerAddDelReply, PolicerBindV2, PolicerBindV2Reply, PolicerDel, PolicerDelReply,
   PolicerDetails, PolicerDump, PolicerUpdate, PolicerUpdateReply, SwInterfaceDetails,
   SwInterfaceDump, ProbeClassifyLookup, ProbeClassifyLookupReply}

-----------------------------------------------------------------------------
(***************************************************************************)
(* The codec (external).                                                   *)
(***************************************************************************)

PutInt(v, w) ==
  [k \in 1 .. w |-> IF w - k > 3 THEN (IF v < 0 THEN 255 ELSE 0)
                                 ELSE (v \div 256^(w - k)) % 256]

GetInt(b, signed) ==
  LET neg == signed /\ b[1] >= 128
      Byte(x) == IF neg THEN x - 255 ELSE x
  IN FoldLeft(LAMBDA acc, x : 256 * acc + Byte(x), 0, b) - (IF neg THEN 1 ELSE 0)

PutName(s) == [k \in 1 .. NameBytes |-> IF k <= Len(s) THEN s[k] ELSE 0]

GetName(b) ==
  SubSeq(b, 1, IF \E k \in DOMAIN b : b[k] = 0
               THEN (CHOOSE k \in DOMAIN b : b[k] = 0 /\ \A j \in 1 .. k - 1 : b[j] # 0) - 1
               ELSE Len(b))

Ints(s, w) == FlattenSeq([i \in DOMAIN s |-> PutInt(s[i], w)])
GetInts(b, w) ==
  [i \in 1 .. Len(b) \div w |-> GetInt(SubSeq(b, (i - 1) * w + 1, i * w), FALSE)]

-----------------------------------------------------------------------------
(***************************************************************************)
(* Size, Marshal and Unmarshal, of any layout.                             *)
(***************************************************************************)

SizeOf(fld, v) ==
  CASE fld.kind \in {"text", "list"} -> 4 + fld.w * Len(v)
    [] OTHER                         -> fld.w * fld.n

Size(layout, m) ==
  FoldLeft(LAMBDA acc, fld : acc + SizeOf(fld, m[fld.f]), 0, layout)

\* Mutant: the count field of the struct, which the agent leaves unset, is sent.
CountUnset(list) == 0

\* The count sent for a list or a text.
CountOf(list) == Len(list)

MarshalField(fld, v) ==
  CASE fld.kind \in {"uint", "int"}  -> PutInt(v, fld.w)
    [] fld.kind = "name"             -> PutName(v)
    [] fld.kind = "array"            -> Ints([i \in 1 .. fld.n |-> IF i <= Len(v) THEN v[i] ELSE 0], fld.w)
    [] fld.kind \in {"text", "list"} -> PutInt(CountOf(v), 4) \o Ints(v, fld.w)

Marshal(layout, m) ==
  FoldLeft(LAMBDA acc, fld : acc \o MarshalField(fld, m[fld.f]), <<>>, layout)

\* A field read at the front of b: its value, and how many bytes it took.
UnmarshalField(fld, b) ==
  LET counted == fld.kind \in {"text", "list"}
      n    == IF counted THEN GetInt(SubSeq(b, 1, 4), FALSE) ELSE fld.n
      from == IF counted THEN 5 ELSE 1
      raw  == SubSeq(b, from, from - 1 + n * fld.w)
  IN [took |-> from - 1 + n * fld.w,
      v    |-> CASE fld.kind \in {"uint", "int"}           -> GetInt(raw, fld.kind = "int")
                 [] fld.kind = "name"                      -> GetName(raw)
                 [] fld.kind \in {"text", "array", "list"} -> GetInts(raw, fld.w)]

Unmarshal(layout, bytes) ==
  FoldLeft(LAMBDA acc, fld :
             LET got == UnmarshalField(fld, SubSeq(bytes, acc.at + 1, Len(bytes)))
             IN [at |-> acc.at + got.took,
                 m  |-> [f \in DOMAIN acc.m \cup {fld.f} |->
                           IF f = fld.f THEN got.v ELSE acc.m[f]]],
           [at |-> 0, m |-> [f \in {} |-> 0]], layout).m

-----------------------------------------------------------------------------
(***************************************************************************)
(* Inputs: every message, with names and lists of every length, and values *)
(* that tell the fields of a message apart.                                *)
(***************************************************************************)

WireInputs ==
  [of : {"wire"}, layout : Layouts, seed : {1, 200, -7}, name : 0 .. NameBytes + 1,
   list : 0 .. 3]

ValueOf(i, fld, in) ==
  CASE fld.kind = "uint" -> (IF in.seed < 0 THEN 255 ELSE in.seed + i) % 256^(IF fld.w > 3 THEN 3 ELSE fld.w)
    [] fld.kind = "int"  -> in.seed
    [] fld.kind = "name" -> [k \in 1 .. in.name |-> 97 + ((i + k) % 26)]
    [] fld.kind = "array" -> [k \in 1 .. fld.n |-> (i + k) % 200]
    [] OTHER             -> [k \in 1 .. in.list |-> (i + 3 * k) % 200]

MessageOf(in) ==
  [f \in {in.layout[i].f : i \in DOMAIN in.layout} |->
     LET i == CHOOSE j \in DOMAIN in.layout : in.layout[j].f = f
     IN ValueOf(i, in.layout[i], in)]

-----------------------------------------------------------------------------

\* What one end marshals the other unmarshals, every field of it, a name cut to its
\* field and a list of any length; and it fills exactly the buffer that was made for
\* it, as Size says (Size, Marshal, Unmarshal of the generated bindings).
SurvivesTheWire ==
  input.of = "wire" =>
    LET m == MessageOf(input)
        bytes == Marshal(input.layout, m)
        Cut(fld) == IF fld.kind = "name" /\ Len(m[fld.f]) > NameBytes
                    THEN SubSeq(m[fld.f], 1, NameBytes) ELSE m[fld.f]
    IN /\ Len(bytes) = Size(input.layout, m)
       /\ LET got == Unmarshal(input.layout, bytes) IN
          \A i \in DOMAIN input.layout :
            got[input.layout[i].f] = Cut(input.layout[i])
=============================================================================
