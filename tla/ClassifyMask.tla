---------------------------- MODULE ClassifyMask ----------------------------
(***************************************************************************)
(* The bytes behind a classify table and its sessions (vpp/classify.go):   *)
(* where an address lies in a packet, the mask of a table, the match       *)
(* buffer and the key of a session, and the batches of a point lookup.     *)
(* VPP (external) skips vectors, masks the key when a session is added,    *)
(* and compares the masked packet with it.  Bytes are counted from 0.      *)
(***************************************************************************)
EXTENDS Wire, FiniteSets, Bitwise

LOCAL INSTANCE SequencesExt

CONSTANTS
  Addrs4, Addrs6,  \* addresses, as tuples of bytes
  Chunk,           \* keys in one lookup, 1024 in the code
  MaxKeys          \* bound: keys looked up at once

ethHdrLen == 14
vec == 16

Kinds == {"ip4-dst32", "ip4-dst24", "ip6-dst128", "ip4-src32", "ip4-src24", "ip6-src128"}

\* specOf.
SpecOf(k) ==
  [v4   |-> k \in {"ip4-dst32", "ip4-dst24", "ip4-src32", "ip4-src24"},
   dst  |-> k \in {"ip4-dst32", "ip4-dst24", "ip6-dst128"},
   bits |-> CASE k \in {"ip4-dst24", "ip4-src24"} -> 24
              [] k \in {"ip4-dst32", "ip4-src32"} -> 32
              [] OTHER -> 128]

\* Mutant: source and destination change places.
AddrFieldSwapped(s) ==
  IF s.v4 THEN [off |-> IF s.dst THEN 12 ELSE 16, len |-> 4]
          ELSE [off |-> IF s.dst THEN 8 ELSE 24, len |-> 16]

\* addrField: where the IP header has the address, and how long it is.
AddrField(s) ==
  IF s.v4 THEN [off |-> IF s.dst THEN 16 ELSE 12, len |-> 4]
          ELSE [off |-> IF s.dst THEN 24 ELSE 8, len |-> 16]

\* layout: the vectors skipped and matched.
Layout(s) ==
  LET start == ethHdrLen + AddrField(s).off
      end   == start + AddrField(s).len - 1
      skip  == start \div vec
  IN [start |-> start, skip |-> skip, match |-> end \div vec - skip + 1]

\* netmask.
Netmask(s) ==
  [i \in 0 .. AddrField(s).len - 1 |->
     LET left == s.bits - 8 * i IN
     IF left >= 8 THEN 255 ELSE IF left > 0 THEN 256 - 2^(8 - left) ELSE 0]

\* Bytes placed at an offset of a buffer of zeros; what does not fit is cut (copy).
Placed(size, off, bytes) ==
  [i \in 0 .. size - 1 |-> IF i - off \in DOMAIN bytes THEN bytes[i - off] ELSE 0]

\* tableMask: the netmask in the matched vectors.
TableMask(s) ==
  LET l == Layout(s) IN Placed(l.match * vec, l.start - l.skip * vec, Netmask(s))

\* sessionMatch: the address at its place in the packet.
SessionMatch(s, addr) ==
  LET l == Layout(s)
  IN Placed((l.skip + l.match) * vec, l.start, [i \in 0 .. Len(addr) - 1 |-> addr[i + 1]])

\* The matched vectors of a buffer.
Matched(s, buf) == [i \in DOMAIN TableMask(s) |-> buf[i + Layout(s).skip * vec]]

\* Mutant: the key keeps the skipped vectors.
KeyUnskipped(k, addr) ==
  [i \in DOMAIN TableMask(SpecOf(k)) |-> SessionMatch(SpecOf(k), addr)[i]]

\* SessionKey: what the dump is compared with.
SessionKey(k, addr) == Matched(SpecOf(k), SessionMatch(SpecOf(k), addr))

\* DelSessionByKey puts the skipped vectors back.
KeyToMatch(k, key) ==
  LET skip == Layout(SpecOf(k)).skip
  IN [i \in 0 .. skip * vec + vec * Layout(SpecOf(k)).match - 1 |->
        IF i < skip * vec THEN 0 ELSE key[i - skip * vec]]

\* VPP (external): the key stored for a match buffer, and the test of a packet.
StoredKey(k, buf) ==
  LET s == SpecOf(k) IN
  [i \in DOMAIN TableMask(s) |-> Matched(s, buf)[i] & TableMask(s)[i]]
Hits(k, key, packet) == StoredKey(k, packet) = key

\* allMaskKinds.
KindOrder ==
  <<"ip4-dst32", "ip4-dst24", "ip6-dst128", "ip4-src32", "ip4-src24", "ip6-src128">>

\* Mutant: only the masks are compared.
FindByMask(info) ==
  KindOrder[CHOOSE i \in DOMAIN KindOrder :
     LET Has(j) == TableMask(SpecOf(KindOrder[j])) = info.mask
     IN Has(i) /\ \A j \in 1 .. i - 1 : ~Has(j)]

\* FindTablesByMask, of one table: the first kind whose layout it has.
FindTable(info) ==
  KindOrder[CHOOSE i \in DOMAIN KindOrder :
     LET Has(j) == /\ Layout(SpecOf(KindOrder[j])).skip = info.skip
                   /\ Layout(SpecOf(KindOrder[j])).match = info.match
                   /\ TableMask(SpecOf(KindOrder[j])) = info.mask
     IN Has(i) /\ \A j \in 1 .. i - 1 : ~Has(j)]

\* AddTable, and TableInfo of the table it made.
AddTable(k) == [skip |-> Layout(SpecOf(k)).skip, match |-> Layout(SpecOf(k)).match,
                mask |-> TableMask(SpecOf(k))]

\* Mutant: the last, shorter batch is left out.
FullBatches(n) == {<<s * Chunk + 1, (s + 1) * Chunk>> : s \in 0 .. n \div Chunk - 1}

\* LookupHits asks for the keys in batches.
Batches(n) ==
  {<<s, IF s + Chunk - 1 > n THEN n ELSE s + Chunk - 1>> :
     s \in {x \in 1 .. n : (x - 1) % Chunk = 0}}

\* What LookupHits answers for a key without a session (~0 in the code; here the largest number TLC has).
NoTable == 2147483647

\* A buffer as the bytes of a message.
Bytes(buf) == [i \in 1 .. Cardinality(DOMAIN buf) |-> buf[i - 1]]
Buffer(b) == [i \in 0 .. Len(b) - 1 |-> b[i + 1]]

\* The probe plugin (external): the request's match, cut into its keys, each looked
\* up in the table like a packet.
ProbeAnswers(k, installed, bytes) ==
  LET req == Unmarshal(ProbeClassifyLookup, bytes)
      n   == Len(req["match"]) \div req["key_len"]
      Key(i) == StoredKey(k, Buffer(SubSeq(req["match"], (i - 1) * req["key_len"] + 1,
                                           i * req["key_len"])))
      Hit(i) == {a \in DOMAIN installed : StoredKey(k, SessionMatch(SpecOf(k), a)) = Key(i)}
  IN Marshal(ProbeClassifyLookupReply,
             [retval |-> 0,
              hits   |-> [i \in 1 .. n |->
                            IF Hit(i) = {} THEN NoTable
                            ELSE installed[CHOOSE a \in Hit(i) : TRUE]]])

\* LookupHits: batch after batch, the hits appended; a reply of another length than
\* its batch would be an error (-1).
LookupHits(k, installed, addrs) ==
  FoldLeft(LAMBDA acc, b :
             LET buf == FlattenSeq([i \in 1 .. b[2] - b[1] + 1 |->
                                      Bytes(SessionMatch(SpecOf(k), addrs[b[1] + i - 1]))])
                 req == [table_id |-> 1, match |-> buf,
                         key_len  |-> Len(buf) \div (b[2] - b[1] + 1)]
                 hits == Unmarshal(ProbeClassifyLookupReply,
                           ProbeAnswers(k, installed, Marshal(ProbeClassifyLookup, req)))["hits"]
             IN IF Len(hits) = b[2] - b[1] + 1 THEN acc \o hits ELSE Append(acc, -1),
           <<>>, SetToSortSeq(Batches(Len(addrs)), LAMBDA x, y : x[1] < y[1]))

\* session: the request that adds a member's session, as AddSession sends it, or deletes it.
Session(isAdd, k, addr, hit) ==
  Marshal(ClassifyAddDelSession,
          [is_add |-> isAdd, table_index |-> 1, hit_next_index |-> hit,
           opaque_index |-> NoTable, advance |-> 0, action |-> 0, metadata |-> 0,
           match |-> Bytes(SessionMatch(SpecOf(k), addr))])

\* VPP (external): the classify_session_details of the session a request has added.
SessionDetails(k, request) ==
  LET req == Unmarshal(ClassifyAddDelSession, request)
  IN Marshal(ClassifySessionDetails,
             [retval |-> 0, table_id |-> req["table_index"],
              hit_next_index |-> req["hit_next_index"], advance |-> req["advance"],
              opaque_index |-> req["opaque_index"],
              match |-> Bytes(StoredKey(k, Buffer(req["match"])))])

\* DumpSessions, of one of the details: where the session points, and its key.
DumpSession(details) ==
  LET d == Unmarshal(ClassifySessionDetails, details)
  IN [hit |-> d["hit_next_index"], key |-> Buffer(d["match"])]

-----------------------------------------------------------------------------
(***************************************************************************)
(* Inputs.                                                                 *)
(***************************************************************************)

Family(k) == IF SpecOf(k).v4 THEN Addrs4 ELSE Addrs6

\* The network of an address, byte by byte (all masks are whole bytes).
Network(k, a) == [i \in DOMAIN a |-> IF 8 * i <= SpecOf(k).bits THEN a[i] ELSE 0]

ClassifyInputs ==
  UNION {[of : {"classify"}, kind : {k}, member : {Network(k, a) : a \in Family(k)},
          src : Family(k), dst : Family(k)] : k \in Kinds}

LookupInputs ==
  UNION {[of : {"lookup"}, kind : {k}, installed : SUBSET Family(k),
          keys : UNION {[1 .. n -> Family(k)] : n \in 0 .. MaxKeys}] :
           k \in {"ip4-dst32", "ip6-src128"}}

\* A packet, other bytes of it arbitrary; IP headers per their RFCs.
Packet(k, src, dst) ==
  LET at == IF SpecOf(k).v4 THEN <<26, 30>> ELSE <<22, 38>>
  IN [i \in 0 .. 63 |->
        IF i - at[2] + 1 \in DOMAIN dst THEN dst[i - at[2] + 1]
        ELSE IF i - at[1] + 1 \in DOMAIN src THEN src[i - at[1] + 1]
        ELSE 90]

-----------------------------------------------------------------------------

\* A session hits exactly the packets of its member: those whose source, or
\* destination, lies in the member's prefix, whatever the other bytes of the matched
\* vectors are (layout, netmask, tableMask, sessionMatch against the IP headers).
HitsItsMember ==
  input.of = "classify" =>
    LET k == input.kind
        a == IF SpecOf(k).dst THEN input.dst ELSE input.src
    IN Hits(k, StoredKey(k, SessionMatch(SpecOf(k), input.member)),
            Packet(k, input.src, input.dst))
         <=> Network(k, a) = input.member

\* A pass finds its own sessions again: the session that was added comes back from
\* the dump with its policer and under the key the pass looks for, over the bytes of
\* both messages, and deleting by that key names the same session (session,
\* DumpSessions, SessionKey, DelSessionByKey).
KeyComesBack ==
  input.of = "classify" =>
    LET k == input.kind
        found == DumpSession(SessionDetails(k, Session(1, k, input.member, 7)))
    IN /\ found = [hit |-> 7, key |-> SessionKey(k, input.member)]
       /\ StoredKey(k, KeyToMatch(k, found.key)) = found.key

\* After a restart of the agent every table is taken for what it is, although the
\* masks of two kinds are the same bytes (FindTablesByMask).
TableRecovered ==
  input.of = "classify" => FindTable(AddTable(input.kind)) = input.kind

\* The delta path learns for each member, in order, the policer its session points
\* to, or that it has none, however many batches its keys take and over the bytes of
\* the messages (LookupHits, ProbeClassifyLookup).
HitsInOrder ==
  input.of = "lookup" =>
    LET all == SetToSeq(Family(input.kind))
        Policer(a) == CHOOSE i \in DOMAIN all : all[i] = a
    IN LookupHits(input.kind, [a \in input.installed |-> Policer(a)], input.keys)
         = [i \in DOMAIN input.keys |->
              IF input.keys[i] \in input.installed THEN Policer(input.keys[i]) ELSE NoTable]

\* What a pass installed it finds again in VPP, sessions and tables.
FoundAgain == KeyComesBack /\ TableRecovered
=============================================================================
