---------------------------- MODULE Announcements ----------------------------
(***************************************************************************)
(* The routes the agent gives BIRD, in both forms it has: the include      *)
(* files (anchors.Render, flowspec.Render, renderCanary) and the frames of *)
(* the api feed (birdfeed/encode.go).  An address is the sequence of its   *)
(* bytes, 4 or 16; a community is the sequence of its numbers.  The text   *)
(* of an include is the protocols in it, each a sequence of routes.        *)
(***************************************************************************)
EXTENDS Wire, TLC

LOCAL INSTANCE SequencesExt

CONSTANTS
  AnchorLists,  \* lists of anchors
  FlowLists,    \* lists of source prefixes
  NextHops4,    \* this edge's addresses; <<>> is an unset one
  NextHops6

NoText == [err |-> TRUE]
Invalid == [addr |-> <<>>, bits |-> -1]    \* the zero netip.Prefix

Is4(p) == Len(p.addr) = 4
Is6(p) == Len(p.addr) = 16
Is4In6(p) == Is6(p) /\ SubSeq(p.addr, 1, 12) = PutInt(0, 10) \o <<255, 255>>

\* netip.Prefix.Masked (external).
Masked(p) ==
  LET Kept(k) == LET left == p.bits - 8 * (k - 1)
                 IN IF left < 0 THEN 0 ELSE IF left > 8 THEN 8 ELSE left
      Unit(k) == 2^(8 - Kept(k))
  IN [p EXCEPT !.addr = [k \in DOMAIN p.addr |-> (p.addr[k] \div Unit(k)) * Unit(k)]]

Precedes(s, t) ==
  \E k \in DOMAIN s : s[k] < t[k] /\ \A j \in 1 .. k - 1 : s[j] = t[j]

-----------------------------------------------------------------------------
(***************************************************************************)
(* Include files.                                                          *)
(***************************************************************************)

\* Mutant: prefixes of one address stay in the order they came in.
ByAddress(list) == SortSeq(list, LAMBDA a, b : Precedes(a.addr, b.addr))

\* sortAnchors, and the sort of collectSrcs.
ByPrefix(list) ==
  SortSeq(list, LAMBDA a, b : Precedes(a.addr \o <<a.bits>>, b.addr \o <<b.bits>>))

Sorted(comms) == SortSeq(comms, Precedes)

Duplicated(list) == \E i, j \in DOMAIN list : i # j /\ list[i] = list[j]

\* writeRoute.
Route(a) == [prefix |-> a.prefix, blackhole |-> TRUE,
             comms |-> Sorted(a.comms), large |-> Sorted(a.large)]

\* writeProtocol, of the anchors of one family.
Protocol(list) ==
  LET sorted == ByPrefix([i \in DOMAIN list |-> list[i].prefix])
      Of(p) == CHOOSE a \in ToSet(list) : a.prefix = p
  IN [i \in DOMAIN sorted |-> Route(Of(sorted[i]))]

\* anchors.Render.
RenderAnchors(list) ==
  LET prefixes == [i \in DOMAIN list |-> list[i].prefix]
      Bad(p) == p = Invalid \/ Is4In6(p) \/ p # Masked(p)
      v4 == SelectSeq(list, LAMBDA a : Is4(a.prefix))
      v6 == SelectSeq(list, LAMBDA a : ~Is4(a.prefix))
  IN IF (\E i \in DOMAIN prefixes : Bad(prefixes[i])) \/ Duplicated(prefixes)
     THEN NoText
     ELSE [err |-> FALSE, anchors4 |-> Protocol(v4), anchors6 |-> Protocol(v6)]

\* redirectec.IP4 and I6.
IP4(nextHop) == <<1, 12>> \o nextHop \o <<0, 0>>
I6(nextHop6) == PutInt(12, 2) \o nextHop6 \o <<0, 0>>

\* Mutant: the halves the other way about.
HalvesSwapped(nextHop) ==
  [form |-> "generic", hi |-> GetInt(SubSeq(IP4(nextHop), 5, 8), FALSE),
                       lo |-> GetInt(SubSeq(IP4(nextHop), 1, 4), FALSE)]

\* redirectIP4ExtCommunity.
RedirectIP4ExtCommunity(nextHop) ==
  [form |-> "generic", hi |-> GetInt(SubSeq(IP4(nextHop), 1, 4), FALSE),
                       lo |-> GetInt(SubSeq(IP4(nextHop), 5, 8), FALSE)]

\* collectSrcs: FlowRedirect.Validate (external) wants a canonical prefix.
CollectSrcs(srcs, wantV6) ==
  LET mine == SelectSeq(srcs, LAMBDA p : Is6(p) = wantV6)
  IN IF (\E i \in DOMAIN mine : mine[i] = Invalid \/ mine[i] # Masked(mine[i]))
          \/ Duplicated(mine)
     THEN NoText
     ELSE [err |-> FALSE, srcs |-> ByPrefix(mine)]

\* flowspec.Render.
RenderFlows(srcs, nextHop, nextHop6) ==
  LET v4 == CollectSrcs(srcs, FALSE)
      v6 == CollectSrcs(srcs, TRUE)
      Homeless == \/ v4.srcs # <<>> /\ Len(nextHop) # 4
                  \/ v6.srcs # <<>> /\ Len(nextHop6) # 16
  IN IF v4.err \/ v6.err \/ (~v4.err /\ ~v6.err /\ Homeless)
     THEN NoText
     ELSE [err |-> FALSE,
           flowspec4 |-> [i \in DOMAIN v4.srcs |->
             [src |-> v4.srcs[i], ec |-> RedirectIP4ExtCommunity(nextHop)]],
           flowspec6 |-> [i \in DOMAIN v6.srcs |->
             [src |-> v6.srcs[i], ec |-> [form |-> "i6ec", type |-> 12, addr |-> nextHop6]]]]

-----------------------------------------------------------------------------
(***************************************************************************)
(* Frames of the api feed.                                                 *)
(***************************************************************************)

OpAdd == 1
OpDel == 2

\* frame: version, opcode, flags, length of the whole.
Frame(op, body) == <<1, op, 0, 0>> \o PutInt(8 + Len(body), 4) \o body

\* Mutant: one more of each than the length byte can say.
PastCaps == [comms |-> 64, large |-> 22]

\* A length is one byte: so many communities fit one attribute.
Caps == [comms |-> 63, large |-> 21]

UpTo(s, n) == SubSeq(s, 1, IF Len(s) > n THEN n ELSE Len(s))

\* One attribute: type, length, the numbers in words of w bytes.
Attribute(type, list, words, w) ==
  IF list = <<>> THEN <<>>
  ELSE <<type, (words * w * Len(list)) % 256>>
         \o FlattenSeq([i \in DOMAIN list |-> Ints(list[i], w)])

\* anchorAttrBytes.
AnchorAttrBytes(a) ==
  Attribute(4, UpTo(a.comms, Caps.comms), 2, 2) \o Attribute(5, UpTo(a.large, Caps.large), 3, 4)

\* frameAnchor and frameFlow; addrBytes are the bytes of the address.
FrameAnchor(op, p, attrs) ==
  Frame(op, <<IF Is6(p) THEN 2 ELSE 1, p.bits>> \o p.addr
              \o (IF op = OpAdd THEN <<1, 0>> \o attrs ELSE <<>>))

FrameFlow(op, p, ec) ==
  Frame(op, <<IF Is6(p) THEN 8 ELSE 7, p.bits>> \o p.addr
              \o (IF op = OpAdd THEN <<2, Len(ec) % 256>> \o ec ELSE <<>>))

-----------------------------------------------------------------------------
(***************************************************************************)
(* BIRD (external): what it makes of a frame, and of a redirect in text.   *)
(***************************************************************************)

Tlvs(b) ==
  LET From[at \in 1 .. Len(b) + 1] ==
        IF at > Len(b) THEN <<>>
        ELSE IF at + 1 > Len(b) \/ at + 2 + b[at + 1] > Len(b) + 1
        THEN <<[type |-> 0, val |-> <<>>]>>                     \* malformed
        ELSE <<[type |-> b[at], val |-> SubSeq(b, at + 2, at + 1 + b[at + 1])]>>
               \o From[at + 2 + b[at + 1]]
  IN From[1]

BirdReads(f) ==
  LET width == IF f[9] \in {1, 7} THEN 4 ELSE 16
      tlvs  == Tlvs(SubSeq(f, 11 + width, Len(f)))
      Val(t) == FlattenSeq([i \in DOMAIN tlvs |->
                  IF tlvs[i].type = t THEN tlvs[i].val ELSE <<>>])
  IN [whole  |-> Len(f) = GetInt(SubSeq(f, 5, 8), FALSE),
      op     |-> f[2],
      net    |-> f[9],
      prefix |-> [addr |-> SubSeq(f, 11, 10 + width), bits |-> f[10]],
      types  |-> {tlvs[i].type : i \in DOMAIN tlvs},
      comms  |-> LET v == GetInts(Val(4), 2)
                 IN {<<v[2 * i - 1], v[2 * i]>> : i \in 1 .. Len(v) \div 2},
      large  |-> LET v == GetInts(Val(5), 4)
                 IN {<<v[3 * i - 2], v[3 * i - 1], v[3 * i]>> : i \in 1 .. Len(v) \div 3},
      ec     |-> Val(2)]

BirdReadsRedirect(e) ==
  IF e.form = "generic" THEN PutInt(e.hi, 4) \o PutInt(e.lo, 4)
                        ELSE PutInt(e.type, 2) \o e.addr \o PutInt(0, 2)

-----------------------------------------------------------------------------

AnchorInputs == [of : {"anchors"}, list : AnchorLists]
FlowInputs ==
  [of : {"flows"}, list : FlowLists, nextHop : NextHops4, nextHop6 : NextHops6]

Turned(a) == [a EXCEPT !.comms = Reverse(a.comms), !.large = Reverse(a.large)]

\* The text depends on the set, not on the order the controller listed it in: the
\* applier skips a reload by comparing texts ("equal sets produce byte-identical
\* output", anchors.Render, flowspec.Render).
OrderForgotten ==
  /\ input.of = "anchors" =>
       RenderAnchors(input.list)
         = RenderAnchors(Reverse([i \in DOMAIN input.list |-> Turned(input.list[i])]))
  /\ input.of = "flows" =>
       RenderFlows(input.list, input.nextHop, input.nextHop6)
         = RenderFlows(Reverse(input.list), input.nextHop, input.nextHop6)

\* The feed announces the anchors an include would: BIRD takes from a frame, whole, the
\* prefix, the blackhole and the communities, or as many of them as one attribute
\* holds, and a withdrawal names the same route (anchorAttrBytes, frameAnchor).
FeedSaysTheSame ==
  input.of = "anchors" =>
    LET text == RenderAnchors(input.list) IN
    ~text.err =>
      \A r \in ToSet(text.anchors4 \o text.anchors6) :
        LET a == CHOOSE x \in ToSet(input.list) : x.prefix = r.prefix
            add == BirdReads(FrameAnchor(OpAdd, a.prefix, AnchorAttrBytes(a)))
            del == BirdReads(FrameAnchor(OpDel, a.prefix, AnchorAttrBytes(a)))
        IN /\ add.whole /\ del.whole
           /\ add.prefix = r.prefix /\ del.prefix = r.prefix /\ add.net = del.net
           /\ 1 \in add.types /\ 0 \notin add.types /\ del.types = {}
           /\ add.comms = ToSet(UpTo(a.comms, 63)) /\ add.large = ToSet(UpTo(a.large, 21))
           /\ Len(r.comms) <= 63 => add.comms = ToSet(r.comms)
           /\ Len(r.large) <= 21 => add.large = ToSet(r.large)

\* Include and feed redirect a source to the same address, in the same bytes ("must
\* agree exactly", redirectec; redirectIP4ExtCommunity, frameFlow).
SameRedirect ==
  input.of = "flows" =>
    LET text == RenderFlows(input.list, input.nextHop, input.nextHop6) IN
    ~text.err =>
      \A r \in ToSet(text.flowspec4 \o text.flowspec6) :
        LET ec == IF Is6(r.src) THEN I6(input.nextHop6) ELSE IP4(input.nextHop)
            add == BirdReads(FrameFlow(OpAdd, r.src, ec))
        IN add.whole /\ add.prefix = r.src /\ add.types = {2}
             /\ add.ec = BirdReadsRedirect(r.ec)

\* BIRD is told the same by both ways, in whatever order the controller lists it.
SaysTheSame == OrderForgotten /\ FeedSaysTheSame /\ SameRedirect
=============================================================================
