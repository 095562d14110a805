-------------------------- MODULE ServerLinkProofs --------------------------
(***************************************************************************)
(* Proofs about the controller stream client.  ChunkStream, for any set of *)
(* epochs and any sizes: only whole snapshots are handed on, the newest    *)
(* one always is, and chunked delivery implements the atomic delivery of   *)
(* SnapshotDelivery.  ServerLink, for any snapshots and any number of      *)
(* flips and outages: the loop of RunDirect drives the stream as           *)
(* ChunkStream allows, so all that is proved of the stream holds of the    *)
(* link; and no wake of the Reporter is lost.                              *)
(***************************************************************************)
EXTENDS ServerLink, TLAPS

-----------------------------------------------------------------------------
(***************************************************************************)
(* The stream.                                                             *)
(***************************************************************************)

\* The buffer holds chunks of the epoch being assembled, and nothing otherwise;
\* a chunk of that epoch came on this stream.
OneEpoch ==
  /\ active => epoch \in Epochs /\ bySeq \subseteq Chunks(epoch) /\ sent[epoch] > 0
  /\ ~active => bySeq = {}

\* A snapshot that came in part, with nothing newer, is the one being assembled,
\* and everything that came of it is buffered.
NewestBuffered ==
  \A e \in Epochs :
    /\ 0 < sent[e]
    /\ sent[e] < Size[e]
    /\ \A f \in Epochs : f > e => sent[f] = 0
    => /\ active
       /\ epoch = e
       /\ \A i \in 0 .. sent[e] - 1 : \E c \in bySeq : c.seq = i

ChunkInv == TypeOK /\ OneEpoch /\ NewestBuffered /\ NeverPartial /\ NewestLands

-----------------------------------------------------------------------------

LEMMA SizeNat == \A e \in Epochs : e \in Nat /\ e # 0 /\ Size[e] \in Nat /\ Size[e] # 0
  BY ChunkAssumption

\* What a chunk is.
LEMMA ChunkFacts ==
  ASSUME NEW e \in Epochs, NEW i \in 0 .. Size[e] - 1
  PROVE  /\ Chunk(e, i).epoch = e
         /\ Chunk(e, i).seq = i
         /\ Chunk(e, i).last = (i = Size[e] - 1)
         /\ Chunk(e, i) \in Chunks(e)
         /\ Chunk(e, i) \in AllChunks
  BY DEF Chunk, Chunks, AllChunks

\* A chunk of a snapshot is known by its number.
LEMMA ChunkByNumber ==
  ASSUME NEW e \in Epochs, NEW c \in Chunks(e)
  PROVE  /\ c.seq \in 0 .. Size[e] - 1
         /\ c = Chunk(e, c.seq)
         /\ c \in AllChunks
  <1>1. PICK i \in 0 .. Size[e] - 1 : c = Chunk(e, i)
    BY DEF Chunks
  <1>2. c.seq = i
    BY <1>1, ChunkFacts
  <1>3. c \in AllChunks
    BY <1>1, ChunkFacts
  <1> QED
    BY <1>1, <1>2, <1>3

\* The buffer with a chunk holds chunks of that chunk's snapshot only.
LEMMA BufferedOneEpoch ==
  ASSUME OneEpoch, NEW e \in Epochs, NEW i \in 0 .. Size[e] - 1
  PROVE  /\ Buffered(Chunk(e, i)) \subseteq Chunks(e)
         /\ Chunk(e, i) \in Buffered(Chunk(e, i))
         /\ active /\ epoch = e =>
              \A c \in bySeq : \E d \in Buffered(Chunk(e, i)) : d.seq = c.seq
  BY ChunkFacts DEF Buffered, OneEpoch

\* A complete buffer of one snapshot, cut at the last chunk, is that snapshot.
LEMMA CompleteIsWhole ==
  ASSUME NEW e \in Epochs, NEW buf, buf \subseteq Chunks(e),
         Complete(buf, Size[e] - 1)
  PROVE  Assembled(buf, Size[e] - 1) = Chunks(e)
  <1>1. ASSUME NEW c \in Chunks(e)
        PROVE  c \in Assembled(buf, Size[e] - 1)
    <2>1. c.seq \in 0 .. Size[e] - 1 /\ c = Chunk(e, c.seq)
      BY ChunkByNumber
    <2>2. PICK d \in buf : d.seq = c.seq
      BY <2>1 DEF Complete
    <2>3. d = Chunk(e, d.seq)
      BY ChunkByNumber
    <2>4. c = d
      BY <2>1, <2>2, <2>3
    <2>5. c.seq <= Size[e] - 1
      BY <2>1, SizeNat
    <2> QED
      BY <2>4, <2>5 DEF Assembled
  <1>2. Assembled(buf, Size[e] - 1) \subseteq Chunks(e)
    BY DEF Assembled
  <1> QED
    BY <1>1, <1>2

-----------------------------------------------------------------------------

LEMMA InitInv == Init => ChunkInv
  <1> SUFFICES ASSUME Init PROVE ChunkInv
    OBVIOUS
  <1>1. TypeOK
    <2>1. sent \in [Epochs -> Nat] /\ \A e \in Epochs : sent[e] = 0
      BY DEF Init
    <2>2. \A e \in Epochs : sent[e] <= Size[e]
      BY <2>1, SizeNat
    <2> QED
      BY <2>1, <2>2 DEF Init, TypeOK
  <1>2. OneEpoch /\ NeverPartial
    BY DEF Init, OneEpoch, NeverPartial
  <1>3. NewestBuffered /\ NewestLands
    BY SizeNat DEF Init, NewestBuffered, NewestLands
  <1> QED
    BY <1>1, <1>2, <1>3 DEF ChunkInv

LEMMA SubscribeInv == ChunkInv /\ Subscribe => ChunkInv'
  <1> SUFFICES ASSUME ChunkInv, Subscribe PROVE ChunkInv'
    OBVIOUS
  <1>1. TypeOK'
    <2>1. sent' \in [Epochs -> Nat] /\ \A e \in Epochs : sent'[e] = 0
      BY DEF Subscribe
    <2>2. \A e \in Epochs : sent'[e] <= Size[e]
      BY <2>1, SizeNat
    <2> QED
      BY <2>1, <2>2 DEF Subscribe, Reset, ChunkInv, TypeOK
  <1>2. OneEpoch' /\ NeverPartial'
    BY DEF Subscribe, Reset, ChunkInv, OneEpoch, NeverPartial
  <1>3. NewestBuffered' /\ NewestLands'
    BY SizeNat DEF Subscribe, NewestBuffered, NewestLands
  <1> QED
    BY <1>1, <1>2, <1>3 DEF ChunkInv

LEMMA StreamEndsInv == ChunkInv /\ StreamEnds => ChunkInv'
  <1> SUFFICES ASSUME ChunkInv, StreamEnds PROVE ChunkInv'
    OBVIOUS
  <1>1. UNCHANGED <<sent, landed, state, epoch, active, bySeq>> /\ streaming' \in BOOLEAN
    BY DEF StreamEnds
  <1>2. TypeOK' /\ OneEpoch'
    BY <1>1 DEF ChunkInv, TypeOK, OneEpoch
  <1>3. NeverPartial' /\ NewestBuffered' /\ NewestLands'
    BY <1>1 DEF ChunkInv, NewestBuffered, NeverPartial, NewestLands
  <1> QED
    BY <1>2, <1>3 DEF ChunkInv

\* How many chunks of each snapshot came, after one more.
LEMMA SentFacts ==
  ASSUME TypeOK, NEW e \in Epochs, NEW i \in 0 .. Size[e] - 1, Recv(e, i)
  PROVE  /\ sent' \in [Epochs -> Nat]
         /\ \A f \in Epochs : sent'[f] <= Size[f]
         /\ \A f \in Epochs : f # e => sent'[f] = sent[f]
         /\ sent'[e] >= sent[e]
         /\ sent'[e] > i
         /\ i <= sent[e]
         /\ i # sent[e] => sent'[e] = sent[e]
         /\ i = sent[e] => sent'[e] = i + 1
  BY SizeNat DEF TypeOK, Recv

LEMMA RecvInv ==
  ASSUME ChunkInv, NEW e \in Epochs, NEW i \in 0 .. Size[e] - 1, Recv(e, i)
  PROVE  ChunkInv'
  <1> DEFINE ch == Chunk(e, i)
             buf == Buffered(ch)
  <1>1. AcceptChunk(ch) /\ streaming' = streaming
    BY DEF Recv
  <1>2. ch.epoch = e /\ ch.seq = i /\ ch.last = (i = Size[e] - 1) /\ ch \in Chunks(e)
    BY ChunkFacts
  <1>3. buf \subseteq Chunks(e) /\ ch \in buf
    BY BufferedOneEpoch DEF ChunkInv
  <1>4. active /\ epoch = e => \A c \in bySeq : \E d \in buf : d.seq = c.seq
    BY BufferedOneEpoch DEF ChunkInv
  <1>5. /\ sent' \in [Epochs -> Nat]
        /\ \A f \in Epochs : sent'[f] <= Size[f]
        /\ \A f \in Epochs : f # e => sent'[f] = sent[f]
        /\ sent'[e] >= sent[e]
        /\ sent'[e] > i
        /\ i <= sent[e]
        /\ i # sent[e] => sent'[e] = sent[e]
        /\ i = sent[e] => sent'[e] = i + 1
    BY SentFacts DEF ChunkInv
  <1>6. buf \subseteq AllChunks
    BY <1>3, ChunkByNumber
  <1>7. sent \in [Epochs -> Nat] /\ \A f \in Epochs : f \in Nat /\ Size[f] \in Nat
    BY SizeNat DEF ChunkInv, TypeOK
  <1> HIDE DEF ch, buf
  \* With nothing newer the chunk is no straggler.
  <1>8. (\A f \in Epochs : f > e => sent'[f] = 0) => ~Straggler(ch)
    BY <1>2, <1>5, <1>7 DEF ChunkInv, OneEpoch, Straggler
  <1>9. CASE Straggler(ch)
    <2>1. UNCHANGED <<landed, state, epoch, active, bySeq>>
      BY <1>1, <1>9 DEF AcceptChunk
    <2>2. TypeOK'
      BY <1>1, <1>5, <2>1 DEF ChunkInv, TypeOK
    <2>3. OneEpoch'
      BY <1>5, <1>7, <2>1 DEF ChunkInv, OneEpoch
    <2>4. \A g \in Epochs : (\A f \in Epochs : f > g => sent'[f] = 0) =>
            sent'[g] = sent[g] /\ (\A f \in Epochs : f > g => sent[f] = 0)
      <3> SUFFICES ASSUME NEW g \in Epochs, \A f \in Epochs : f > g => sent'[f] = 0
                   PROVE  sent'[g] = sent[g] /\ (\A f \in Epochs : f > g => sent[f] = 0)
        OBVIOUS
      <3>1. g # e
        BY <1>8, <1>9
      <3>2. ~(e > g)
        BY <1>5, <1>7
      <3> QED
        BY <3>1, <3>2, <1>5
    <2>5. NewestBuffered'
      BY <2>1, <2>4, <1>7 DEF ChunkInv, NewestBuffered
    <2>6. NeverPartial' /\ NewestLands'
      BY <2>1, <2>4 DEF ChunkInv, NeverPartial, NewestLands
    <2> QED
      BY <2>2, <2>3, <2>5, <2>6 DEF ChunkInv
  <1>10. CASE ~Straggler(ch) /\ ~ch.last
    <2>1. epoch' = e /\ active' = TRUE /\ bySeq' = buf /\ landed' = landed
          /\ state' = state
      BY <1>1, <1>2, <1>10 DEF AcceptChunk, buf
    <2>2. TypeOK'
      BY <1>1, <1>5, <1>6, <2>1 DEF ChunkInv, TypeOK
    <2>3. OneEpoch'
      BY <1>3, <1>5, <1>7, <2>1 DEF OneEpoch
    \* Had something newer come, this would be a straggler or it came whole.
    <2>4. NewestBuffered'
      <3> SUFFICES ASSUME NEW g \in Epochs, 0 < sent'[g], sent'[g] < Size[g],
                          \A f \in Epochs : f > g => sent'[f] = 0
                   PROVE  g = e /\ \A j \in 0 .. sent'[g] - 1 : \E c \in buf : c.seq = j
        BY <2>1 DEF NewestBuffered
      <3>1. g = e
        <4> SUFFICES ASSUME g # e PROVE FALSE
          OBVIOUS
        <4>1. sent[g] = sent'[g] /\ \A f \in Epochs : f > g => sent[f] = 0
          BY <1>5, <1>7
        <4>2. active /\ epoch = g
          BY <4>1 DEF ChunkInv, NewestBuffered
        <4>3. e < g
          BY <1>5, <1>7
        <4> QED
          BY <1>2, <1>10, <4>2, <4>3 DEF Straggler
      <3>2. ASSUME NEW j \in 0 .. sent'[e] - 1
            PROVE  \E c \in buf : c.seq = j
        <4>1. CASE j = i
          BY <4>1, <1>2, <1>3
        <4>2. CASE j # i
          <5>1. 0 < sent[e] /\ sent[e] < Size[e] /\ j \in 0 .. sent[e] - 1
            BY <3>1, <4>2, <1>5, <1>7
          <5>2. \A f \in Epochs : f > e => sent[f] = 0
            BY <3>1, <1>5, <1>7
          <5>3. active /\ epoch = e /\ \E c \in bySeq : c.seq = j
            BY <5>1, <5>2 DEF ChunkInv, NewestBuffered
          <5> QED
            BY <5>3, <1>4
        <4> QED
          BY <4>1, <4>2
      <3> QED
        BY <3>1, <3>2
    <2>5. NeverPartial'
      BY <2>1 DEF ChunkInv, NeverPartial
    <2>6. NewestLands'
      <3> SUFFICES ASSUME NEW g \in Epochs \ OldSchema, sent'[g] = Size[g],
                          \A f \in Epochs : f > g => sent'[f] = 0
                   PROVE  g \in landed
        BY <2>1 DEF NewestLands
      <3>1. sent[g] = Size[g]
        <4>1. i # Size[e] - 1
          BY <1>2, <1>10
        <4>2. sent'[e] = Size[e] => sent'[e] = sent[e]
          BY <4>1, <1>5, <1>7
        <4> QED
          BY <4>2, <1>5
      <3>2. \A f \in Epochs : f > g => sent[f] = 0
        BY <1>5, <1>7
      <3> QED
        BY <3>1, <3>2 DEF ChunkInv, NewestLands
    <2> QED
      BY <2>2, <2>3, <2>4, <2>5, <2>6 DEF ChunkInv
  <1>11. CASE ~Straggler(ch) /\ ch.last
    <2>1. epoch' = 0 /\ active' = FALSE /\ bySeq' = {} /\ i = Size[e] - 1
      BY <1>1, <1>2, <1>11 DEF AcceptChunk, Reset
    <2>2. \/ /\ Complete(buf, i) /\ e \notin OldSchema
             /\ state' = Assembled(buf, i)
             /\ landed' = landed \cup {e}
          \/ /\ ~(Complete(buf, i) /\ e \notin OldSchema)
             /\ UNCHANGED <<landed, state>>
      BY <1>1, <1>2, <1>11 DEF AcceptChunk, buf
    <2>3. Complete(buf, i) => Assembled(buf, i) = Chunks(e)
      BY <1>3, <2>1, CompleteIsWhole
    <2>4. Chunks(e) \subseteq AllChunks
      BY DEF AllChunks
    <2>5. TypeOK'
      BY <1>1, <1>5, <2>1, <2>2, <2>3, <2>4 DEF ChunkInv, TypeOK
    <2>6. OneEpoch' /\ NeverPartial'
      BY <2>1, <2>2, <2>3 DEF ChunkInv, OneEpoch, NeverPartial
    <2>7. sent'[e] = Size[e]
      BY <1>5, <1>7, <2>1
    <2>8. NewestBuffered'
      <3> SUFFICES ASSUME NEW g \in Epochs, 0 < sent'[g], sent'[g] < Size[g],
                          \A f \in Epochs : f > g => sent'[f] = 0
                   PROVE  FALSE
        BY DEF NewestBuffered
      <3>1. g # e
        BY <2>7, <1>7
      <3>2. e < g
        BY <3>1, <1>5, <1>7
      <3>3. active /\ epoch = g
        BY <3>1, <1>5, <1>7 DEF ChunkInv, NewestBuffered
      <3> QED
        BY <1>2, <1>11, <3>2, <3>3 DEF Straggler
    <2>9. NewestLands'
      <3> SUFFICES ASSUME NEW g \in Epochs \ OldSchema, sent'[g] = Size[g],
                          \A f \in Epochs : f > g => sent'[f] = 0
                   PROVE  g \in landed'
        BY DEF NewestLands
      <3>1. landed \subseteq landed'
        BY <2>2
      <3>2. \A f \in Epochs : f > g => sent[f] = 0
        BY <1>5, <1>7
      <3>3. CASE sent[g] = Size[g]
        BY <3>1, <3>2, <3>3 DEF ChunkInv, NewestLands
      <3>4. CASE sent[g] # Size[g]
        <4>1. g = e /\ i = sent[e]
          BY <3>4, <1>5
        <4>2. ASSUME NEW j \in 0 .. i
              PROVE  \E c \in buf : c.seq = j
          <5>1. CASE j = i
            BY <5>1, <1>2, <1>3
          <5>2. CASE j # i
            <6>1. 0 < sent[e] /\ sent[e] < Size[e] /\ j \in 0 .. sent[e] - 1
              BY <4>1, <5>2, <2>1, <1>7
            <6>2. active /\ epoch = e /\ \E c \in bySeq : c.seq = j
              BY <6>1, <3>2, <4>1 DEF ChunkInv, NewestBuffered
            <6> QED
              BY <6>2, <1>4
          <5> QED
            BY <5>1, <5>2
        <4>3. Complete(buf, i)
          BY <4>2 DEF Complete
        <4> QED
          BY <4>1, <4>3, <2>2
      <3> QED
        BY <3>3, <3>4
    <2> QED
      BY <2>5, <2>6, <2>8, <2>9 DEF ChunkInv
  <1> QED
    BY <1>9, <1>10, <1>11

LEMMA Inductive == Spec => []ChunkInv
  <1>1. ChunkInv /\ [Next]_vars => ChunkInv'
    <2> SUFFICES ASSUME ChunkInv, [Next]_vars
                 PROVE  ChunkInv'
      OBVIOUS
    <2>1. CASE Next
      BY <2>1, RecvInv, SubscribeInv, StreamEndsInv DEF Next
    <2>2. CASE UNCHANGED vars
      BY <2>2 DEF vars, ChunkInv, TypeOK, OneEpoch, NewestBuffered, NeverPartial,
         NewestLands
    <2> QED
      BY <2>1, <2>2
  <1> QED
    BY <1>1, InitInv, PTL DEF Spec

\* For any epochs and sizes, and any interleaving of their chunks, what
\* acceptChunk hands to onDesired is one whole snapshot.
THEOREM OnlyWholeSnapshots == Spec => []NeverPartial
  <1>1. ChunkInv => NeverPartial
    BY DEF ChunkInv
  <1> QED
    BY <1>1, Inductive, PTL

\* For any epochs and sizes, the newest snapshot of a stream is handed on once
\* all its chunks came, whatever chunks of older ones came in between.
THEOREM NewestAlwaysLands == Spec => []NewestLands
  <1>1. ChunkInv => NewestLands
    BY DEF ChunkInv
  <1> QED
    BY <1>1, Inductive, PTL

-----------------------------------------------------------------------------
(***************************************************************************)
(* The refinement: what a step does to the snapshots pushed completely and *)
(* to the one held.                                                        *)
(***************************************************************************)

Pushed == {e \in Epochs : sent[e] = Size[e]}

\* A whole snapshot is known by its chunks, of which there is one at least.
LEMMA WholeIsKnown ==
  ASSUME NEW e \in Epochs
  PROVE  WholeOf(Chunks(e)) = e
  <1>1. 0 \in 0 .. Size[e] - 1
    BY SizeNat
  <1>2. Chunk(e, 0) \in Chunks(e) /\ Chunk(e, 0).epoch = e
    BY <1>1, ChunkFacts
  <1>3. ASSUME NEW f \in Epochs, Chunks(e) = Chunks(f)
        PROVE  f = e
    <2>1. PICK i \in 0 .. Size[f] - 1 : Chunk(e, 0) = Chunk(f, i)
      BY <1>2, <1>3 DEF Chunks
    <2> QED
      BY <1>2, <2>1, ChunkFacts
  <1>4. {f \in Epochs : Chunks(e) = Chunks(f)} = {e}
    BY <1>3
  <1>5. Chunks(e) # {}
    BY <1>2
  <1> QED
    BY <1>4, <1>5 DEF WholeOf

LEMMA NothingIsZero == WholeOf({}) = 0
  BY DEF WholeOf

\* A chunk that is not the last completes no snapshot; the last one completes its
\* own, which is handed on, or is not.
LEMMA RecvDelivers ==
  ASSUME ChunkInv, NEW e \in Epochs, NEW i \in 0 .. Size[e] - 1, Recv(e, i)
  PROVE  \/ Pushed' = Pushed /\ state' = state
         \/ /\ Pushed' = Pushed \cup {e}
            /\ state' = state \/ (state' = Chunks(e) /\ e \notin OldSchema)
  <1> DEFINE ch == Chunk(e, i)
             buf == Buffered(ch)
  <1>1. AcceptChunk(ch)
    BY DEF Recv
  <1>2. ch.epoch = e /\ ch.seq = i /\ ch.last = (i = Size[e] - 1)
    BY ChunkFacts
  <1>3. buf \subseteq Chunks(e)
    BY BufferedOneEpoch DEF ChunkInv
  <1>4. /\ \A f \in Epochs : f # e => sent'[f] = sent[f]
        /\ i <= sent[e]
        /\ sent'[e] <= Size[e]
        /\ i # sent[e] => sent'[e] = sent[e]
        /\ i = sent[e] => sent'[e] = i + 1
        /\ sent[e] \in Nat /\ Size[e] \in Nat
    BY SentFacts, SizeNat DEF ChunkInv, TypeOK
  <1>5. sent[e] <= Size[e]
    BY DEF ChunkInv, TypeOK
  <1> HIDE DEF ch, buf
  <1>6. CASE i # Size[e] - 1
    <2>1. sent'[e] = Size[e] <=> sent[e] = Size[e]
      BY <1>4, <1>6
    <2>2. Pushed' = Pushed
      BY <2>1, <1>4 DEF Pushed
    <2>3. state' = state
      BY <1>1, <1>2, <1>6 DEF AcceptChunk
    <2> QED
      BY <2>2, <2>3
  <1>7. CASE i = Size[e] - 1
    <2>1. sent'[e] = Size[e]
      BY <1>4, <1>5, <1>7
    <2>2. Pushed' = Pushed \cup {e}
      BY <2>1, <1>4 DEF Pushed
    <2>3. Complete(buf, i) => Assembled(buf, i) = Chunks(e)
      BY <1>3, <1>7, CompleteIsWhole
    <2>4. state' = state \/ (state' = Chunks(e) /\ e \notin OldSchema)
      BY <1>1, <1>2, <1>7, <2>3 DEF AcceptChunk, buf
    <2> QED
      BY <2>2, <2>4
  <1> QED
    BY <1>6, <1>7

LEMMA StepImplements ==
  ASSUME ChunkInv, [Next]_vars
  PROVE  [Delivery!Next]_(Delivery!vars)
  <1> USE DEF Pushed
  <1>1. ASSUME NEW e \in Epochs, NEW i \in 0 .. Size[e] - 1, Recv(e, i)
        PROVE  Delivery!Push(e) \/ UNCHANGED Delivery!vars
    <2>1. streaming /\ streaming' = streaming
      BY <1>1 DEF Recv
    <2>2. \/ Pushed' = Pushed /\ state' = state
          \/ /\ Pushed' = Pushed \cup {e}
             /\ state' = state \/ (state' = Chunks(e) /\ e \notin OldSchema)
      BY <1>1, RecvDelivers
    <2>3. CASE Pushed' = Pushed /\ state' = state
      BY <2>1, <2>3 DEF Delivery!vars
    <2>4. CASE Pushed' = Pushed \cup {e} /\ state' = state
      BY <2>1, <2>4 DEF Delivery!Push
    <2>5. CASE Pushed' = Pushed \cup {e} /\ state' = Chunks(e) /\ e \notin OldSchema
      <3>1. WholeOf(state') = e
        BY <2>5, WholeIsKnown
      <3> QED
        BY <2>1, <2>5, <3>1 DEF Delivery!Push
    <2> QED
      BY <2>2, <2>3, <2>4, <2>5
  <1>2. CASE Subscribe
    <2>1. Pushed' = {}
      BY <1>2, SizeNat DEF Subscribe
    <2> QED
      BY <1>2, <2>1 DEF Subscribe, Delivery!Next, Delivery!Open
  <1>3. CASE StreamEnds
    BY <1>3 DEF StreamEnds, Delivery!Next, Delivery!Close
  <1>4. CASE UNCHANGED vars
    BY <1>4 DEF vars, Delivery!vars
  <1> QED
    BY <1>1, <1>2, <1>3, <1>4 DEF Next, Delivery!Next

\* For any epochs and sizes, reassembly from interleaved, repeated, late and
\* abandoned chunks (acceptChunk, subscribeOnce) implements a stream that delivers
\* whole snapshots at once.
THEOREM ChunkingIsInvisible == Spec => ImplementsDelivery
  <1>1. Init => Delivery!Init
    BY NothingIsZero, SizeNat DEF Init, Delivery!Init
  <1>2. ChunkInv /\ [Next]_vars => [Delivery!Next]_(Delivery!vars)
    BY StepImplements
  <1> QED
    BY <1>1, <1>2, Inductive, PTL DEF Spec, ImplementsDelivery, Delivery!Spec

-----------------------------------------------------------------------------
(***************************************************************************)
(* The link.                                                               *)
(***************************************************************************)

\* The part of the type invariant that is not about the stream.
LoopTypeOK ==
  /\ {server, reached, haveState, queued} \subseteq BOOLEAN
  /\ pc \in {"register", "subscribe", "stream", "backoff"}
  /\ {up, dead, observed} \subseteq BOOLEAN
  /\ {healthNotify, jitter, liveTimer, wake, guardTimer} \subseteq BOOLEAN
  /\ report \in Verdicts \cup {None}
  /\ told \in Verdicts \cup {None}
  /\ {recent, spent} \subseteq BOOLEAN
  /\ flips \in 0 .. MaxFlips
  /\ outages \in 0 .. MaxOutages
  /\ traffic \in {"down", "up"}

\* What the report being sent says is what holds, or a wake is still to come:
\* none is taken while a report is being sent.
ReportFollowed ==
  report \notin {None, Truth}
    => healthNotify \/ jitter \/ liveTimer \/ wake \/ guardTimer

LoopInv == LoopTypeOK /\ ReportFollowed /\ NoLostWake

-----------------------------------------------------------------------------

\* A step of the link is one of the stream, or leaves it alone.
LEMMA StreamStep ==
  ASSUME [LinkNext]_linkVars
  PROVE  [Next]_vars
  <1>1. ASSUME NEW ok \in BOOLEAN, Register(ok) \/ SubscribeOnce(ok)
        PROVE  [Next]_vars
    BY <1>1 DEF Register, SubscribeOnce, Next
  <1>2. ASSUME NEW e \in Epochs, NEW acc \in BOOLEAN, NEW i \in 0 .. Size[e] - 1,
               Dispatch(e, i, acc)
        PROVE  Next
    BY <1>2 DEF Dispatch, Next
  <1>3. ASSUME DispatchDelta \/ MergeQueued \/ StreamBreaks \/ BackoffOver
        PROVE  [Next]_vars
    BY <1>3 DEF DispatchDelta, MergeQueued, StreamBreaks, BackoffOver, Next
  <1>4. ASSUME UpNext
        PROVE  UNCHANGED vars
    BY <1>4 DEF UpNext, ConnFlips, LiveFlips, TakeTransition, JitterOver, LiveTimerFires,
         GuardTimerFires, Observe, Tick, TakeWake, SendReport, MinIntervalOver
  <1>5. ASSUME ServerFlips
        PROVE  UNCHANGED vars
    BY <1>5 DEF ServerFlips
  <1>6. ASSUME UNCHANGED linkVars
        PROVE  UNCHANGED vars
    BY <1>6 DEF linkVars
  <1> QED
    BY <1>1, <1>2, <1>3, <1>4, <1>5, <1>6 DEF LinkNext, DownNext

\* The link implements the stream.
LEMMA StreamOfLink == LinkSpec => Spec
  <1>1. LinkInit => Init
    BY DEF LinkInit
  <1>2. [LinkNext]_linkVars => [Next]_vars
    BY StreamStep
  <1> QED
    BY <1>1, <1>2, PTL DEF LinkSpec, Spec

-----------------------------------------------------------------------------

\* The downlink touches neither the wakes nor what a report is about.
LEMMA DownStep ==
  ASSUME LoopInv, ServerFlips \/ DownNext
  PROVE  /\ UNCHANGED <<traffic, healthVars, wakeVars, sendVars>>
         /\ {server', reached', haveState', queued'} \subseteq BOOLEAN
         /\ pc' \in {"register", "subscribe", "stream", "backoff"}
         /\ outages' \in 0 .. MaxOutages
  <1> USE DEF LoopInv, LoopTypeOK
  <1>1. CASE ServerFlips
    BY <1>1, LinkAssumption DEF ServerFlips
  <1>2. ASSUME NEW ok \in BOOLEAN, Register(ok)
        PROVE  /\ UNCHANGED <<traffic, healthVars, wakeVars, sendVars, outages>>
               /\ {server', reached', haveState', queued'} \subseteq BOOLEAN
               /\ pc' \in {"register", "subscribe", "stream", "backoff"}
    BY <1>2 DEF Register
  <1>3. ASSUME NEW ok \in BOOLEAN, SubscribeOnce(ok)
        PROVE  /\ UNCHANGED <<traffic, healthVars, wakeVars, sendVars, outages>>
               /\ {server', reached', haveState', queued'} \subseteq BOOLEAN
               /\ pc' \in {"register", "subscribe", "stream", "backoff"}
    BY <1>3 DEF SubscribeOnce
  <1>4. ASSUME NEW e \in Epochs, NEW acc \in BOOLEAN, NEW i \in 0 .. Size[e] - 1,
               Dispatch(e, i, acc)
        PROVE  /\ UNCHANGED <<traffic, healthVars, wakeVars, sendVars, outages>>
               /\ {server', reached', haveState', queued'} \subseteq BOOLEAN
               /\ pc' \in {"register", "subscribe", "stream", "backoff"}
    BY <1>4 DEF Dispatch
  <1>5. ASSUME DispatchDelta \/ MergeQueued \/ StreamBreaks \/ BackoffOver
        PROVE  /\ UNCHANGED <<traffic, healthVars, wakeVars, sendVars, outages>>
               /\ {server', reached', haveState', queued'} \subseteq BOOLEAN
               /\ pc' \in {"register", "subscribe", "stream", "backoff"}
    BY <1>5 DEF DispatchDelta, MergeQueued, StreamBreaks, BackoffOver
  <1> QED
    BY <1>1, <1>2, <1>3, <1>4, <1>5 DEF DownNext

LEMMA DownInv ==
  ASSUME LoopInv, ServerFlips \/ DownNext
  PROVE  LoopInv'
  <1>1. /\ UNCHANGED <<traffic, healthVars, wakeVars, sendVars>>
        /\ {server', reached', haveState', queued'} \subseteq BOOLEAN
        /\ pc' \in {"register", "subscribe", "stream", "backoff"}
        /\ outages' \in 0 .. MaxOutages
    BY DownStep
  <1>2. LoopTypeOK'
    BY <1>1 DEF LoopInv, LoopTypeOK, healthVars, wakeVars, sendVars
  <1>3. ReportFollowed' /\ NoLostWake'
    BY <1>1 DEF LoopInv, ReportFollowed, NoLostWake, WakeUnderWay, Truth, healthVars,
       wakeVars, sendVars
  <1> QED
    BY <1>2, <1>3 DEF LoopInv

\* A transition of VPP's health starts a wake; the wakes pass from one place to the
\* next; a report is built of the truth, and nothing is taken while it is sent.
LEMMA UpInv ==
  ASSUME LoopInv, UpNext
  PROVE  LoopInv'
  <1>1. UNCHANGED <<traffic, runVars>>
    BY DEF UpNext, ConnFlips, LiveFlips, TakeTransition, JitterOver, LiveTimerFires,
       GuardTimerFires, Observe, Tick, TakeWake, SendReport, MinIntervalOver
  <1>2. LoopTypeOK'
    <2>1. CASE ConnFlips \/ LiveFlips
      <3>1. flips' \in 0 .. MaxFlips
        BY <2>1, LinkAssumption DEF LoopInv, LoopTypeOK, ConnFlips, LiveFlips
      <3>2. /\ {up', dead', observed'} \subseteq BOOLEAN
            /\ {healthNotify', jitter', liveTimer', wake', guardTimer'} \subseteq BOOLEAN
            /\ UNCHANGED sendVars
        BY <2>1, Zenon DEF LoopInv, LoopTypeOK, ConnFlips, LiveFlips
      <3> QED
        BY <1>1, <3>1, <3>2 DEF LoopInv, LoopTypeOK, runVars, sendVars
    <2>2. CASE TakeTransition \/ JitterOver \/ LiveTimerFires \/ GuardTimerFires
      BY <1>1, <2>2 DEF LoopInv, LoopTypeOK, TakeTransition, JitterOver, LiveTimerFires,
         GuardTimerFires, runVars, sendVars, healthVars
    <2>3. CASE Observe \/ Tick \/ TakeWake
      <3>1. CASE Observe
        BY <1>1, <3>1 DEF LoopInv, LoopTypeOK, Observe, runVars, sendVars, wakeVars
      <3>2. Build => /\ report' \in Verdicts \cup {None}
                     /\ {recent', spent'} \subseteq BOOLEAN
                     /\ told' = told
        BY DEF LoopInv, LoopTypeOK, Build, Truth, Verdicts
      <3>3. CASE Tick
        BY <1>1, <3>2, <3>3 DEF LoopInv, LoopTypeOK, Tick, runVars, healthVars, wakeVars
      <3>4. CASE TakeWake /\ recent
        BY <1>1, <3>4 DEF LoopInv, LoopTypeOK, TakeWake, Guard, runVars, healthVars, sendVars
      <3>5. CASE TakeWake /\ ~recent
        BY <1>1, <3>2, <3>5 DEF LoopInv, LoopTypeOK, TakeWake, runVars, healthVars
      <3> QED
        BY <2>3, <3>1, <3>3, <3>4, <3>5
    <2>4. ASSUME NEW ok \in BOOLEAN, SendReport(ok)
          PROVE  LoopTypeOK'
      BY <1>1, <2>4 DEF LoopInv, LoopTypeOK, SendReport, runVars, healthVars, wakeVars
    <2>5. CASE MinIntervalOver
      BY <1>1, <2>5 DEF LoopInv, LoopTypeOK, MinIntervalOver, runVars, healthVars, wakeVars
    <2> QED
      BY <2>1, <2>2, <2>3, <2>4, <2>5 DEF UpNext
  <1>3. ReportFollowed' /\ NoLostWake'
    <2> USE DEF LoopInv, ReportFollowed, NoLostWake, WakeUnderWay
    <2>1. CASE ConnFlips \/ LiveFlips
      BY <2>1 DEF ConnFlips, LiveFlips
    <2>2. CASE TakeTransition \/ JitterOver \/ LiveTimerFires \/ GuardTimerFires
      BY <2>2 DEF TakeTransition, JitterOver, LiveTimerFires, GuardTimerFires, sendVars,
         healthVars, Truth
    <2>3. CASE Observe
      BY <2>3 DEF Observe, wakeVars, sendVars, Truth
    <2>4. CASE Tick \/ TakeWake
      <3>1. Truth' = Truth
        BY <2>4 DEF Tick, TakeWake, healthVars, Truth
      <3> QED
        BY <2>4, <3>1 DEF Tick, TakeWake, Guard, Build, wakeVars, sendVars, Truth, None
    <2>5. ASSUME NEW ok \in BOOLEAN, SendReport(ok)
          PROVE  ReportFollowed' /\ NoLostWake'
      <3>1. Truth' = Truth
        BY <2>5 DEF SendReport, healthVars, Truth
      <3> QED
        BY <2>5, <3>1 DEF SendReport, wakeVars, None
    <2>6. CASE MinIntervalOver
      BY <2>6 DEF MinIntervalOver, healthVars, wakeVars, Truth
    <2> QED
      BY <2>1, <2>2, <2>3, <2>4, <2>5, <2>6 DEF UpNext
  <1> QED
    BY <1>2, <1>3 DEF LoopInv

LEMMA LoopInductive == LinkSpec => []LoopInv
  <1>1. LinkInit => LoopInv
    <2> SUFFICES ASSUME LinkInit PROVE LoopInv
      OBVIOUS
    <2>1. LoopTypeOK
      <3>1. flips \in 0 .. MaxFlips /\ outages \in 0 .. MaxOutages
        BY LinkAssumption DEF LinkInit
      <3>2. report \in Verdicts \cup {None} /\ told \in Verdicts \cup {None}
        BY DEF LinkInit
      <3>3. pc \in {"register", "subscribe", "stream", "backoff"} /\ traffic \in {"down", "up"}
        BY DEF LinkInit
      <3>4. /\ {server, reached, haveState, queued} \subseteq BOOLEAN
            /\ {up, dead, observed} \subseteq BOOLEAN
            /\ {healthNotify, jitter, liveTimer, wake, guardTimer} \subseteq BOOLEAN
            /\ {recent, spent} \subseteq BOOLEAN
        BY Zenon DEF LinkInit
      <3> QED
        BY <3>1, <3>2, <3>3, <3>4 DEF LoopTypeOK
    <2>2. ReportFollowed /\ NoLostWake
      BY DEF LinkInit, ReportFollowed, NoLostWake
    <2> QED
      BY <2>1, <2>2 DEF LoopInv
  <1>2. LoopInv /\ [LinkNext]_linkVars => LoopInv'
    <2> SUFFICES ASSUME LoopInv, [LinkNext]_linkVars
                 PROVE  LoopInv'
      OBVIOUS
    <2>1. CASE LinkNext
      BY <2>1, DownInv, UpInv DEF LinkNext
    <2>2. CASE UNCHANGED linkVars
      BY <2>2 DEF linkVars, runVars, wakeVars, healthVars, sendVars, LoopInv, LoopTypeOK,
         ReportFollowed, NoLostWake, WakeUnderWay, Truth
    <2> QED
      BY <2>1, <2>2
  <1> QED
    BY <1>1, <1>2, PTL DEF LinkSpec

-----------------------------------------------------------------------------

\* Whatever the server and VPP's health do, the link's state is well formed, and a
\* change of health that the server was not told of has a wake under way, unless the
\* Reporter's last turn came to nothing: the storm guard of Run loses none.
THEOREM WakesAreNotLost == LinkSpec => []LinkInv
  <1>1. ChunkInv /\ LoopInv => LinkInv
    BY DEF ChunkInv, LoopInv, LoopTypeOK, LinkInv, LinkTypeOK
  <1> QED
    BY <1>1, LoopInductive, StreamOfLink, Inductive, PTL

\* Through reconnects and outages, RunDirect's stream hands on only whole snapshots,
\* the newest one among them, as atomic delivery would.
THEOREM LinkDelivers == LinkSpec => []NeverPartial /\ []NewestLands /\ ImplementsDelivery
  BY StreamOfLink, OnlyWholeSnapshots, NewestAlwaysLands, ChunkingIsInvisible, PTL
=============================================================================
