---------------------------- MODULE ChunkStream ----------------------------
(***************************************************************************)
(* Reassembly of a chunked full snapshot on the Subscribe stream           *)
(* (grpcclient.Client.acceptChunk).                                        *)
(*                                                                         *)
(* One goroutine receives the chunks of a stream.  The controller          *)
(* (external) pushes the chunks of one snapshot in order, but snapshots    *)
(* are pushed from concurrent goroutines: their chunks interleave, a       *)
(* snapshot may be abandoned half-way, the chunks of a superseded one may  *)
(* come late, and a chunk may be sent again.                               *)
(***************************************************************************)
EXTENDS Integers, FiniteSets

CONSTANTS
  Epochs,      \* epochs of the snapshots pushed
  Size,        \* how many chunks each snapshot has
  OldSchema    \* snapshots with another schema version

ASSUME ChunkAssumption ==
  /\ Epochs \subseteq Nat \ {0}
  /\ Size \in [Epochs -> Nat \ {0}]
  /\ OldSchema \subseteq Epochs

VARIABLES
  streaming,   \* a Subscribe stream is open
  sent,        \* how many chunks of each snapshot came on this stream
  landed,      \* snapshots handed to onDesired since the stream was opened
  state,       \* the chunks of the state handed to onDesired last
  epoch, active, bySeq    \* the chunkAssembler

vars == <<streaming, sent, landed, state, epoch, active, bySeq>>

Chunk(e, i) == [epoch |-> e, seq |-> i, last |-> i = Size[e] - 1]
Chunks(e) == {Chunk(e, i) : i \in 0 .. Size[e] - 1}
AllChunks == UNION {Chunks(e) : e \in Epochs}

TypeOK ==
  /\ streaming \in BOOLEAN
  /\ sent \in [Epochs -> Nat]
  /\ \A e \in Epochs : sent[e] <= Size[e]
  /\ landed \subseteq Epochs
  /\ state \subseteq AllChunks
  /\ epoch \in Epochs \cup {0}
  /\ active \in BOOLEAN
  /\ bySeq \subseteq AllChunks

Init ==
  /\ streaming = FALSE
  /\ sent = [e \in Epochs |-> 0]
  /\ landed = {}
  /\ state = {}
  /\ epoch = 0
  /\ active = FALSE
  /\ bySeq = {}

-----------------------------------------------------------------------------

\* chunkAssembler.reset.
Reset == epoch' = 0 /\ active' = FALSE /\ bySeq' = {}

\* Mutant: any other epoch is taken for a newer one.
StragglerNever(ch) == FALSE

\* A late chunk of a superseded snapshot.
Straggler(ch) == active /\ ch.epoch < epoch

\* Mutant: what was buffered of an older snapshot stays.
BufferedMixing(ch) == {c \in bySeq : c.seq # ch.seq} \cup {ch}

\* The buffer with the chunk: a newer (or the first) snapshot starts afresh.
Buffered(ch) ==
  {c \in bySeq : active /\ ch.epoch = epoch /\ c.seq # ch.seq} \cup {ch}

\* Mutant: the last chunk is taken to complete the snapshot.
CompleteAtLast(buf, n) == TRUE

Complete(buf, n) == \A i \in 0 .. n : \E c \in buf : c.seq = i

\* Mutant: the slice is made with that length, not that capacity, so zero
\* fragments come first.
AssembledPadded(buf, n) ==
  {c \in buf : c.seq <= n} \cup {[epoch |-> 0, seq |-> 0, last |-> FALSE]}

\* AssembleChunks of the fragments up to the last one.
Assembled(buf, n) == {c \in buf : c.seq <= n}

\* acceptChunk.
AcceptChunk(ch) ==
  IF Straggler(ch)
  THEN UNCHANGED <<landed, state, epoch, active, bySeq>>
  ELSE IF ~ch.last
  THEN /\ epoch' = ch.epoch
       /\ active' = TRUE
       /\ bySeq' = Buffered(ch)
       /\ UNCHANGED <<landed, state>>
  ELSE /\ Reset
       /\ IF Complete(Buffered(ch), ch.seq) /\ ch.epoch \notin OldSchema
          THEN /\ state' = Assembled(Buffered(ch), ch.seq)
               /\ landed' = landed \cup {ch.epoch}
          ELSE UNCHANGED <<landed, state>>

\* The next chunk of a snapshot, or one that is sent again, is dispatched.
Recv(e, i) ==
  /\ streaming
  /\ i <= sent[e]
  /\ sent' = [sent EXCEPT ![e] = IF i = sent[e] THEN i + 1 ELSE sent[e]]
  /\ AcceptChunk(Chunk(e, i))
  /\ UNCHANGED streaming

\* subscribeOnce opens a stream.
Subscribe ==
  /\ ~streaming
  /\ streaming' = TRUE
  /\ sent' = [e \in Epochs |-> 0]
  /\ landed' = {}
  /\ Reset
  /\ UNCHANGED state

\* The stream ends: Recv returns an error.
StreamEnds ==
  /\ streaming
  /\ streaming' = FALSE
  /\ UNCHANGED <<sent, landed, state, epoch, active, bySeq>>

Next ==
  \/ \E e \in Epochs : \E i \in 0 .. Size[e] - 1 : Recv(e, i)
  \/ Subscribe
  \/ StreamEnds

Spec == Init /\ [][Next]_vars

-----------------------------------------------------------------------------

\* No partial and no mixture is ever applied: what onDesired got is all of one
\* snapshot, however the chunks of several snapshots interleave (acceptChunk).
NeverPartial ==
  state = {} \/ \E e \in Epochs : state = Chunks(e)

\* Late or repeated chunks of older snapshots do not keep the newest snapshot of
\* a stream from being assembled: once it was received completely it was handed
\* on (the epoch cases of acceptChunk).
NewestLands ==
  \A e \in Epochs \ OldSchema :
    /\ sent[e] = Size[e]
    /\ \A f \in Epochs : f > e => sent[f] = 0
    => e \in landed

\* The snapshot a handed-on state is all of: 0 before the first, -1 if of none.
WholeOf(chunks) ==
  LET wholes == {e \in Epochs : chunks = Chunks(e)} IN
  CASE chunks = {}                  -> 0
    [] chunks # {} /\ wholes # {}   -> CHOOSE e \in wholes : TRUE
    [] chunks # {} /\ wholes = {}   -> -1

Delivery ==
  INSTANCE SnapshotDelivery WITH
    Snapshots <- Epochs,
    Readable <- Epochs \ OldSchema,
    open <- streaming,
    pushed <- {e \in Epochs : sent[e] = Size[e]},
    held <- WholeOf(state)

\* Chunking is invisible: assembling, superseding and abandoning chunks implements
\* the atomic delivery of whole snapshots (acceptChunk, subscribeOnce).
ImplementsDelivery == Delivery!Spec
=============================================================================
