-------------------------- MODULE SnapshotDelivery --------------------------
(***************************************************************************)
(* What the stream client promises its user about full snapshots, chunks   *)
(* or not: the state it hands on is always one whole snapshot, one of      *)
(* those pushed completely on the stream that is open, of the agent's own  *)
(* schema, and a stream that ends or is opened again changes nothing of it *)
(* (grpcclient, the comments of chunkAssembler and acceptChunk).           *)
(***************************************************************************)
EXTENDS Integers

CONSTANTS
  Snapshots,   \* the snapshots the controller may push
  Readable     \* those of the agent's schema version

VARIABLES
  open,        \* a stream is open
  pushed,      \* snapshots pushed completely on it
  held         \* the snapshot handed on last, 0 before the first

vars == <<open, pushed, held>>

Init ==
  /\ open = FALSE
  /\ pushed = {}
  /\ held = 0

Open ==
  /\ ~open
  /\ open' = TRUE
  /\ pushed' = {}
  /\ UNCHANGED held

Close ==
  /\ open
  /\ open' = FALSE
  /\ UNCHANGED <<pushed, held>>

\* A snapshot is complete, for the first time or again.
Push(s) ==
  /\ open
  /\ pushed' = pushed \cup {s}
  /\ held' \in {held} \cup ({s} \cap Readable)

Next ==
  \/ Open
  \/ Close
  \/ \E s \in Snapshots : Push(s)

Spec == Init /\ [][Next]_vars
=============================================================================
