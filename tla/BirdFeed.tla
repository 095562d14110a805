------------------------------ MODULE BirdFeed ------------------------------
(***************************************************************************)
(* The feed of anchors and flow redirects into BIRD's api protocol         *)
(* (birdfeed.Feed and birdfeed.Client).                                    *)
(*                                                                         *)
(* Two goroutines: the feed loop, whose pass writes one frame at a time,   *)
(* and the watcher of the current connection.  BIRD (external) reads the   *)
(* frames in order, forgets its table when it restarts, and never writes   *)
(* back: a dead peer is noticed by the watcher, or by a flush that has     *)
(* something to write.                                                     *)
(*                                                                         *)
(* The writer's buffer and the socket are one queue: the buffer is pushed  *)
(* out by itself when it is full.  Backoff delays are left out.            *)
(***************************************************************************)
EXTENDS Integers, Sequences

CONSTANTS
  Anchors,     \* anchored prefixes
  Flows,       \* source prefixes of flow redirects
  Families, FamilyOf,  \* address families; that of each flow
  Attrs,       \* community attributes of an anchor
  Hops,        \* redirect next hops
  None,
  MaxOps,      \* frames per flush; 0: the whole pass in one burst
  MaxChanges,  \* bound: desired states after the first one of a life
  MaxFaults,   \* bound: restarts of BIRD and of the agent
  MaxEvents    \* bound: both together

ASSUME FeedAssumption ==
  /\ Anchors \cap Flows = {}
  /\ FamilyOf \in [Flows -> Families]
  /\ None \notin Attrs \cup Hops
  /\ MaxOps \in Nat
  /\ MaxChanges \in Nat
  /\ MaxFaults \in Nat
  /\ MaxEvents \in Nat

VARIABLES
  \* the desired store and BIRD (external)
  have, want,  \* the desired state, once there is one
  birdUp,
  routes,      \* BIRD's table
  stale,       \* its routes not refreshed since the last HELLO
  sock,        \* frames BIRD has not read
  \* Client
  conn,        \* "none", "live", or "dead": closed by BIRD, not noticed yet
  n,           \* frames since the last flush
  \* Feed
  fed,         \* anchors, flows and next hops of the last-fed snapshot
  resync,
  wake,        \* the wake slot is full
  retry,       \* a short-fuse retry is armed
  failing,     \* fails > 0
  pc,          \* "idle" or "write"
  cur,         \* the state the running pass feeds
  out,         \* frames it has not written yet
  \* budgets of the bounded model
  changes, faults

envVars  == <<have, want, birdUp, routes, stale>>
feedVars == <<fed, resync, wake, retry, failing, pc, cur, out>>
vars == <<envVars, sock, conn, n, feedVars, changes, faults>>

Keys == Anchors \cup Flows
Values == Attrs \cup Hops

\* A desired state: attributes per anchor, flows, next hop per family.
States == [anchors : [Anchors -> Attrs \cup {None}], flows : SUBSET Flows,
           hop : [Families -> Hops \cup {None}]]
Nothing == [anchors |-> [a \in Anchors |-> None], flows |-> {},
            hop |-> [f \in Families |-> None]]

\* The table a state stands for: a flow carries its family's next hop.
Table(s) == [k \in Keys |-> IF k \in Anchors THEN s.anchors[k]
                            ELSE IF k \in s.flows THEN s.hop[FamilyOf[k]]
                            ELSE None]

Hello == [op |-> "hello"]
EOR   == [op |-> "eor"]
Add(k, v) == [op |-> "add", key |-> k, val |-> v]
Del(k) == [op |-> "del", key |-> k]
Frames == {Hello, EOR} \cup [op : {"add"}, key : Keys, val : Values]
            \cup [op : {"del"}, key : Keys]

TypeOK ==
  /\ have \in BOOLEAN
  /\ want \in States
  /\ birdUp \in BOOLEAN
  /\ routes \in [Keys -> Values \cup {None}]
  /\ stale \subseteq Keys
  /\ sock \in Seq(Frames)
  /\ conn \in {"none", "live", "dead"}
  /\ n \in Nat
  /\ fed \in States
  /\ resync \in BOOLEAN
  /\ wake \in BOOLEAN
  /\ retry \in BOOLEAN
  /\ failing \in BOOLEAN
  /\ pc \in {"idle", "write"}
  /\ cur \in States
  /\ out \subseteq Frames
  /\ changes \in 0 .. MaxChanges
  /\ faults \in 0 .. MaxFaults

\* What is left of the budget.
EventLeft == changes + faults < MaxEvents

\* A fresh agent: NewFeed.
FreshFeed ==
  /\ conn' = "none"
  /\ n' = 0
  /\ fed' = Nothing
  /\ resync' = TRUE
  /\ wake' = FALSE
  /\ retry' = FALSE
  /\ failing' = FALSE
  /\ pc' = "idle"
  /\ cur' = Nothing
  /\ out' = {}

Init ==
  /\ have = FALSE
  /\ want = Nothing
  /\ birdUp = TRUE
  /\ routes = [k \in Keys |-> None]
  /\ stale = {}
  /\ sock = <<>>
  /\ conn = "none"
  /\ n = 0
  /\ fed = Nothing
  /\ resync = TRUE
  /\ wake = FALSE
  /\ retry = FALSE
  /\ failing = FALSE
  /\ pc = "idle"
  /\ cur = Nothing
  /\ out = {}
  /\ changes = 0
  /\ faults = 0

-----------------------------------------------------------------------------
(***************************************************************************)
(* The feed loop.                                                          *)
(***************************************************************************)

\* Every flow's family has a next hop; otherwise the pass fails before it writes.
HopsGiven(s) == \A f \in s.flows : s.hop[FamilyOf[f]] # None

\* Mutant: prefixes that are not desired are announced too.
FullFramesAll(s) == {Hello, EOR} \cup {Add(k, Table(s)[k]) : k \in Keys}

\* fullResync.
FullFrames(s) ==
  {Hello, EOR} \cup {Add(k, Table(s)[k]) : k \in {j \in Keys : Table(s)[j] # None}}

\* Mutant: an anchor whose communities change is not announced again.
DiffFramesByKey(s) ==
  {Add(k, Table(s)[k]) : k \in {j \in Keys : Table(s)[j] # None /\ Table(fed)[j] = None}}
    \cup {Del(k) : k \in {j \in Keys : Table(s)[j] = None /\ Table(fed)[j] # None}}

\* incremental: anchors are compared with their attributes, flows by prefix.
DiffFrames(s) ==
  {Add(a, s.anchors[a]) : a \in {b \in Anchors : s.anchors[b] \notin {None, fed.anchors[b]}}}
    \cup {Del(a) : a \in {b \in Anchors : s.anchors[b] = None /\ fed.anchors[b] # None}}
    \cup {Add(f, Table(s)[f]) : f \in s.flows \ fed.flows}
    \cup {Del(f) : f \in fed.flows \ s.flows}

\* The loops of fullResync and incremental run in this order.
Rank(f) == CASE f.op = "hello" -> 0
             [] f.op = "add" /\ f.key \in Anchors -> 1
             [] f.op = "del" /\ f.key \in Anchors -> 2
             [] f.op = "add" /\ f.key \in Flows -> 3
             [] f.op = "del" /\ f.key \in Flows -> 4
             [] f.op = "eor" -> 5

\* pass fails: counted, and a wake is armed.
Failed ==
  /\ failing' = TRUE
  /\ retry' = TRUE
  /\ pc' = "idle"
  /\ cur' = Nothing
  /\ out' = {}
  /\ n' = 0

\* Mutant: a new connection is fed only the diff.
ResyncKept == resync

\* A new connection is resynced.
ResyncNeeded == resync \/ conn = "none"

\* pass up to the first write: connect when there is no connection, check the
\* next hops, choose what to write.
StartPass ==
  /\ pc = "idle"
  /\ have
  /\ \/ /\ conn = "none" /\ ~birdUp
        /\ Failed
        /\ UNCHANGED <<conn, resync>>
     \/ /\ conn # "none" \/ birdUp
        /\ conn' = IF conn = "none" THEN "live" ELSE conn
        /\ resync' = ResyncNeeded
        /\ IF HopsGiven(want)
           THEN /\ pc' = "write"
                /\ cur' = want
                /\ out' = IF resync' \/ want.hop # fed.hop
                          THEN FullFrames(want)
                          ELSE DiffFrames(want)
                /\ UNCHANGED <<failing, retry, n>>
           ELSE Failed
  /\ UNCHANGED <<envVars, sock, fed, changes, faults>>

\* Run: a pass without a state does nothing (fail-static).
SkipPass ==
  /\ pc = "idle"
  /\ ~have
  /\ UNCHANGED <<envVars, sock, conn, n, fed, resync, retry, failing, pc, cur,
                 out, changes, faults>>

TickPass == (StartPass \/ SkipPass) /\ UNCHANGED wake

WakePass == wake /\ wake' = FALSE /\ (StartPass \/ SkipPass)

\* Client.flush of k frames: nil on a dead connection when there is nothing to
\* write.
FlushOK(k) == conn = "live" \/ (conn = "dead" /\ k = 0)

\* The error path of apply after a failed flush: close, resync.
DropConn ==
  /\ conn' = "none"
  /\ resync' = TRUE
  /\ Failed

\* One write, with the flush of a full chunk.
Write(f) ==
  /\ pc = "write"
  /\ f \in out
  /\ \A g \in out : Rank(f) <= Rank(g)
  /\ sock' = IF conn = "live" THEN Append(sock, f) ELSE sock
  /\ LET full == MaxOps > 0 /\ n + 1 >= MaxOps
     IN \/ /\ full /\ ~FlushOK(n + 1)
           /\ DropConn
        \/ /\ full => FlushOK(n + 1)
           /\ n' = IF full THEN 0 ELSE n + 1
           /\ out' = out \ {f}
           /\ UNCHANGED <<conn, resync, failing, retry, pc, cur>>
  /\ UNCHANGED <<envVars, fed, wake, changes, faults>>

\* The final flush; the snapshot is committed only when it succeeds.
Finish ==
  /\ pc = "write"
  /\ out = {}
  /\ \/ /\ FlushOK(n)
        /\ fed' = cur
        /\ resync' = FALSE
        /\ failing' = FALSE
        /\ pc' = "idle"
        /\ cur' = Nothing
        /\ n' = 0
        /\ UNCHANGED <<conn, retry, out>>
     \/ /\ ~FlushOK(n)
        /\ DropConn
        /\ UNCHANGED fed
  /\ UNCHANGED <<envVars, sock, wake, changes, faults>>

\* The timer of pass.
RetryFires ==
  /\ retry
  /\ retry' = FALSE
  /\ wake' = TRUE
  /\ UNCHANGED <<envVars, sock, conn, n, fed, resync, failing, pc, cur, out,
                 changes, faults>>

\* Mutant: the feed is not woken.
WatchSilent ==
  /\ conn = "dead"
  /\ conn' = "none"
  /\ UNCHANGED <<envVars, sock, n, feedVars, changes, faults>>

\* watch: the current connection was closed by the peer.
Watch ==
  /\ conn = "dead"
  /\ conn' = "none"
  /\ wake' = TRUE
  /\ UNCHANGED <<envVars, sock, n, fed, resync, retry, failing, pc, cur, out,
                 changes, faults>>

-----------------------------------------------------------------------------
(***************************************************************************)
(* BIRD and the desired store (external).                                  *)
(***************************************************************************)

\* BIRD reads a frame: HELLO marks every route stale, EOR prunes the stale ones.
BirdReads ==
  /\ birdUp
  /\ sock # <<>>
  /\ sock' = Tail(sock)
  /\ LET f == Head(sock) IN
     CASE f.op = "hello" -> /\ stale' = {k \in Keys : routes[k] # None}
                            /\ UNCHANGED routes
       [] f.op = "add"   -> /\ routes' = [routes EXCEPT ![f.key] = f.val]
                            /\ stale' = stale \ {f.key}
       [] f.op = "del"   -> /\ routes' = [routes EXCEPT ![f.key] = None]
                            /\ stale' = stale \ {f.key}
       [] f.op = "eor"   -> /\ routes' = [k \in Keys |-> IF k \in stale THEN None
                                                         ELSE routes[k]]
                            /\ stale' = {}
  /\ UNCHANGED <<have, want, birdUp, conn, n, feedVars, changes, faults>>

BirdDies ==
  /\ birdUp
  /\ faults < MaxFaults /\ EventLeft
  /\ faults' = faults + 1
  /\ birdUp' = FALSE
  /\ routes' = [k \in Keys |-> None]
  /\ stale' = {}
  /\ sock' = <<>>
  /\ conn' = IF conn = "live" THEN "dead" ELSE conn
  /\ UNCHANGED <<have, want, n, feedVars, changes>>

BirdStarts ==
  /\ ~birdUp
  /\ birdUp' = TRUE
  /\ UNCHANGED <<have, want, routes, stale, sock, conn, n, feedVars, changes,
                 faults>>

\* A full state wakes the feed, and so does a delta VPP has installed; one it
\* has not is in the store all the same.
Deliver(s) ==
  /\ \/ /\ have
        /\ changes < MaxChanges /\ EventLeft
        /\ changes' = changes + 1
        /\ wake' \in {wake, TRUE}
     \/ /\ ~have
        /\ wake' = TRUE
        /\ UNCHANGED changes
  /\ have' = TRUE
  /\ want' = s
  /\ UNCHANGED <<birdUp, routes, stale, sock, conn, n, fed, resync, retry,
                 failing, pc, cur, out, faults>>

\* The agent restarts: BIRD keeps its routes and reads some of what was written.
AgentRestart(k) ==
  /\ faults < MaxFaults /\ EventLeft
  /\ faults' = faults + 1
  /\ have' = FALSE
  /\ want' = Nothing
  /\ sock' = SubSeq(sock, 1, k)
  /\ FreshFeed
  /\ UNCHANGED <<birdUp, routes, stale, changes>>

Next ==
  \/ TickPass
  \/ WakePass
  \/ \E f \in out : Write(f)
  \/ Finish
  \/ RetryFires
  \/ Watch
  \/ BirdReads
  \/ BirdDies
  \/ BirdStarts
  \/ \E s \in States : Deliver(s)
  \/ \E k \in 0 .. Len(sock) : AgentRestart(k)

Spec == Init /\ [][Next]_vars

\* Timers fire, the watcher is scheduled, a pass goes on (writes to a socket that
\* is read), BIRD is restarted by its supervisor and reads.
PromptFairness ==
  /\ WF_vars(WakePass)
  /\ WF_vars(\E f \in out : Write(f))
  /\ WF_vars(Finish)
  /\ WF_vars(RetryFires)
  /\ WF_vars(Watch)
  /\ WF_vars(BirdReads)
  /\ WF_vars(BirdStarts)

\* The events alone, without the interval timer.
PromptSpec == Spec /\ PromptFairness

-----------------------------------------------------------------------------

\* The health the feed reports is honest: no failed pass and a live connection
\* whose frames BIRD has read mean that BIRD's table is the last-fed snapshot,
\* through restarts of BIRD in the middle of a pass, zero-diff passes on a dead
\* connection and next-hop changes (apply commits only after a clean flush).
StatusHonest ==
  /\ pc = "idle"
  /\ conn = "live"
  /\ ~failing
  /\ sock = <<>>
  => routes = Table(fed) /\ stale = {}

\* In the end BIRD's table is the desired one, if every flow has a next hop and
\* the interval timer keeps firing (Run): a delta that VPP has not installed wakes
\* nobody.
Delivered ==
  WF_vars(TickPass) => <>[](have /\ HopsGiven(want) => routes = Table(want))

\* The bird-restart hole is closed without the interval timer: the watcher and
\* the short-fuse retry alone get the last-fed snapshot back into a restarted
\* BIRD, although the diff of a stable state is empty (watch, pass).
Restored ==
  <>[](have /\ HopsGiven(want) => routes = Table(fed))

\* The feed's state is well formed and the health it reports is what BIRD has.
FeedInv == TypeOK /\ StatusHonest
=============================================================================
