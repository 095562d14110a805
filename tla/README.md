# sbw-limiter edge agent: TLA+ verification

The edge agent programs VPP (policers, classify sessions, interface bindings)
and BIRD (anchors, FlowSpec redirects, canary) from a desired state that a
controller streams to it. This directory holds TLA+ models of that agent, TLC
configurations that check them on small instances, and TLAPS proofs of what
matters most for every instance.

To check a run: `tlc -config SyncSafety.cfg MCDesiredSync`. To check a proof:
`tlapm DesiredSyncProofs.tla`. `PROJECT.json` lists the runs, the mutants that
show each property can fail, the source lines each definition stands for, the
findings, the hazards and the theorems.

## 1. The system

Paths are relative to the repository; `agent/` is `internal/agent/`.

| component | state | operations | talks to |
|---|---|---|---|
| stream client (`internal/grpcclient`) | one Subscribe stream, the chunk assembler | register, subscribe, dispatch, `acceptChunk`, report | controller; calls `onDesired`, `SubmitDelta` |
| desired store (`agent/desiredstore.go`) | held state, generation, content watermark, controller health | `Accept`, `Merge`, `ControllerUp/Down`, `Status` | written by the dispatch and the reconcile goroutine, read by all loops |
| delta sequencer (`agent/deltaseq.go`) | reorder buffer | `Submit`, `drain` | reconcile goroutine only |
| reconciler (`agent/reconcile.go`, `delta.go`, `classifydiff.go`) | `polIdx`, `lastGen`, empty guard, pool hash, wake slot, delta queue | `Reconcile`, `ApplyDelta`, `Reset`, `Run` | VPP calls, observers |
| VPP layer (`internal/vpp`) | connection health, reconnect slot | policer, classify, interface, stats calls | VPP binary API and stats segment |
| BIRD feed (`internal/birdfeed`) | last-fed snapshot, resync flag, connection, retry | `Run`, `apply`, `watch` | BIRD's api socket |
| include appliers (`internal/anchors`, `agent/birdapply.go`, canary in `cmd/edge-agent`) | last good content, include files | `ApplyBytes`: write, check, configure, roll back | BIRD's control socket |
| sensors (`agent/phase.go`, `vpp_liveness.go`, `probe.go`, `faultsensor.go`) | phase, heartbeat, probe counters | `Tick`, `check`, `round`, `Fault` | VPP stats, feed status, reconciler |
| health and report (`agent/health.go`, `report.go`) | last report, wake slot | `Observe`, `Build`, `Run` | controller |
| metering, metrics, sizing, config | samples, sizes, settings | periodic export, arithmetic, loading | Kafka, Prometheus, files |

Hard behaviours: directives overtake each other and are lost; the dispatch
goroutine changes the store while the reconcile goroutine works; a pass or a
delta fails between two VPP calls; VPP, BIRD and the agent restart
independently, each losing something else; a reload is carried out although its
reply is lost; two goroutines reload the one BIRD configuration; a VPP that is
busy looks like one that is dead, and the sensors that tell them apart depend on
the passes that keep it busy. What makes the parts correct: the store never
loses newer content and never steers a prefix twice; VPP ends up with the
desired policers and sessions and no member leaves its bucket on the way; only
whole snapshots are applied; BIRD's table is what the feed claims; no broken
include stays on disk; a death is told and a busy VPP is not called dead; and
what is translated for VPP, BIRD and the brokers means there what it means here.

## 2. Modules

| module | models | proofs |
|---|---|---|
| `DesiredSync` | distribution: controller chain, dispatch goroutine, store, sequencer, passes and deltas as wholes | `DesiredSyncProofs` |
| `DesiredStore` | the contents of the held state under `Accept` and `Merge` | `DesiredStoreProofs` |
| `Reconciler` | the full pass and the delta path, one step per VPP call | `ReconcilerProofs` |
| `AttestedCounts` | `Reconciler` with the counts a report attests | `ReconcilerProofs` |
| `SnapshotDelivery` | abstract: what the stream client promises about snapshots | `ServerLinkProofs` |
| `ChunkStream` | the chunk assembler; implements `SnapshotDelivery` | `ServerLinkProofs` |
| `ServerLink` | `ChunkStream` inside the client's register/subscribe loop, the fail-static flag, and the reporter with its wakes | `ServerLinkProofs` |
| `EdgeHealth` | connection, phase, heartbeat judge, forwarding probe, health and the fault in a report | `EdgeHealthProofs` |
| `BirdFeed` | the api feed and its connection watcher against BIRD | `BirdFeedProofs` |
| `IncludeApplier` | the include appliers of two goroutines against BIRD | `IncludeApplierProofs` |
| `BirdControl` | the control client: dial, deadline, reply lines, one retry | `AgentDataProofs` |
| `PolicerConfig` | a policer spec as VPP gets it, and the drift test | `AgentDataProofs` |
| `Wire` | the binary API messages in use: fields, widths, `Size`, `Marshal`, `Unmarshal` | |
| `ClassifyMask` | masks, keys, session messages, table recovery, batched lookups | |
| `Telemetry` | policer counters, samples, gauges, interfaces | |
| `TableSizing` | classify table sizes and the session budget | `AgentDataProofs` |
| `Announcements` | include rendering, feed frames and redirect communities | |
| `AgentConfig` | configuration from file and environment; what `main` starts | |

The last seven are operators over one variable, the input looked at (`Inputs`);
a run visits every input of small sets. Each `MC…` module EXTENDS its module and adds the constant functions and the
symmetry sets of the configurations.

**DesiredSync.** The controller (external) mints one linear chain of
generations; `hist[g]` is what each pool contributes at generation `g`. A pool's
contribution (policers, sessions, anchors, redirects) is abstracted to the
generation that set it, which is enough to say that something is missing, old
or surplus. Directives in flight are sets, so they arrive in any order; a
disconnect loses them. `AcceptFull` and `SubmitDelta` are the dispatch
goroutine. The reconcile goroutine has `pc`: a pass reads the held state
(`RunOnce`) and ends later (`PassOK`, `PassFail`), a delta is merged (`Submit`,
`Drain`) and ends later (`ApplyOK`, `ApplyFail`), and the dispatch goroutine
runs in between. A failed pass or delta has reached any subset of its pools.
VPP's own restarts are in `Reconciler`.

**DesiredStore.** Any controller at all: arbitrary generations, watermarks and
contents, as long as one message by itself is consistent (its pools share no
member and it steers only its own members). Anchors and redirects are counted
per prefix, because the code keeps them in slices without a pool id.

**Reconciler.** VPP is a map from policer index to name and parameters, a map
from session key to policer index, the set of tables, and the tables fed by the
interfaces. Every action is one VPP call with the agent's bookkeeping around
it. `CallFails` ends a pass or a delta anywhere. A call may also be carried out
with its reply lost, by itself or with the connection: the agent returns the
error before it writes down the index of a policer it added (`AddUnheard`, also
when the policer's bind to a worker fails) or forgets that of one it deleted
(`DeleteUnheard`); for the calls it keeps no books of, that is the call's step
followed by `CallFails`. VPP carries calls out in their order, so a call given up
is not carried out after a later one. `VppCrash`, `VppFlap`, `VppReconnect` and
`AgentRestart` are the restarts. A reconnect leaves a signal in its slot; a
timer pass or a delta may run before it is taken. A spec stands for a kbps rate
and burst. Binding is per table: the order of chain links and of interfaces
inside `reconcileBindings` is abstracted to attaching tables one at a time.

**ChunkStream.** Chunks of a snapshot are pushed in order, several snapshots
interleave, chunks may be repeated, a stream may end anywhere. What was handed
to `onDesired` is kept as the set of chunks it was made of.

**BirdFeed.** The feed's pass writes one frame per step; the frames of a loop
over a Go map come in any order within the loop. The connection is `"dead"`
between BIRD's death and its being noticed, by the watcher or by a flush that
has something to write. BIRD implements HELLO/EOR as the code's comments use
it: stale marking and pruning.

**AttestedCounts.** Adds the pair of counters to `Reconciler`: a pass anchors them
to a fresh count, a delta adjusts them call by call. After a failed call, or the
delete of a session VPP does not have (which the code counts as one less), they
are unknown until the next pass.

**ServerLink.** Two directions that share only the server. Down: `RunDirect`
registers, subscribes, and backs off; a queued delta may be merged after the
stream broke. Up: a flip of VPP's health travels through a channel, a jitter
delay, the wake slot and the storm guard until a report is sent, which may fail.

**EdgeHealth.** VPP (external) runs, is wedged or is down, and apart from that
starves its main thread while it is given work; govpp may never notice a loss. A
quick restart may leave the heartbeat's reader on the old segment. Time is the
number of checks since the heartbeat moved. The phase is computed where it is
used, from the last pass, the pass in flight and the feed.

**BirdControl.** A connection is a pipe of reply lines. A time-out closes it, so
a late reply is lost with it; the retry dials again.

**IncludeApplier.** `ApplyBytes` is in steps: skip or write, check, configure, and
after a failed command the roll-back, between which anything may happen. BIRD
checks and loads all files together, also when it starts. A state that cannot be
rendered ends the pass. Redialling and the single retry of `bird.Reconnecting`
are inside a command: a command is answered, refused, does not reach BIRD, or gets
no answer (`AnswerLost`). Reloads without an answer are `owed`: BIRD carries them
out at once, later or never, on the files of that moment (`BirdReloads`). BIRD's
restarts and late reloads are in every behaviour; with `fault = "replies"` replies
are lost and contents may be broken, with `"kills"` the agent may be killed
anywhere, also in the middle of a command. The auxiliary `loaded` and `slipped`
tell the files that BIRD loaded between their writing and their roll-back.

**AgentConfig.** `main` part by part. The clients of the server and of Kafka are made
without I/O (`grpc.NewClient`, `kgo.NewClient`): a peer out of reach does not keep
the agent, or metering, from starting (`ServerLink` has the retries), an address or
a certificate file that cannot be used does.

## 3. Runs

Passing runs:

| run | shows | bounds | states |
|---|---|---|---|
| `sync_safety` | nothing up to the held generation is missing, the applied generation only grows, cold start | 2 pools, 3 generations, current reads, 1 fault, queue 2, buffer 1 | 1,508,447 |
| `sync_heals` | Accept never takes a pool back; the installed pool set becomes the controller's | 2 generations, reads 2 behind, 2 pools per delta, queue 1 | 231,920 |
| `reconcile_safety` | a pass covers the desired state, members that do not move keep their bucket, only re-learning or a delete with a lost reply makes a cached index wrong, counts are true | 2 pools, 2 keys, 2 masks, 2 indexes, deltas of 2 pools, 2 changes, 2 faults | 1,958,917 |
| `reconcile_converges` | one mishap is healed by the next pass that succeeds; VPP comes to match and stays so | 2 specs, fixed membership, 3 changes, 1 fault | 401,246 |
| `link` | only whole snapshots, the newest one lands, `SnapshotDelivery` is implemented; the flag freezes; no wake is lost | 4 snapshots of 2, 3, 1, 2 chunks, one of another schema; 3 flips of health, 1 outage | 44,442 |
| `feed` | reported health is honest; BIRD's table becomes the last-fed one by events alone, and the desired one with the interval timer | 1 anchor with 2 attributes, 1 flow, 2 next hops, flush every 2 frames, 2 restarts, or 1 restart and 1 change | 978,075 |
| `include` | no broken include stays, a skip is justified, files and BIRD end up as desired, but for a roll-back that comes late | 3 includes, 2 goroutines, 2 changes, 2 faults | 712,272 |
| `health` | busy is not dead, a rebuild is no black hole, death, recovery and black hole are told | grace of 2 checks, 2 failing rounds, 1 fault of each behaviour, one of the two sensors at a time | 117,802 |
| `data` | the store's consistency; the control client's calls; all pure translations | 2 pools, 2 prefixes; 3 calls; see `Data.cfg` | 114,712 |

Two pools are enough for a delta of one to disturb the other and for an index to
be freed by one and reused by the other; three generations for a gap, a delta
ahead and a delta behind; a queue of 2 and a buffer of 1 for both to overflow;
two indexes make VPP reuse a freed index at once, which is the worst case. Two
faults let a restart hit the recovery from the first. In `health` the two optional
sensors are looked at one at a time, as they share no state but the fault they
end up in. In `data` the widths are scaled down (a 6-bit CIR, chunks of 2 keys,
4-byte names, words of 6 bits) so that each cap, cut and wrap is reached by small
numbers. Symmetry over pools and
prefixes is used in runs without fairness only.

A run's invariant may be the conjunction of a module's named parts (`CountInv`,
`LinkInv`, `FeedInv`, `IncludeInv`, `HealthInv`, `OneAnswer`, `PolicerExact`,
`FoundAgain`, `ReadsTrue`, `TablesFit`, `SaysTheSame`, `StartsAsConfigured`); the
comments of the parts say what each is about, and each part has a mutant. The type
invariants of `DesiredSync` and `DesiredStore` are proved and not checked again.

`ImplementsDelivery` is the refinement: `ChunkStream`'s open stream, the snapshots
completed on it and the one handed on are `SnapshotDelivery`'s `open`, `pushed` and
`held`; every step of `ServerLink` is one of its steps or a stutter.

Some properties hold for a reason worth knowing, and stop holding beyond it:

- `NothingMissed` needs snapshots rendered from current reads. With lagging reads
  a held state may lack a change of its own generation until the resync.
- `KeepsUnmoved` is about members that the delta at work does not take from one
  pool to another; `reconcile_delta_move` shows what happens to those.
- `CountsTrue` is about counts without a failed call since the anchoring pass.
- `PassHeals` and `Converges` are about at most one mishap and fixed membership: a
  failed call, a lost reply, a restart, a flap, or a delta that is taken ahead of a
  waiting reconnect signal. With a second one, or moving members, a re-learned
  index can be wrong (`reconcile_relearn`), and then VPP does not converge by itself.
- `WrongHasCause` is what holds of the index cache for any number of faults: an index
  goes wrong by being re-learned, or because the reply of the policer's own delete is
  lost, as the error is returned before the cache entry is dropped (`delta.go:171`,
  `reconcile.go:763`). The entry stays, VPP gives the index to the next policer it
  adds, and until a full pass adds the pool again or a reconnect empties the cache, a
  delta that brings the pool back updates that other policer. `PassHeals` covers this
  as one mishap. The property excludes the time a
  reconnect signal waits in its slot: a queued delta or a timer pass that the
  select takes first still has the indexes of the old VPP.
- `BusyIsNotDead` needs passes that do not fail: after a failed one the phase is
  Degraded, which `ComputePhase` puts before busy, so the gate is open during the
  next pass and a starved VPP may be judged dead.
- `RecoveryTold` needs a feed that recovers: the busy gate of `check` returns before
  the stale reader would be rebuilt. `BlackHoleTold` needs the connection to stay: a
  reconnect disarms the probe, which is then not armed while the path is broken.
- `NoLostWake` allows a turn of the reporter that delivered nothing (no health
  observed yet, or a failed send) to use up its wake; the ticker makes up for it.
- `BudgetFits` ends where the heap is clamped at 0xE0000000 bytes: beyond that the
  budget reported exceeds it (`classifysizing.go:75` says they "never disagree").
- `KbpsDriftExact` is about kbps policers; for pps see `policer_pps`. A change of the
  actions or of the rate type alone is no drift for the code.
- `NoBrokenLeft` is checked with lost replies and without kills: an agent killed
  between renaming an include into place and checking it leaves the unchecked
  file.
- `SkippedIsActive` and `Settles` leave out the `slipped` files: when a command fails
  (BIRD is down, or the reply is lost) and BIRD starts or reloads before the old file
  is back, BIRD runs the new content; `lastGood` and the disk have the old one, so that
  an apply of the old one is skipped, until any other reload or restart of BIRD loads
  the files again. `Settles` still has the files
  themselves as desired. It says nothing of contents that are not accepted: a broken
  FlowSpec include makes every check fail, the canary's included, until it is rolled
  back.

Three runs are expected to find a violation: each states what a comment says and
shows that the code does otherwise. `PROJECT.json` quotes the lines.

| run | what happens |
|---|---|
| `reconcile_relearn` | after an agent restart and a change of membership, an index is re-learned from a session that hits the policer of the member's former pool |
| `reconcile_delta_move` | a member moved within one delta loses its session |
| `policer_pps` | a pps policer in sync is taken for drifted, so every pass updates it and reports drift repaired |

Further places where the models, like the code, do less than a comment says.
They have no run of their own; the actions named show them.

- A queued delta is folded onto a newer snapshot that was accepted but not passed
  yet: `Submit` compares with the applied generation, `Merge` works on the held
  one (`agent/deltaseq.go:72`; `reconcile.go:159` says a delta must not be
  applied onto a divergent base). `NothingMissed` holds in spite of it.
- A buffered delta whose predecessor lands as a snapshot waits for another delta,
  as only `ApplyOK` and `ApplyFail` drain (`deltaseq.go:96`; lines 26-28 say "the
  instant its predecessor lands").
- A dropped delta that changes a pool without changing the pool set leaves the
  reported hash as it is, so that no resync comes (`reconcile.go:252`; lines
  245-247 promise one). This is why `PoolSetHeals` is about the pool set only.
- Pools installed by deltas only are not protected by the empty guard, since
  `Adopt` leaves `appliedNonEmpty` alone (`delta.go:117`).
- A delta merged after the stream broke marks the controller reachable
  (`desiredstore.go:183`), until the next failed `Register` (`FrozenInTheEnd`).
- A wake within a second of the last report is deferred, not dropped as
  `agent/report.go:225` says.
- The canary is advertised before the endpoint is looked at: an agent that exits
  for want of one leaves it advertised (`main.go:339`).
- A report or metering interval of zero or less passes `Validate` and panics in
  `NewTicker` (`report.go:239`, `metering.go:111`).
- The feed's timer advertises the held state also when VPP does not have its last
  delta yet (`birdfeed/feed.go:136`; `main.go:525-527` wants it so).
- The compatibility check does not name the dumps (`vpp/messages.go:17`).
- A delta's new classify table is attached by the next full pass only, while BIRD
  is woken at once (`UpsertTable`; `delta.go:266`).
- The assembler forgets the epoch with a completed snapshot, so an older one that
  comes late is assembled too (`grpcclient/client.go:299`); `Accept` refuses its
  generation.
- BIRD runs content that the agent has rolled back: it was started, or carried out a
  reload whose reply was lost, between the failed command and the roll-back, or the
  other goroutine's reload activated the file (`BirdStarts`, `BirdReloads`, `Configure`
  before `Rollback`; `anchors/reload.go:149` and `159`). Lines 110-111 say that "disk
  always matches BIRD's active configuration", 209-210 that BIRD "is still running the
  old config".

### Fairness

- `DesiredSync`: weak fairness of the controller's sweep and of the stream (both
  are periodic or retried), of delivery, of the interval timer and of VPP calls
  returning (reply timeout). Strong fairness of taking a wake and a queued
  delta: they are only enabled between passes, and Go's select picks among ready
  cases at random.
- `Reconciler`: weak fairness of timer passes on the state held, of each next
  call, of a refused call's return, and of govpp's reconnect; strong fairness of
  taking the reconnect signal. Faults are never fair and bounded.
- `BirdFeed`: weak fairness of the retry timer, the watcher, the writes and BIRD
  (`PromptSpec`); that of the interval timer is a premise of `Delivered` and not
  of `Restored`.
- `IncludeApplier`: weak fairness of both loops, strong fairness of BIRD's
  restart by its supervisor, which is not possible while a broken file is on
  disk and is tried again and again.
- `ServerLink`: weak fairness of the calls of `RunDirect`, of its backoff timer, of
  the merge of a queued delta, and of the breaking of a stream whose server is gone.
  The server's return is not assumed.
- `EdgeHealth`: weak fairness of passes (each call has a reply timeout), of the
  sensors' tickers, of the report's ticker, and of govpp's reconnect to a VPP that
  runs and fits; strong fairness of a sensor's check outside a pass, since the timers
  are independent. That govpp notices a loss, that VPP is restarted and that the
  feed recovers are not assumed.
- `BirdControl`: weak fairness of the client's steps and of the deadline; none of
  BIRD.

## 4. Proofs

All theorems hold for every value of the constants, the bounds on changes and
faults included, that satisfies the named assumptions of the modules. These say
that bounds are natural numbers, that a "none" value is none of the values, and
that the constant functions have their types; beyond that, `CountAssumption` has
finitely many keys and policer indexes, so that they can be counted, `OwnFiles`
gives each include file to one goroutine, as `main` does (anchors and FlowSpec
to the BIRD loop, the canary to its own), and `SizingAssumption` leaves the smallest
heap room for the smallest capacity (3000 entries of 128 bytes and half as much
again, in 16 MiB: `classifysizing.go:39` and `42`). That a power of two is positive is assumed
too, in `SizingAssumption` and `PolicerAssumption`: the provers do not know it.

Every safety theorem has the same shape: an inductive invariant that the initial
states satisfy, that each action preserves (one lemma per action or group of
actions), and that implies the property. The action properties follow from the same
invariant. The invariants of `ReconcilerProofs`, `IncludeApplierProofs`,
`EdgeHealthProofs`, `BirdFeedProofs` and `AgentDataProofs` were first checked with TLC on the bounds of
the runs.

- `DesiredStoreProofs`: `TypeCorrect`, `SteersOnce`, `SteersOnlyClassified`,
  `ClassifiesOnlyPoliced`. The inductive invariant `StoreInv` joins the type
  invariant with the three properties. Steering once is not inductive through
  `Merge` by itself: what an upsert appends was removed before, since
  `TouchedPrefixes` covers it, and one message steers a prefix at most once
  because its pools share no member (a lemma on the cardinality of the counting
  sets). Classification is kept because a dropped session's prefix is among the
  touched ones.
- `DesiredSyncProofs`: `TypeCorrect`, `AppliedForward`, `AcceptForward`,
  `ColdStart`, and `MissesNothing` under `MaxStale = 0`. `SyncInv` adds to the
  types: the chain's history is monotone and each version is at most its
  generation (`HistInv`); every directive in flight, queued, buffered or being
  applied is one the controller minted (`FlightInv`); what a pass or delta works
  on is not older than what is applied (`GenInv`); and the content watermark
  bounds what is held (`MarkInv`). `AppliedForward` needs `GenInv`, as the held
  generation itself can go back; `AcceptForward` needs `MarkInv`.
- `ServerLinkProofs`, on the stream: `OnlyWholeSnapshots` and `NewestAlwaysLands`. `ChunkInv`
  says that the buffer holds chunks of one epoch only (`OneEpoch`) and that all
  chunks received so far of the newest snapshot are in it until it lands
  (`NewestBuffered`).
  The step simulation of `ChunkingIsInvisible` shows that `ChunkStream` implements
  `SnapshotDelivery`: a last chunk is a `Push`, every other chunk a stutter. It needs
  `ChunkInv` to know that what is handed on is that whole snapshot.
- `ServerLinkProofs`, on the link: `WakesAreNotLost` and `LinkDelivers`. Every step of the link
  is a step of `ChunkStream` or leaves its variables alone, so the stream's
  theorems carry over to the link. `NoLostWake` is not inductive: a flip during a
  send makes the report in flight false. `ReportFollowed` adds that such a report
  has a wake behind it.
- `ReconcilerProofs`: `PassesCover`, `WrongIndexHasCause`, `UnmovedStayPoliced`,
  `OneMishapIsHealed`, `CountsAreTrue`, and `CountingChangesNothing`, which takes the
  first four to the specification with counters. They rest on lemmas on what an add, an update
  by index and a delete by name do to VPP's slots and to a dump of them.
  `ReconcilerInv` says: VPP has one slot per name and no session without its table
  (`VppSound`); the session phase starts with all policers done and all indexes
  known (`PhasesInOrder`); in a pass the dump taken at its start is still true of the
  names still to do, and the names done are there exactly if
  desired (`PassSound`); a delta upserts pools the held state has and removes pools
  it no longer has (`DeltaSound`). `PassSound` has a
  conditional part, on rates, since an update by a wrong index changes another pool.
  `CountsFollow` carries the counts through a delta, where `CountsTrue` says nothing;
  its proof is about the cardinality of a set with one element more or less.
  `OneMishapIsHealed` rests on `HealInv`, which says what one mishap can leave
  behind. Before it (`Unharmed`) the index cache is exact, every session hits the
  policer of its pool, and a policer that is gone has no session left. After it
  (`HarmedOnce`) the cache may have lost indexes but has no wrong one, and a policer
  whose index it lost is hit by its own members only, so that re-learning is right;
  while VPP is away or the signal waits this holds of every policer, so that `Reset`
  may forget them all. A pass that succeeds then knows the index of every pool
  (`DoneIsKnown`), and so its sessions are the right ones.
- `IncludeApplierProofs`: `AppliersAreSafe`. `NoBrokenLeft` is about states at rest;
  `BrokenIsWritten` says of all states that a broken file is one its goroutine has
  just written and whose previous content is not broken. `SkippedIsActive` needs
  that a file at its last good content is what BIRD runs unless it is being written
  (`AppliedIsActive`); for a roll-back to keep this, the content it restores must be
  what BIRD still runs, until BIRD loads the new file (`PrevIsActive`). Both leave out
  the slipped files. That the loops are finitely many is assumed, as the reloads that
  a killed agent leaves behind are counted.
- `EdgeHealthProofs`: `BusyIsNeverDead` and `RebuildNeverBlackHole`. `OnlyBusy` says
  that without trouble a starved VPP is always one the phase calls busy, and
  the heartbeat's reader is on its segment; `ArmedOnFed` that an armed probe was
  armed by the VPP it looks at, or has no gauge to read.
- `BirdFeedProofs`: `HealthIsHonest`. The invariant is about where the frames in the
  socket lead. A fold over them would need induction, so `FeedSound` says that
  there is a trail: a sequence of views of BIRD, one more than frames, each the
  effect of one frame on the one before. Reading a frame drops the head of the trail,
  writing one extends its end. The end of the trail is what a pass makes true step by step:
  for a full resync (`FullSoFar`) through stale marking and pruning, for a diff
  (`DiffSoFar`) key by key, so that a flush at any place may be the last.
- `AgentDataProofs`: `CallsAreAnsweredOnce`, `PolicersAreExact` and `TablesAlwaysFit`.
  `OneAnswer` needs `BirdInv`: the unread lines are the rest of one reply to this
  call (`PipeIsOneReply`); BIRD can answer at most the last command it was told,
  and only to a call that waits for it (`OneLive`); and what was carried out of a call
  plus what still may be was written by one of its attempts (`RunsAreWritten`), the
  commands of connections that are gone included. The other two are arithmetic:
  rounding and cutting are bounded by the facts of division, a minimum over the limits
  by cases, and the size of the heap by the capacity it was computed from.

Preparing these proofs changed two properties.

- That a cached index is always right in a settled state had passed its run only
  because of the run's single fault; with two faults TLC refutes it, by the same
  re-learning that `reconcile_relearn` shows, or with one, by a delete whose reply is
  lost. `WrongHasCause` replaced it, and the properties that need one fault say so.
- That a settled pass after one fault matches had passed its run only because of the
  run's two changes; with a third TLC refutes it. A flap cuts off a pass that
  has deleted an orphan and not yet its session; a delta that is taken before the
  waiting reconnect signal adds the pool again, at another index, without the
  member of that session; the reconnect pass then forgets the indexes and
  re-learns the stale one. `PassHeals` replaced it: a delta ahead of the
  signal is a mishap of its own, and the property is about any pass, with the cache
  of the old VPP too.

Only model-checked:

- the liveness properties (`PoolSetHeals`, `Converges`, `Delivered`, `Restored`,
  `Settles`, `FrozenInTheEnd`, `DeathTold`, `RecoveryTold`, `BlackHoleTold`,
  `CallReturns`): fairness and ENABLED are out of the prover's reach;
- the other translations (`FoundAgain`, `HitsItsMember`, `HitsInOrder`, `ReadsTrue`,
  `SaysTheSame`, `StartsAsConfigured`, `SurvivesTheWire`): they fold, sort, select from
  and flatten sequences, and induction over data is out of the prover's reach, as is
  the bitwise conjunction by which VPP masks a key.

## 5. Not modelled

Metrics (pure export), logging, signals and shutdown. Of the generated bindings the
messages the agent never sends (lcp, ip_neighbor, memclnt, most of interface), names
and CRCs. The Kafka client's options and retries. Calls nothing in the agent makes
(`ReadInterfaceStats`, `ReadErrorStats`, `LinkTable`, `DeleteTable`, the show commands
of the BIRD client). Failing disk writes and the timed undo of `anchors.Applier`,
which the agent never enables. Backoff delays. The text of includes, as opposed to
what it says. The generation, version and hash a report carries (a failed pass
reports the desired generation as applied, `agent/health.go:33`). The links of the
table chain. Metering reads counters before indexes, so an index reused in between
attributes one sample to the wrong pool; `Telemetry` reads both at once.

## 6. Plan

1. Proofs: the layout of tables and masks in `ClassifyMask`, apart from its bitwise
   operators and its batches.
2. The report's generation and hash against what VPP has; a composition of
   `DesiredSync` with `BirdFeed` on what is advertised before VPP has it.
