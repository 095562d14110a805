----------------------------- MODULE ServerLink -----------------------------
(***************************************************************************)
(* The agent's link to its server: the RunDirect loop that registers and   *)
(* holds the stream of ChunkStream open, the fail-static flag it keeps in  *)
(* the desired store, and the uplink: health transitions that wake the     *)
(* Reporter, and its storm guard.                                          *)
(*                                                                         *)
(* Timers that end in the same call are one flag: they only wake, and      *)
(* wakes coalesce.                                                         *)
(***************************************************************************)
EXTENDS ChunkStream

CONSTANTS
  MaxFlips,    \* bound: transitions of VPP's health
  MaxOutages   \* bound: outages of the server

ASSUME LinkAssumption == MaxFlips \in Nat /\ MaxOutages \in Nat

VARIABLES
  server,      \* the server answers (external)
  pc,          \* RunDirect: "register", "subscribe", "stream" or "backoff"
  reached,     \* DesiredStore.healthy
  haveState,
  queued,      \* a delta waits for the reconcile goroutine
  \* what a report is about
  up,          \* Conn.Healthy
  dead,        \* VppLiveness.Dead
  observed,    \* HealthChecker.Last is ok: a pass has ended
  \* the ways of a wake
  healthNotify, jitter,   \* the connection's signal, and its goroutine's delay
  liveTimer,              \* AfterFunc of OnTransition
  wake, guardTimer,       \* Reporter.wake, and the AfterFunc of the storm guard
  \* the Reporter
  report,      \* the report being sent, or None
  recent,      \* lastSend is less than wakeMinInterval ago
  told,        \* what the last delivered report said
  spent,       \* since then a turn of the Reporter delivered nothing
  flips, outages,
  traffic      \* "down" or "up", see LinkNext

runVars    == <<server, pc, reached, haveState, queued, outages>>
wakeVars   == <<healthNotify, jitter, liveTimer, wake, guardTimer>>
healthVars == <<up, dead, observed, flips>>
sendVars   == <<report, recent, told, spent>>
linkVars   == <<traffic, vars, runVars, healthVars, wakeVars, sendVars>>

None == "none"
Verdicts == {"gone", "fine"}

LinkTypeOK ==
  /\ TypeOK
  /\ {server, reached, haveState, queued} \subseteq BOOLEAN
  /\ pc \in {"register", "subscribe", "stream", "backoff"}
  /\ {up, dead, observed} \subseteq BOOLEAN
  /\ {healthNotify, jitter, liveTimer, wake, guardTimer} \subseteq BOOLEAN
  /\ report \in Verdicts \cup {None}
  /\ told \in Verdicts \cup {None}
  /\ {recent, spent} \subseteq BOOLEAN
  /\ flips \in 0 .. MaxFlips
  /\ outages \in 0 .. MaxOutages
  /\ traffic \in {"down", "up"}

LinkInit ==
  /\ Init
  /\ server = TRUE
  /\ pc = "register"
  /\ reached = FALSE
  /\ haveState = FALSE
  /\ queued = FALSE
  /\ up = TRUE
  /\ dead = FALSE
  /\ observed = FALSE
  /\ healthNotify = TRUE
  /\ jitter = FALSE
  /\ liveTimer = FALSE
  /\ wake = FALSE
  /\ guardTimer = FALSE
  /\ report = None
  /\ recent = FALSE
  /\ told = None
  /\ spent = TRUE
  /\ flips = 0
  /\ outages = 0
  /\ traffic \in {"down", "up"}

-----------------------------------------------------------------------------
(***************************************************************************)
(* The downlink.                                                           *)
(***************************************************************************)

\* The server goes away and comes back (external).
ServerFlips ==
  /\ server' = ~server
  /\ outages' = IF server THEN outages + 1 ELSE outages
  /\ outages' <= MaxOutages
  /\ UNCHANGED <<traffic, vars, pc, reached, haveState, queued, healthVars, wakeVars, sendVars>>

\* Mutant: a server that cannot be registered with is not noted.
RegisterSilently(ok) ==
  /\ pc = "register"
  /\ ok => server
  /\ reached' = (reached \/ ok)
  /\ pc' = IF ok THEN "subscribe" ELSE "backoff"
  /\ UNCHANGED <<traffic, vars, server, haveState, queued, outages, healthVars, wakeVars, sendVars>>

\* Register fails, is refused for its schema version, or is accepted; the hooks
\* are ControllerDown and ControllerUp.
Register(ok) ==
  /\ pc = "register"
  /\ ok => server
  /\ reached' = ok
  /\ pc' = IF ok THEN "subscribe" ELSE "backoff"
  /\ UNCHANGED <<traffic, vars, server, haveState, queued, outages, healthVars, wakeVars, sendVars>>

\* subscribeOnce: the stream opens, or cannot be opened.
SubscribeOnce(ok) ==
  /\ pc = "subscribe"
  /\ IF ok
     THEN /\ server
          /\ Subscribe
          /\ pc' = "stream"
          /\ UNCHANGED reached
     ELSE /\ pc' = "backoff"
          /\ reached' = FALSE
          /\ UNCHANGED vars
  /\ UNCHANGED <<traffic, server, haveState, queued, outages, healthVars, wakeVars, sendVars>>

\* A chunk is dispatched; a state handed to onDesired is accepted by the store,
\* or refused as older, which touches nothing.
Dispatch(e, i, accepted) ==
  /\ server
  /\ pc = "stream"
  /\ Recv(e, i)
  /\ reached' = (reached \/ (accepted /\ landed' # landed))
  /\ haveState' = (haveState \/ (accepted /\ landed' # landed))
  /\ UNCHANGED <<traffic, server, pc, queued, outages, healthVars, wakeVars, sendVars>>

\* A delta is dispatched and waits; one that cannot be read is dropped, as is a
\* directive of another kind.
DispatchDelta ==
  /\ server
  /\ pc = "stream"
  /\ ~queued
  /\ queued' = TRUE
  /\ UNCHANGED <<traffic, vars, server, pc, reached, haveState, outages, healthVars, wakeVars, sendVars>>

\* The reconcile goroutine takes it: Merge takes any held state for contact.
MergeQueued ==
  /\ queued
  /\ queued' = FALSE
  /\ reached' = (reached \/ haveState)
  /\ UNCHANGED <<traffic, vars, server, pc, haveState, outages, healthVars, wakeVars, sendVars>>

\* Recv returns an error.
StreamBreaks ==
  /\ pc = "stream"
  /\ StreamEnds
  /\ pc' = "backoff"
  /\ reached' = FALSE
  /\ UNCHANGED <<traffic, server, haveState, queued, outages, healthVars, wakeVars, sendVars>>

BackoffOver ==
  /\ pc = "backoff"
  /\ pc' = "register"
  /\ UNCHANGED <<traffic, vars, server, reached, haveState, queued, outages, healthVars,
                 wakeVars, sendVars>>

-----------------------------------------------------------------------------
(***************************************************************************)
(* The uplink.                                                             *)
(***************************************************************************)

\* The fault Build types into a report, as far as a wake is about it.
Truth == IF ~up \/ dead THEN "gone" ELSE "fine"

\* setHealthy, on a transition.
ConnFlips ==
  /\ flips < MaxFlips
  /\ flips' = flips + 1
  /\ up' = ~up
  /\ healthNotify' = TRUE
  /\ UNCHANGED <<traffic, vars, runVars, dead, observed, jitter, liveTimer, wake, guardTimer,
                 sendVars>>

\* VppLiveness.set, on a transition: OnTransition schedules a wake.
LiveFlips ==
  /\ flips < MaxFlips
  /\ flips' = flips + 1
  /\ dead' = ~dead
  /\ liveTimer' = TRUE
  /\ UNCHANGED <<traffic, vars, runVars, up, observed, healthNotify, jitter, wake, guardTimer,
                 sendVars>>

\* runHealthTransitionReports takes the signal, and waits out its delay.
TakeTransition ==
  /\ healthNotify
  /\ ~jitter
  /\ healthNotify' = FALSE
  /\ jitter' = TRUE
  /\ UNCHANGED <<traffic, vars, runVars, healthVars, liveTimer, wake, guardTimer, sendVars>>

\* Wake, from the three timers.
JitterOver ==
  /\ jitter
  /\ jitter' = FALSE
  /\ wake' = TRUE
  /\ UNCHANGED <<traffic, vars, runVars, healthVars, healthNotify, liveTimer, guardTimer, sendVars>>

LiveTimerFires ==
  /\ liveTimer
  /\ liveTimer' = FALSE
  /\ wake' = TRUE
  /\ UNCHANGED <<traffic, vars, runVars, healthVars, healthNotify, jitter, guardTimer, sendVars>>

GuardTimerFires ==
  /\ guardTimer
  /\ guardTimer' = FALSE
  /\ wake' = TRUE
  /\ UNCHANGED <<traffic, vars, runVars, healthVars, healthNotify, jitter, liveTimer, sendVars>>

\* A pass has ended: there is something to report.
Observe ==
  /\ ~observed
  /\ observed' = TRUE
  /\ UNCHANGED <<traffic, vars, runVars, up, dead, flips, wakeVars, sendVars>>

\* send, up to the call: without an observation there is no report.
Build ==
  IF observed
  THEN report' = Truth /\ UNCHANGED <<recent, told, spent>>
  ELSE spent' = TRUE /\ UNCHANGED <<report, recent, told>>

\* The ticker.
Tick ==
  /\ report = None
  /\ Build
  /\ UNCHANGED <<traffic, vars, runVars, healthVars, wakeVars>>

\* Mutant: the wake is dropped.
GuardDrops == UNCHANGED guardTimer

\* The storm guard: a wake within wakeMinInterval of the last send is deferred.
Guard == guardTimer' = TRUE

TakeWake ==
  /\ report = None
  /\ wake
  /\ wake' = FALSE
  /\ IF recent
     THEN Guard /\ UNCHANGED sendVars
     ELSE Build /\ UNCHANGED guardTimer
  /\ UNCHANGED <<traffic, vars, runVars, healthVars, healthNotify, jitter, liveTimer>>

\* SendReport returns; a send that failed counts for the storm guard too.
SendReport(ok) ==
  /\ report # None
  /\ ok => server
  /\ report' = None
  /\ recent' = TRUE
  /\ told' = IF ok THEN report ELSE told
  /\ spent' = ~ok
  /\ UNCHANGED <<traffic, vars, runVars, healthVars, wakeVars>>

MinIntervalOver ==
  /\ recent
  /\ recent' = FALSE
  /\ UNCHANGED <<traffic, vars, runVars, healthVars, wakeVars, report, told, spent>>

-----------------------------------------------------------------------------

DownNext ==
  \/ \E ok \in BOOLEAN : Register(ok) \/ SubscribeOnce(ok)
  \/ \E e \in Epochs, acc \in BOOLEAN :
       \E i \in 0 .. Size[e] - 1 : Dispatch(e, i, acc)
  \/ DispatchDelta
  \/ MergeQueued
  \/ StreamBreaks
  \/ BackoffOver

UpNext ==
  \/ ConnFlips
  \/ LiveFlips
  \/ TakeTransition
  \/ JitterOver
  \/ LiveTimerFires
  \/ GuardTimerFires
  \/ Observe
  \/ Tick
  \/ TakeWake
  \/ \E ok \in BOOLEAN : SendReport(ok)
  \/ MinIntervalOver

\* The two directions share nothing but the server: every behaviour of both is
\* one of each, and one of them is enough at a time.
LinkNext ==
  \/ ServerFlips
  \/ traffic = "down" /\ DownNext
  \/ traffic = "up" /\ UpNext

LinkSpec == LinkInit /\ [][LinkNext]_linkVars

\* Calls return and timers fire; a stream whose server is gone breaks (gRPC).
LinkFairSpec ==
  /\ LinkSpec
  /\ WF_linkVars(traffic = "down" /\ \E ok \in BOOLEAN : Register(ok))
  /\ WF_linkVars(traffic = "down" /\ \E ok \in BOOLEAN : SubscribeOnce(ok))
  /\ WF_linkVars(traffic = "down" /\ ~server /\ StreamBreaks)
  /\ WF_linkVars(traffic = "down" /\ BackoffOver)
  /\ WF_linkVars(traffic = "down" /\ MergeQueued)

-----------------------------------------------------------------------------

\* A wake is under way: in a channel, a timer or a report being sent.
WakeUnderWay ==
  healthNotify \/ jitter \/ liveTimer \/ wake \/ guardTimer \/ report # None

\* A change of VPP's health is never left to the ticker: while the server was told
\* otherwise a wake is under way, unless the Reporter's last turn came to nothing.
\* In particular the storm guard of Run loses no wake, though the comment on Wake
\* says that it drops them.
NoLostWake ==
  told # Truth => spent \/ WakeUnderWay

\* A server that stays away is in the end seen as away, although a delta still in
\* the queue when the stream broke marks it reachable again (Merge): every failed
\* Register marks it down (RunDirect).
FrozenInTheEnd ==
  <>[](~server /\ traffic = "down") => <>[](~reached)

\* The link's state is well formed and no wake of the Reporter is lost.
LinkInv == LinkTypeOK /\ NoLostWake
=============================================================================
