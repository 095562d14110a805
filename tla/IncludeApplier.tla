--------------------------- MODULE IncludeApplier ---------------------------
(***************************************************************************)
(* The include files of BIRD's configuration (anchors.Applier), applied by *)
(* two goroutines: the loop of BirdApplier applies the anchors and then    *)
(* the FlowSpec include, the canary observer applies the canary include.   *)
(* Each writes its file, has BIRD check the configuration, reloads it, and *)
(* when either has failed puts the old file back, a step later.            *)
(*                                                                         *)
(* BIRD (external) checks and loads ALL files at once, refuses a           *)
(* configuration with a broken one, and reads the files when it starts.    *)
(* A reload whose reply is lost may be carried out at once, later or never.*)
(* The redial and the single retry of bird.Reconnecting are part of a      *)
(* command.  The timed undo window, which the agent never enables, and a   *)
(* disk that fails are left out.                                           *)
(***************************************************************************)
EXTENDS Integers, Sequences, FiniteSets

CONSTANTS
  Loops,       \* the goroutines that apply includes
  Includes,    \* the includes each one applies, in order
  Contents,    \* rendered contents
  Broken,      \* contents BIRD refuses
  Renders,     \* what may be rendered for each include; None: Render fails
  Empty,       \* the content of a new file
  None,
  MaxChanges,  \* bound: changes of the desired contents
  MaxFaults    \* bound: lost replies, restarts

Own(l) == {Includes[l][i] : i \in 1 .. Len(Includes[l])}
Files == UNION {Own(l) : l \in Loops}

ASSUME ApplierAssumption ==
  /\ IsFiniteSet(Loops)
  /\ \A l \in Loops : Len(Includes[l]) \in Nat \ {0}
  /\ Broken \subseteq Contents
  /\ Renders \in [Files -> SUBSET (Contents \cup {None})]
  /\ Empty \in Contents \ Broken
  /\ None \notin Contents
  /\ MaxChanges \in Nat
  /\ MaxFaults \in Nat

\* The goroutines are configured with files of their own (BirdAnchorsInclude and
\* BirdFlowspecInclude of the one, CanaryInclude of the other).
ASSUME OwnFiles ==
  \A l, m \in Loops :
    \A i \in 1 .. Len(Includes[l]), j \in 1 .. Len(Includes[m]) :
      Includes[l][i] = Includes[m][j] => l = m

VARIABLES
  fault,       \* what may go wrong besides BIRD's restarts: "replies" (replies
               \* are lost, and contents may be broken) or "kills" (of the agent,
               \* anywhere)
  desired,     \* what each include should be
  disk,        \* what each include is
  birdUp,
  active,      \* the configuration BIRD runs
  owed,        \* reloads sent to BIRD that it may still carry out, unanswered
  lastGood,    \* Applier.lastGood of each include
  at,          \* at[l]: the include loop l is applying; 0 when idle
  stage,       \* "begin", "check", "configure", or "rollback" when one has failed
  cur,         \* the contents read at the start of the pass
  prev,        \* what the file was before this apply
  changes, faults,
  \* auxiliary, read by the properties only
  loaded,      \* the loops whose new file BIRD has loaded before they are told so
  slipped      \* the files rolled back after that, until BIRD loads the files again

loopVars == <<at, stage, cur, prev>>
auxVars == <<loaded, slipped>>
vars == <<fault, desired, disk, birdUp, active, owed, lastGood, loopVars, changes,
          faults, auxVars>>

Initial == [f \in Files |-> Empty]

TypeOK ==
  /\ fault \in {"replies", "kills"}
  /\ desired \in [Files -> Contents \cup {None}]
  /\ disk \in [Files -> Contents]
  /\ birdUp \in BOOLEAN
  /\ active \in [Files -> Contents]
  /\ owed \in Nat
  /\ lastGood \in [Files -> Contents \cup {None}]
  /\ at \in [Loops -> Nat]
  /\ \A l \in Loops : at[l] <= Len(Includes[l])
  /\ stage \in [Loops -> {"begin", "check", "configure", "rollback"}]
  /\ cur \in [Loops -> [Files -> Contents \cup {None}]]
  /\ prev \in [Loops -> Contents]
  /\ changes \in 0 .. MaxChanges
  /\ faults \in 0 .. MaxFaults
  /\ loaded \subseteq Loops
  /\ slipped \subseteq Files

\* After EnsureFile; BIRD runs with the files.
Init ==
  /\ fault \in {"replies", "kills"}
  /\ desired = Initial
  /\ disk = Initial
  /\ birdUp = TRUE
  /\ active = Initial
  /\ owed = 0
  /\ lastGood = [f \in Files |-> None]
  /\ at = [l \in Loops |-> 0]
  /\ stage = [l \in Loops |-> "begin"]
  /\ cur = [l \in Loops |-> Initial]
  /\ prev = [l \in Loops |-> Empty]
  /\ changes = 0
  /\ faults = 0
  /\ loaded = {}
  /\ slipped = {}

-----------------------------------------------------------------------------

File(l) == Includes[l][at[l]]
Content(l) == cur[l][File(l)]
AllGood == \A f \in Files : disk[f] \notin Broken

\* Run, or the canary observer: a pass on the current contents.
StartPass(l) ==
  /\ at[l] = 0
  /\ at' = [at EXCEPT ![l] = 1]
  /\ stage' = [stage EXCEPT ![l] = "begin"]
  /\ cur' = [cur EXCEPT ![l] = [f \in Files |-> IF f \in Own(l) THEN desired[f] ELSE Empty]]
  /\ UNCHANGED <<fault, desired, disk, birdUp, active, owed, lastGood, prev, changes,
                 faults, auxVars>>

\* Mutant: only the file on disk is looked at.
AppliedByDisk(l) == disk[File(l)] = Content(l)

\* The content was applied already.
Applied(l) == lastGood[File(l)] = Content(l) /\ disk[File(l)] = Content(l)

\* Mutant: the pass does not end after its last include.
AdvancePast(l) ==
  /\ at' = [at EXCEPT ![l] = at[l] + 1]
  /\ stage' = [stage EXCEPT ![l] = "begin"]

\* On to the next include of the pass.
Advance(l) ==
  /\ at' = [at EXCEPT ![l] = IF at[l] = Len(Includes[l]) THEN 0 ELSE at[l] + 1]
  /\ stage' = [stage EXCEPT ![l] = "begin"]

Skip(l) ==
  /\ at[l] # 0
  /\ stage[l] = "begin"
  /\ Applied(l)
  /\ Advance(l)
  /\ UNCHANGED <<fault, desired, disk, birdUp, active, owed, lastGood, cur, prev,
                 changes, faults, auxVars>>

\* A failed pass ends at once.
Abort(l) ==
  /\ at' = [at EXCEPT ![l] = 0]
  /\ stage' = [stage EXCEPT ![l] = "begin"]

\* The state cannot be rendered (a flow without a next hop): the include and
\* the ones after it are left alone.
RenderFails(l) ==
  /\ at[l] # 0
  /\ stage[l] = "begin"
  /\ Content(l) = None
  /\ Abort(l)
  /\ UNCHANGED <<fault, desired, disk, birdUp, active, owed, lastGood, cur, prev,
                 changes, faults, auxVars>>

\* atomicWrite.
WriteFile(l) ==
  /\ at[l] # 0
  /\ stage[l] = "begin"
  /\ Content(l) # None
  /\ ~Applied(l)
  /\ prev' = [prev EXCEPT ![l] = disk[File(l)]]
  /\ disk' = [disk EXCEPT ![File(l)] = Content(l)]
  /\ stage' = [stage EXCEPT ![l] = "check"]
  /\ UNCHANGED <<fault, desired, birdUp, active, owed, lastGood, at, cur, changes,
                 faults, auxVars>>

\* ConfigureCheck is answered with CodeConfigOK.
Check(l) ==
  /\ stage[l] = "check"
  /\ birdUp
  /\ AllGood
  /\ stage' = [stage EXCEPT ![l] = "configure"]
  /\ UNCHANGED <<fault, desired, disk, birdUp, active, owed, lastGood, at, cur, prev,
                 changes, faults, auxVars>>

Writing(l) == stage[l] \in {"check", "configure", "rollback"}

\* BIRD (external) loads all the files, those just written by the loops ls included.
LoadFiles(ls) ==
  /\ active' = disk
  /\ loaded' = {l \in ls : Writing(l)}
  /\ slipped' = {}

\* Configure is accepted.
Configure(l) ==
  /\ stage[l] = "configure"
  /\ birdUp
  /\ AllGood
  /\ LoadFiles(Loops \ {l})
  /\ lastGood' = [lastGood EXCEPT ![File(l)] = Content(l)]
  /\ Advance(l)
  /\ UNCHANGED <<fault, desired, disk, birdUp, owed, cur, prev, changes, faults>>

\* A check or a reload that BIRD refuses, or that does not reach it.
Fails(l) ==
  /\ stage[l] \in {"check", "configure"}
  /\ ~birdUp \/ ~AllGood
  /\ stage' = [stage EXCEPT ![l] = "rollback"]
  /\ UNCHANGED <<fault, desired, disk, birdUp, active, owed, lastGood, at, cur, prev,
                 changes, faults, auxVars>>

\* A command that gets no reply, at the first try and at the retry; of a reload, BIRD
\* may carry out both.
AnswerLost(l) ==
  /\ fault = "replies"
  /\ faults < MaxFaults
  /\ faults' = faults + 1
  /\ stage[l] \in {"check", "configure"}
  /\ birdUp
  /\ owed' \in owed .. owed + (IF stage[l] = "configure" THEN 2 ELSE 0)
  /\ stage' = [stage EXCEPT ![l] = "rollback"]
  /\ UNCHANGED <<fault, desired, disk, birdUp, active, lastGood, at, cur, prev, changes,
                 auxVars>>

\* Mutant: the file is left as it is.
KeepFile(l) == UNCHANGED disk

Restore(l) == disk' = [disk EXCEPT ![File(l)] = prev[l]]

\* rollback; the pass ends.
Rollback(l) ==
  /\ stage[l] = "rollback"
  /\ Restore(l)
  /\ Abort(l)
  /\ loaded' = loaded \ {l}
  /\ slipped' = IF l \in loaded THEN slipped \cup {File(l)} ELSE slipped
  /\ UNCHANGED <<fault, desired, birdUp, active, owed, lastGood, cur, prev, changes,
                 faults>>

-----------------------------------------------------------------------------

\* The desired state, or the health behind the canary, changes.
Change(f, c) ==
  /\ changes < MaxChanges
  /\ changes' = changes + 1
  /\ c \in Renders[f] \ {desired[f]}
  /\ c \in Broken => fault = "replies"
  /\ desired' = [desired EXCEPT ![f] = c]
  /\ UNCHANGED <<fault, disk, birdUp, active, owed, lastGood, loopVars, faults, auxVars>>

BirdDies ==
  /\ birdUp
  /\ faults < MaxFaults
  /\ faults' = faults + 1
  /\ birdUp' = FALSE
  /\ owed' = 0
  /\ UNCHANGED <<fault, desired, disk, active, lastGood, loopVars, changes, auxVars>>

\* BIRD does not start on a broken configuration.
BirdStarts ==
  /\ ~birdUp
  /\ AllGood
  /\ birdUp' = TRUE
  /\ LoadFiles(Loops)
  /\ UNCHANGED <<fault, desired, disk, owed, lastGood, loopVars, changes, faults>>

\* BIRD carries out a reload whose sender has given up on it; it refuses the
\* configuration if a file is broken by then.
BirdReloads ==
  /\ owed > 0
  /\ owed' = owed - 1
  /\ IF AllGood THEN LoadFiles(Loops) ELSE UNCHANGED <<active, auxVars>>
  /\ UNCHANGED <<fault, desired, disk, birdUp, lastGood, loopVars, changes, faults>>

\* The agent is killed and started again; existing files are left untouched, and a
\* reload it has sent may still be carried out.
AgentRestart ==
  /\ fault = "kills"
  /\ faults < MaxFaults
  /\ faults' = faults + 1
  /\ owed' \in owed .. owed + (IF birdUp THEN Cardinality({l \in Loops : stage[l] = "configure"})
                             ELSE 0)
  /\ lastGood' = [f \in Files |-> None]
  /\ at' = [l \in Loops |-> 0]
  /\ stage' = [l \in Loops |-> "begin"]
  /\ cur' = [l \in Loops |-> Initial]
  /\ prev' = [l \in Loops |-> Empty]
  /\ loaded' = {}
  /\ slipped' = {}
  /\ UNCHANGED <<fault, desired, disk, birdUp, active, changes>>

Apply(l) ==
  \/ StartPass(l) \/ Skip(l) \/ RenderFails(l) \/ WriteFile(l) \/ Check(l)
  \/ Configure(l) \/ Fails(l) \/ Rollback(l)

Next ==
  \/ \E l \in Loops : Apply(l) \/ AnswerLost(l)
  \/ \E f \in Files, c \in Contents \cup {None} : Change(f, c)
  \/ BirdDies
  \/ BirdStarts
  \/ BirdReloads
  \/ AgentRestart

Spec == Init /\ [][Next]_vars

\* The loops' timers fire and commands return (deadlines); the supervisor starts
\* BIRD, again and again if it has to.
FairSpec ==
  /\ Spec
  /\ \A l \in Loops : WF_vars(Apply(l))
  /\ SF_vars(BirdStarts)

-----------------------------------------------------------------------------

\* No broken include is left on disk: whenever no apply is under way every file
\* is one BIRD accepts, although a loop may write its file while the other one
\* is between check and reload, and although BIRD may go away (rollback).  Only
\* a kill between writing and checking leaves one.
NoBrokenLeft ==
  fault = "replies" /\ (\A l \in Loops : at[l] = 0) => AllGood

\* Skipped "is true when the desired set was already applied": BIRD runs the content
\* whose apply is about to be skipped (ApplyBytes), whatever the loops, BIRD's
\* restarts, late reloads and kills do to each other's files, but for a file that
\* BIRD loaded between the agent's write and its roll-back.
SkippedIsActive ==
  \A l \in Loops :
    /\ at[l] # 0 /\ stage[l] = "begin" /\ Applied(l) /\ birdUp
    /\ File(l) \notin slipped
    => active[File(l)] = Content(l)

\* In the end the files are what is desired, if it can be rendered and BIRD accepts
\* it, and BIRD runs them, but for those that it loaded ahead of their roll-back: a
\* pass that failed or was cut off is made up for by a later one (Run, ApplyBytes),
\* wherever the agent is killed and whichever replies are lost.
Settles ==
  <>[]((\A f \in Files : desired[f] \in Contents \ Broken) =>
         /\ birdUp
         /\ disk = desired
         /\ \A f \in Files \ slipped : active[f] = desired[f])

\* The appliers are safe: the state is well formed, no broken include is left on disk, and
\* an apply that ApplyBytes is about to skip is of content that BIRD runs.
IncludeInv == TypeOK /\ NoBrokenLeft /\ SkippedIsActive
=============================================================================
