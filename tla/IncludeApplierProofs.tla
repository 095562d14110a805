------------------------ MODULE IncludeApplierProofs ------------------------
(***************************************************************************)
(* Proofs about IncludeApplier, for any goroutines, includes and contents: *)
(* no broken include is left on disk, and an apply is skipped only for     *)
(* content that BIRD runs, but for a file that BIRD loaded ahead of its    *)
(* roll-back.                                                              *)
(***************************************************************************)
EXTENDS IncludeApplier, FiniteSetTheorems, TLAPS

WritesAFile == \A l \in Loops : Writing(l) => at[l] # 0
LoadedIsWritten == \A l \in loaded : Writing(l)

\* A broken file is one that a loop has just written, and can be put back.
BrokenIsWritten ==
  fault = "replies" =>
    /\ \A l \in Loops : Writing(l) => prev[l] \notin Broken
    /\ \A f \in Files : disk[f] \in Broken => \E l \in Loops : Writing(l) /\ File(l) = f

\* What was accepted last and is on disk is what BIRD runs, unless its file is
\* being written or was rolled back too late.
AppliedIsActive ==
  birdUp =>
    \A f \in Files \ slipped :
      /\ lastGood[f] = disk[f]
      /\ \A l \in Loops : Writing(l) => File(l) # f
      => active[f] = disk[f]

\* So is what was on disk when a loop wrote over it, until BIRD loads the new file.
PrevIsActive ==
  birdUp =>
    \A l \in Loops \ loaded :
      /\ Writing(l)
      /\ File(l) \notin slipped
      /\ lastGood[File(l)] = prev[l]
      => active[File(l)] = prev[l]

ApplierInv ==
  /\ TypeOK /\ WritesAFile /\ LoadedIsWritten /\ BrokenIsWritten
  /\ AppliedIsActive /\ PrevIsActive

-----------------------------------------------------------------------------

LEMMA FileIsOne ==
  ASSUME TypeOK, NEW l \in Loops, at[l] # 0
  PROVE  /\ at[l] \in 1 .. Len(Includes[l])
         /\ File(l) \in Files
         /\ Content(l) \in Contents \cup {None}
  <1>1. at[l] \in 1 .. Len(Includes[l])
    BY ApplierAssumption DEF TypeOK
  <1>2. File(l) \in Files
    BY <1>1 DEF File, Files, Own
  <1> QED
    BY <1>1, <1>2 DEF TypeOK, Content

LEMMA FilesDiffer ==
  ASSUME TypeOK, NEW l \in Loops, NEW m \in Loops, at[l] # 0, at[m] # 0,
         File(l) = File(m)
  PROVE  l = m
  BY FileIsOne, OwnFiles DEF File

LEMMA EmptyIsGood == Empty \in Contents /\ Empty \notin Broken /\ None \notin Broken
                     /\ Empty # None
  BY ApplierAssumption

\* The index after an include is that of another one, or 0.
LEMMA NextIndex ==
  ASSUME TypeOK, NEW l \in Loops, at[l] # 0
  PROVE  LET n == IF at[l] = Len(Includes[l]) THEN 0 ELSE at[l] + 1
         IN  n \in Nat /\ n <= Len(Includes[l])
  BY ApplierAssumption, FileIsOne

-----------------------------------------------------------------------------

LEMMA InitInv == Init => ApplierInv
  <1> SUFFICES ASSUME Init PROVE ApplierInv
    OBVIOUS
  <1>1. TypeOK
    <2>1. \A l \in Loops : at[l] = 0 /\ at[l] <= Len(Includes[l])
      <3> SUFFICES ASSUME NEW l \in Loops
                   PROVE  at[l] = 0 /\ at[l] <= Len(Includes[l])
        OBVIOUS
      <3>1. at[l] = 0
        BY DEF Init
      <3>2. Len(Includes[l]) \in Nat
        BY ApplierAssumption
      <3> QED
        BY <3>1, <3>2
    <2>2. Initial \in [Files -> Contents]
      BY EmptyIsGood DEF Initial
    <2>3. changes \in 0 .. MaxChanges /\ faults \in 0 .. MaxFaults
      BY ApplierAssumption DEF Init
    <2>4. /\ desired \in [Files -> Contents \cup {None}]
          /\ cur \in [Loops -> [Files -> Contents \cup {None}]]
      BY <2>2 DEF Init
    <2> QED
      BY <2>1, <2>2, <2>3, <2>4, EmptyIsGood DEF Init, TypeOK
  <1>2. WritesAFile /\ LoadedIsWritten /\ BrokenIsWritten
    BY EmptyIsGood DEF Init, Initial, WritesAFile, LoadedIsWritten, BrokenIsWritten, Writing
  <1>3. AppliedIsActive /\ PrevIsActive
    BY DEF Init, AppliedIsActive, PrevIsActive, Writing
  <1> QED
    BY <1>1, <1>2, <1>3 DEF ApplierInv

\* A pass begins, or goes on without having written: no file changes.
LEMMA IdleStep ==
  ASSUME ApplierInv, NEW l \in Loops, StartPass(l) \/ Skip(l) \/ RenderFails(l)
  PROVE  ApplierInv'
  <1>1. /\ UNCHANGED <<fault, desired, disk, birdUp, active, owed, lastGood, prev,
                       changes, faults, loaded, slipped>>
        /\ ~Writing(l)
        /\ stage' = [stage EXCEPT ![l] = "begin"]
    BY DEF StartPass, Skip, RenderFails, Advance, Abort, Writing, ApplierInv, WritesAFile,
       auxVars
  <1>2. /\ at' \in [Loops -> Nat]
        /\ \A m \in Loops : at'[m] <= Len(Includes[m])
        /\ \A m \in Loops : m # l => at'[m] = at[m]
    <2>1. PICK n : /\ at' = [at EXCEPT ![l] = n]
                   /\ n \in Nat /\ n <= Len(Includes[l])
      <3>1. CASE StartPass(l)
        <4>1. at' = [at EXCEPT ![l] = 1]
          BY <3>1 DEF StartPass
        <4>2. 1 \in Nat /\ 1 <= Len(Includes[l])
          BY ApplierAssumption
        <4> QED
          BY <4>1, <4>2
      <3>2. CASE Skip(l)
        BY <3>2, NextIndex DEF Skip, Advance, ApplierInv
      <3>3. CASE RenderFails(l)
        <4>1. at' = [at EXCEPT ![l] = 0]
          BY <3>3 DEF RenderFails, Abort
        <4>2. 0 \in Nat /\ 0 <= Len(Includes[l])
          BY ApplierAssumption
        <4> QED
          BY <4>1, <4>2
      <3> QED
        BY <3>1, <3>2, <3>3
    <2> QED
      BY <2>1 DEF ApplierInv, TypeOK
  <1>3. \/ cur' = cur
        \/ cur' = [cur EXCEPT ![l] =
                      [f \in Files |-> IF f \in Own(l) THEN desired[f] ELSE Empty]]
    BY DEF StartPass, Skip, RenderFails
  <1>4. TypeOK'
    <2>1. cur' \in [Loops -> [Files -> Contents \cup {None}]]
      <3> DEFINE R == [f \in Files |-> IF f \in Own(l) THEN desired[f] ELSE Empty]
      <3>1. desired \in [Files -> Contents \cup {None}]
        BY DEF ApplierInv, TypeOK
      <3>2. R \in [Files -> Contents \cup {None}]
        BY <3>1, EmptyIsGood
      <3>3. cur' = cur \/ cur' = [cur EXCEPT ![l] = R]
        BY <1>3
      <3>4. cur \in [Loops -> [Files -> Contents \cup {None}]]
        BY DEF ApplierInv, TypeOK
      <3> HIDE DEF R
      <3> QED
        BY <3>2, <3>3, <3>4
    <2> QED
      BY <1>1, <1>2, <2>1 DEF ApplierInv, TypeOK
  <1>5. ~Writing(l)'
    BY <1>1 DEF Writing, ApplierInv, TypeOK
  <1>6. \A m \in Loops : /\ Writing(m)' <=> Writing(m)
                         /\ Writing(m) => File(m)' = File(m) /\ at'[m] = at[m]
    BY <1>1, <1>2, <1>5 DEF Writing, File, ApplierInv, TypeOK
  <1>7. WritesAFile' /\ LoadedIsWritten' /\ BrokenIsWritten'
    BY <1>1, <1>6 DEF ApplierInv, WritesAFile, LoadedIsWritten, BrokenIsWritten, TypeOK
  <1>8. AppliedIsActive' /\ PrevIsActive'
    BY <1>1, <1>6 DEF ApplierInv, AppliedIsActive, PrevIsActive
  <1> QED
    BY <1>4, <1>7, <1>8 DEF ApplierInv

LEMMA WriteStep ==
  ASSUME ApplierInv, NEW l \in Loops, WriteFile(l)
  PROVE  ApplierInv'
  <1>1. /\ UNCHANGED <<fault, desired, birdUp, active, owed, lastGood, at, cur, changes,
                       faults, loaded, slipped>>
        /\ at[l] # 0 /\ stage[l] = "begin" /\ Content(l) # None
        /\ prev' = [prev EXCEPT ![l] = disk[File(l)]]
        /\ disk' = [disk EXCEPT ![File(l)] = Content(l)]
        /\ stage' = [stage EXCEPT ![l] = "check"]
    BY DEF WriteFile, auxVars
  <1>2. TypeOK
    BY DEF ApplierInv
  <1>3. File(l) \in Files /\ Content(l) \in Contents
    BY <1>1, <1>2, FileIsOne
  <1>4. TypeOK'
    BY <1>1, <1>2, <1>3 DEF TypeOK
  <1>5. \A m \in Loops : File(m)' = File(m)
    BY <1>1 DEF File
  <1>6. \A m \in Loops : Writing(m)' <=> (Writing(m) \/ m = l)
    BY <1>1, <1>2 DEF Writing, TypeOK
  <1>7. WritesAFile' /\ LoadedIsWritten'
    BY <1>1, <1>2, <1>6 DEF ApplierInv, WritesAFile, LoadedIsWritten, TypeOK
  <1>8. BrokenIsWritten'
    <2> SUFFICES ASSUME fault = "replies"
                 PROVE  /\ \A m \in Loops : Writing(m)' => prev'[m] \notin Broken
                        /\ \A f \in Files : disk'[f] \in Broken =>
                             \E m \in Loops : Writing(m)' /\ File(m)' = f
      BY <1>1 DEF BrokenIsWritten
    <2>1. ~Writing(l)
      BY <1>1 DEF Writing
    <2>2. disk[File(l)] \notin Broken
      BY <1>1, <1>2, <1>3, <2>1, FilesDiffer DEF ApplierInv, BrokenIsWritten, WritesAFile
    <2>3. \A m \in Loops : Writing(m)' => prev'[m] \notin Broken
      BY <1>1, <1>2, <1>6, <2>2 DEF ApplierInv, BrokenIsWritten, TypeOK
    <2>4. ASSUME NEW f \in Files, disk'[f] \in Broken
          PROVE  \E m \in Loops : Writing(m)' /\ File(m)' = f
      <3>1. CASE f = File(l)
        BY <3>1, <1>5, <1>6
      <3>2. CASE f # File(l)
        BY <3>2, <2>4, <1>1, <1>2, <1>5, <1>6 DEF ApplierInv, BrokenIsWritten, TypeOK
      <3> QED
        BY <3>1, <3>2
    <2> QED
      BY <2>3, <2>4
  <1>9. AppliedIsActive'
    BY <1>1, <1>2, <1>5, <1>6 DEF ApplierInv, AppliedIsActive, TypeOK
  <1>10. PrevIsActive'
    <2> SUFFICES ASSUME birdUp, NEW m \in Loops \ loaded, Writing(m)',
                        File(m) \notin slipped, lastGood[File(m)] = prev'[m]
                 PROVE  active[File(m)] = prev'[m]
      BY <1>1, <1>5 DEF PrevIsActive
    <2>1. CASE m = l
      <3>1. prev'[m] = disk[File(m)]
        BY <1>1, <1>2, <2>1 DEF TypeOK
      <3>2. \A k \in Loops : Writing(k) => File(k) # File(m)
        BY <1>1, <1>2, <2>1, FilesDiffer DEF ApplierInv, WritesAFile, Writing
      <3> QED
        BY <1>3, <2>1, <3>1, <3>2 DEF ApplierInv, AppliedIsActive
    <2>2. CASE m # l
      BY <1>1, <1>2, <1>6, <2>2 DEF ApplierInv, PrevIsActive, TypeOK
    <2> QED
      BY <2>1, <2>2
  <1> QED
    BY <1>4, <1>7, <1>8, <1>9, <1>10 DEF ApplierInv

\* A command is answered, fails, or is not answered: the file stays as it was written.
LEMMA CommandStep ==
  ASSUME ApplierInv, NEW l \in Loops, Check(l) \/ Fails(l) \/ AnswerLost(l)
  PROVE  ApplierInv'
  <1>1. /\ UNCHANGED <<fault, desired, disk, birdUp, active, lastGood, at, cur, prev,
                       changes, loaded, slipped>>
        /\ Writing(l)
        /\ \/ stage' = [stage EXCEPT ![l] = "configure"]
           \/ stage' = [stage EXCEPT ![l] = "rollback"]
    BY DEF Check, Fails, AnswerLost, Writing, auxVars
  <1>2. TypeOK'
    <2>1. owed' \in Nat /\ faults' \in 0 .. MaxFaults
      BY ApplierAssumption DEF ApplierInv, TypeOK, Check, Fails, AnswerLost
    <2> QED
      BY <1>1, <2>1 DEF ApplierInv, TypeOK
  <1>3. \A m \in Loops : (Writing(m)' <=> Writing(m)) /\ File(m)' = File(m)
    BY <1>1 DEF Writing, File, ApplierInv, TypeOK
  <1>4. WritesAFile' /\ LoadedIsWritten' /\ BrokenIsWritten'
    BY <1>1, <1>3 DEF ApplierInv, WritesAFile, LoadedIsWritten, BrokenIsWritten, TypeOK
  <1>5. AppliedIsActive' /\ PrevIsActive'
    BY <1>1, <1>3 DEF ApplierInv, AppliedIsActive, PrevIsActive
  <1> QED
    BY <1>2, <1>4, <1>5 DEF ApplierInv

LEMMA ConfigureStep ==
  ASSUME ApplierInv, NEW l \in Loops, Configure(l)
  PROVE  ApplierInv'
  <1>1. /\ UNCHANGED <<fault, desired, disk, birdUp, owed, cur, prev, changes, faults>>
        /\ stage[l] = "configure" /\ AllGood
        /\ active' = disk
        /\ loaded' = {m \in Loops \ {l} : Writing(m)}
        /\ slipped' = {}
        /\ lastGood' = [lastGood EXCEPT ![File(l)] = Content(l)]
        /\ at' = [at EXCEPT ![l] = IF at[l] = Len(Includes[l]) THEN 0 ELSE at[l] + 1]
        /\ stage' = [stage EXCEPT ![l] = "begin"]
    BY DEF Configure, Advance, LoadFiles
  <1>2. TypeOK /\ at[l] # 0
    BY <1>1 DEF ApplierInv, WritesAFile, Writing
  <1>3. File(l) \in Files /\ Content(l) \in Contents \cup {None}
    BY <1>2, FileIsOne
  <1>4. TypeOK'
    BY <1>1, <1>2, <1>3, NextIndex DEF TypeOK
  <1>5. \A m \in Loops : /\ Writing(m)' <=> Writing(m) /\ m # l
                         /\ m # l => at'[m] = at[m]
    BY <1>1, <1>2 DEF Writing, TypeOK
  <1>6. WritesAFile' /\ LoadedIsWritten'
    BY <1>1, <1>5 DEF ApplierInv, WritesAFile, LoadedIsWritten
  <1>7. BrokenIsWritten'
    BY <1>1, <1>5 DEF ApplierInv, BrokenIsWritten, AllGood
  <1>8. AppliedIsActive' /\ PrevIsActive'
    BY <1>1, <1>5 DEF AppliedIsActive, PrevIsActive
  <1> QED
    BY <1>4, <1>6, <1>7, <1>8 DEF ApplierInv

LEMMA RollbackStep ==
  ASSUME ApplierInv, NEW l \in Loops, Rollback(l)
  PROVE  ApplierInv'
  <1>1. /\ UNCHANGED <<fault, desired, birdUp, active, owed, lastGood, cur, prev, changes,
                       faults>>
        /\ Writing(l)
        /\ disk' = [disk EXCEPT ![File(l)] = prev[l]]
        /\ at' = [at EXCEPT ![l] = 0]
        /\ stage' = [stage EXCEPT ![l] = "begin"]
        /\ loaded' = loaded \ {l}
        /\ slipped' = IF l \in loaded THEN slipped \cup {File(l)} ELSE slipped
    BY DEF Rollback, Restore, Abort, Writing
  <1>2. TypeOK /\ at[l] # 0
    BY <1>1 DEF ApplierInv, WritesAFile
  <1>3. File(l) \in Files
    BY <1>2, FileIsOne
  <1>4. TypeOK'
    <2>1. at' \in [Loops -> Nat] /\ \A m \in Loops : at'[m] <= Len(Includes[m])
      BY <1>1, <1>2, ApplierAssumption DEF TypeOK
    <2>2. loaded' \subseteq Loops /\ slipped' \subseteq Files
      BY <1>1, <1>2, <1>3 DEF TypeOK
    <2> QED
      BY <1>1, <1>2, <1>3, <2>1, <2>2 DEF TypeOK
  <1>5. \A m \in Loops : Writing(m)' <=> (Writing(m) /\ m # l)
    BY <1>1, <1>2 DEF Writing, TypeOK
  <1>6. \A m \in Loops : m # l => File(m)' = File(m) /\ at'[m] = at[m]
    BY <1>1, <1>2 DEF File, TypeOK
  <1>7. WritesAFile' /\ LoadedIsWritten'
    BY <1>1, <1>2, <1>5, <1>6 DEF ApplierInv, WritesAFile, LoadedIsWritten, TypeOK
  <1>8. BrokenIsWritten'
    <2> SUFFICES ASSUME fault = "replies"
                 PROVE  /\ \A m \in Loops : Writing(m)' => prev'[m] \notin Broken
                        /\ \A f \in Files : disk'[f] \in Broken =>
                             \E m \in Loops : Writing(m)' /\ File(m)' = f
      BY <1>1 DEF BrokenIsWritten
    <2>1. prev[l] \notin Broken
      BY <1>1 DEF ApplierInv, BrokenIsWritten
    <2>2. ASSUME NEW f \in Files, disk'[f] \in Broken
          PROVE  \E m \in Loops : Writing(m)' /\ File(m)' = f
      <3>1. f # File(l) /\ disk[f] \in Broken
        BY <1>1, <1>2, <2>1, <2>2 DEF TypeOK
      <3>2. PICK m \in Loops : Writing(m) /\ File(m) = f
        BY <3>1 DEF ApplierInv, BrokenIsWritten
      <3> QED
        BY <3>1, <3>2, <1>5, <1>6
    <2> QED
      BY <2>2, <1>1, <1>5 DEF ApplierInv, BrokenIsWritten
  <1>9. AppliedIsActive'
    <2> SUFFICES ASSUME birdUp, NEW f \in Files, f \notin slipped',
                        lastGood[f] = disk'[f],
                        \A m \in Loops : Writing(m)' => File(m)' # f
                 PROVE  active[f] = disk'[f]
      BY <1>1 DEF AppliedIsActive
    <2>1. CASE f = File(l)
      <3>1. l \notin loaded /\ f \notin slipped
        BY <1>1, <2>1
      <3>2. disk'[f] = prev[l]
        BY <1>1, <1>2, <2>1 DEF TypeOK
      <3> QED
        BY <1>1, <2>1, <3>1, <3>2 DEF ApplierInv, PrevIsActive
    <2>2. CASE f # File(l)
      <3>1. f \notin slipped /\ disk'[f] = disk[f]
        BY <1>1, <1>2, <2>2 DEF TypeOK
      <3>2. \A m \in Loops : Writing(m) => File(m) # f
        BY <1>5, <1>6, <2>2
      <3> QED
        BY <3>1, <3>2 DEF ApplierInv, AppliedIsActive
    <2> QED
      BY <2>1, <2>2
  <1>10. PrevIsActive'
    <2> SUFFICES ASSUME birdUp, NEW m \in Loops, m \notin loaded', Writing(m)',
                        File(m)' \notin slipped', lastGood[File(m)'] = prev[m]
                 PROVE  active[File(m)'] = prev[m]
      BY <1>1 DEF PrevIsActive
    <2>1. m # l /\ Writing(m) /\ File(m)' = File(m)
      BY <1>5, <1>6
    <2>2. m \notin loaded /\ File(m) \notin slipped
      BY <1>1, <2>1
    <2> QED
      BY <2>1, <2>2 DEF ApplierInv, PrevIsActive
  <1> QED
    BY <1>4, <1>7, <1>8, <1>9, <1>10 DEF ApplierInv

LEMMA ChangeStep ==
  ASSUME ApplierInv, NEW f \in Files, NEW c \in Contents \cup {None}, Change(f, c)
  PROVE  ApplierInv'
  <1>1. /\ UNCHANGED <<fault, disk, birdUp, active, owed, lastGood, at, stage, cur, prev,
                       faults, loaded, slipped>>
        /\ desired' = [desired EXCEPT ![f] = c]
    BY DEF Change, loopVars, auxVars
  <1>2. TypeOK'
    <2>1. changes' \in 0 .. MaxChanges
      BY ApplierAssumption DEF ApplierInv, TypeOK, Change
    <2> QED
      BY <1>1, <2>1 DEF ApplierInv, TypeOK
  <1>3. /\ WritesAFile' /\ LoadedIsWritten' /\ BrokenIsWritten'
        /\ AppliedIsActive' /\ PrevIsActive'
    BY <1>1 DEF ApplierInv, WritesAFile, LoadedIsWritten, BrokenIsWritten, AppliedIsActive,
       PrevIsActive, Writing, File
  <1> QED
    BY <1>2, <1>3 DEF ApplierInv

\* BIRD goes away, loads the files, or refuses them.
LEMMA BirdStep ==
  ASSUME ApplierInv, BirdDies \/ BirdStarts \/ BirdReloads
  PROVE  ApplierInv'
  <1>1. /\ UNCHANGED <<fault, desired, disk, lastGood, at, stage, cur, prev, changes>>
        /\ \/ birdUp' = FALSE /\ UNCHANGED <<active, loaded, slipped>>
           \/ active' = disk /\ loaded' = {l \in Loops : Writing(l)} /\ slipped' = {}
           \/ UNCHANGED <<birdUp, active, loaded, slipped>>
    BY DEF BirdDies, BirdStarts, BirdReloads, LoadFiles, loopVars, auxVars
  <1>2. TypeOK'
    <2>1. owed' \in Nat /\ faults' \in 0 .. MaxFaults /\ birdUp' \in BOOLEAN
      <3>1. owed \in Nat /\ faults \in 0 .. MaxFaults /\ birdUp \in BOOLEAN
        BY DEF ApplierInv, TypeOK
      <3>2. CASE BirdDies
        <4>1. faults < MaxFaults /\ faults' = faults + 1 /\ owed' = 0
          BY <3>2 DEF BirdDies
        <4>2. birdUp' = FALSE
          BY <3>2 DEF BirdDies
        <4>3. faults' \in 0 .. MaxFaults /\ owed' \in Nat
          BY <3>1, <4>1, ApplierAssumption
        <4> QED
          BY <4>2, <4>3
      <3>3. CASE BirdStarts
        BY <3>1, <3>3 DEF BirdStarts
      <3>4. CASE BirdReloads
        <4>1. birdUp' = birdUp /\ faults' = faults
          BY <3>4 DEF BirdReloads
        <4>2. owed > 0 /\ owed' = owed - 1
          BY <3>4 DEF BirdReloads
        <4>3. owed' \in Nat
          BY <3>1, <4>2
        <4> QED
          BY <3>1, <4>1, <4>3
      <3> QED
        BY <3>2, <3>3, <3>4
    <2>2. loaded' \subseteq Loops /\ slipped' \subseteq Files /\ active' \in [Files -> Contents]
      BY <1>1 DEF ApplierInv, TypeOK
    <2> QED
      BY <1>1, <2>1, <2>2 DEF ApplierInv, TypeOK
  <1>3. \A m \in Loops : (Writing(m)' <=> Writing(m)) /\ File(m)' = File(m)
    BY <1>1 DEF Writing, File
  <1>4. WritesAFile' /\ BrokenIsWritten'
    BY <1>1, <1>3 DEF ApplierInv, WritesAFile, BrokenIsWritten
  <1>5. LoadedIsWritten'
    BY <1>1, <1>3 DEF ApplierInv, LoadedIsWritten, TypeOK
  <1>6. AppliedIsActive' /\ PrevIsActive'
    BY <1>1, <1>3 DEF ApplierInv, AppliedIsActive, PrevIsActive
  <1> QED
    BY <1>2, <1>4, <1>5, <1>6 DEF ApplierInv

LEMMA RestartStep ==
  ASSUME ApplierInv, AgentRestart
  PROVE  ApplierInv'
  <1>1. /\ fault = "kills"
        /\ UNCHANGED <<fault, desired, disk, birdUp, active, changes>>
        /\ lastGood' = [f \in Files |-> None]
        /\ at' = [l \in Loops |-> 0]
        /\ stage' = [l \in Loops |-> "begin"]
        /\ cur' = [l \in Loops |-> Initial]
        /\ prev' = [l \in Loops |-> Empty]
        /\ loaded' = {} /\ slipped' = {}
    BY DEF AgentRestart
  <1>2. TypeOK'
    <2>1. faults' \in 0 .. MaxFaults
      BY ApplierAssumption DEF ApplierInv, TypeOK, AgentRestart
    <2>2. at' \in [Loops -> Nat] /\ \A l \in Loops : at'[l] <= Len(Includes[l])
      BY <1>1, ApplierAssumption
    <2>3. owed' \in Nat
      <3> DEFINE R == {l \in Loops : stage[l] = "configure"}
      <3>1. R \subseteq Loops
        OBVIOUS
      <3>2. Cardinality(R) \in Nat
        BY <3>1, FS_Subset, FS_CardinalityType, ApplierAssumption
      <3>3. owed' \in owed .. owed + (IF birdUp THEN Cardinality(R) ELSE 0)
        BY DEF AgentRestart
      <3> HIDE DEF R
      <3> QED
        BY <3>2, <3>3 DEF ApplierInv, TypeOK
    <2> QED
      BY <1>1, <2>1, <2>2, <2>3, EmptyIsGood DEF ApplierInv, TypeOK, Initial
  <1>3. \A l \in Loops : ~Writing(l)'
    BY <1>1 DEF Writing
  <1>4. WritesAFile' /\ LoadedIsWritten' /\ BrokenIsWritten' /\ PrevIsActive'
    BY <1>1, <1>3 DEF WritesAFile, LoadedIsWritten, BrokenIsWritten, PrevIsActive
  <1>5. \A f \in Files : lastGood'[f] # disk'[f]
    BY <1>1, ApplierAssumption DEF ApplierInv, TypeOK
  <1>6. AppliedIsActive'
    BY <1>5 DEF AppliedIsActive
  <1> QED
    BY <1>2, <1>4, <1>6 DEF ApplierInv

LEMMA Inductive == Spec => []ApplierInv
  <1>1. ApplierInv /\ [Next]_vars => ApplierInv'
    <2> SUFFICES ASSUME ApplierInv, [Next]_vars
                 PROVE  ApplierInv'
      OBVIOUS
    <2>1. CASE Next
      BY <2>1, IdleStep, WriteStep, CommandStep, ConfigureStep, RollbackStep, ChangeStep,
         BirdStep, RestartStep DEF Next, Apply
    <2>2. CASE UNCHANGED vars
      BY <2>2 DEF vars, loopVars, auxVars, ApplierInv, TypeOK, WritesAFile, LoadedIsWritten,
         BrokenIsWritten, AppliedIsActive, PrevIsActive, Writing, File
    <2> QED
      BY <2>1, <2>2
  <1> QED
    BY <1>1, InitInv, PTL DEF Spec

\* For any goroutines with files of their own, any contents and any faults: whenever
\* no apply is under way every file is one BIRD accepts, unless the agent was killed
\* in between; and an apply is skipped only for content that BIRD runs (ApplyBytes),
\* unless BIRD loaded the file between its writing and its roll-back.
THEOREM AppliersAreSafe == Spec => []IncludeInv
  <1>1. ApplierInv => IncludeInv
    <2> SUFFICES ASSUME ApplierInv PROVE IncludeInv
      OBVIOUS
    <2>1. TypeOK
      BY DEF ApplierInv
    <2>2. NoBrokenLeft
      BY DEF ApplierInv, BrokenIsWritten, WritesAFile, NoBrokenLeft, AllGood
    <2>3. SkippedIsActive
      <3> SUFFICES ASSUME NEW l \in Loops, at[l] # 0, stage[l] = "begin", Applied(l),
                          birdUp, File(l) \notin slipped
                   PROVE  active[File(l)] = Content(l)
        BY DEF SkippedIsActive
      <3>1. File(l) \in Files
        BY <2>1, FileIsOne
      <3>2. \A m \in Loops : Writing(m) => File(m) # File(l)
        BY <2>1, FilesDiffer DEF ApplierInv, WritesAFile, Writing
      <3> QED
        BY <3>1, <3>2 DEF ApplierInv, AppliedIsActive, Applied
    <2> QED
      BY <2>1, <2>2, <2>3 DEF IncludeInv
  <1> QED
    BY <1>1, Inductive, PTL
=============================================================================
