--------------------------- MODULE BatchTaskProofs ---------------------------
(***************************************************************************)
(* Proofs about BatchTask, for any set of tasks and any size of a batch.   *)
(*                                                                         *)
(* What carries them is that a batch is empty only when nothing is missing *)
(* (NoBatchNothingMissing), that cmp never leaves tbd (part of TypeOK),    *)
(* and, for BatchFileProcess, which never looks at the work again, that    *)
(* gen, in memory and in the savepoint, only holds files that were let     *)
(* through (SafeFiles).                                                    *)
(***************************************************************************)
EXTENDS BatchTask, FiniteSetTheorems, WellFoundedInduction, TLAPS

SafeFiles ==
  kind = "files" => gen \subseteq checked /\ savepoint.gen \subseteq checked

IInv ==
  /\ TypeOK
  /\ SafeFiles
  /\ PassMeansDone
  /\ PassMeansChecked

(***************************************************************************)
(* Facts about the helpers                                                 *)
(***************************************************************************)

\* A set of naturals that is not empty has a least element.
LEMMA LeastTask ==
  ASSUME NEW S, S \subseteq Nat, S # {}
  PROVE  \E t \in S : \A u \in S : ~(u < t)
<1> DEFINE R == OpToRel(<, Nat)
<1>1. IsWellFoundedOn(R, Nat)
  BY NatLessThanWellFounded, Zenon
<1>2. PICK t \in S : \A u \in S : <<u, t>> \notin R
  <2> HIDE DEF R
  <2> QED  BY <1>1, WFMin
<1>3. ASSUME NEW u \in S, u < t
      PROVE  FALSE
  <2>1. <<u, t>> \in R
    BY <1>3 DEF OpToRel
  <2> QED  BY <2>1, <1>2
<1> QED  BY <1>3

\* The next batch is a part of what is missing.
LEMMA BatchIsMissing ==
  ASSUME NEW src, NEW gn
  PROVE  NextBatch(src, gn) \subseteq src \ gn
BY DEF NextBatch, FirstOf

\* update_current_tbd reports that no more is to be done only when every task
\* of the source was generated.
LEMMA NoBatchNothingMissing ==
  ASSUME NEW src, src \subseteq Tasks, NEW gn, NextBatch(src, gn) = {}
  PROVE  src \subseteq gn
<1>1. SUFFICES ASSUME src \ gn # {}
               PROVE  FALSE
  OBVIOUS
<1>2. src \ gn \subseteq Nat
  BY BatchAssumption
<1>3. PICK t \in src \ gn : \A u \in src \ gn : ~(u < t)
  BY <1>1, <1>2, LeastTask
<1>4. {u \in src \ gn : u < t} = {}
  BY <1>3
<1>5. Cardinality({u \in src \ gn : u < t}) = 0
  BY <1>4, FS_EmptySet
<1>6. t \in NextBatch(src, gn)
  BY <1>3, <1>5, BatchAssumption DEF NextBatch, FirstOf
<1> QED  BY <1>6

\* What do_complete does to well-formed lists: they stay well formed, the
\* savepoint is the old one or the lists of now, and it passes only when all of
\* the source was generated.
LEMMA DoCompleteSound ==
  ASSUME NEW src, src \subseteq Tasks, NEW gn, gn \subseteq Tasks,
         NEW tb, tb \subseteq Tasks, NEW cm, cm \subseteq tb, NEW ok,
         savepoint \in [source : SUBSET Tasks, gen : SUBSET Tasks],
         DoComplete(src, gn, tb, cm, ok)
  PROVE  /\ tbd' \subseteq Tasks /\ cmp' \subseteq tbd'
         /\ savepoint' \in [source : SUBSET Tasks, gen : SUBSET Tasks]
         /\ savepoint' = savepoint \/ savepoint'.gen = gn
         /\ answer' \in {"fail", "pass"}
         /\ answer' = "pass" => src \subseteq gn
<1> DEFINE batch == CurrentTbd(src, gn, tb)
<1>1. batch \subseteq Tasks /\ (batch = {} => tb = {}) /\ (tb # {} => batch = tb)
  BY BatchIsMissing DEF CurrentTbd
<1>2. NextBatch(src, gn) \subseteq Tasks
  BY BatchIsMissing
<1>3. CASE NoSource(src, tb, cm)
  BY <1>3 DEF NoSource
<1>4. CASE NothingLeft(src, gn, tb, cm, ok)
  BY <1>4, <1>1 DEF NothingLeft, Verdict
<1>5. CASE BatchGoesOn(src, gn, tb, cm)
  BY <1>5, <1>1 DEF BatchGoesOn, Seen
<1>6. CASE BatchEnds(src, gn, tb, cm, ok)
  BY <1>6, <1>2, NoBatchNothingMissing DEF BatchEnds, Verdict
<1> QED  BY <1>3, <1>4, <1>5, <1>6 DEF DoComplete

\* The lists before do_complete are well formed.
LEMMA BatchesWellFormed ==
  ASSUME TypeOK
  PROVE  /\ SyncedTbd \subseteq Tasks /\ SyncedCmp \subseteq SyncedTbd
         /\ FilesSource \subseteq Tasks
         /\ FilesBatch \subseteq Tasks /\ cmp \subseteq FilesBatch
         /\ CurrentTbd(goal, gen, tbd) \subseteq Tasks
         /\ cmp \subseteq CurrentTbd(goal, gen, tbd)
<1>1. CurrentTbd(goal, gen, tbd) \subseteq Tasks /\ cmp \subseteq CurrentTbd(goal, gen, tbd)
  BY BatchIsMissing DEF CurrentTbd, TypeOK
<1>2. SyncedTbd \subseteq Tasks /\ SyncedCmp \subseteq SyncedTbd
  BY DEF SyncedTbd, SyncedCmp, TypeOK
<1> QED  BY <1>1, <1>2 DEF FilesSource, FilesBatch, TypeOK

\* do_complete lets no task go that was neither seen done nor generated.
LEMMA DoCompleteFinishes ==
  ASSUME NEW src, NEW gn, NEW tb, NEW cm, NEW ok, DoComplete(src, gn, tb, cm, ok)
  PROVE  \A t \in tb \ tbd' : t \in cm \/ t \in gn
<1>1. tb # {} => CurrentTbd(src, gn, tb) = tb
  BY DEF CurrentTbd
<1>2. CASE NoSource(src, tb, cm)
  BY <1>2 DEF NoSource
<1>3. CASE NothingLeft(src, gn, tb, cm, ok)
  BY <1>3, <1>1 DEF NothingLeft
<1>4. CASE BatchGoesOn(src, gn, tb, cm)
  BY <1>4, <1>1 DEF BatchGoesOn
<1>5. CASE BatchEnds(src, gn, tb, cm, ok)
  BY <1>5, <1>1 DEF BatchEnds, Seen
<1> QED  BY <1>2, <1>3, <1>4, <1>5 DEF DoComplete

\* What the batch was before do_complete and is not in it any more is not in the
\* source any more.
LEMMA SyncedLosesStrangers ==
  ASSUME TypeOK
  PROVE  /\ \A t \in tbd : t \in SyncedTbd \/ t \notin source
         /\ SyncedCmp \subseteq cmp
         /\ tbd \subseteq CurrentTbd(goal, gen, tbd)
         /\ tbd \subseteq FilesBatch
BY DEF SyncedTbd, SyncedCmp, CurrentTbd, FilesBatch, TypeOK

(***************************************************************************)
(* Every step keeps IInv                                                   *)
(***************************************************************************)

LEMMA InitSafe == Init => IInv
<1> SUFFICES ASSUME Init PROVE IInv
  OBVIOUS
<1>1. TypeOK
  BY DEF Init, TypeOK, NoSavepoint
<1> QED  BY <1>1 DEF IInv, Init, SafeFiles, PassMeansDone, PassMeansChecked, NoSavepoint

\* Steps that end with no answer to the agent.
LEMMA EnterKeeps == IInv /\ Enter => IInv'
<1> SUFFICES ASSUME IInv, Enter PROVE IInv'
  OBVIOUS
<1> USE DEF IInv, Opened, lists, workspace
<1>1. \A S \in SUBSET Tasks : \A gn, tb \in SUBSET Tasks : CurrentTbd(S, gn, tb) \subseteq Tasks
  BY BatchIsMissing DEF CurrentTbd
<1>2. \A S, gn, tb : tb \subseteq CurrentTbd(S, gn, tb)
  BY DEF CurrentTbd
<1>3. NextBatch(goal, {}) \subseteq Tasks
  BY BatchIsMissing DEF TypeOK
<1>4. TypeOK'
  <2>1. ASSUME NEW left \in SUBSET Tasks, EnterMarks(left) PROVE TypeOK'
    BY <2>1, <1>1, <1>2 DEF EnterMarks, TypeOK
  <2>2. CASE EnterTemplates
    BY <2>2, <1>3 DEF EnterTemplates, TypeOK
  <2>3. CASE EnterMocks
    BY <2>3, <1>1, <1>2 DEF EnterMocks, TypeOK
  <2>4. CASE EnterStatic
    BY <2>4, <1>1 DEF EnterStatic, TypeOK
  <2>5. CASE EnterFiles
    BY <2>5, <1>1, <1>2 DEF EnterFiles, TypeOK
  <2> QED  BY <2>1, <2>2, <2>3, <2>4, <2>5 DEF Enter
<1>5. answer' = "none" /\ kind' = kind /\ checked' = checked /\ savepoint' = savepoint
  BY DEF Enter, EnterMarks, EnterTemplates, EnterMocks, EnterStatic, EnterFiles
<1>6. kind = "files" => gen' = gen
  BY DEF Enter, EnterMarks, EnterTemplates, EnterMocks, EnterStatic, EnterFiles
<1>7. SafeFiles'
  BY <1>5, <1>6 DEF SafeFiles
<1> QED  BY <1>4, <1>5, <1>7 DEF PassMeansDone, PassMeansChecked

LEMMA LoadKeeps ==
  ASSUME IInv, Restart \/ RestartAfterTornSave
  PROVE  IInv'
<1>1. PICK read \in {savepoint, NoSavepoint} : Loads(read)
  BY DEF Restart, RestartAfterTornSave
<1>2. /\ read \in [source : SUBSET Tasks, gen : SUBSET Tasks]
      /\ kind = "files" => read.gen \subseteq checked
  BY DEF IInv, TypeOK, SafeFiles, NoSavepoint
<1> QED  BY <1>1, <1>2
         DEF Loads, IInv, TypeOK, SafeFiles, PassMeansDone, PassMeansChecked, workspace

LEMMA AgentKeeps == IInv /\ Agent => IInv'
BY DEF Agent, AddsTask, DropsTask, Does, Undoes, Edits, lists,
       IInv, TypeOK, SafeFiles, PassMeansDone, PassMeansChecked

\* The checks of the four checkers that compare the goal with the work.
LEMMA MarksKeep == IInv /\ CheckMarks => IInv'
<1> SUFFICES ASSUME IInv, CheckMarks PROVE IInv'
  OBVIOUS
<1>1. goal \subseteq Tasks /\ work \subseteq Tasks /\ TypeOK
  BY DEF IInv, TypeOK
<1>2. DoComplete(goal, work, SyncedTbd, SyncedCmp, TRUE)
  BY DEF CheckMarks
<1>3. /\ tbd' \subseteq Tasks /\ cmp' \subseteq tbd' /\ answer' \in {"fail", "pass"}
      /\ savepoint' \in [source : SUBSET Tasks, gen : SUBSET Tasks]
      /\ answer' = "pass" => goal \subseteq work
  BY <1>1, <1>2, BatchesWellFormed, DoCompleteSound DEF TypeOK
<1> QED  BY <1>1, <1>3 DEF CheckMarks, workspace, IInv, TypeOK, SafeFiles,
            PassMeansDone, PassMeansChecked

LEMMA TemplatesKeep ==
  ASSUME IInv, NEW ok \in BOOLEAN, CheckTemplates(ok)
  PROVE  IInv'
<1>1. goal \subseteq Tasks /\ work \subseteq Tasks /\ TypeOK
  BY DEF IInv, TypeOK
<1>2. PICK verdict : DoComplete(goal, work, SyncedTbd, SyncedCmp, verdict)
  BY DEF CheckTemplates
<1>3. /\ tbd' \subseteq Tasks /\ cmp' \subseteq tbd' /\ answer' \in {"fail", "pass"}
      /\ savepoint' \in [source : SUBSET Tasks, gen : SUBSET Tasks]
      /\ answer' = "pass" => goal \subseteq work
  BY <1>1, <1>2, BatchesWellFormed, DoCompleteSound DEF TypeOK
<1> QED  BY <1>1, <1>3 DEF CheckTemplates, workspace, IInv, TypeOK, SafeFiles,
            PassMeansDone, PassMeansChecked

LEMMA MocksKeep == IInv /\ (CheckMocksUnmade \/ CheckMocksFailing \/ CheckMocks) => IInv'
<1> SUFFICES ASSUME IInv, CheckMocksUnmade \/ CheckMocksFailing \/ CheckMocks PROVE IInv'
  OBVIOUS
<1>1. goal \subseteq Tasks /\ work \subseteq Tasks /\ TypeOK
  BY DEF IInv, TypeOK
<1>2. /\ CurrentTbd(goal, gen, tbd) \subseteq Tasks
      /\ cmp \subseteq CurrentTbd(goal, gen, tbd)
  BY <1>1, BatchesWellFormed
<1>3. CASE CheckMocksUnmade
  BY <1>1, <1>2, <1>3 DEF CheckMocksUnmade, workspace, IInv, TypeOK, SafeFiles,
     PassMeansDone, PassMeansChecked
<1>4. CASE CheckMocksFailing
  BY <1>1, <1>2, <1>4 DEF CheckMocksFailing, workspace, IInv, TypeOK, SafeFiles,
     PassMeansDone, PassMeansChecked
<1>5. CASE CheckMocks
  <2>1. DoComplete(goal, goal, CurrentTbd(goal, gen, tbd), cmp, TRUE)
    BY <1>5 DEF CheckMocks
  <2>2. /\ tbd' \subseteq Tasks /\ cmp' \subseteq tbd' /\ answer' \in {"fail", "pass"}
        /\ savepoint' \in [source : SUBSET Tasks, gen : SUBSET Tasks]
    BY <1>1, <1>2, <2>1, DoCompleteSound DEF TypeOK
  <2> QED  BY <1>1, <1>5, <2>2 DEF CheckMocks, workspace, IInv, TypeOK, SafeFiles,
              PassMeansDone, PassMeansChecked
<1> QED  BY <1>3, <1>4, <1>5

LEMMA StaticKeeps ==
  ASSUME IInv, NEW ok \in BOOLEAN, CheckStaticBlackBox(ok) \/ CheckStatic(ok)
  PROVE  IInv'
<1>1. goal \subseteq Tasks /\ work \subseteq Tasks /\ TypeOK
  BY DEF IInv, TypeOK
<1>2. CASE CheckStaticBlackBox(ok)
  BY <1>2 DEF CheckStaticBlackBox, Verdict, workspace, lists, IInv, TypeOK, SafeFiles,
     PassMeansDone, PassMeansChecked
<1>3. CASE CheckStatic(ok)
  <2>1. PICK found, verdict : /\ found = work \intersect goal
                              /\ DoComplete(goal, found, SyncedTbd, SyncedCmp, verdict)
    BY <1>3 DEF CheckStatic
  <2>2. found \subseteq Tasks /\ found \subseteq work
    BY <1>1, <2>1
  <2>3. /\ tbd' \subseteq Tasks /\ cmp' \subseteq tbd' /\ answer' \in {"fail", "pass"}
        /\ savepoint' \in [source : SUBSET Tasks, gen : SUBSET Tasks]
        /\ answer' = "pass" => goal \subseteq found
    BY <1>1, <2>1, <2>2, BatchesWellFormed, DoCompleteSound DEF TypeOK
  <2> QED  BY <1>1, <1>3, <2>2, <2>3 DEF CheckStatic, workspace, IInv, TypeOK, SafeFiles,
              PassMeansDone, PassMeansChecked
<1> QED  BY <1>2, <1>3

\* The check that only reads the files of its batch.
LEMMA FilesKeep ==
  ASSUME IInv, CheckFilesNone \/ CheckFilesTooFew \/ CheckFilesRejected \/ CheckFiles
  PROVE  IInv'
<1>1. TypeOK /\ SafeFiles
  BY DEF IInv
<1>2. /\ FilesSource \subseteq Tasks /\ FilesBatch \subseteq Tasks
      /\ cmp \subseteq FilesBatch
  BY <1>1, BatchesWellFormed
<1>3. CASE CheckFilesNone
  BY <1>1, <1>3 DEF CheckFilesNone, workspace, lists, IInv, TypeOK, SafeFiles,
     PassMeansDone, PassMeansChecked
<1>4. CASE CheckFilesTooFew
  BY <1>1, <1>2, <1>4 DEF CheckFilesTooFew, workspace, IInv, TypeOK, SafeFiles,
     PassMeansDone, PassMeansChecked
<1>5. CASE CheckFilesRejected
  BY <1>1, <1>2, <1>5 DEF CheckFilesRejected, workspace, IInv, TypeOK, SafeFiles,
     PassMeansDone, PassMeansChecked
<1>6. CASE CheckFiles
  <2>1. Generated \subseteq Tasks /\ Generated \subseteq checked'
    BY <1>1, <1>2, <1>6 DEF CheckFiles, Generated, TypeOK, SafeFiles
  <2>2. DoComplete(FilesSource, Generated, FilesBatch, cmp, TRUE)
    BY <1>6 DEF CheckFiles
  <2>3. /\ tbd' \subseteq Tasks /\ cmp' \subseteq tbd' /\ answer' \in {"fail", "pass"}
        /\ savepoint' \in [source : SUBSET Tasks, gen : SUBSET Tasks]
        /\ savepoint' = savepoint \/ savepoint'.gen = Generated
        /\ answer' = "pass" => FilesSource \subseteq Generated
    BY <1>1, <1>2, <2>1, <2>2, DoCompleteSound DEF TypeOK
  <2>4. TypeOK'
    BY <1>1, <1>2, <1>6, <2>1, <2>3 DEF CheckFiles, workspace, TypeOK
  <2>5. SafeFiles'
    BY <1>1, <1>6, <2>1, <2>3 DEF CheckFiles, SafeFiles
  <2>6. PassMeansChecked' /\ PassMeansDone'
    BY <1>6, <2>1, <2>3 DEF CheckFiles, PassMeansChecked, PassMeansDone
  <2> QED  BY <2>4, <2>5, <2>6 DEF IInv
<1> QED  BY <1>3, <1>4, <1>5, <1>6

\* A check that complains too early changes no list.
LEMMA EarlyKeeps == IInv /\ CheckFailsEarly => IInv'
BY DEF CheckFailsEarly, Fails, workspace, lists, IInv, TypeOK, SafeFiles,
       PassMeansDone, PassMeansChecked

LEMMA StepSafe == IInv /\ [Next]_vars => IInv'
<1> SUFFICES ASSUME IInv, [Next]_vars PROVE IInv'
  OBVIOUS
<1>1. CASE Enter
  BY <1>1, EnterKeeps
<1>2. CASE Check
  BY <1>2, MarksKeep, TemplatesKeep, MocksKeep, StaticKeeps, FilesKeep DEF Check
<1>3. CASE CheckComplains
  BY <1>3, EarlyKeeps, TemplatesKeep, StaticKeeps DEF CheckComplains
<1>4. CASE Agent
  BY <1>4, AgentKeeps
<1>5. CASE Restart \/ RestartAfterTornSave
  BY <1>5, LoadKeeps
<1>6. CASE UNCHANGED vars
  BY <1>6 DEF vars, workspace, lists, IInv, TypeOK, SafeFiles, PassMeansDone, PassMeansChecked
<1> QED  BY <1>1, <1>2, <1>3, <1>4, <1>5, <1>6 DEF Next

LEMMA AlwaysSafe == Spec => []IInv
BY InitSafe, StepSafe, PTL DEF Spec

(***************************************************************************)
(* Theorems                                                                *)
(***************************************************************************)

\* The lists of every checker stay well formed, through edits of the workspace,
\* entering the stage again, crashes and lost savepoints: in particular, no task
\* is noted as done that the batch does not hold.
THEOREM BatchesAreWellFormed == Spec => []TypeOK
<1>1. IInv => TypeOK
  BY DEF IInv
<1> QED  BY <1>1, AlwaysSafe, PTL

\* No batch lets a check pass while a task of the goal is not done.
THEOREM PassesAreEarned == Spec => []PassMeansDone
<1>1. IInv => PassMeansDone
  BY DEF IInv
<1> QED  BY <1>1, AlwaysSafe, PTL

\* No file of the list of a BatchFileProcess that passed was never let through,
\* though gen is the only memory of it, and that is lost and restored.
THEOREM PassesAreChecked == Spec => []PassMeansChecked
<1>1. IInv => PassMeansChecked
  BY DEF IInv
<1> QED  BY <1>1, AlwaysSafe, PTL

\* What a check does with a task of the batch that it drops.
LEMMA CheckFinishes ==
  ASSUME TypeOK, Check \/ CheckComplains
  PROVE  \A t \in tbd \ tbd' : t \in cmp \/ t \in gen' \/ t \notin source
<1> DEFINE Finished == \A t \in tbd \ tbd' : t \in cmp \/ t \in gen' \/ t \notin source
<1>1. CASE CheckMarks
  <2>1. DoComplete(goal, work, SyncedTbd, SyncedCmp, TRUE) /\ gen' = work
    BY <1>1 DEF CheckMarks
  <2> QED  BY <2>1, SyncedLosesStrangers, DoCompleteFinishes
<1>2. ASSUME NEW ok, CheckTemplates(ok) PROVE Finished
  <2>1. PICK verdict : DoComplete(goal, work, SyncedTbd, SyncedCmp, verdict) /\ gen' = work
    BY <1>2 DEF CheckTemplates
  <2> QED  BY <2>1, SyncedLosesStrangers, DoCompleteFinishes
<1>3. CASE CheckMocksUnmade \/ CheckMocksFailing
  BY <1>3, SyncedLosesStrangers DEF CheckMocksUnmade, CheckMocksFailing
<1>4. CASE CheckMocks
  <2>1. DoComplete(goal, goal, CurrentTbd(goal, gen, tbd), cmp, TRUE) /\ gen' = goal
    BY <1>4 DEF CheckMocks
  <2> QED  BY <2>1, SyncedLosesStrangers, DoCompleteFinishes
<1>5. ASSUME NEW ok, CheckStaticBlackBox(ok) PROVE Finished
  BY <1>5 DEF CheckStaticBlackBox, lists
<1>6. ASSUME NEW ok, CheckStatic(ok) PROVE Finished
  <2>1. PICK found, verdict : /\ found = gen'
                              /\ DoComplete(goal, found, SyncedTbd, SyncedCmp, verdict)
    BY <1>6 DEF CheckStatic
  <2> QED  BY <2>1, SyncedLosesStrangers, DoCompleteFinishes
<1>7. CASE CheckFilesNone \/ CheckFilesTooFew \/ CheckFilesRejected
  BY <1>7, SyncedLosesStrangers DEF CheckFilesNone, CheckFilesTooFew, CheckFilesRejected, lists
<1>8. CASE CheckFiles
  <2>1. PICK found : /\ found = gen'
                     /\ DoComplete(FilesSource, found, FilesBatch, cmp, TRUE)
    BY <1>8 DEF CheckFiles
  <2> QED  BY <2>1, SyncedLosesStrangers, DoCompleteFinishes
<1>9. CASE CheckFailsEarly
  BY <1>9 DEF CheckFailsEarly, Fails, lists
<1> QED  BY <1>1, <1>2, <1>3, <1>4, <1>5, <1>6, <1>7, <1>8, <1>9 DEF Check, CheckComplains

\* No check drops a task of its batch that nobody did.
THEOREM BatchesAreFinished == Spec => BatchIsFinished
<1>1. TypeOK /\ [Next]_vars =>
        [Check \/ CheckComplains
           => \A t \in tbd \ tbd' : t \in cmp \/ t \in gen' \/ t \notin source]_vars
  BY CheckFinishes
<1>2. IInv => TypeOK
  BY DEF IInv
<1> QED  BY <1>1, <1>2, AlwaysSafe, PTL DEF Spec, BatchIsFinished

(***************************************************************************)
(* What passes, passes again                                               *)
(***************************************************************************)
\* do_complete passes only with nothing left in the batch.
LEMMA DoCompletePasses ==
  ASSUME NEW src, src \subseteq Tasks, NEW gn, NEW tb, NEW cm, NEW ok,
         DoComplete(src, gn, tb, cm, ok), answer' = "pass"
  PROVE  src # {} /\ src \subseteq gn /\ tbd' = {} /\ (ok <=> TRUE)
<1>1. CASE NoSource(src, tb, cm)
  BY <1>1 DEF NoSource
<1>2. CASE NothingLeft(src, gn, tb, cm, ok)
  BY <1>2 DEF NothingLeft, Verdict
<1>3. CASE BatchGoesOn(src, gn, tb, cm)
  BY <1>3 DEF BatchGoesOn
<1>4. CASE BatchEnds(src, gn, tb, cm, ok)
  BY <1>4, NoBatchNothingMissing DEF BatchEnds, Verdict
<1> QED  BY <1>1, <1>2, <1>3, <1>4 DEF DoComplete

\* When just the source was generated, do_complete passes, whatever of the
\* source is in the batch.
LEMMA DonePasses ==
  ASSUME NEW src, src # {}, NEW tb, tb \subseteq src, NEW cm, NEW ok, ok,
         DoComplete(src, src, tb, cm, ok)
  PROVE  answer' = "pass"
<1>1. NextBatch(src, src) = {} /\ CurrentTbd(src, src, tb) \subseteq src
  BY BatchIsMissing DEF CurrentTbd
<1>2. CASE NoSource(src, tb, cm)
  BY <1>2 DEF NoSource
<1>3. CASE NothingLeft(src, src, tb, cm, ok)
  BY <1>3 DEF NothingLeft, Verdict
<1>4. CASE BatchGoesOn(src, src, tb, cm)
  BY <1>1, <1>4 DEF BatchGoesOn, Seen
<1>5. CASE BatchEnds(src, src, tb, cm, ok)
  BY <1>1, <1>5 DEF BatchEnds, Verdict
<1> QED  BY <1>2, <1>3, <1>4, <1>5 DEF DoComplete

\* After a check that passed, the lists say of the workspace that it is done.
Settled ==
  answer = "pass" /\ kind \in {"templates", "mocks", "static"} =>
    \/ kind = "static" /\ goal = {}
    \/ /\ goal # {} /\ source = goal /\ gen = goal /\ tbd = {} /\ goal \subseteq work
       /\ kind = "templates" => work = goal

\* The files a BatchFileProcess knows are those of its list, and after a check
\* that passed they are all of them.
FilesSettled ==
  kind = "files" =>
    /\ gen \subseteq source /\ tbd \subseteq source
    /\ savepoint.gen \subseteq savepoint.source
    /\ answer = "pass" /\ goal # {} => source # {} /\ gen = source /\ tbd = {}

LEMMA StepKind == [Next]_vars => kind' = kind
BY DEF Next, Enter, EnterMarks, EnterTemplates, EnterMocks, EnterStatic, EnterFiles, Opened,
   Agent, AddsTask, DropsTask, Does, Undoes, Edits, Restart, RestartAfterTornSave, Loads,
   Check, CheckComplains, CheckMarks, CheckTemplates, CheckMocksUnmade, CheckMocksFailing,
   CheckMocks, CheckStaticBlackBox, CheckStatic, CheckFilesNone, CheckFilesTooFew,
   CheckFilesRejected, CheckFiles, CheckFailsEarly, Fails, vars

LEMMA SettledStep == TypeOK /\ Settled /\ [Next]_vars => Settled'
<1> SUFFICES ASSUME TypeOK, Settled, [Next]_vars PROVE Settled'
  OBVIOUS
<1> USE DEF Settled, lists, workspace
<1>0. goal \subseteq Tasks
  BY DEF TypeOK
<1>1. CASE Enter \/ Agent \/ Restart \/ RestartAfterTornSave
  BY <1>1 DEF Enter, EnterMarks, EnterTemplates, EnterMocks, EnterStatic, EnterFiles, Opened,
     Agent, AddsTask, DropsTask, Does, Undoes, Edits, Restart, RestartAfterTornSave, Loads
<1>2. CASE CheckMarks \/ CheckFilesNone \/ CheckFilesTooFew \/ CheckFilesRejected \/ CheckFiles
  BY <1>2 DEF CheckMarks, CheckFilesNone, CheckFilesTooFew, CheckFilesRejected, CheckFiles
<1>3. ASSUME NEW ok, CheckTemplates(ok) PROVE Settled'
  <2>1. DoComplete(goal, work, SyncedTbd, SyncedCmp, ok /\ goal = work)
    BY <1>3 DEF CheckTemplates
  <2>2. answer' = "pass" => goal # {} /\ tbd' = {} /\ goal = work
    BY <1>0, <2>1, DoCompletePasses
  <2> QED  BY <1>3, <2>2 DEF CheckTemplates
<1>4. CASE CheckMocksUnmade \/ CheckMocksFailing
  BY <1>4 DEF CheckMocksUnmade, CheckMocksFailing
<1>5. CASE CheckMocks
  <2>1. answer' = "pass" => goal # {} /\ tbd' = {}
    BY <1>0, <1>5, DoCompletePasses DEF CheckMocks
  <2> QED  BY <1>5, <2>1 DEF CheckMocks
<1>6. ASSUME NEW ok, CheckStaticBlackBox(ok) PROVE Settled'
  BY <1>6 DEF CheckStaticBlackBox
<1>7. ASSUME NEW ok, CheckStatic(ok) PROVE Settled'
  <2>1. PICK found : found = gen' /\ DoComplete(goal, found, SyncedTbd, SyncedCmp, ok)
    BY <1>7 DEF CheckStatic
  <2>2. answer' = "pass" => goal # {} /\ tbd' = {} /\ goal \subseteq found
    BY <1>0, <2>1, DoCompletePasses
  <2> QED  BY <1>7, <2>1, <2>2 DEF CheckStatic
<1>8. CASE CheckFailsEarly \/ UNCHANGED vars
  BY <1>8 DEF CheckFailsEarly, Fails, vars
<1> QED  BY <1>1, <1>2, <1>3, <1>4, <1>5, <1>6, <1>7, <1>8 DEF Next, Check, CheckComplains

\* do_complete adds nothing to a list of files that is not in the source.
LEMMA DoCompleteStays ==
  ASSUME NEW src, NEW gn, NEW tb, tb \subseteq src, NEW cm, NEW ok, DoComplete(src, gn, tb, cm, ok)
  PROVE  /\ tbd' \subseteq src
         /\ savepoint' = savepoint \/ savepoint' = [source |-> src, gen |-> gn]
<1>1. NextBatch(src, gn) \subseteq src /\ CurrentTbd(src, gn, tb) \subseteq src
  BY BatchIsMissing DEF CurrentTbd
<1> QED  BY <1>1 DEF DoComplete, NoSource, NothingLeft, BatchGoesOn, BatchEnds

LEMMA FilesSettledStep ==
  ASSUME MiniInputs = 0, IsFiniteSet(Tasks), TypeOK, FilesSettled, [Next]_vars, kind = "files"
  PROVE  FilesSettled'
<1> USE DEF FilesSettled, lists, workspace
<1>1. FilesBatch \subseteq FilesSource /\ gen \subseteq FilesSource
  BY BatchIsMissing DEF FilesBatch, FilesSource, FilesKnown, CurrentTbd
<1>2. CASE Enter
  <2>1. CASE EnterFiles
    BY <1>1, <2>1 DEF EnterFiles, Opened, FilesSource, FilesBatch
  <2> QED  BY <1>2, <2>1 DEF Enter, EnterMarks, EnterTemplates, EnterMocks, EnterStatic
<1>3. CASE Agent \/ UNCHANGED vars
  BY <1>3 DEF Agent, AddsTask, DropsTask, Does, Undoes, Edits, vars
<1>4. CASE Restart \/ RestartAfterTornSave
  BY <1>4 DEF Restart, RestartAfterTornSave, Loads, NoSavepoint
<1>5. CASE CheckFilesNone
  BY <1>5 DEF CheckFilesNone
<1>6. CASE CheckFilesTooFew
  <2>1. FilesSource \subseteq Tasks
    BY BatchesWellFormed
  <2>2. Cardinality(FilesSource) \in Nat
    BY <2>1, FS_Subset, FS_CardinalityType
  <2> QED  BY <1>6, <2>2 DEF CheckFilesTooFew
<1>7. CASE CheckFilesRejected
  BY <1>1, <1>7 DEF CheckFilesRejected
<1>8. CASE CheckFiles
  <2>1. DoComplete(FilesSource, Generated, FilesBatch, cmp, TRUE) /\ FilesSource \subseteq Tasks
    BY <1>8, BatchesWellFormed DEF CheckFiles
  <2>2. Generated \subseteq FilesSource
    BY <1>1 DEF Generated
  <2>3. /\ tbd' \subseteq FilesSource
        /\ savepoint' = savepoint \/ savepoint' = [source |-> FilesSource, gen |-> Generated]
    BY <1>1, <2>1, DoCompleteStays
  <2>4. answer' = "pass" => FilesSource # {} /\ FilesSource \subseteq Generated /\ tbd' = {}
    BY <2>1, DoCompletePasses
  <2>5. source' = FilesSource /\ gen' = Generated
    BY <1>8 DEF CheckFiles
  <2> QED  BY <2>2, <2>3, <2>4, <2>5
<1>9. CASE (Check \/ CheckComplains)
           /\ ~(CheckFilesNone \/ CheckFilesTooFew \/ CheckFilesRejected \/ CheckFiles)
  BY <1>9 DEF Check, CheckComplains, CheckMarks, CheckTemplates, CheckMocksUnmade,
     CheckMocksFailing, CheckMocks, CheckStaticBlackBox, CheckStatic, CheckFailsEarly
<1> QED  BY <1>2, <1>3, <1>4, <1>5, <1>6, <1>7, <1>8, <1>9 DEF Next

\* A check of a workspace that is done, by lists that are not ahead of it.
LEMMA DoneStep ==
  ASSUME Check, kind # "files", goal # {}, goal = work, tbd \subseteq goal
  PROVE  answer' = "pass"
<1>1. /\ SyncedTbd \subseteq goal
      /\ CurrentTbd(goal, gen, tbd) \subseteq goal
  BY BatchIsMissing DEF SyncedTbd, CurrentTbd
<1>2. CASE CheckMarks
  BY <1>1, <1>2, DonePasses DEF CheckMarks
<1>3. CASE CheckTemplates(TRUE)
  <2>1. DoComplete(goal, goal, SyncedTbd, SyncedCmp, TRUE /\ goal = goal)
    BY <1>3 DEF CheckTemplates
  <2> QED  BY <1>1, <2>1, DonePasses
<1>4. CASE CheckMocksUnmade \/ CheckMocksFailing
  BY <1>4 DEF CheckMocksUnmade, CheckMocksFailing
<1>5. CASE CheckMocks
  BY <1>1, <1>5, DonePasses DEF CheckMocks
<1>6. CASE CheckStatic(TRUE)
  <2>1. PICK found : found = work \intersect goal /\ DoComplete(goal, found, SyncedTbd, SyncedCmp, TRUE)
    BY <1>6 DEF CheckStatic
  <2>2. found = goal
    BY <2>1
  <2> QED  BY <1>1, <2>1, <2>2, DonePasses
<1> QED  BY <1>2, <1>3, <1>4, <1>5, <1>6 DEF Check, CheckStaticBlackBox, CheckFilesNone,
            CheckFilesTooFew, CheckFilesRejected, CheckFiles

\* Mocks and static analyses may have done more than the goal when they pass.
LEMMA RepeatStep ==
  ASSUME TypeOK, Settled, FilesSettled, kind # "marks",
         kind = "files" => MiniInputs = 0 /\ IsFiniteSet(Tasks),
         Check, answer = "pass"
  PROVE  answer' = "pass"
<1>1. kind \in {"templates", "mocks", "static", "files"}
  BY BatchAssumption DEF TypeOK, AllKinds
<1>2. CASE kind \in {"templates", "mocks", "static"} /\ goal # {}
  <2>1. source = goal /\ gen = goal /\ tbd = {} /\ goal \subseteq work
    BY <1>2 DEF Settled
  <2>2. SyncedTbd = {} /\ CurrentTbd(goal, gen, tbd) = {}
    BY <2>1, BatchIsMissing DEF SyncedTbd, CurrentTbd
  <2>3. CASE CheckTemplates(TRUE)
    BY <1>2, <2>1, <2>3, DoneStep DEF CheckTemplates, Settled
  <2>4. CASE CheckMocksUnmade \/ CheckMocksFailing
    BY <1>2, <2>1, <2>2, <2>4 DEF CheckMocksUnmade, CheckMocksFailing
  <2>5. CASE CheckMocks
    <3>1. DoComplete(goal, goal, CurrentTbd(goal, gen, tbd), cmp, TRUE)
      BY <2>5 DEF CheckMocks
    <3> QED  BY <1>2, <2>2, <3>1, DonePasses
  <2>6. CASE CheckStatic(TRUE)
    <3>1. PICK found : found = work \intersect goal /\ DoComplete(goal, found, SyncedTbd, SyncedCmp, TRUE)
      BY <2>6 DEF CheckStatic
    <3>2. found = goal
      BY <2>1, <3>1
    <3> QED  BY <1>2, <2>2, <3>1, <3>2, DonePasses
  <2> QED  BY <1>2, <2>3, <2>4, <2>5, <2>6 DEF Check, CheckMarks, CheckStaticBlackBox,
              CheckFilesNone, CheckFilesTooFew, CheckFilesRejected, CheckFiles
<1>3. CASE kind \in {"templates", "mocks", "static"} /\ goal = {}
  <2>1. kind = "static"
    BY <1>3 DEF Settled
  <2> QED  BY <1>3, <2>1 DEF Check, CheckMarks, CheckTemplates, CheckMocksUnmade,
              CheckMocksFailing, CheckMocks, CheckStaticBlackBox, CheckStatic, CheckFilesNone,
              CheckFilesTooFew, CheckFilesRejected, CheckFiles, Verdict
<1>4. CASE kind = "files"
  <2>1. goal # {} => /\ FilesSource = source /\ FilesBatch = {} /\ Generated = source
                     /\ source # {} /\ source \subseteq Tasks
    BY <1>4 DEF FilesSettled, FilesSource, FilesBatch, FilesKnown, Generated, TypeOK
  <2>2. CASE CheckFilesNone
    BY <2>2 DEF CheckFilesNone
  <2>3. CASE CheckFilesTooFew
    <3>1. Cardinality(FilesSource) \in Nat
      BY <1>4, <2>1, <2>3, FS_Subset, FS_CardinalityType DEF CheckFilesTooFew
    <3> QED  BY <1>4, <2>3, <3>1 DEF CheckFilesTooFew
  <2>4. CASE CheckFilesRejected
    BY <2>1, <2>4 DEF CheckFilesRejected
  <2>5. CASE CheckFiles
    <3>1. DoComplete(source, source, {}, cmp, TRUE) /\ source # {}
      BY <2>1, <2>5 DEF CheckFiles
    <3> QED  BY <3>1, DonePasses
  <2> QED  BY <1>4, <2>2, <2>3, <2>4, <2>5 DEF Check, CheckMarks, CheckTemplates,
              CheckMocksUnmade, CheckMocksFailing, CheckMocks, CheckStaticBlackBox, CheckStatic
<1> QED  BY <1>1, <1>2, <1>3, <1>4

\* When no check asks for more than the work it counts, a check that passed passes
\* again.  A batch that ends at "marks", or at a list of files that was once too
\* short, lets pass what was done beyond the goal, and the next check does not.
THEOREM PassesAreRepeated ==
  ASSUME "marks" \notin Kinds,
         "files" \in Kinds => MiniInputs = 0 /\ IsFiniteSet(Tasks)
  PROVE  Spec => PassIsRepeated
<1> DEFINE RInv == Settled /\ FilesSettled
<1>1. Init => RInv
  BY DEF Init, Settled, FilesSettled, NoSavepoint
<1>2. TypeOK /\ RInv /\ [Next]_vars => RInv'
  BY StepKind, SettledStep, FilesSettledStep DEF TypeOK, FilesSettled
<1>3. TypeOK /\ RInv /\ [Next]_vars => [Check /\ answer = "pass" => answer' = "pass"]_vars
  BY RepeatStep DEF TypeOK
<1>4. IInv => TypeOK
  BY DEF IInv
<1> QED  BY <1>1, <1>2, <1>3, <1>4, AlwaysSafe, PTL DEF Spec, PassIsRepeated

\* When the work is what the workspace names, only a batch that asks for more can
\* hold up a check.
THEOREM DonePassed == Spec => DoneIsPassed
<1>1. [Next]_vars => [Check /\ kind # "files" /\ goal # {} /\ work = goal /\ tbd \subseteq goal
                        => answer' = "pass"]_vars
  BY DoneStep
<1> QED  BY <1>1, PTL DEF Spec, DoneIsPassed
=============================================================================
