------------------------------ MODULE BatchTask ------------------------------
(***************************************************************************)
(* The batches in which a checker lets the agent work through a list of    *)
(* tasks (UnityChipBatchTask in checkers/base.py), with the five checkers  *)
(* that use them.  A check compares the goal, which the documents and the  *)
(* files of the workspace name, with the work done, and asks for the       *)
(* BatchSize first tasks that are missing.  The lists are written to a     *)
(* savepoint when a batch ends and read when the process starts.           *)
(*                                                                         *)
(* A check is one step: the agent waits for its answer.  Between checks    *)
(* the agent changes goal and work as it likes, the process may die, and   *)
(* the stage of the checker may be entered again.                          *)
(***************************************************************************)
EXTENDS Integers, FiniteSets

CONSTANTS
  Tasks,       \* all names of tasks, in the order of their sorting
  BatchSize,   \* batch_size of the checker
  Kinds,       \* checkers to be considered
  MiniInputs   \* mini_inputs of BatchFileProcess

\* UnityChipCheckerCoverageGroupBatchImplementation, UnityChipCheckerTestTemplate,
\* UnityChipCheckerTestMockTestBatch, UnityChipBatchCheckerStaticBug and
\* BatchFileProcess
AllKinds == {"marks", "templates", "mocks", "static", "files"}

ASSUME BatchAssumption ==
  /\ Tasks \subseteq Nat
  /\ BatchSize \in Nat \ {0}
  /\ Kinds \subseteq AllKinds
  /\ MiniInputs \in Nat

VARIABLES
  kind,       \* the checker; it never changes
  goal,       \* tasks the workspace names now
  work,       \* tasks that are done now
  source,     \* source_task_list
  gen,        \* gen_task_list
  tbd,        \* tbd_task_list: the current batch
  cmp,        \* cmp_task_list: those of the batch that were seen done
  savepoint,  \* the source and gen in the checkpoint file, or NoSavepoint
  opened,     \* the stage was entered "never", in this process ("ready"), or before ("stale")
  answer,     \* of the last check, until something changes
  checked     \* history: files do_one_file_check let pass

workspace == <<goal, work>>
lists     == <<source, gen, tbd, cmp>>
vars      == <<kind, workspace, lists, savepoint, opened, answer, checked>>

\* in the file, tbd_task_list and cmp_task_list are always empty
NoSavepoint == [source |-> {}, gen |-> {}]

Verdict(b) == IF b THEN "pass" ELSE "fail"

(***************************************************************************)
(* UnityChipBatchTask                                                      *)
(***************************************************************************)
FirstOf(S, n) == {t \in S : Cardinality({u \in S : u < t}) < n}

NextBatch(src, gn) == FirstOf(src \ gn, BatchSize)

\* Faulty: the batch is chosen anew every time.
FreshTbd(src, gn, tb) == NextBatch(src, gn)

\* update_current_tbd: a batch that is not empty stays
CurrentTbd(src, gn, tb) == IF tb = {} THEN NextBatch(src, gn) ELSE tb

\* sync_source_task, on a source that changed, cleans the batch up while the
\* old source is still in place
SyncedTbd == IF source = goal THEN tbd ELSE tbd \intersect source
SyncedCmp == IF source = goal THEN cmp ELSE cmp \intersect SyncedTbd

\* do_complete, by its four outcomes.  ok is what the checker still finds to
\* say when do_complete has passed.
NoSource(src, tb, cm) ==
  /\ src = {}
  /\ tbd' = tb /\ cmp' = cm /\ answer' = "fail"
  /\ UNCHANGED savepoint

NothingLeft(src, gn, tb, cm, ok) ==
  /\ src # {}
  /\ CurrentTbd(src, gn, tb) = {}
  /\ tbd' = {} /\ cmp' = cm /\ answer' = Verdict(src = gn /\ ok)
  /\ UNCHANGED savepoint

\* Faulty: what is done by now is not recorded.
SeenBefore(batch, gn, cm) == cm

Seen(batch, gn, cm) == cm \union (batch \intersect gn)

BatchGoesOn(src, gn, tb, cm) ==
  /\ src # {}
  /\ LET batch == CurrentTbd(src, gn, tb)
         done  == Seen(batch, gn, cm)
     IN /\ ~(batch \subseteq done)
        /\ tbd' = batch /\ cmp' = done /\ answer' = "fail"
  /\ UNCHANGED savepoint

\* Extra tasks in gen are not asked about here.  A task of the batch that was
\* seen done and is not any more comes back with the next batch.
BatchEnds(src, gn, tb, cm, ok) ==
  /\ src # {}
  /\ LET batch == CurrentTbd(src, gn, tb)
     IN batch # {} /\ batch \subseteq Seen(batch, gn, cm)
  /\ tbd' = NextBatch(src, gn) /\ cmp' = {} /\ answer' = Verdict(tbd' = {} /\ ok)
  /\ savepoint' = IF kind = "templates" THEN savepoint ELSE [source |-> src, gen |-> gn]

DoComplete(src, gn, tb, cm, ok) ==
  \/ NoSource(src, tb, cm)
  \/ NothingLeft(src, gn, tb, cm, ok)
  \/ BatchGoesOn(src, gn, tb, cm)
  \/ BatchEnds(src, gn, tb, cm, ok)

(***************************************************************************)
(* The start of a process and the entering of the stage                    *)
(***************************************************************************)
Init ==
  /\ kind \in Kinds
  /\ goal \in SUBSET Tasks
  /\ work = {} /\ source = {} /\ gen = {} /\ tbd = {} /\ cmp = {}
  /\ savepoint = NoSavepoint
  /\ opened = "never"
  /\ answer = "none"
  /\ checked = {}

\* set_stage loads the savepoint, but in "templates" the batch is only made in
\* on_init.  Nothing is read from a file that savepoint_file was writing when
\* the process died; the next savepoint replaces it.
Loads(read) ==
  /\ source' = read.source /\ gen' = read.gen /\ tbd' = {} /\ cmp' = {}
  /\ savepoint' = read
  /\ opened' = IF opened = "never" THEN "never" ELSE "stale"
  /\ answer' = "none"
  /\ UNCHANGED <<kind, workspace, checked>>

Restart == Loads(savepoint)

RestartAfterTornSave == Loads(NoSavepoint)

Opened ==
  /\ opened' = "ready" /\ answer' = "none"
  /\ UNCHANGED <<kind, workspace, savepoint, checked>>

\* on_init of the checkers, when complete() or init_stage arrives at the stage;
\* go_to_stage does not call it.  "marks" takes the list an earlier stage left
\* in memory, which may be older than the document, or missing.
EnterMarks(left) ==
  /\ kind = "marks"
  /\ source' = left
  /\ tbd' = CurrentTbd(left, gen, tbd)
  /\ UNCHANGED <<gen, cmp>>
  /\ Opened

EnterTemplates ==
  /\ kind = "templates"
  /\ source' = goal /\ gen' = {} /\ tbd' = NextBatch(goal, {}) /\ cmp' = {}
  /\ Opened

EnterMocks ==
  /\ kind = "mocks"
  /\ source' = goal
  /\ tbd' = CurrentTbd(goal, gen, tbd)
  /\ UNCHANGED <<gen, cmp>>
  /\ Opened

EnterStatic ==
  /\ kind = "static"
  /\ IF goal = {} THEN UNCHANGED lists
     ELSE /\ source' = goal
          /\ gen' = work \intersect goal
          /\ tbd' = CurrentTbd(goal, gen', (tbd \intersect goal) \ gen')
          /\ cmp' = {}
  /\ Opened

\* init_batch_task: the list of files is read once
FilesKnown == goal = {} \/ source # {} \/ cmp # {}

EnterFiles ==
  /\ kind = "files"
  /\ IF FilesKnown THEN UNCHANGED lists
     ELSE /\ source' = goal
          /\ tbd' = CurrentTbd(goal, gen, tbd)
          /\ UNCHANGED <<gen, cmp>>
  /\ Opened

(***************************************************************************)
(* do_check of the checkers                                                *)
(***************************************************************************)
Fails == /\ answer' = "fail"
         /\ UNCHANGED <<kind, workspace, lists, savepoint, opened, checked>>

\* A check may end before it comes to the batch: the tests do not run, a
\* document does not parse, the batch was never made in this process.
CheckFailsEarly ==
  /\ opened # "never"
  /\ kind \in {"marks", "templates", "mocks"}
  /\ Fails

\* Faulty: do_complete comes before sync_gen_task.
CheckMarksUnsynced ==
  /\ kind = "marks" /\ opened # "never"
  /\ goal # {}
  /\ source' = goal /\ gen' = work
  /\ DoComplete(goal, gen, SyncedTbd, SyncedCmp, TRUE)
  /\ UNCHANGED <<kind, workspace, opened, checked>>

CheckMarks ==
  /\ kind = "marks" /\ opened # "never"
  /\ goal # {}
  /\ source' = goal /\ gen' = work
  /\ DoComplete(goal, work, SyncedTbd, SyncedCmp, TRUE)
  /\ UNCHANGED <<kind, workspace, opened, checked>>

\* The checks after do_complete do not pass unless every mark is in the document
CheckTemplates(ok) ==
  /\ kind = "templates" /\ opened = "ready"
  /\ source' = goal /\ gen' = work
  /\ DoComplete(goal, work, SyncedTbd, SyncedCmp, ok /\ goal = work)
  /\ UNCHANGED <<kind, workspace, opened, checked>>

\* The lists are not synchronised, and every mock component has to pass before
\* do_complete is called, whatever the batch is.
CheckMocksUnmade ==
  /\ kind = "mocks" /\ opened # "never"
  /\ source' = goal
  /\ tbd' = CurrentTbd(goal, gen, tbd)
  /\ goal = {} \/ ~(tbd' \intersect goal \subseteq work)
  /\ answer' = "fail"
  /\ UNCHANGED <<kind, workspace, gen, cmp, savepoint, opened, checked>>

CheckMocksFailing ==
  /\ kind = "mocks" /\ opened # "never"
  /\ ~(goal \subseteq work)
  /\ source' = goal /\ gen' = goal \intersect work
  /\ tbd' = CurrentTbd(goal, gen, tbd)
  /\ answer' = "fail"
  /\ UNCHANGED <<kind, workspace, cmp, savepoint, opened, checked>>

CheckMocks ==
  /\ kind = "mocks" /\ opened # "never"
  /\ goal # {} /\ goal \subseteq work
  /\ source' = goal /\ gen' = goal
  /\ DoComplete(goal, goal, CurrentTbd(goal, gen, tbd), cmp, TRUE)
  /\ UNCHANGED <<kind, workspace, opened, checked>>

\* no file to analyse: the document may say so, and then the check passes
CheckStaticBlackBox(documented) ==
  /\ kind = "static" /\ opened # "never"
  /\ goal = {}
  /\ answer' = Verdict(documented)
  /\ UNCHANGED <<kind, workspace, lists, savepoint, opened, checked>>

\* Faulty: tags of files that are gone are counted.
CheckStaticUnfiltered(ok) ==
  /\ kind = "static" /\ opened # "never"
  /\ goal # {}
  /\ source' = goal /\ gen' = work
  /\ DoComplete(goal, gen', SyncedTbd, SyncedCmp, ok)
  /\ UNCHANGED <<kind, workspace, opened, checked>>

\* ok: the format of the document, which is checked last
CheckStatic(ok) ==
  /\ kind = "static" /\ opened # "never"
  /\ goal # {}
  /\ source' = goal /\ gen' = work \intersect goal
  /\ DoComplete(goal, gen', SyncedTbd, SyncedCmp, ok)
  /\ UNCHANGED <<kind, workspace, opened, checked>>

\* whatever mini_inputs is
CheckFilesNone ==
  /\ kind = "files" /\ opened # "never"
  /\ goal = {}
  /\ answer' = "pass"
  /\ UNCHANGED <<kind, workspace, lists, savepoint, opened, checked>>

\* init_batch_task again, and then the files of the batch one by one
FilesSource == IF FilesKnown THEN source ELSE goal
FilesBatch  == IF FilesKnown THEN tbd ELSE CurrentTbd(goal, gen, tbd)

CheckFilesTooFew ==
  /\ kind = "files" /\ opened # "never"
  /\ goal # {}
  /\ Cardinality(FilesSource) < MiniInputs
  /\ source' = {} /\ tbd' = FilesBatch
  /\ answer' = "fail"
  /\ UNCHANGED <<kind, workspace, gen, cmp, savepoint, opened, checked>>

CheckFilesRejected ==
  /\ kind = "files" /\ opened # "never"
  /\ goal # {}
  /\ Cardinality(FilesSource) >= MiniInputs
  /\ ~(FilesBatch \subseteq work)
  /\ source' = FilesSource /\ tbd' = FilesBatch
  /\ answer' = "fail"
  /\ UNCHANGED <<kind, workspace, gen, cmp, savepoint, opened, checked>>

\* Faulty: the batch that is recorded is not the one that was read.
GeneratedAhead == gen \union CurrentTbd(FilesSource, gen, FilesBatch)

Generated == gen \union FilesBatch

CheckFiles ==
  /\ kind = "files" /\ opened # "never"
  /\ goal # {}
  /\ Cardinality(FilesSource) >= MiniInputs
  /\ FilesBatch \subseteq work
  /\ checked' = checked \union FilesBatch
  /\ source' = FilesSource /\ gen' = Generated
  /\ DoComplete(FilesSource, Generated, FilesBatch, cmp, TRUE)
  /\ UNCHANGED <<kind, workspace, opened>>

(***************************************************************************)
(* The agent, in the workspace                                             *)
(***************************************************************************)
Edits == /\ answer' = "none"
         /\ UNCHANGED <<kind, lists, savepoint, opened, checked>>

AddsTask(t)  == t \notin goal /\ goal' = goal \union {t} /\ UNCHANGED work /\ Edits
DropsTask(t) == t \in goal    /\ goal' = goal \ {t}      /\ UNCHANGED work /\ Edits
Does(t)      == t \notin work /\ work' = work \union {t} /\ UNCHANGED goal /\ Edits
Undoes(t)    == t \in work    /\ work' = work \ {t}      /\ UNCHANGED goal /\ Edits

Enter ==
  \/ \E left \in SUBSET Tasks : EnterMarks(left)
  \/ EnterTemplates \/ EnterMocks \/ EnterStatic \/ EnterFiles

\* a check that nothing but the state of the tasks can make fail
Check ==
  \/ CheckMarks \/ CheckTemplates(TRUE)
  \/ CheckMocksUnmade \/ CheckMocksFailing \/ CheckMocks
  \/ CheckStaticBlackBox(TRUE) \/ CheckStatic(TRUE)
  \/ CheckFilesNone \/ CheckFilesTooFew \/ CheckFilesRejected \/ CheckFiles

CheckComplains ==
  \/ CheckFailsEarly
  \/ CheckTemplates(FALSE) \/ CheckStaticBlackBox(FALSE) \/ CheckStatic(FALSE)

Agent == \E t \in Tasks : AddsTask(t) \/ DropsTask(t) \/ Does(t) \/ Undoes(t)

Next == Enter \/ Check \/ CheckComplains \/ Agent \/ Restart \/ RestartAfterTornSave

Spec == Init /\ [][Next]_vars

\* What an agent does that follows the answers: the tasks of the batch, and
\* the failing ones that are listed; a file that is asked for and is gone is
\* made again; what is in the result but not in the goal is taken out.
Asked(t) == t \in goal \union tbd

Obeys ==
  \/ Check
  \/ \E t \in Tasks : /\ Asked(t)
                      /\ Does(t) \/ AddsTask(t)
  \/ \E t \in Tasks : ~Asked(t) /\ Undoes(t)

\* The supervisor has the agent check again and again, and the agent works.
Fairness ==
  /\ WF_vars(Check)
  /\ \A t \in Tasks : /\ WF_vars(Asked(t) /\ Does(t))
                      /\ WF_vars(~Asked(t) /\ Undoes(t))
                      /\ WF_vars(/\ kind \in {"mocks", "static", "files"}
                                 /\ Asked(t) /\ AddsTask(t))

FairSpec == Spec /\ Fairness

(***************************************************************************)
(* Properties                                                              *)
(***************************************************************************)

\* Every list holds tasks, and a batch is never larger than allowed.
TypeOK ==
  /\ kind \in Kinds
  /\ goal \subseteq Tasks /\ work \subseteq Tasks
  /\ source \subseteq Tasks /\ gen \subseteq Tasks
  /\ tbd \subseteq Tasks /\ cmp \subseteq tbd
  /\ savepoint \in [source : SUBSET Tasks, gen : SUBSET Tasks]
  /\ opened \in {"never", "ready", "stale"}
  /\ answer \in {"none", "fail", "pass"}
  /\ checked \subseteq Tasks

\* When a check passes, all that the workspace names is done, though the
\* batches were taken from lists of earlier checks, of a savepoint or of
\* another stage, and though a task seen done may have been undone since.
PassMeansDone == answer = "pass" /\ kind # "files" => goal \subseteq work

\* BatchFileProcess does not look at the work again, but it passes only when
\* each file of its list was let through once, before or after a restart.
PassMeansChecked ==
  answer = "pass" /\ kind = "files" /\ goal # {} => source \subseteq checked

\* A task leaves the batch only when a check saw it done, or when it is no
\* longer in the source list, or when the stage is entered anew.
BatchIsFinished ==
  [][Check \/ CheckComplains
       => \A t \in tbd \ tbd' : t \in cmp \/ t \in gen' \/ t \notin source]_vars

\* Once the agent only does what it is asked for, the checks pass: no list left
\* over from earlier goals, lost work or a savepoint asks for it in vain.
BatchesFinish ==
  /\ <>[][Obeys]_vars
  /\ <>[](/\ opened = "ready" /\ goal # {}
          /\ kind = "files" => Cardinality(goal) >= MiniInputs)
  => <>(answer = "pass")

\* A check that passed tells the agent to "call `Complete` to next stage", which
\* checks again.  If nothing was changed, that check passes too.
PassIsRepeated == [][Check /\ answer = "pass" => answer' = "pass"]_vars

\* When the work is exactly what the workspace names, the next check passes,
\* whatever the lists, the savepoint and the other stages have left, unless the
\* batch holds a task that is not named any more.
DoneIsPassed ==
  [][Check /\ kind # "files" /\ goal # {} /\ work = goal /\ tbd \subseteq goal
       => answer' = "pass"]_vars
=============================================================================
