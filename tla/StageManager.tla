---------------------------- MODULE StageManager ----------------------------
(***************************************************************************)
(* The stage machine of VeriAgent (stage/vmanager.py, stage/vstage.py):    *)
(* an ordered list of stages, a current index, per-stage flags, and the    *)
(* snapshot of all that in veriagent_info.json.                            *)
(*                                                                         *)
(* The manager has no lock.  Tool calls run on worker threads (the MCP     *)
(* server serialises calls of one tool only), the operator's commands run  *)
(* on the PDB, TUI or API thread, and the process may die at any point and *)
(* be started again from the snapshot.  A Complete call is the only long   *)
(* one: it runs the checkers, asks a reviewing LLM, commits the workspace  *)
(* and advances, and it is split where it leaves the manager's own code.   *)
(* Every other operation is short and is one step.                         *)
(***************************************************************************)
EXTENDS Integers

CONSTANTS
  N,            \* number of stages in the flattened list
  Callers,      \* threads that execute tool calls
  Below,        \* Below[i]: flattened descendants of stage i
  ConfigSkip,   \* stages the workflow marks skip (closed under Below)
  ConfigHuman,  \* stages with a checker whose need_human_check is set
  ConfigReview, \* stages the configured pass-suggestion LLM applies to
  ForceIndex,   \* what --force-stage-index may say; 0 is not giving it
  OpSkip,       \* stages the operator may skip or unskip
  OpHuman,      \* stages whose human check the operator may set
  OpReview      \* stages whose LLM review the operator may set

Stages == 0 .. N-1

ASSUME StagesAssumption ==
  /\ N \in Nat \ {0}
  /\ Below \in [Stages -> SUBSET Stages]
  /\ \A i \in Stages : \A j \in Below[i] : j < i /\ Below[j] \subseteq Below[i]

ASSUME ConfigAssumption ==
  /\ ConfigSkip \subseteq Stages
  /\ \A i \in ConfigSkip : Below[i] \subseteq ConfigSkip
  /\ ConfigHuman \subseteq Stages /\ ConfigReview \subseteq Stages
  /\ ForceIndex \in 0 .. N
  /\ OpSkip \subseteq Stages /\ OpHuman \subseteq Stages /\ OpReview \subseteq Stages

VARIABLES
  stage_index,  \* may be N (and, after a race, more): no current stage
  skip,
  is_reached,
  is_complete,
  journal,      \* meta_data holds a journal that satisfies the schema
  llm_approved,
  review,       \* the pass suggestion applies to the stage
  need_human,   \* need_human_check
  human,        \* _hum_check_passed: "none", "pass" or "fail"
  is_exit,      \* the agent was exited, by the Exit tool or by quit
  info,         \* what veriagent_info.json holds
  call,         \* the Complete call each thread is executing
  passed,       \* history: stages whose checkers passed in some Complete
  let_by,       \* history: stages that were ever skipped
  strayed       \* history: a Complete went on after the index had moved

flags  == <<skip, is_reached, is_complete, journal>>
gates  == <<llm_approved, review, need_human, human>>
ghosts == <<passed, let_by, strayed>>
vars   == <<stage_index, flags, gates, is_exit, info, call, ghosts>>

Idle == [pc |-> "idle", target |-> 0, stage |-> 0, moved |-> FALSE]

\* Faulty: the current stage is saved as unfinished.
SnapshotReopens(i, sk, re, co, jo) ==
  [saved |-> TRUE, index |-> i, skip |-> sk, reached |-> re,
   complete |-> [k \in Stages |-> co[k] /\ k # i], journal |-> jo]

Snapshot(i, sk, re, co, jo) ==
  [saved |-> TRUE, index |-> i, skip |-> sk,
   reached |-> re, complete |-> co, journal |-> jo]

NoInfo == [saved |-> FALSE, index |-> 0,
           skip     |-> [i \in Stages |-> FALSE],
           reached  |-> [i \in Stages |-> FALSE],
           complete |-> [i \in Stages |-> FALSE],
           journal  |-> [i \in Stages |-> FALSE]]

(***************************************************************************)
(* Helpers                                                                 *)
(***************************************************************************)

\* _go_skip_stage: j is where the index ends when it starts at i
GoSkip(i, sk, j) ==
  IF i >= N THEN j = i
  ELSE /\ j \in i .. N
       /\ \A k \in i .. j-1 : sk[k]
       /\ j < N => ~sk[j]

\* set_skip: a stage takes its substages along
SetSkip(sk, i, b) == [k \in Stages |-> IF k = i \/ k \in Below[i] THEN b ELSE sk[k]]

\* set_llm_pass_suggestion, with a value that is not None
SetReview(rv, i, b) == [k \in Stages |-> IF k = i \/ k \in Below[i] THEN b ELSE rv[k]]

\* init_stage restores the stages in list order and set_skip recurses, so
\* what a stage ends with is what was saved for its topmost ancestor
RestoredSkip(sk) ==
  [i \in Stages |->
     \E j \in Stages : /\ i = j \/ i \in Below[j]
                       /\ \A k \in Stages : i \in Below[k] => k <= j
                       /\ sk[j]]

\* save_stage_info
Saves(sk) == info' = Snapshot(stage_index, sk, is_reached, is_complete, journal)

\* _compute_all_completed
AllCompleted(i, sk, co) == i >= N \/ \A k \in Stages : sk[k] \/ co[k]

\* a change of the index is news to every Complete in flight but c's own
Disturb(c) == [d \in Callers |-> IF d # c /\ call[d].pc # "idle"
                                 THEN [call[d] EXCEPT !.moved = TRUE]
                                 ELSE call[d]]

Skipped(sk) == {i \in Stages : sk[i]}

(***************************************************************************)
(* Start of a process.  Init is the first one, with no file to read.       *)
(***************************************************************************)
\* each start is with --force-stage-index or without
Starts == {0, ForceIndex}

Init ==
  /\ skip = [i \in Stages |-> i \in ConfigSkip]
  /\ \E forced \in Starts : /\ is_reached = [i \in Stages |-> i <= forced]
                            /\ GoSkip(forced, skip, stage_index)
  /\ is_complete = [i \in Stages |-> FALSE]
  /\ journal = [i \in Stages |-> FALSE]
  /\ llm_approved = [i \in Stages |-> TRUE]
  /\ review = [i \in Stages |-> i \in ConfigReview]
  /\ need_human = [i \in Stages |-> i \in ConfigHuman]
  /\ human = [i \in Stages |-> "none"]
  /\ is_exit = FALSE
  /\ info = NoInfo
  /\ call = [c \in Callers |-> Idle]
  /\ passed = {}
  /\ let_by = ConfigSkip
  /\ strayed = FALSE

\* init_stage, on what was read from the file: the saved flags win over the
\* ones just computed, and the human-check and LLM flags are not in the file
Boots(read, forced) ==
  LET resumed == IF forced # 0 THEN forced
                 ELSE IF read.index > N THEN N ELSE read.index
  IN
  /\ skip' = IF read.saved THEN RestoredSkip(read.skip)
                           ELSE [i \in Stages |-> i \in ConfigSkip]
  /\ is_reached' = IF read.saved THEN read.reached
                                 ELSE [i \in Stages |-> i <= resumed]
  /\ GoSkip(resumed, skip', stage_index')
  /\ is_complete' = read.complete
  /\ journal' = read.journal
  /\ llm_approved' = [i \in Stages |-> TRUE]
  /\ review' = [i \in Stages |-> i \in ConfigReview]
  /\ need_human' = [i \in Stages |-> i \in ConfigHuman]
  /\ human' = [i \in Stages |-> "none"]
  /\ is_exit' = FALSE
  /\ call' = [c \in Callers |-> Idle]
  /\ let_by' = let_by \union Skipped(skip')
  /\ UNCHANGED <<passed, strayed>>

\* The process died, anywhere but in a save, or was told to quit.
Restart == (\E forced \in Starts : Boots(info, forced)) /\ UNCHANGED info

\* save_json_file truncates the file and then writes it.  A process that dies
\* in between leaves a file that load_json_file refuses, so that VeriAgent
\* only starts again when the operator passes --no-history.
RestartAfterTornSave == (\E forced \in Starts : Boots(NoInfo, forced)) /\ info' = NoInfo

(***************************************************************************)
(* Complete                                                                *)
(***************************************************************************)
Goes(c, pc) == call' = [call EXCEPT ![c].pc = pc]
Returns(c)  == call' = [call EXCEPT ![c] = Idle]

\* complete() picks the current stage and runs its checkers
CompleteStarts(c) ==
  /\ ~is_exit
  /\ call[c].pc = "idle"
  /\ stage_index < N
  /\ is_reached' = [is_reached EXCEPT ![stage_index] = TRUE]
  /\ call' = [call EXCEPT ![c] = [pc |-> "checking", target |-> stage_index,
                                  stage |-> stage_index, moved |-> FALSE]]
  /\ UNCHANGED <<stage_index, skip, is_complete, journal, gates, is_exit, info, ghosts>>

\* Faulty: the verdict of the checkers is dropped.
ChecksFailUnseen(c) ==
  /\ call[c].pc = "checking"
  /\ call' = [call EXCEPT ![c].pc = "deciding"]
  /\ UNCHANGED <<stage_index, flags, gates, is_exit, info, ghosts>>

ChecksFail(c) ==
  /\ call[c].pc = "checking"
  /\ Returns(c)
  /\ UNCHANGED <<stage_index, flags, gates, is_exit, info, ghosts>>

\* The stage is looked up again after the checkers, and it is that stage's
\* journal that is asked for
ChecksPassUnrecorded(c) ==
  /\ call[c].pc = "checking"
  /\ stage_index < N => ~journal[stage_index]
  /\ passed' = passed \union {call[c].target}
  /\ Returns(c)
  /\ UNCHANGED <<stage_index, flags, gates, is_exit, info, let_by, strayed>>

ChecksPass(c) ==
  /\ call[c].pc = "checking"
  /\ stage_index < N
  /\ journal[stage_index]
  /\ passed' = passed \union {call[c].target}
  /\ call' = [call EXCEPT ![c].pc = IF review[stage_index] THEN "reviewing" ELSE "deciding",
                          ![c].stage = stage_index]
  /\ llm_approved' = IF review[stage_index]
                     THEN [llm_approved EXCEPT ![stage_index] = FALSE]
                     ELSE llm_approved
  /\ UNCHANGED <<stage_index, flags, review, need_human, human, is_exit, info, let_by, strayed>>

\* ApproveStagePass, which the reviewing LLM may call
ReviewerSays(b) ==
  /\ \E c \in Callers : call[c].pc = "reviewing"
  /\ stage_index < N
  /\ llm_approved' = [llm_approved EXCEPT ![stage_index] = b]
  /\ UNCHANGED <<stage_index, flags, review, need_human, human, is_exit, info, call, ghosts>>

ReviewEnds(c) ==
  /\ call[c].pc = "reviewing"
  /\ Goes(c, "deciding")
  /\ UNCHANGED <<stage_index, flags, gates, is_exit, info, ghosts>>

\* a review that raises counts as an approval
ReviewRaises(c) ==
  /\ call[c].pc = "reviewing"
  /\ llm_approved' = [llm_approved EXCEPT ![call[c].stage] = TRUE]
  /\ Goes(c, "deciding")
  /\ UNCHANGED <<stage_index, flags, review, need_human, human, is_exit, info, ghosts>>

\* Faulty: the human is not asked, or is asked everywhere.
AdmittedByLLM(s) == llm_approved[s]
AdmittedByAll(s) == llm_approved[s] /\ human[s] = "pass"

Admitted(s) == llm_approved[s] /\ (need_human[s] => human[s] = "pass")

Refused(c) ==
  /\ call[c].pc = "deciding"
  /\ Admitted(call[c].stage) => stage_index >= N
  /\ Returns(c)
  /\ UNCHANGED <<stage_index, flags, gates, is_exit, info, ghosts>>

\* _stage_complete, on the stage that is current now; then the commit
Marks(c) ==
  /\ call[c].pc = "deciding"
  /\ Admitted(call[c].stage)
  /\ stage_index < N
  /\ is_complete' = [is_complete EXCEPT ![stage_index] = TRUE]
  /\ strayed' = (strayed \/ call[c].moved)
  /\ Goes(c, "advancing")
  /\ UNCHANGED <<stage_index, skip, is_reached, journal, gates, is_exit, info, passed, let_by>>

\* next_stage, which saves, and after that the new stage is marked reached
Advances(c) ==
  /\ call[c].pc = "advancing"
  /\ GoSkip(stage_index + 1, skip, stage_index')
  /\ info' = Snapshot(stage_index', skip, is_reached, is_complete, journal)
  /\ is_reached' = IF AllCompleted(stage_index', skip, is_complete) THEN is_reached
                   ELSE [is_reached EXCEPT ![stage_index'] = TRUE]
  /\ strayed' = (strayed \/ call[c].moved)
  /\ call' = [Disturb(c) EXCEPT ![c] = Idle]
  /\ UNCHANGED <<skip, is_complete, journal, gates, is_exit, passed, let_by>>

(***************************************************************************)
(* The other tools                                                         *)
(***************************************************************************)
Check(c) ==
  /\ ~is_exit
  /\ call[c].pc = "idle"
  /\ stage_index < N
  /\ is_reached' = [is_reached EXCEPT ![stage_index] = TRUE]
  /\ UNCHANGED <<stage_index, skip, is_complete, journal, gates, is_exit, info, call, ghosts>>

SetCurrentStageJournal(c) ==
  /\ ~is_exit
  /\ call[c].pc = "idle"
  /\ stage_index < N
  /\ journal' = [journal EXCEPT ![stage_index] = TRUE]
  /\ UNCHANGED <<stage_index, skip, is_reached, is_complete, gates, is_exit, info, call, ghosts>>

\* Faulty: is_reached is not looked at.
GoToAnyStage(c, i) ==
  /\ ~is_exit
  /\ call[c].pc = "idle"
  /\ i # stage_index
  /\ ~skip[i]
  /\ stage_index' = i
  /\ call' = Disturb(c)
  /\ UNCHANGED <<flags, gates, is_exit, info, ghosts>>

GoToStage(c, i) ==
  /\ ~is_exit
  /\ call[c].pc = "idle"
  /\ i # stage_index
  /\ ~skip[i]
  /\ is_reached[i]
  /\ stage_index' = i
  /\ call' = Disturb(c)
  /\ UNCHANGED <<flags, gates, is_exit, info, ghosts>>

Exit(c) ==
  /\ ~is_exit
  /\ call[c].pc = "idle"
  /\ AllCompleted(stage_index, skip, is_complete)
  /\ is_exit' = TRUE
  /\ Saves(skip)
  /\ UNCHANGED <<stage_index, flags, gates, call, ghosts>>

(***************************************************************************)
(* The operator: PDB commands, and the API call that edits stage flags     *)
(***************************************************************************)

\* skip_stage and unskip_stage; neither command saves
OperatorSkips(i) ==
  /\ i > stage_index
  /\ skip' = SetSkip(skip, i, TRUE)
  /\ let_by' = let_by \union Skipped(skip')
  /\ UNCHANGED <<stage_index, is_reached, is_complete, journal, gates, is_exit, info, call, passed, strayed>>

OperatorUnskips(i) ==
  /\ skip' = SetSkip(skip, i, FALSE)
  /\ UNCHANGED <<stage_index, is_reached, is_complete, journal, gates, is_exit, info, call, ghosts>>

OperatorNeedsHuman(i, b) ==
  /\ need_human' = [need_human EXCEPT ![i] = b]
  /\ UNCHANGED <<stage_index, flags, llm_approved, review, human, is_exit, info, call, ghosts>>

\* hmcheck_pass and hmcheck_fail act on the current stage
HumanSays(verdict) ==
  /\ stage_index < N
  /\ need_human[stage_index]
  /\ human' = [human EXCEPT ![stage_index] = verdict]
  /\ UNCHANGED <<stage_index, flags, llm_approved, review, need_human, is_exit, info, call, ghosts>>

OperatorSetsReview(i, b) ==
  /\ review' = SetReview(review, i, b)
  /\ UNCHANGED <<stage_index, flags, llm_approved, need_human, human, is_exit, info, call, ghosts>>

\* api_update_stage_flags refuses stages before the current one, completed
\* stages, and a change of skip for the current one; it saves
Editable(i) == i >= stage_index /\ ~is_complete[i]

ApiSkips(i, b) ==
  /\ Editable(i)
  /\ i # stage_index
  /\ skip' = SetSkip(skip, i, b)
  /\ let_by' = let_by \union Skipped(skip')
  /\ Saves(skip')
  /\ UNCHANGED <<stage_index, is_reached, is_complete, journal, gates, is_exit, call, passed, strayed>>

ApiNeedsHuman(i, b) ==
  /\ Editable(i)
  /\ need_human' = [need_human EXCEPT ![i] = b]
  /\ Saves(skip)
  /\ UNCHANGED <<stage_index, flags, llm_approved, review, human, is_exit, call, ghosts>>

ApiSetsReview(i, b) ==
  /\ Editable(i)
  /\ review' = SetReview(review, i, b)
  /\ Saves(skip)
  /\ UNCHANGED <<stage_index, flags, llm_approved, need_human, human, is_exit, call, ghosts>>

\* quit saves and exits the agent; Restart is the next process
Quit ==
  /\ is_exit' = TRUE
  /\ Saves(skip)
  /\ UNCHANGED <<stage_index, flags, gates, call, ghosts>>

CompleteNext(c) ==
  \/ CompleteStarts(c) \/ ChecksFail(c) \/ ChecksPassUnrecorded(c) \/ ChecksPass(c)
  \/ ReviewEnds(c) \/ ReviewRaises(c) \/ Refused(c) \/ Marks(c) \/ Advances(c)

ToolNext(c) ==
  \/ Check(c) \/ SetCurrentStageJournal(c) \/ Exit(c)
  \/ \E i \in Stages : GoToStage(c, i)

OperatorNext ==
  \/ \E i \in OpSkip : OperatorSkips(i) \/ OperatorUnskips(i)
  \/ \E i \in OpSkip, b \in BOOLEAN : ApiSkips(i, b)
  \/ \E i \in OpHuman, b \in BOOLEAN : OperatorNeedsHuman(i, b) \/ ApiNeedsHuman(i, b)
  \/ \E i \in OpReview, b \in BOOLEAN : OperatorSetsReview(i, b) \/ ApiSetsReview(i, b)
  \/ \E v \in {"pass", "fail"} : HumanSays(v)

Next ==
  \/ \E c \in Callers : CompleteNext(c) \/ ToolNext(c)
  \/ \E b \in BOOLEAN : ReviewerSays(b)
  \/ OperatorNext
  \/ Quit
  \/ Restart
  \/ RestartAfterTornSave

Spec == Init /\ [][Next]_vars

\* The supervisor's loop prompts the agent again until it exits, a call that
\* has begun goes on, a reviewer that is asked again and again answers, an
\* asked human answers, and an agent told to write a journal writes it.
Fairness ==
  /\ WF_vars(\E c \in Callers : CompleteStarts(c))
  /\ \A c \in Callers : /\ WF_vars(ChecksPass(c) \/ ChecksPassUnrecorded(c))
                        /\ WF_vars(ReviewEnds(c))
                        /\ WF_vars(Refused(c) \/ Marks(c))
                        /\ WF_vars(Advances(c))
                        /\ SF_vars(SetCurrentStageJournal(c))
  /\ SF_vars(ReviewerSays(TRUE))
  /\ WF_vars(HumanSays("pass"))

FairSpec == Spec /\ Fairness

(***************************************************************************)
(* Properties                                                              *)
(***************************************************************************)
Flag == [Stages -> BOOLEAN]

Info == [saved : BOOLEAN, index : Nat, skip : Flag,
         reached : Flag, complete : Flag, journal : Flag]

CallRecord == [pc : {"idle", "checking", "reviewing", "deciding", "advancing"},
               target : Stages, stage : Stages, moved : BOOLEAN]

\* Every variable has the values the code gives it.
TypeOK ==
  /\ stage_index \in Nat
  /\ skip \in Flag /\ is_reached \in Flag /\ is_complete \in Flag /\ journal \in Flag
  /\ llm_approved \in Flag /\ review \in Flag /\ need_human \in Flag
  /\ human \in [Stages -> {"none", "pass", "fail"}]
  /\ is_exit \in BOOLEAN
  /\ info \in Info
  /\ call \in [Callers -> CallRecord]
  /\ passed \subseteq Stages /\ let_by \subseteq Stages
  /\ strayed \in BOOLEAN

\* As long as no Complete call went on after the index had moved under it, a
\* stage that is complete, in memory or in the file, had its checkers pass in
\* a Complete call and has a journal, across any number of restarts.
CompletedWasChecked ==
  ~strayed => \A i \in Stages : is_complete[i] => i \in passed /\ journal[i]

Cleared(i) == is_complete[i] \/ i \in let_by \/ i < ForceIndex

\* With the same proviso no stage is jumped over: all that comes before a
\* stage one may go to was completed, or skipped at some time, or lies before
\* the stage the operator forced the start to.
NoStageJumped ==
  ~strayed => \A i \in Stages : is_reached[i] => \A j \in 0 .. i-1 : Cleared(j)

\* Exit ends the mission "after all stages are completed" (vmanager.py): with
\* the proviso nothing is left open, although an index past the last stage is
\* as good for it as all the flags, and whatever was skipped, gone back to or
\* restarted before.
ExitIsEarned ==
  [][\A c \in Callers : Exit(c) /\ ~strayed => \A i \in Stages : Cleared(i)]_vars

\* A completion that reached veriagent_info.json is not lost again, neither
\* from the file nor from memory, whatever crashes and races follow, except by
\* a crash in the middle of a save.
SavedCompletionSurvives ==
  [][\/ RestartAfterTornSave
     \/ \A i \in Stages : info.complete[i] => info'.complete[i] /\ is_complete'[i]]_vars

\* With the proviso, the stage that becomes complete is one whose own review
\* and human check let it through, although the code asks the stage it looked
\* up after the checkers and marks the one it looks up after the review.
CompletionGated ==
  [][\A i \in Stages :
       ~strayed' /\ is_complete'[i] /\ ~is_complete[i]
         => llm_approved[i] /\ (need_human[i] => human[i] = "pass")]_vars

\* A stage only loses its approval to a review of its own, or to one whose call
\* the index has moved under: ApproveStagePass speaks of the stage that is current
\* by then.  Nothing else can leave a stage to which no reviewer will come back.
RejectionIsOwn ==
  [][\A i \in Stages : llm_approved[i] /\ ~llm_approved'[i] =>
       \E c \in Callers :
         \/ call'[c].pc = "reviewing" /\ call'[c].stage = i
         \/ call[c].pc = "reviewing" /\ call[c].moved]_vars

\* The manager keeps the promise of Mission.
Promise == INSTANCE Mission WITH
  Tasks   <- Stages,
  checked <- passed,
  excused <- let_by \union {i \in Stages : i < ForceIndex},
  done    <- {i \in Stages : is_complete[i]},
  kept    <- {i \in Stages : info.complete[i]},
  fault   <- strayed

KeepsPromise == Promise!Spec

\* Once nobody rejects the work any more, goes elsewhere or restarts, and the
\* calls of Complete come from one thread, the mission comes to its end: nothing
\* left over from earlier rejections, races, restarts and detours blocks Complete
\* for ever.  Two threads may: each takes back the approval of the other.  And a
\* rejection may have fallen on a stage that nobody reviews, where nothing takes
\* it back, because the index moved while the reviewer was reading.
Accepting(c) ==
  \/ CompleteStarts(c)
  \/ \E d \in Callers :
       \/ ChecksPassUnrecorded(d) \/ ChecksPass(d)
       \/ ReviewEnds(d) \/ Refused(d) \/ Marks(d) \/ Advances(d)
       \/ SetCurrentStageJournal(d) \/ Exit(d)
  \/ ReviewerSays(TRUE) \/ HumanSays("pass")

Misjudged == stage_index < N /\ ~review[stage_index] /\ ~llm_approved[stage_index]

MissionFinishes ==
  \A c \in Callers :
    <>[][Accepting(c)]_vars => <>(stage_index >= N \/ is_exit) \/ <>[]Misjudged

(***************************************************************************)
(* A statement of the documentation that the code does not keep            *)
(***************************************************************************)

\* Complete marks "the stage as complete if all checks pass" (vmanager.py).
OnlyCheckedIsCompleted == \A i \in Stages : is_complete[i] => i \in passed
=============================================================================
