------------------------- MODULE StageManagerProofs -------------------------
(***************************************************************************)
(* Proofs about StageManager, for any number of stages, any tree of        *)
(* substages and any number of threads.                                    *)
(*                                                                         *)
(* None of the safety properties is inductive.  What carries them is       *)
(*   SafeFile     a saved completion is still complete in memory;          *)
(*   SafeSkip     what is skipped now is in the history let_by;            *)
(*   SafeCalls    while nobody moved the index under a Complete call, the  *)
(*                index is still the stage the call was made for, and      *)
(*                what the call has established is about that stage;       *)
(*   SafeStages   all before the index, before a reached stage, and before *)
(*                their saved counterparts, is cleared.                    *)
(***************************************************************************)
EXTENDS StageManager, TLAPS

SafeFile ==
  /\ \A i \in Stages : info.complete[i] => is_complete[i]
  /\ ~info.saved => info = NoInfo

SafeSkip == \A i \in Stages : skip[i] => i \in let_by

SafeCalls ==
  \A c \in Callers :
    call[c].pc # "idle" /\ ~call[c].moved =>
      /\ stage_index = call[c].target
      /\ call[c].pc \in {"reviewing", "deciding"} =>
           /\ call[c].stage = call[c].target
           /\ call[c].target \in passed
           /\ journal[call[c].target]
      /\ call[c].pc = "advancing" => is_complete[call[c].target]

Excused(j) == j \in let_by \/ j < ForceIndex

SafeStages ==
  /\ \A i \in Stages : is_complete[i] => i \in passed /\ journal[i]
  /\ \A i \in Stages : info.complete[i] => info.journal[i]
  /\ \A j \in Stages : j < stage_index => is_complete[j] \/ Excused(j)
  /\ \A j \in Stages : j < info.index => info.complete[j] \/ Excused(j)
  /\ \A i, j \in Stages : is_reached[i] /\ j < i => is_complete[j] \/ Excused(j)
  /\ \A i, j \in Stages : info.reached[i] /\ j < i => info.complete[j] \/ Excused(j)

IInv ==
  /\ TypeOK
  /\ SafeFile
  /\ SafeSkip
  /\ SafeCalls
  /\ ~strayed => SafeStages

(***************************************************************************)
(* Facts about the helpers                                                 *)
(***************************************************************************)

\* _go_skip_stage only moves forward, and only over skipped stages.
LEMMA GoSkipForward ==
  ASSUME NEW i \in Nat, NEW sk, NEW j, GoSkip(i, sk, j)
  PROVE  /\ j \in Nat /\ i <= j
         /\ \A k \in Stages : i <= k /\ k < j => sk[k]
<1>1. CASE i >= N
  BY <1>1, StagesAssumption DEF GoSkip, Stages
<1>2. CASE ~(i >= N)
  <2>1. /\ j \in i .. N
        /\ \A k \in i .. j-1 : sk[k]
    BY <1>2 DEF GoSkip
  <2>2. j \in Nat /\ i <= j
    BY <2>1, StagesAssumption
  <2>3. ASSUME NEW k \in Stages, i <= k, k < j
        PROVE  sk[k]
    BY <2>1, <2>2, <2>3, StagesAssumption DEF Stages
  <2> QED BY <2>2, <2>3
<1> QED BY <1>1, <1>2

\* set_skip yields one flag per stage.
LEMMA SetSkipType ==
  ASSUME NEW sk \in Flag, NEW i \in Stages, NEW b \in BOOLEAN
  PROVE  SetSkip(sk, i, b) \in Flag
BY DEF SetSkip, Flag

\* set_llm_pass_suggestion yields one flag per stage.
LEMMA SetReviewType ==
  ASSUME NEW rv \in Flag, NEW i \in Stages, NEW b \in BOOLEAN
  PROVE  SetReview(rv, i, b) \in Flag
BY DEF SetReview, Flag

\* What init_stage restores is one flag per stage.
LEMMA RestoredSkipType == ASSUME NEW sk PROVE RestoredSkip(sk) \in Flag
BY DEF RestoredSkip, Flag

LEMMA ZeroIsAStage == 0 \in Stages
BY StagesAssumption DEF Stages

LEMMA IdleType == Idle \in CallRecord
BY ZeroIsAStage DEF Idle, CallRecord

\* A Complete call that moves on, or returns, is still a record of a call.
LEMMA CallUpdate ==
  ASSUME call \in [Callers -> CallRecord], NEW c \in Callers
  PROVE  /\ \A r \in CallRecord : [call EXCEPT ![c] = r] \in [Callers -> CallRecord]
         /\ \A pc \in {"idle", "checking", "reviewing", "deciding", "advancing"} :
              [call EXCEPT ![c].pc = pc] \in [Callers -> CallRecord]
BY DEF CallRecord

\* Disturb only touches the moved flag of the other calls.
LEMMA DisturbKeeps ==
  ASSUME call \in [Callers -> CallRecord], NEW c \in Callers
  PROVE  /\ Disturb(c) \in [Callers -> CallRecord]
         /\ Disturb(c)[c] = call[c]
         /\ \A d \in Callers : d # c /\ Disturb(c)[d].pc # "idle" => Disturb(c)[d].moved
BY DEF Disturb, CallRecord

(***************************************************************************)
(* Type correctness                                                        *)
(***************************************************************************)
LEMMA InitTyped == Init => TypeOK
<1> SUFFICES ASSUME Init PROVE TypeOK
  OBVIOUS
<1>1. stage_index \in Nat
  BY GoSkipForward, ConfigAssumption, StagesAssumption DEF Init, Starts
<1>2. call \in [Callers -> CallRecord]
  BY IdleType DEF Init
<1>3. info \in Info
  BY DEF Init, NoInfo, Info, Flag
<1>4. let_by \subseteq Stages
  BY ConfigAssumption DEF Init
<1>5. /\ skip \in Flag /\ is_reached \in Flag /\ is_complete \in Flag /\ journal \in Flag
      /\ llm_approved \in Flag /\ review \in Flag /\ need_human \in Flag
  BY DEF Init, Flag
<1>6. human \in [Stages -> {"none", "pass", "fail"}]
  BY DEF Init
<1> QED BY <1>1, <1>2, <1>3, <1>4, <1>5, <1>6 DEF Init, TypeOK

\* save_stage_info writes a well-typed snapshot.
LEMMA SavesTyped ==
  ASSUME TypeOK, NEW sk \in Flag, Saves(sk)
  PROVE  info' \in Info
BY DEF TypeOK, Saves, Snapshot, Info

LEMMA NoInfoType == NoInfo \in Info
BY DEF NoInfo, Info, Flag

\* init_stage yields a well-typed state from any snapshot.
LEMMA BootTyped ==
  ASSUME TypeOK, NEW read \in Info, NEW forced \in Starts, Boots(read, forced), info' \in Info
  PROVE  TypeOK'
<1> DEFINE resumed == IF forced # 0 THEN forced
                      ELSE IF read.index > N THEN N ELSE read.index
<1>1. resumed \in Nat
  BY StagesAssumption, ConfigAssumption DEF Info, Starts
<1>2. GoSkip(resumed, skip', stage_index')
  BY DEF Boots
<1>3. stage_index' \in Nat
  BY <1>1, <1>2, GoSkipForward
<1>4. skip' \in Flag
  BY RestoredSkipType DEF Boots, Flag
<1>5. call' \in [Callers -> CallRecord]
  BY IdleType DEF Boots
<1>6. /\ is_reached' \in Flag
      /\ is_complete' \in Flag
      /\ journal' \in Flag
  BY DEF Boots, Info, Flag
<1>7. /\ llm_approved' \in Flag /\ review' \in Flag /\ need_human' \in Flag
      /\ human' \in [Stages -> {"none", "pass", "fail"}]
  BY DEF Boots, Flag
<1>8. let_by' \subseteq Stages
  BY DEF Boots, Skipped, TypeOK
<1> QED BY <1>3, <1>4, <1>5, <1>6, <1>7, <1>8 DEF Boots, TypeOK

LEMMA NextTyped == TypeOK /\ [Next]_vars => TypeOK'
<1> SUFFICES ASSUME TypeOK, [Next]_vars PROVE TypeOK'
  OBVIOUS
<1> USE DEF TypeOK
<1>1. ASSUME NEW c \in Callers, CompleteNext(c) PROVE TypeOK'
  <2>0. ASSUME Returns(c) PROVE call' \in [Callers -> CallRecord]
    BY <2>0, IdleType, CallUpdate DEF Returns
  <2>1. CASE CompleteStarts(c)
    <3>1. stage_index \in Stages
      BY <2>1, StagesAssumption DEF CompleteStarts, Stages
    <3>2. [pc |-> "checking", target |-> stage_index,
           stage |-> stage_index, moved |-> FALSE] \in CallRecord
      BY <3>1 DEF CallRecord
    <3>3. call' \in [Callers -> CallRecord]
      BY <2>1, <3>2, CallUpdate DEF CompleteStarts
    <3>4. is_reached' \in Flag
      BY <2>1 DEF CompleteStarts, Flag
    <3> QED BY <2>1, <3>3, <3>4 DEF CompleteStarts, gates, ghosts
  <2>2. CASE ChecksFail(c)
    BY <2>2, <2>0 DEF ChecksFail, flags, gates, ghosts
  <2>3. CASE ChecksPassUnrecorded(c)
    <3>1. call[c].target \in Stages
      BY DEF CallRecord
    <3> QED BY <2>3, <2>0, <3>1 DEF ChecksPassUnrecorded, flags, gates
  <2>4. CASE ChecksPass(c)
    <3>1. stage_index \in Stages
      BY <2>4, StagesAssumption DEF ChecksPass, Stages
    <3>2. llm_approved' \in Flag
      BY <2>4, <3>1 DEF ChecksPass, Flag
    <3>3. call' \in [Callers -> CallRecord]
      <4> DEFINE r == [call[c] EXCEPT !.pc = IF review[stage_index] THEN "reviewing"
                                                                   ELSE "deciding",
                                      !.stage = stage_index]
      <4>1. r \in CallRecord
        BY <3>1 DEF CallRecord
      <4>2. call' = [call EXCEPT ![c] = r]
        BY <2>4 DEF ChecksPass
      <4> QED BY <4>1, <4>2, CallUpdate
    <3>4. call[c].target \in Stages
      BY DEF CallRecord
    <3> QED BY <2>4, <3>2, <3>3, <3>4 DEF ChecksPass, flags
  <2>5. CASE ReviewEnds(c)
    BY <2>5, CallUpdate DEF ReviewEnds, Goes, flags, gates, ghosts
  <2>6. CASE ReviewRaises(c)
    <3>1. llm_approved' \in Flag
      BY <2>6 DEF ReviewRaises, Flag
    <3> QED BY <2>6, <3>1, CallUpdate DEF ReviewRaises, Goes, flags, ghosts
  <2>7. CASE Refused(c)
    BY <2>7, <2>0 DEF Refused, flags, gates, ghosts
  <2>8. CASE Marks(c)
    <3>1. is_complete' \in Flag
      BY <2>8 DEF Marks, Flag
    <3>2. strayed' \in BOOLEAN
      BY <2>8 DEF Marks, CallRecord
    <3> QED BY <2>8, <3>1, <3>2, CallUpdate DEF Marks, Goes, gates
  <2>9. CASE Advances(c)
    <3>1. stage_index' \in Nat
      BY <2>9, GoSkipForward DEF Advances
    <3>2. is_reached' \in Flag
      BY <2>9 DEF Advances, Flag
    <3>3. info' \in Info
      BY <2>9, <3>1 DEF Advances, Snapshot, Info
    <3>4. call' \in [Callers -> CallRecord]
      BY <2>9, DisturbKeeps, IdleType DEF Advances
    <3>5. strayed' \in BOOLEAN
      BY <2>9 DEF Advances, CallRecord
    <3> QED BY <2>9, <3>1, <3>2, <3>3, <3>4, <3>5 DEF Advances, gates
  <2> QED BY <1>1, <2>1, <2>2, <2>3, <2>4, <2>5, <2>6, <2>7, <2>8, <2>9 DEF CompleteNext
<1>2. ASSUME NEW c \in Callers, ToolNext(c) PROVE TypeOK'
  <2>1. CASE Check(c)
    BY <2>1 DEF Check, gates, ghosts, Flag
  <2>2. CASE SetCurrentStageJournal(c)
    BY <2>2 DEF SetCurrentStageJournal, gates, ghosts, Flag
  <2>3. CASE Exit(c)
    BY <2>3, SavesTyped DEF Exit, flags, gates, ghosts
  <2>4. ASSUME NEW i \in Stages, GoToStage(c, i) PROVE TypeOK'
    <3>1. call' \in [Callers -> CallRecord]
      BY <2>4, DisturbKeeps DEF GoToStage
    <3>2. stage_index' \in Nat
      BY <2>4, StagesAssumption DEF GoToStage, Stages
    <3> QED BY <2>4, <3>1, <3>2 DEF GoToStage, flags, gates, ghosts, CallRecord
  <2> QED BY <1>2, <2>1, <2>2, <2>3, <2>4 DEF ToolNext
<1>3. ASSUME NEW b \in BOOLEAN, ReviewerSays(b) PROVE TypeOK'
  BY <1>3 DEF ReviewerSays, flags, ghosts, Flag
<1>4. CASE OperatorNext
  <2>1. ASSUME NEW i \in OpSkip, OperatorSkips(i) PROVE TypeOK'
    <3>1. skip' \in Flag
      BY <2>1, SetSkipType, ConfigAssumption DEF OperatorSkips
    <3> QED BY <2>1, <3>1 DEF OperatorSkips, Skipped, gates
  <2>2. ASSUME NEW i \in OpSkip, OperatorUnskips(i) PROVE TypeOK'
    BY <2>2, SetSkipType, ConfigAssumption DEF OperatorUnskips, gates, ghosts
  <2>3. ASSUME NEW i \in OpSkip, NEW b \in BOOLEAN, ApiSkips(i, b) PROVE TypeOK'
    <3>1. skip' \in Flag
      BY <2>3, SetSkipType, ConfigAssumption DEF ApiSkips
    <3> QED BY <2>3, <3>1 DEF ApiSkips, Skipped, Saves, Snapshot, Info, gates
  <2>4. ASSUME NEW i \in OpHuman, NEW b \in BOOLEAN,
               OperatorNeedsHuman(i, b) \/ ApiNeedsHuman(i, b)
        PROVE TypeOK'
    <3>1. need_human' \in Flag
      BY <2>4 DEF OperatorNeedsHuman, ApiNeedsHuman, Flag
    <3>2. info' \in Info
      BY <2>4, SavesTyped DEF OperatorNeedsHuman, ApiNeedsHuman
    <3> QED BY <2>4, <3>1, <3>2 DEF OperatorNeedsHuman, ApiNeedsHuman, flags, ghosts
  <2>5. ASSUME NEW i \in OpReview, NEW b \in BOOLEAN,
               OperatorSetsReview(i, b) \/ ApiSetsReview(i, b)
        PROVE TypeOK'
    <3>1. review' \in Flag
      BY <2>5, SetReviewType, ConfigAssumption DEF OperatorSetsReview, ApiSetsReview
    <3>2. info' \in Info
      BY <2>5, SavesTyped DEF OperatorSetsReview, ApiSetsReview
    <3> QED BY <2>5, <3>1, <3>2 DEF OperatorSetsReview, ApiSetsReview, flags, ghosts
  <2>6. ASSUME NEW v \in {"pass", "fail"}, HumanSays(v) PROVE TypeOK'
    BY <2>6 DEF HumanSays, flags, ghosts
  <2> QED BY <1>4, <2>1, <2>2, <2>3, <2>4, <2>5, <2>6 DEF OperatorNext
<1>5. CASE Quit
  BY <1>5 DEF Quit, Saves, Snapshot, Info, flags, gates, ghosts
<1>6. CASE Restart \/ RestartAfterTornSave
  BY <1>6, BootTyped, NoInfoType DEF Restart, RestartAfterTornSave
<1>7. CASE UNCHANGED vars
  BY <1>7 DEF vars, flags, gates, ghosts
<1> QED BY <1>1, <1>2, <1>3, <1>4, <1>5, <1>6, <1>7 DEF Next

\* Every reachable state is well typed, whatever the race or the crash: in
\* particular the index stays a natural number and never goes below 0.
THEOREM TypeCorrect == Spec => []TypeOK
BY InitTyped, NextTyped, PTL DEF Spec

(***************************************************************************)
(* The inductive invariant                                                 *)
(***************************************************************************)
LEMMA InitSafe == Init => IInv
<1> SUFFICES ASSUME Init PROVE IInv
  OBVIOUS
<1>0. PICK forced \in Starts : /\ is_reached = [i \in Stages |-> i <= forced]
                               /\ GoSkip(forced, skip, stage_index)
  BY DEF Init
<1>1. /\ forced \in Nat /\ forced <= ForceIndex
      /\ stage_index \in Nat /\ \A k \in Stages : forced <= k /\ k < stage_index => skip[k]
  BY <1>0, GoSkipForward, ConfigAssumption, StagesAssumption DEF Starts
<1>2. SafeFile /\ SafeSkip /\ SafeCalls
  BY DEF Init, NoInfo, Idle, SafeFile, SafeSkip, SafeCalls
<1>3. SafeStages
  <2>1. \A i \in Stages : ~is_complete[i] /\ ~info.complete[i] /\ ~info.reached[i]
    BY DEF Init, NoInfo
  <2>2. ASSUME NEW j \in Stages, j < stage_index PROVE Excused(j)
    <3>1. forced <= j => skip[j]
      BY <1>1, <2>2
    <3>2. skip[j] => j \in let_by
      BY DEF Init
    <3> QED BY <1>1, <3>1, <3>2, ConfigAssumption, StagesAssumption DEF Excused, Stages
  <2>3. ASSUME NEW i \in Stages, NEW j \in Stages, is_reached[i], j < i PROVE Excused(j)
    <3>1. i <= forced
      BY <1>0, <2>3
    <3> QED BY <1>1, <2>3, <3>1, ConfigAssumption, StagesAssumption DEF Excused, Stages
  <2>4. ~ \E j \in Stages : j < info.index
    BY DEF Init, NoInfo, Stages
  <2> QED BY <2>1, <2>2, <2>3, <2>4 DEF SafeStages
<1> QED BY <1>2, <1>3, InitTyped DEF IInv

\* A step that moves neither the index nor a call, and marks nothing, is
\* harmless, provided that what it skips goes into the history.
LEMMA QuietStep ==
  ASSUME IInv, TypeOK',
         UNCHANGED <<stage_index, is_reached, is_complete, info, call, strayed>>,
         passed \subseteq passed', let_by \subseteq let_by',
         \A i \in Stages : journal[i] => journal'[i],
         SafeSkip'
  PROVE  IInv'
<1>1. SafeFile'
  BY DEF IInv, SafeFile, NoInfo
<1>2. SafeCalls'
  BY DEF IInv, TypeOK, CallRecord, SafeCalls
<1>3. ~strayed' => SafeStages'
  BY DEF IInv, SafeStages, Excused, TypeOK, Info
<1> QED BY <1>1, <1>2, <1>3 DEF IInv

\* The same for a step that also saves.
LEMMA SavingStep ==
  ASSUME IInv, TypeOK',
         UNCHANGED <<stage_index, is_reached, is_complete, journal, call, passed, strayed>>,
         let_by \subseteq let_by',
         Saves(skip'),
         SafeSkip'
  PROVE  IInv'
<1>1. SafeFile'
  BY DEF IInv, SafeFile, Saves, Snapshot
<1>2. SafeCalls'
  BY DEF IInv, SafeCalls
<1>3. ~strayed' => SafeStages'
  BY DEF IInv, SafeStages, Excused, Saves, Snapshot
<1> QED BY <1>1, <1>2, <1>3 DEF IInv

\* The same for a step that at most moves one call on, and marks only the
\* current stage reached, when what SafeCalls asks of that call holds.
LEMMA CallStep ==
  ASSUME IInv, TypeOK', NEW c \in Callers,
         UNCHANGED <<stage_index, skip, is_complete, journal, info, let_by, strayed>>,
         passed \subseteq passed',
         \A i \in Stages : is_reached'[i] => is_reached[i] \/ i = stage_index,
         \A d \in Callers : d # c => call'[d] = call[d],
         call'[c].pc # "idle" /\ ~call'[c].moved =>
           /\ stage_index = call'[c].target
           /\ call'[c].pc \in {"reviewing", "deciding"} =>
                /\ call'[c].stage = call'[c].target
                /\ call'[c].target \in passed'
                /\ journal[call'[c].target]
           /\ call'[c].pc = "advancing" => is_complete[call'[c].target]
  PROVE  IInv'
<1>1. SafeFile'
  BY DEF IInv, SafeFile, NoInfo
<1>2. SafeSkip'
  BY DEF IInv, SafeSkip
<1>3. SafeCalls'
  BY DEF IInv, SafeCalls
<1>4. ~strayed' => SafeStages'
  BY DEF IInv, SafeStages, Excused, TypeOK
<1> QED BY <1>1, <1>2, <1>3, <1>4 DEF IInv

\* A start keeps the invariant, whether it reads the file or starts over.
LEMMA BootSafe ==
  ASSUME IInv, TypeOK', NEW read \in Info, NEW forced \in Starts, Boots(read, forced), info' = read,
         read = info \/ read = NoInfo
  PROVE  IInv'
<1> DEFINE resumed == IF forced # 0 THEN forced
                      ELSE IF read.index > N THEN N ELSE read.index
<1>1. resumed \in Nat
  BY StagesAssumption, ConfigAssumption DEF Info, Starts
<1>2. \A k \in Stages : resumed <= k /\ k < stage_index' => skip'[k]
  <2>1. GoSkip(resumed, skip', stage_index')
    BY DEF Boots
  <2> QED BY <1>1, <2>1, GoSkipForward
<1>3. /\ is_complete' = read.complete /\ journal' = read.journal
      /\ is_reached' = IF read.saved THEN read.reached
                                     ELSE [i \in Stages |-> i <= resumed]
      /\ let_by' = let_by \union Skipped(skip')
      /\ UNCHANGED <<passed, strayed>>
  BY DEF Boots
<1>4. ~read.saved => read = NoInfo
  BY DEF IInv, SafeFile, NoInfo
<1>5. SafeFile'
  BY <1>3, <1>4 DEF SafeFile, NoInfo
<1>6. SafeSkip'
  BY <1>3 DEF SafeSkip, Skipped
<1>7. SafeCalls'
  BY DEF Boots, Idle, SafeCalls
<1>8. ASSUME ~strayed' PROVE SafeStages'
  <2>1. \A j \in Stages : Excused(j) => Excused(j)'
    BY <1>3 DEF Excused
  <2>2. /\ \A i \in Stages : read.complete[i] => i \in passed /\ read.journal[i]
        /\ \A j \in Stages : j < read.index => read.complete[j] \/ Excused(j)
        /\ \A i, j \in Stages : read.reached[i] /\ j < i => read.complete[j] \/ Excused(j)
    <3>1. CASE read = info
      BY <3>1, <1>3, <1>8 DEF IInv, SafeStages, SafeFile
    <3>2. CASE read = NoInfo
      BY <3>2 DEF NoInfo, Stages
    <3> QED BY <3>1, <3>2
  <2>3. ASSUME NEW j \in Stages, j < resumed
        PROVE  is_complete'[j] \/ Excused(j)'
    <3>1. CASE forced # 0
      BY <2>3, <3>1 DEF Excused, Starts
    <3>2. CASE forced = 0
      <4>1. j < read.index
        BY <2>3, <3>2, StagesAssumption DEF Info, Stages
      <4> QED BY <4>1, <2>1, <2>2, <1>3
    <3> QED BY <3>1, <3>2
  <2>4. ASSUME NEW j \in Stages, j < stage_index'
        PROVE  is_complete'[j] \/ Excused(j)'
    <3>1. CASE j < resumed
      BY <3>1, <2>3
    <3>2. CASE resumed <= j
      BY <3>2, <2>4, <1>2, <1>6 DEF SafeSkip, Excused
    <3> QED BY <3>1, <3>2, <1>1 DEF Stages
  <2>5. ASSUME NEW i \in Stages, NEW j \in Stages, is_reached'[i], j < i
        PROVE  is_complete'[j] \/ Excused(j)'
    <3>1. CASE read.saved
      BY <2>5, <3>1, <2>1, <2>2, <1>3
    <3>2. CASE ~read.saved
      <4>1. i <= resumed
        BY <2>5, <3>2, <1>3
      <4> QED BY <2>5, <4>1, <2>3, <1>1 DEF Stages
    <3> QED BY <3>1, <3>2
  <2> QED BY <1>3, <2>1, <2>2, <2>4, <2>5 DEF SafeStages
<1> QED BY <1>5, <1>6, <1>7, <1>8 DEF IInv

LEMMA NextSafe == IInv /\ [Next]_vars => IInv'
<1> SUFFICES ASSUME IInv, [Next]_vars PROVE IInv'
  OBVIOUS
<1>0. TypeOK /\ TypeOK'
  BY NextTyped DEF IInv
<1>1. ASSUME NEW c \in Callers, CompleteNext(c) PROVE IInv'
  <2>0. ASSUME Returns(c) PROVE call'[c].pc = "idle" /\ \A d \in Callers : d # c => call'[d] = call[d]
    BY <2>0, <1>0 DEF Returns, Idle, TypeOK
  <2>1. CASE CompleteStarts(c)
    <3>1. /\ call'[c].pc = "checking" /\ call'[c].target = stage_index
          /\ \A d \in Callers : d # c => call'[d] = call[d]
      BY <2>1, <1>0 DEF CompleteStarts, TypeOK
    <3>2. \A i \in Stages : is_reached'[i] => is_reached[i] \/ i = stage_index
      BY <2>1, <1>0 DEF CompleteStarts, TypeOK, Flag
    <3> QED BY <2>1, <1>0, <3>1, <3>2, CallStep DEF CompleteStarts, ghosts
  <2>2. CASE ChecksFail(c)
    BY <2>2, <2>0, <1>0, CallStep DEF ChecksFail, flags, ghosts
  <2>3. CASE ChecksPassUnrecorded(c)
    BY <2>3, <2>0, <1>0, CallStep DEF ChecksPassUnrecorded, flags
  <2>4. CASE ChecksPass(c)
    <3>1. /\ call'[c].pc \in {"reviewing", "deciding"} /\ call'[c].stage = stage_index
          /\ call'[c].target = call[c].target /\ call'[c].moved = call[c].moved
          /\ \A d \in Callers : d # c => call'[d] = call[d]
      BY <2>4, <1>0 DEF ChecksPass, TypeOK, CallRecord
    <3>2. call[c].target \in passed' /\ journal[stage_index]
      BY <2>4 DEF ChecksPass
    <3>3. ~call[c].moved => stage_index = call[c].target
      BY <2>4 DEF ChecksPass, IInv, SafeCalls
    <3> QED BY <2>4, <1>0, <3>1, <3>2, <3>3, CallStep DEF ChecksPass, flags
  <2>5. CASE ReviewEnds(c) \/ ReviewRaises(c)
    <3>1. /\ call[c].pc = "reviewing" /\ call'[c] = [call[c] EXCEPT !.pc = "deciding"]
          /\ \A d \in Callers : d # c => call'[d] = call[d]
      BY <2>5, <1>0 DEF ReviewEnds, ReviewRaises, Goes, TypeOK, CallRecord
    <3>2. /\ call'[c].pc = "deciding" /\ call'[c].stage = call[c].stage
          /\ call'[c].target = call[c].target /\ call'[c].moved = call[c].moved
      BY <3>1, <1>0 DEF TypeOK, CallRecord
    <3>3. ~call[c].moved => /\ stage_index = call[c].target
                            /\ call[c].stage = call[c].target
                            /\ call[c].target \in passed
                            /\ journal[call[c].target]
      BY <3>1 DEF IInv, SafeCalls
    <3> QED BY <2>5, <1>0, <3>1, <3>2, <3>3, CallStep DEF ReviewEnds, ReviewRaises, flags, ghosts
  <2>6. CASE Refused(c)
    BY <2>6, <2>0, <1>0, CallStep DEF Refused, flags, ghosts
  <2>7. CASE Marks(c)
    <3>1. /\ call'[c].pc = "advancing"
          /\ call'[c].target = call[c].target /\ call'[c].moved = call[c].moved
          /\ \A d \in Callers : d # c => call'[d] = call[d]
      BY <2>7, <1>0 DEF Marks, Goes, TypeOK, CallRecord
    <3>2. ~call[c].moved => /\ stage_index = call[c].target
                            /\ call[c].target \in passed
                            /\ journal[call[c].target]
      BY <2>7 DEF Marks, IInv, SafeCalls
    <3>3. \A i \in Stages : is_complete'[i] <=> is_complete[i] \/ i = stage_index
      BY <2>7, <1>0 DEF Marks, TypeOK, Flag
    <3>4. SafeFile' /\ SafeSkip'
      BY <2>7, <3>3 DEF Marks, IInv, SafeFile, SafeSkip, NoInfo
    <3>5. SafeCalls'
      BY <2>7, <1>0, <3>1, <3>2, <3>3 DEF Marks, IInv, SafeCalls, TypeOK, CallRecord
    <3>6. ASSUME ~strayed' PROVE SafeStages'
      <4>1. ~strayed /\ ~call[c].moved
        BY <2>7, <3>6 DEF Marks
      <4> QED BY <2>7, <3>2, <3>3, <4>1 DEF Marks, IInv, SafeStages, Excused
    <3> QED BY <1>0, <3>4, <3>5, <3>6 DEF IInv
  <2>8. CASE Advances(c)
    <3>1. /\ stage_index' \in Nat /\ stage_index + 1 <= stage_index'
          /\ \A k \in Stages : stage_index + 1 <= k /\ k < stage_index' => skip[k]
      BY <2>8, <1>0, GoSkipForward DEF Advances, TypeOK
    <3>2. info' = Snapshot(stage_index', skip, is_reached, is_complete, journal)
      BY <2>8 DEF Advances
    <3>3. SafeFile' /\ SafeSkip'
      BY <2>8, <3>2 DEF Advances, Snapshot, IInv, SafeFile, SafeSkip
    <3>4. \A d \in Callers : call'[d].pc # "idle" => call'[d].moved
      BY <2>8, <1>0, DisturbKeeps DEF Advances, Idle, TypeOK
    <3>5. SafeCalls'
      BY <3>4 DEF SafeCalls
    <3>6. ASSUME ~strayed' PROVE SafeStages'
      <4>1. ~strayed /\ ~call[c].moved
        BY <2>8, <3>6 DEF Advances
      <4>2. stage_index = call[c].target /\ is_complete[call[c].target]
        BY <2>8, <4>1 DEF Advances, IInv, SafeCalls
      <4>3. ASSUME NEW j \in Stages, j < stage_index'
            PROVE  is_complete[j] \/ Excused(j)
        <5>1. CASE j < stage_index
          BY <5>1, <4>1 DEF IInv, SafeStages
        <5>2. CASE j = stage_index
          BY <5>2, <4>2
        <5>3. CASE stage_index + 1 <= j
          BY <5>3, <4>3, <3>1 DEF IInv, SafeSkip, Excused
        <5> QED BY <5>1, <5>2, <5>3, <1>0 DEF Stages, TypeOK
      <4>4. \A i \in Stages : is_reached'[i] => is_reached[i] \/ i = stage_index'
        BY <2>8, <1>0 DEF Advances, TypeOK, Flag
      <4> QED BY <2>8, <3>2, <4>1, <4>3, <4>4 DEF Advances, Snapshot, IInv, SafeStages, Excused
    <3> QED BY <1>0, <3>3, <3>5, <3>6 DEF IInv
  <2> QED BY <1>1, <2>1, <2>2, <2>3, <2>4, <2>5, <2>6, <2>7, <2>8 DEF CompleteNext
<1>2. ASSUME NEW c \in Callers, ToolNext(c) PROVE IInv'
  <2>1. CASE Check(c)
    <3>1. \A i \in Stages : is_reached'[i] => is_reached[i] \/ i = stage_index
      BY <2>1, <1>0 DEF Check, TypeOK, Flag
    <3> QED BY <2>1, <1>0, <3>1, CallStep DEF Check, ghosts
  <2>2. CASE SetCurrentStageJournal(c)
    <3>1. \A i \in Stages : journal[i] => journal'[i]
      BY <2>2, <1>0 DEF SetCurrentStageJournal, TypeOK, Flag
    <3>2. SafeSkip'
      BY <2>2 DEF SetCurrentStageJournal, IInv, SafeSkip, ghosts
    <3> QED BY <2>2, <1>0, <3>1, <3>2, QuietStep DEF SetCurrentStageJournal, ghosts
  <2>3. CASE Exit(c)
    <3>1. SafeSkip'
      BY <2>3 DEF Exit, flags, ghosts, IInv, SafeSkip
    <3> QED BY <2>3, <1>0, <3>1, SavingStep DEF Exit, flags, ghosts
  <2>4. ASSUME NEW i \in Stages, GoToStage(c, i) PROVE IInv'
    <3>1. SafeFile' /\ SafeSkip'
      BY <2>4 DEF GoToStage, IInv, SafeFile, SafeSkip, flags, ghosts, NoInfo
    <3>2. \A d \in Callers : call'[d].pc # "idle" => call'[d].moved
      BY <2>4, <1>0, DisturbKeeps DEF GoToStage, TypeOK
    <3>3. SafeCalls'
      BY <3>2 DEF SafeCalls
    <3>4. ~strayed' => SafeStages'
      BY <2>4 DEF GoToStage, IInv, SafeStages, Excused, flags, ghosts
    <3> QED BY <1>0, <3>1, <3>3, <3>4 DEF IInv
  <2> QED BY <1>2, <2>1, <2>2, <2>3, <2>4 DEF ToolNext
<1>3. ASSUME NEW b \in BOOLEAN, ReviewerSays(b) PROVE IInv'
  <2>1. SafeSkip'
    BY <1>3 DEF ReviewerSays, IInv, SafeSkip, flags, ghosts
  <2> QED BY <1>0, <1>3, <2>1, QuietStep DEF ReviewerSays, flags, ghosts
<1>4. CASE OperatorNext
  <2>1. ASSUME NEW i \in OpSkip, OperatorSkips(i) PROVE IInv'
    <3>1. SafeSkip' /\ let_by \subseteq let_by'
      BY <2>1 DEF OperatorSkips, SafeSkip, Skipped
    <3> QED BY <1>0, <2>1, <3>1, QuietStep DEF OperatorSkips
  <2>2. ASSUME NEW i \in OpSkip, OperatorUnskips(i) PROVE IInv'
    <3>1. SafeSkip'
      BY <2>2 DEF OperatorUnskips, IInv, SafeSkip, SetSkip, ghosts
    <3> QED BY <1>0, <2>2, <3>1, QuietStep DEF OperatorUnskips, ghosts
  <2>3. ASSUME NEW i \in OpSkip, NEW b \in BOOLEAN, ApiSkips(i, b) PROVE IInv'
    <3>1. SafeSkip' /\ let_by \subseteq let_by'
      BY <2>3 DEF ApiSkips, SafeSkip, Skipped
    <3> QED BY <1>0, <2>3, <3>1, SavingStep DEF ApiSkips
  <2>4. ASSUME NEW i \in OpHuman, NEW b \in BOOLEAN,
               OperatorNeedsHuman(i, b) \/ ApiNeedsHuman(i, b)
        PROVE IInv'
    <3>1. SafeSkip'
      BY <2>4 DEF OperatorNeedsHuman, ApiNeedsHuman, IInv, SafeSkip, flags, ghosts
    <3>2. CASE OperatorNeedsHuman(i, b)
      BY <1>0, <3>1, <3>2, QuietStep DEF OperatorNeedsHuman, flags, ghosts
    <3>3. CASE ApiNeedsHuman(i, b)
      BY <1>0, <3>1, <3>3, SavingStep DEF ApiNeedsHuman, flags, ghosts
    <3> QED BY <2>4, <3>2, <3>3
  <2>5. ASSUME NEW i \in OpReview, NEW b \in BOOLEAN,
               OperatorSetsReview(i, b) \/ ApiSetsReview(i, b)
        PROVE IInv'
    <3>1. SafeSkip'
      BY <2>5 DEF OperatorSetsReview, ApiSetsReview, IInv, SafeSkip, flags, ghosts
    <3>2. CASE OperatorSetsReview(i, b)
      BY <1>0, <3>1, <3>2, QuietStep DEF OperatorSetsReview, flags, ghosts
    <3>3. CASE ApiSetsReview(i, b)
      BY <1>0, <3>1, <3>3, SavingStep DEF ApiSetsReview, flags, ghosts
    <3> QED BY <2>5, <3>2, <3>3
  <2>6. ASSUME NEW v \in {"pass", "fail"}, HumanSays(v) PROVE IInv'
    <3>1. SafeSkip'
      BY <2>6 DEF HumanSays, IInv, SafeSkip, flags, ghosts
    <3> QED BY <1>0, <2>6, <3>1, QuietStep DEF HumanSays, flags, ghosts
  <2> QED BY <1>4, <2>1, <2>2, <2>3, <2>4, <2>5, <2>6 DEF OperatorNext
<1>5. CASE Quit
  <2>1. SafeSkip'
    BY <1>5 DEF Quit, IInv, SafeSkip, flags, ghosts
  <2> QED BY <1>0, <1>5, <2>1, SavingStep DEF Quit, flags, ghosts
<1>6. CASE Restart \/ RestartAfterTornSave
  BY <1>6, <1>0, BootSafe, NoInfoType DEF Restart, RestartAfterTornSave, TypeOK
<1>7. CASE UNCHANGED vars
  <2>1. SafeSkip'
    BY <1>7 DEF vars, flags, ghosts, IInv, SafeSkip
  <2> QED BY <1>0, <1>7, <2>1, QuietStep DEF vars, flags, ghosts
<1> QED BY <1>1, <1>2, <1>3, <1>4, <1>5, <1>6, <1>7 DEF Next

LEMMA AlwaysSafe == Spec => []IInv
BY InitSafe, NextSafe, PTL DEF Spec

\* No stage is complete whose checkers did not pass and whose journal is
\* missing, unless a Complete went on after the index had moved under it.
THEOREM CompletionsAreEarned == Spec => []CompletedWasChecked
<1>1. IInv => CompletedWasChecked
  BY DEF IInv, SafeStages, CompletedWasChecked
<1> QED BY <1>1, AlwaysSafe, PTL

\* With the same proviso no stage is jumped over.
THEOREM StagesAreCleared == Spec => []NoStageJumped
<1>1. IInv => NoStageJumped
  BY StagesAssumption DEF IInv, SafeStages, NoStageJumped, Cleared, Excused, Stages
<1> QED BY <1>1, AlwaysSafe, PTL

\* Unless a Complete went on after the index had moved, the mission ends with
\* every stage complete, skipped or before the forced start.
THEOREM ExitsAreEarned == Spec => ExitIsEarned
<1>1. ASSUME IInv, [Next]_vars
      PROVE  [\A c \in Callers : Exit(c) /\ ~strayed => \A i \in Stages : Cleared(i)]_vars
  <2> SUFFICES ASSUME NEW c \in Callers, Exit(c), ~strayed, NEW i \in Stages
               PROVE  Cleared(i)
    OBVIOUS
  <2>1. i < stage_index => is_complete[i] \/ Excused(i)
    BY <1>1 DEF IInv, SafeStages
  <2>2. skip[i] => i \in let_by
    BY <1>1 DEF IInv, SafeSkip
  <2>3. i < stage_index \/ skip[i] \/ is_complete[i]
    BY <1>1, StagesAssumption DEF Exit, AllCompleted, Stages, IInv, TypeOK
  <2> QED BY <2>1, <2>2, <2>3 DEF Excused, Cleared
<1> QED BY <1>1, AlwaysSafe, PTL DEF Spec, ExitIsEarned

\* Apart from Marks and a start no step touches is_complete, and what is
\* saved is the current is_complete.
LEMMA OthersKeepCompletions ==
  ASSUME [Next]_vars, \A c \in Callers : ~Marks(c), ~Restart, ~RestartAfterTornSave
  PROVE  /\ is_complete' = is_complete
         /\ info' = info \/ info'.complete = is_complete
<1>1. ASSUME NEW c \in Callers, CompleteNext(c) \/ ToolNext(c)
      PROVE  is_complete' = is_complete /\ (info' = info \/ info'.complete = is_complete)
  BY <1>1 DEF CompleteNext, ToolNext, CompleteStarts, ChecksFail, ChecksPassUnrecorded,
     ChecksPass, ReviewEnds, ReviewRaises, Refused, Advances, Check,
     SetCurrentStageJournal, Exit, GoToStage, Saves, Snapshot, flags
<1>2. CASE OperatorNext
  <2>1. ASSUME NEW i, NEW b, ApiSkips(i, b) \/ ApiNeedsHuman(i, b) \/ ApiSetsReview(i, b)
        PROVE  is_complete' = is_complete /\ info'.complete = is_complete
    BY <2>1 DEF ApiSkips, ApiNeedsHuman, ApiSetsReview, Saves, Snapshot, flags
  <2>2. ASSUME NEW i, NEW b, \/ OperatorSkips(i) \/ OperatorUnskips(i)
                             \/ OperatorNeedsHuman(i, b) \/ OperatorSetsReview(i, b)
                             \/ HumanSays(b)
        PROVE  is_complete' = is_complete /\ info' = info
    BY <2>2 DEF OperatorSkips, OperatorUnskips, OperatorNeedsHuman, OperatorSetsReview,
       HumanSays, flags
  <2> QED BY <1>2, <2>1, <2>2 DEF OperatorNext
<1>3. CASE Quit \/ \E b \in BOOLEAN : ReviewerSays(b)
  BY <1>3 DEF Quit, ReviewerSays, Saves, Snapshot, flags
<1>4. CASE UNCHANGED vars
  BY <1>4 DEF vars, flags
<1> QED BY <1>1, <1>2, <1>3, <1>4 DEF Next

\* A completion that was saved survives every race, and every crash that does
\* not tear the file.
THEOREM CompletionsAreDurable == Spec => SavedCompletionSurvives
<1> DEFINE Keeps == \/ RestartAfterTornSave
                    \/ \A i \in Stages : info.complete[i] => info'.complete[i] /\ is_complete'[i]
<1>1. IInv /\ [Next]_vars => [Keeps]_vars
  <2> SUFFICES ASSUME IInv, [Next]_vars PROVE Keeps
    OBVIOUS
  <2>0. TypeOK /\ \A i \in Stages : info.complete[i] => is_complete[i]
    BY DEF IInv, SafeFile
  <2>1. ASSUME NEW c \in Callers, Marks(c) PROVE Keeps
    BY <2>0, <2>1 DEF Marks, TypeOK, Flag
  <2>2. CASE Restart
    BY <2>2 DEF Restart, Boots
  <2>3. CASE ~Restart /\ ~RestartAfterTornSave /\ \A c \in Callers : ~Marks(c)
    BY <2>0, <2>3, OthersKeepCompletions
  <2> QED BY <2>1, <2>2, <2>3
<1> QED BY <1>1, AlwaysSafe, PTL DEF Spec, SavedCompletionSurvives

\* A stage is closed by its own review, or by one the index has moved under.
THEOREM RejectionsAreOwn == Spec => RejectionIsOwn
<1> DEFINE Own(i) == \E c \in Callers :
                       \/ call'[c].pc = "reviewing" /\ call'[c].stage = i
                       \/ call[c].pc = "reviewing" /\ call[c].moved
           Rejects == \A i \in Stages : llm_approved[i] /\ ~llm_approved'[i] => Own(i)
<1>1. IInv /\ [Next]_vars => [Rejects]_vars
  <2> SUFFICES ASSUME IInv, [Next]_vars, NEW i \in Stages, llm_approved[i], ~llm_approved'[i]
               PROVE  Own(i)
    OBVIOUS
  <2>0. TypeOK /\ SafeCalls
    BY DEF IInv
  <2>1. ASSUME NEW c \in Callers, CompleteNext(c) \/ ToolNext(c)
        PROVE  Own(i)
    <3>1. ChecksPass(c)
      BY <2>0, <2>1 DEF TypeOK, Flag, CompleteNext, ToolNext, CompleteStarts, ChecksFail,
         ChecksPassUnrecorded, ReviewEnds, ReviewRaises, Refused, Marks, Advances, Check,
         SetCurrentStageJournal, Exit, GoToStage, gates
    <3>2. i = stage_index /\ review[stage_index]
      BY <2>0, <3>1 DEF TypeOK, Flag, ChecksPass
    <3>3. call'[c].pc = "reviewing" /\ call'[c].stage = i
      BY <2>0, <3>1, <3>2 DEF TypeOK, CallRecord, ChecksPass
    <3> QED  BY <3>3
  <2>2. ASSUME NEW b \in BOOLEAN, ReviewerSays(b)
        PROVE  Own(i)
    <3>1. PICK c \in Callers : call[c].pc = "reviewing"
      BY <2>2 DEF ReviewerSays
    <3>2. i = stage_index /\ call' = call
      BY <2>0, <2>2 DEF TypeOK, Flag, ReviewerSays
    <3>3. CASE call[c].moved
      BY <3>1, <3>3
    <3>4. CASE ~call[c].moved
      BY <2>0, <3>1, <3>2, <3>4 DEF SafeCalls
    <3> QED  BY <3>3, <3>4
  <2>3. CASE OperatorNext
    BY <2>3 DEF OperatorNext, OperatorSkips, OperatorUnskips, ApiSkips, OperatorNeedsHuman,
       ApiNeedsHuman, OperatorSetsReview, ApiSetsReview, HumanSays, gates
  <2>4. CASE Quit \/ UNCHANGED vars
    BY <2>4 DEF Quit, vars, gates
  <2>5. CASE Restart \/ RestartAfterTornSave
    BY <2>5 DEF Restart, RestartAfterTornSave, Boots
  <2> QED  BY <2>1, <2>2, <2>3, <2>4, <2>5 DEF Next
<1> QED  BY <1>1, AlwaysSafe, PTL DEF Spec, RejectionIsOwn

\* Unless the index moved under the call, what becomes complete is what the
\* review and the human check of that very stage let through.
THEOREM CompletionsAreAdmitted == Spec => CompletionGated
<1> DEFINE Gated == \A i \in Stages :
              ~strayed' /\ is_complete'[i] /\ ~is_complete[i]
                => llm_approved[i] /\ (need_human[i] => human[i] = "pass")
<1>1. IInv /\ [Next]_vars => [Gated]_vars
  <2> SUFFICES ASSUME IInv, [Next]_vars,
                      NEW i \in Stages, ~strayed', is_complete'[i], ~is_complete[i]
               PROVE  llm_approved[i] /\ (need_human[i] => human[i] = "pass")
    OBVIOUS
  <2>1. ASSUME NEW c \in Callers, Marks(c)
        PROVE  llm_approved[i] /\ (need_human[i] => human[i] = "pass")
    <3>1. i = stage_index
      BY <2>1 DEF Marks, IInv, TypeOK, Flag
    <3>2. call[c].stage = stage_index
      BY <2>1 DEF Marks, IInv, SafeCalls
    <3> QED BY <2>1, <3>1, <3>2 DEF Marks, Admitted
  <2>2. CASE Restart \/ RestartAfterTornSave
    BY <2>2 DEF Restart, RestartAfterTornSave, Boots, NoInfo, IInv, SafeFile
  <2>3. CASE ~Restart /\ ~RestartAfterTornSave /\ \A c \in Callers : ~Marks(c)
    BY <2>3, OthersKeepCompletions
  <2> QED BY <2>1, <2>2, <2>3
<1> QED BY <1>1, AlwaysSafe, PTL DEF Spec, CompletionGated

(***************************************************************************)
(* The stage manager implements Mission                                    *)
(***************************************************************************)

\* A step that only adds to the history, and at most saves what is complete,
\* is a Check, an ExcuseOrKeep or a stutter of Mission.
LEMMA HistoryStep ==
  ASSUME TypeOK, TypeOK', is_complete' = is_complete, strayed' = strayed,
         let_by \subseteq let_by',
         info' = info \/ info'.complete = is_complete,
         \/ passed' = passed
         \/ /\ let_by' = let_by /\ info' = info
            /\ \E t \in Stages : passed' = passed \union {t}
  PROVE  [Promise!Next]_(Promise!vars)
<1>1. CASE passed' = passed
  <2>1. let_by' \subseteq Stages
    BY DEF TypeOK
  <2> QED BY <1>1, <2>1 DEF Promise!Next, Promise!ExcuseOrKeep
<1>2. ASSUME NEW t \in Stages, let_by' = let_by, info' = info, passed' = passed \union {t}
      PROVE  Promise!Next
  BY <1>2 DEF Promise!Next, Promise!Check
<1> QED BY <1>1, <1>2

LEMMA BootIsCrash ==
  ASSUME TypeOK, TypeOK', NEW read \in Info, NEW forced \in Starts, Boots(read, forced), info' = read,
         read = info \/ read = NoInfo
  PROVE  Promise!Next
<1>1. /\ is_complete' = read.complete
      /\ let_by \subseteq let_by' /\ UNCHANGED <<passed, strayed>>
  BY DEF Boots
<1>2. let_by' \subseteq Stages
  BY DEF TypeOK
<1>3. \/ {i \in Stages : info.complete[i]}' = {i \in Stages : info.complete[i]}
      \/ {i \in Stages : info.complete[i]}' = {}
  BY DEF NoInfo
<1> QED BY <1>1, <1>2, <1>3 DEF Promise!Next, Promise!Crash

LEMMA StepKeepsPromise == IInv /\ [Next]_vars => [Promise!Next]_(Promise!vars)
<1> SUFFICES ASSUME IInv, [Next]_vars PROVE [Promise!Next]_(Promise!vars)
  OBVIOUS
<1>0. TypeOK /\ TypeOK'
  BY NextTyped DEF IInv
<1>1. ASSUME NEW c \in Callers, CompleteNext(c) PROVE [Promise!Next]_(Promise!vars)
  <2>1. CASE CompleteStarts(c) \/ ChecksFail(c) \/ ReviewEnds(c) \/ ReviewRaises(c) \/ Refused(c)
    BY <2>1, <1>0, HistoryStep DEF CompleteStarts, ChecksFail, ReviewEnds, ReviewRaises,
       Refused, flags, ghosts
  <2>2. CASE ChecksPassUnrecorded(c) \/ ChecksPass(c)
    <3>1. call[c].target \in Stages
      BY <1>0 DEF TypeOK, CallRecord
    <3> QED BY <2>2, <1>0, <3>1, HistoryStep DEF ChecksPassUnrecorded, ChecksPass, flags
  <2>3. CASE Marks(c)
    <3> DEFINE t == stage_index
    <3>1. t \in Stages
      BY <2>3, <1>0, StagesAssumption DEF Marks, TypeOK, Stages
    <3>2. \A i \in Stages : is_complete'[i] <=> is_complete[i] \/ i = t
      BY <2>3, <1>0 DEF Marks, TypeOK, Flag
    <3>3. {i \in Stages : is_complete[i]}' = {i \in Stages : is_complete[i]} \union {t}
      BY <3>1, <3>2
    <3>4. /\ strayed' = (strayed \/ call[c].moved)
          /\ UNCHANGED <<passed, let_by, info>>
      BY <2>3 DEF Marks
    <3>5. CASE strayed
      BY <3>1, <3>3, <3>4, <3>5, <1>0 DEF Promise!Next, Promise!Do, TypeOK
    <3>6. CASE ~strayed /\ strayed'
      BY <3>1, <3>3, <3>4, <3>6, <1>0 DEF Promise!Next, Promise!Fault, TypeOK
    <3>7. CASE ~strayed /\ ~strayed'
      <4>1. t \in passed
        BY <2>3, <3>4, <3>7 DEF Marks, IInv, SafeCalls
      <4>2. Promise!InOrder(t)
        BY <3>7, <3>1 DEF IInv, SafeStages, Excused, Promise!InOrder
      <4>3. strayed' = strayed
        BY <3>7, <1>0 DEF TypeOK
      <4> QED BY <3>1, <3>3, <3>4, <4>1, <4>2, <4>3 DEF Promise!Next, Promise!Do
    <3> QED BY <3>5, <3>6, <3>7
  <2>4. CASE Advances(c)
    <3>1. /\ strayed' = (strayed \/ call[c].moved)
          /\ UNCHANGED <<passed, let_by, is_complete>>
          /\ info'.complete = is_complete
      BY <2>4 DEF Advances, Snapshot
    <3>2. CASE strayed' = strayed
      BY <3>1, <3>2, <1>0, HistoryStep
    <3>3. CASE strayed' # strayed
      <4>1. strayed' = TRUE
        BY <3>1, <3>3, <1>0 DEF TypeOK
      <4> QED BY <3>1, <4>1 DEF Promise!Next, Promise!Fault
    <3> QED BY <3>2, <3>3
  <2> QED BY <1>1, <2>1, <2>2, <2>3, <2>4 DEF CompleteNext
<1>2. ASSUME NEW c \in Callers, ToolNext(c) PROVE [Promise!Next]_(Promise!vars)
  BY <1>2, <1>0, HistoryStep DEF ToolNext, Check, SetCurrentStageJournal, Exit, GoToStage,
     Saves, Snapshot, flags, ghosts
<1>3. CASE Quit \/ \E b \in BOOLEAN : ReviewerSays(b)
  BY <1>3, <1>0, HistoryStep DEF Quit, ReviewerSays, Saves, Snapshot, flags, ghosts
<1>4. CASE OperatorNext
  <2>1. ASSUME NEW i, NEW b, \/ OperatorNeedsHuman(i, b) \/ OperatorSetsReview(i, b)
                             \/ HumanSays(b) \/ OperatorUnskips(i) \/ OperatorSkips(i)
        PROVE  [Promise!Next]_(Promise!vars)
    BY <2>1, <1>0, HistoryStep DEF OperatorNeedsHuman, OperatorSetsReview, HumanSays,
       OperatorUnskips, OperatorSkips, flags, ghosts
  <2>2. ASSUME NEW i, NEW b, ApiSkips(i, b) \/ ApiNeedsHuman(i, b) \/ ApiSetsReview(i, b)
        PROVE  [Promise!Next]_(Promise!vars)
    BY <2>2, <1>0, HistoryStep DEF ApiSkips, ApiNeedsHuman, ApiSetsReview, Saves, Snapshot,
       flags, ghosts
  <2> QED BY <1>4, <2>1, <2>2 DEF OperatorNext
<1>5. CASE Restart \/ RestartAfterTornSave
  BY <1>5, <1>0, BootIsCrash, NoInfoType DEF Restart, RestartAfterTornSave, TypeOK
<1>6. CASE UNCHANGED vars
  BY <1>6 DEF vars, flags, ghosts, Promise!vars
<1> QED BY <1>1, <1>2, <1>3, <1>4, <1>5, <1>6 DEF Next

\* Whatever the threads, the operator and crashes do, the stages are a mission:
\* done in order, each behind its check, and durable once saved, up to the
\* faults that Mission admits.
THEOREM PromiseIsKept == Spec => KeepsPromise
<1>1. Init => Promise!Init
  <2> SUFFICES ASSUME Init PROVE Promise!Init
    OBVIOUS
  <2>1. \A i \in Stages : ~is_complete[i] /\ ~info.complete[i]
    BY DEF Init, NoInfo
  <2>2. let_by \subseteq Stages /\ passed = {} /\ strayed = FALSE
    BY ConfigAssumption DEF Init
  <2> QED BY <2>1, <2>2 DEF Promise!Init
<1> QED BY <1>1, StepKeepsPromise, AlwaysSafe, PTL DEF Spec, KeepsPromise, Promise!Spec

=============================================================================
