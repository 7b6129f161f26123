-------------------------- MODULE MasterTaskProofs --------------------------
(***************************************************************************)
(* Why a task that is shown as over does not run, and why the file is up   *)
(* to date when nothing is marked as changed: the arguments behind what    *)
(* TLC finds by enumeration.                                               *)
(***************************************************************************)
EXTENDS MasterTask, TLAPS

\* What the record, or a copy of it, says of the process.
Truthful(t) ==
  /\ t.record /\ t.status \in Final /\ ~unknown => proc # "alive"
  /\ t.pid => proc # "none" /\ launch \in {"polling", "done"}
  /\ t.status = "pending" => ~t.pid
  /\ ~t.record => t = NoTask

Open(t) == t.record => t.status \notin Final

Early == {"idle", "building", "starting"}

\* Until its pid is recorded, nothing calls the task over but by mistake.
LaunchHolds ==
  /\ launch = "idle" => ~record /\ file = NoTask /\ copy = NoTask
  /\ launch \in Early => proc = "none" /\ ~runtime
  /\ launch \in {"spawned", "polling"} => proc # "none"
  /\ launch \in {"starting", "spawned", "polling"} => status # "pending"
  /\ launch \in {"building", "starting", "spawned"} /\ ~unknown => record
  /\ launch \in {"building", "starting"} /\ ~unknown =>
       (record => status \notin Final) /\ Open(file) /\ Open(copy)

\* A pid, a runtime, a view and a drain are of a process that was there.
ProcessHolds ==
  /\ pid => proc # "none" /\ launch \in {"polling", "done"}
  /\ status = "pending" => ~pid
  /\ record /\ status = "pending" /\ launch # "building" /\ ~unknown => proc # "alive"
  /\ runtime => proc # "none"
  /\ logs = "draining" => proc \in Dead
  /\ view \in {"gone"} \union Dead => proc \in Dead
  /\ monitor = "probing" => view # "none"

IInv == LaunchHolds /\ ProcessHolds /\ Truthful(file) /\ Truthful(copy) /\ EndedMeansDead

\* The record that was just made is settled too, until the launch goes on.
Quiet == launch \in {"idle", "building", "done"} /\ stop # "signalling"

\* What is being saved is as good as what is saved.
UInv ==
  /\ Quiet /\ ~dirty /\ ~missed => file = Memory
  /\ Quiet /\ ~missed /\ monitor = "saving" => copy = Memory

(***************************************************************************)
(* Types                                                                   *)
(***************************************************************************)
Tasks == [record : BOOLEAN, status : Statuses, pid : BOOLEAN]

LEMMA MemoryTyped ==
  ASSUME record \in BOOLEAN, status \in Statuses, pid \in BOOLEAN
  PROVE  /\ Memory \in Tasks /\ NoTask \in Tasks
         /\ Memory.record = record /\ (record => Memory.status = status)
         /\ Memory.pid = (record /\ pid)
         /\ ~record => Memory = NoTask
<1>1. "pending" \in Statuses BY DEF Statuses
<1>2. (IF record THEN status ELSE "pending") \in Statuses BY <1>1
<1>3. (record /\ pid) \in BOOLEAN OBVIOUS
<1>4. Memory \in Tasks BY <1>2, <1>3 DEF Memory, Tasks
<1>5. NoTask \in Tasks BY <1>1 DEF NoTask, Tasks
<1>6. ~record => Memory = NoTask
  <2> SUFFICES ASSUME ~record PROVE Memory = NoTask OBVIOUS
  <2>1. record = FALSE OBVIOUS
  <2>2. (record /\ pid) = FALSE OBVIOUS
  <2> QED BY <2>1, <2>2 DEF Memory, NoTask
<1> QED BY <1>4, <1>5, <1>6 DEF Memory

LEMMA TypeInit == Init => TypeOK
<1> SUFFICES ASSUME Init PROVE TypeOK OBVIOUS
<1>1. "pending" \in Statuses BY DEF Statuses
<1>2. NoTask \in [record : BOOLEAN, status : Statuses, pid : BOOLEAN]
  BY <1>1 DEF NoTask
<1> QED BY <1>1, <1>2 DEF Init, TypeOK

LEMMA BootTyped ==
  ASSUME TypeOK, NEW f \in Tasks, Boots(f)
  PROVE  TypeOK'
<1>1. f.record \in BOOLEAN /\ f.status \in Statuses /\ f.pid \in BOOLEAN BY DEF Tasks
<1>2. NoTask \in Tasks BY MemoryTyped DEF TypeOK
<1>3. (unknown \/ (proc = "alive" /\ ~f.pid)) \in BOOLEAN OBVIOUS
<1>4. {copy', file'} \subseteq Tasks BY <1>2 DEF Boots
<1>5. launch' \in {"idle", "done"} BY DEF Boots
<1> QED BY <1>1, <1>3, <1>4, <1>5 DEF Boots, TypeOK, Tasks

LEMMA TypeStep == TypeOK /\ [Next]_vars => TypeOK'
<1> SUFFICES ASSUME TypeOK, [Next]_vars PROVE TypeOK' OBVIOUS
<1>0. {copy, file} \subseteq Tasks /\ Memory \in Tasks /\ NoTask \in Tasks
  BY MemoryTyped DEF TypeOK, Tasks
<1>1. CASE Launch
  <2> USE <1>1 DEF TypeOK, MarksDirty, watch, store, ghosts, Statuses, Active, Final
  <2>1. CASE CreatesRecord
    <3>1. (missed \/ monitor = "saving") \in BOOLEAN OBVIOUS
    <3> QED BY <2>1, <3>1 DEF CreatesRecord
  <2>2. CASE BuildFails BY <2>2 DEF BuildFails, task
  <2>3. CASE SetsStarting BY <2>3 DEF SetsStarting
  <2>4. CASE Spawns BY <2>4 DEF Spawns
  <2>5. CASE SpawnRaises
    <3>1. (missed \/ monitor = "saving") \in BOOLEAN OBVIOUS
    <3> QED BY <2>5, <3>1 DEF SpawnRaises
  <2>6. CASE RecordsPid BY <2>6 DEF RecordsPid
  <2>7. CASE Polls
    <3>1. (runtime /\ proc = "alive") \in BOOLEAN OBVIOUS
    <3>2. (missed \/ monitor = "saving") \in BOOLEAN OBVIOUS
    <3>3. status' \in Statuses BY <2>7 DEF Polls
    <3> QED BY <2>7, <3>1, <3>2, <3>3 DEF Polls
  <2> QED BY <2>1, <2>2, <2>3, <2>4, <2>5, <2>6, <2>7 DEF Launch
<1>2. CASE Stop
  <2> USE <1>2 DEF TypeOK, MarksDirty, watch, store, ghosts, Statuses, Active, Final
  <2>1. CASE StopFinds BY <2>1 DEF StopFinds, task
  <2>2. CASE StopMarks BY <2>2 DEF StopMarks
  <2>3. CASE StopSignals
    <3>1. (missed \/ monitor = "saving") \in BOOLEAN OBVIOUS
    <3>2. proc' \in {"none", "alive"} \union Dead BY <2>3 DEF StopSignals, Dead
    <3> QED BY <2>3, <3>1, <3>2 DEF StopSignals, task
  <2> QED BY <2>1, <2>2, <2>3 DEF Stop
<1>3. CASE Logs
  <2> USE <1>3 DEF TypeOK, MarksDirty, watch, store, ghosts, Statuses, Active, Final
  <2>1. CASE LogsDrain
    <3>1. runtime' \in BOOLEAN /\ logs' \in {"idle", "draining"} BY <2>1 DEF LogsDrain
    <3> QED BY <2>1, <3>1, SMTT(30) DEF LogsDrain
  <2>2. CASE LogsConclude
    <3>1. (missed \/ monitor = "saving") \in BOOLEAN OBVIOUS
    <3>2. status' \in Statuses BY <2>2 DEF LogsConclude
    <3> QED BY <2>2, <3>1, <3>2 DEF LogsConclude
  <2> QED BY <2>1, <2>2 DEF Logs
<1>4. CASE Deletes
  <2>1. (missed \/ monitor = "saving") \in BOOLEAN
        /\ (unknown \/ launch \in {"building", "starting", "spawned"}) \in BOOLEAN
    BY DEF TypeOK
  <2>2. record' \in BOOLEAN /\ runtime' \in BOOLEAN /\ dirty' \in BOOLEAN
    BY <1>4 DEF Deletes
  <2>3. unknown' \in BOOLEAN /\ missed' \in BOOLEAN BY <1>4, <2>1 DEF Deletes
  <2> QED BY <1>4, <2>2, <2>3, SMTT(30) DEF Deletes, TypeOK, requests, watch
<1>5. CASE Monitor
  <2> USE <1>5 DEF TypeOK, task, requests, store, ghosts
  <2>1. CASE MonitorSnapsAgents BY <2>1 DEF MonitorSnapsAgents
  <2>2. CASE MonitorLooks BY <2>2 DEF MonitorLooks, Dead
  <2>3. CASE MonitorSeesAlive
    <3>1. status' \in Statuses BY <2>3 DEF MonitorSeesAlive, Statuses, Active
    <3>2. dirty' \in BOOLEAN /\ missed' \in BOOLEAN /\ UNCHANGED <<copy, file, unknown>>
      BY <2>3 DEF MonitorSeesAlive, MarksDirty, MarksNothing
    <3> QED BY <2>3, <3>1, <3>2 DEF MonitorSeesAlive
  <2>4. CASE MonitorSeesEnd
    <3>1. status' \in Statuses BY <2>4 DEF MonitorSeesEnd, Statuses, Final
    <3> QED BY <2>4, <3>1 DEF MonitorSeesEnd
  <2>5. CASE MonitorRests BY <2>5 DEF MonitorRests
  <2>6. CASE MonitorCopies
    <3>1. {copy', file'} \subseteq Tasks BY <2>6, <1>0 DEF MonitorCopies
    <3> QED BY <2>6, <3>1 DEF MonitorCopies, Tasks
  <2>7. CASE MonitorSaves
    <3>1. {copy', file'} \subseteq Tasks BY <2>7, <1>0 DEF MonitorSaves
    <3>2. dirty' \in BOOLEAN /\ monitor' = "idle" BY <2>7 DEF MonitorSaves
    <3> QED BY <2>7, <3>1, <3>2, SMTT(30) DEF MonitorSaves, Tasks
  <2> QED BY <2>1, <2>2, <2>3, <2>4, <2>5, <2>6, <2>7 DEF Monitor
<1>6. CASE ProcessEnds
  BY <1>6 DEF ProcessEnds, TypeOK, task, requests, watch, store, ghosts
<1>7. CASE AgentChanges
  BY <1>7 DEF AgentChanges, TypeOK, task, requests, watch, store, ghosts
<1>8. CASE Crash \/ Shutdown
  <2>1. PICK f \in {file, Memory, copy} : Boots(f)
    BY <1>8 DEF Crash, Shutdown
  <2> QED BY <2>1, <1>0, BootTyped
<1>9. CASE UNCHANGED vars
  BY <1>9 DEF vars, TypeOK, task, requests, watch, store, ghosts
<1> QED BY <1>1, <1>2, <1>3, <1>4, <1>5, <1>6, <1>7, <1>8, <1>9 DEF Next

\* The record, its copies and every thread stay well typed.
THEOREM TypeCorrect == Spec => []TypeOK
<1> QED BY TypeInit, TypeStep, PTL DEF Spec

(***************************************************************************)
(* What is shown as over                                                   *)
(***************************************************************************)
LEMMA NoTaskTruthful == Truthful(NoTask) /\ Open(NoTask)
BY DEF NoTask, Truthful, Open, Final

LEMMA InvInit == Init => IInv
<1> SUFFICES ASSUME Init PROVE IInv OBVIOUS
<1>1. Truthful(file) /\ Truthful(copy) /\ Open(file) /\ Open(copy)
  BY NoTaskTruthful DEF Init
<1>2. LaunchHolds BY <1>1 DEF Init, LaunchHolds, Early
<1>3. ProcessHolds BY DEF Init, ProcessHolds, Dead
<1>4. EndedMeansDead BY DEF Init, EndedMeansDead
<1> QED BY <1>1, <1>2, <1>3, <1>4 DEF IInv

\* What is in memory is as truthful as its copies are.
LEMMA MemoryTruthful == TypeOK /\ IInv => Truthful(Memory)
<1> SUFFICES ASSUME TypeOK, IInv PROVE Truthful(Memory) OBVIOUS
<1>1. /\ Memory.record = record /\ (record => Memory.status = status)
      /\ Memory.pid = (record /\ pid)
      /\ ~record => Memory = NoTask
  BY MemoryTyped DEF TypeOK
<1>2. record /\ status \in Final /\ ~unknown => proc # "alive"
  BY DEF IInv, EndedMeansDead
<1>3. NoTask.pid = FALSE /\ NoTask.status = "pending" BY DEF NoTask
<1> QED BY <1>1, <1>2, <1>3 DEF IInv, ProcessHolds, Truthful

\* A copy stays truthful in every step that does not start the process and
\* forgets no mistake.
LEMMA TruthfulStays ==
  ASSUME NEW t, Truthful(t),
         unknown => unknown',
         proc' = "alive" => proc = "alive",
         proc # "none" => proc' # "none",
         launch \in {"polling", "done"} => launch' \in {"polling", "done"}
  PROVE  /\ t.record /\ t.status \in Final /\ ~unknown' => proc' # "alive"
         /\ t.pid => proc' # "none" /\ launch' \in {"polling", "done"}
         /\ t.status = "pending" => ~t.pid
         /\ ~t.record => t = NoTask
BY DEF Truthful

LEMMA CopiesStay ==
  ASSUME Truthful(file), Truthful(copy), UNCHANGED <<file, copy>>,
         unknown => unknown',
         proc' = "alive" => proc = "alive",
         proc # "none" => proc' # "none",
         launch \in {"polling", "done"} => launch' \in {"polling", "done"}
  PROVE  Truthful(file)' /\ Truthful(copy)'
BY DEF Truthful

LEMMA LaunchStep == TypeOK /\ IInv /\ Launch => IInv'
<1> SUFFICES ASSUME TypeOK, IInv, Launch PROVE IInv' OBVIOUS
<1> USE DEF IInv
<1>1. CASE CreatesRecord
  <2>1. Open(file) /\ Open(copy)
    BY <1>1, NoTaskTruthful DEF CreatesRecord, LaunchHolds
  <2>2. LaunchHolds'
    BY <1>1, <2>1 DEF CreatesRecord, MarksDirty, LaunchHolds, Early, Final, Open
  <2>3. ProcessHolds'
    BY <1>1 DEF CreatesRecord, MarksDirty, ProcessHolds, LaunchHolds, Early, watch
  <2>4. EndedMeansDead'
    BY <1>1 DEF CreatesRecord, EndedMeansDead, LaunchHolds, Early
  <2>5. Truthful(file)' /\ Truthful(copy)'
    BY <1>1, CopiesStay DEF CreatesRecord, MarksDirty
  <2> QED BY <2>2, <2>3, <2>4, <2>5
<1>2. CASE BuildFails
  <2>1. LaunchHolds' BY <1>2 DEF BuildFails, LaunchHolds, Early, task, store, ghosts
  <2>2. ProcessHolds'
    BY <1>2 DEF BuildFails, ProcessHolds, LaunchHolds, Early, task, watch, ghosts
  <2>3. EndedMeansDead' BY <1>2 DEF BuildFails, EndedMeansDead, task, ghosts
  <2>4. Truthful(file)' /\ Truthful(copy)'
    BY <1>2, CopiesStay DEF BuildFails, store, ghosts
  <2> QED BY <2>1, <2>2, <2>3, <2>4
<1>3. CASE SetsStarting
  <2>1. LaunchHolds'
    BY <1>3 DEF SetsStarting, LaunchHolds, Early, Final, store, ghosts, Open
  <2>2. ProcessHolds'
    BY <1>3 DEF SetsStarting, ProcessHolds, LaunchHolds, Early, watch, ghosts
  <2>3. EndedMeansDead'
    BY <1>3 DEF SetsStarting, EndedMeansDead, LaunchHolds, Early
  <2>4. Truthful(file)' /\ Truthful(copy)'
    BY <1>3, CopiesStay DEF SetsStarting, store, ghosts
  <2> QED BY <2>1, <2>2, <2>3, <2>4
<1>4. CASE Spawns
  <2>1. ~unknown => record /\ status \notin Final /\ Open(file) /\ Open(copy)
    BY <1>4 DEF Spawns, LaunchHolds
  <2>2. LaunchHolds'
    BY <1>4, <2>1 DEF Spawns, LaunchHolds, Early, store, ghosts
  <2>3. ProcessHolds'
    BY <1>4 DEF Spawns, ProcessHolds, LaunchHolds, Early, Dead, watch, ghosts
  <2>4. EndedMeansDead' BY <1>4, <2>1 DEF Spawns, EndedMeansDead, ghosts
  <2>5. Truthful(file)' /\ Truthful(copy)'
    BY <1>4, <2>1 DEF Spawns, Truthful, Open, store, ghosts
  <2> QED BY <2>2, <2>3, <2>4, <2>5
<1>5. CASE SpawnRaises
  <2>1. LaunchHolds' BY <1>5 DEF SpawnRaises, MarksDirty, LaunchHolds, Early
  <2>2. ProcessHolds'
    BY <1>5 DEF SpawnRaises, MarksDirty, ProcessHolds, LaunchHolds, Early, watch
  <2>3. EndedMeansDead'
    BY <1>5 DEF SpawnRaises, EndedMeansDead, LaunchHolds, Early
  <2>4. Truthful(file)' /\ Truthful(copy)'
    BY <1>5, CopiesStay DEF SpawnRaises, MarksDirty
  <2> QED BY <2>1, <2>2, <2>3, <2>4
<1>6. CASE RecordsPid
  <2>1. LaunchHolds' BY <1>6 DEF RecordsPid, LaunchHolds, Early, store, ghosts
  <2>2. ProcessHolds'
    BY <1>6 DEF RecordsPid, ProcessHolds, LaunchHolds, watch, ghosts
  <2>3. EndedMeansDead' BY <1>6 DEF RecordsPid, EndedMeansDead, ghosts
  <2>4. Truthful(file)' /\ Truthful(copy)'
    BY <1>6, CopiesStay DEF RecordsPid, store, ghosts
  <2> QED BY <2>1, <2>2, <2>3, <2>4
<1>7. CASE Polls
  <2>1. LaunchHolds' BY <1>7 DEF Polls, MarksDirty, LaunchHolds, Early
  <2>2. status' # "pending" /\ (status' # status => proc \in Dead)
    BY <1>7 DEF Polls, LaunchHolds, Dead
  <2>3. ProcessHolds'
    BY <1>7, <2>2 DEF Polls, MarksDirty, ProcessHolds, LaunchHolds, watch
  <2>4. EndedMeansDead'
    BY <1>7, <2>2 DEF Polls, MarksDirty, EndedMeansDead, Dead
  <2>5. Truthful(file)' /\ Truthful(copy)'
    BY <1>7, CopiesStay DEF Polls, MarksDirty
  <2> QED BY <2>1, <2>3, <2>4, <2>5
<1> QED BY <1>1, <1>2, <1>3, <1>4, <1>5, <1>6, <1>7 DEF Launch

\* Of the other threads only those that judge the task, or delete it, matter.
LEMMA RequestStep == TypeOK /\ IInv /\ (Stop \/ Logs \/ Deletes) => IInv'
<1> SUFFICES ASSUME TypeOK, IInv, Stop \/ Logs \/ Deletes PROVE IInv' OBVIOUS
<1> USE DEF IInv
<1>1. CASE StopFinds
  BY <1>1, CopiesStay DEF StopFinds, LaunchHolds, ProcessHolds, EndedMeansDead, Early,
     task, watch, store, ghosts
<1>2. CASE StopMarks
  <2>1. LaunchHolds' BY <1>2 DEF StopMarks, LaunchHolds, Final, store, ghosts
  <2>2. ProcessHolds' BY <1>2 DEF StopMarks, ProcessHolds, watch, ghosts
  <2>3. EndedMeansDead' BY <1>2 DEF StopMarks, EndedMeansDead, Final, ghosts
  <2>4. Truthful(file)' /\ Truthful(copy)'
    BY <1>2, CopiesStay DEF StopMarks, store, ghosts
  <2> QED BY <2>1, <2>2, <2>3, <2>4
<1>3. CASE StopSignals
  <2>0. /\ proc' = "alive" => proc = "alive"
        /\ proc = "none" <=> proc' = "none"
        /\ proc \in Dead => proc' \in Dead
    BY <1>3 DEF StopSignals, Dead
  <2>1. LaunchHolds' BY <1>3, <2>0 DEF StopSignals, MarksDirty, LaunchHolds, task
  <2>2. ProcessHolds' BY <1>3, <2>0 DEF StopSignals, MarksDirty, ProcessHolds, task, watch
  <2>3. EndedMeansDead' BY <1>3, <2>0 DEF StopSignals, MarksDirty, EndedMeansDead, task
  <2>4. Truthful(file)' /\ Truthful(copy)'
    BY <1>3, <2>0, CopiesStay DEF StopSignals, MarksDirty
  <2> QED BY <2>1, <2>2, <2>3, <2>4
<1>4. CASE LogsDrain
  <2>1. LaunchHolds' BY <1>4 DEF LogsDrain, LaunchHolds, store, ghosts
  <2>2. ProcessHolds' BY <1>4 DEF LogsDrain, ProcessHolds, watch, ghosts
  <2>3. EndedMeansDead' BY <1>4 DEF LogsDrain, EndedMeansDead, ghosts
  <2>4. Truthful(file)' /\ Truthful(copy)'
    BY <1>4, CopiesStay DEF LogsDrain, store, ghosts
  <2> QED BY <2>1, <2>2, <2>3, <2>4
<1>5. CASE LogsConclude
  <2>0. proc \in Dead /\ launch \notin Early /\ status' \in Final
    BY <1>5 DEF LogsConclude, ProcessHolds, LaunchHolds, Dead, Final
  <2>1. LaunchHolds'
    BY <1>5, <2>0 DEF LogsConclude, MarksDirty, LaunchHolds, Early, Final
  <2>2. ProcessHolds'
    BY <1>5, <2>0 DEF LogsConclude, MarksDirty, ProcessHolds, Dead, Final, watch
  <2>3. EndedMeansDead' BY <1>5, <2>0 DEF LogsConclude, EndedMeansDead, Dead
  <2>4. Truthful(file)' /\ Truthful(copy)'
    BY <1>5, CopiesStay DEF LogsConclude, MarksDirty
  <2> QED BY <2>1, <2>2, <2>3, <2>4
<1>6. CASE Deletes
  <2>0. status \in Final \/ status = "pending"
    BY <1>6 DEF Deletes, TypeOK, Statuses
  <2>1. LaunchHolds'
    BY <1>6 DEF Deletes, LaunchHolds, requests
  <2>2. ProcessHolds' BY <1>6 DEF Deletes, ProcessHolds, requests, watch
  <2>3. EndedMeansDead'
    BY <1>6, <2>0 DEF Deletes, EndedMeansDead, ProcessHolds, requests
  <2>4. Truthful(file)' /\ Truthful(copy)'
    BY <1>6, CopiesStay DEF Deletes, requests
  <2> QED BY <2>1, <2>2, <2>3, <2>4
<1> QED BY <1>1, <1>2, <1>3, <1>4, <1>5, <1>6 DEF Stop, Logs

LEMMA MonitorStep == TypeOK /\ IInv /\ Monitor => IInv'
<1> SUFFICES ASSUME TypeOK, IInv, Monitor PROVE IInv' OBVIOUS
<1> USE DEF IInv
<1>1. CASE MonitorSnapsAgents \/ MonitorRests
  BY <1>1, CopiesStay DEF MonitorSnapsAgents, MonitorRests, LaunchHolds, ProcessHolds,
     EndedMeansDead, task, requests, store, ghosts
<1>2. CASE MonitorLooks
  <2>1. LaunchHolds' BY <1>2 DEF MonitorLooks, LaunchHolds, task, requests, store, ghosts
  <2>2. view' \in {"gone"} \union Dead => proc \in Dead
    BY <1>2 DEF MonitorLooks, ProcessHolds, Dead, TypeOK
  <2>3. monitor' = "probing" => view' # "none"
    BY <1>2 DEF MonitorLooks, ProcessHolds
  <2>4. ProcessHolds'
    BY <1>2, <2>2, <2>3 DEF MonitorLooks, ProcessHolds, task, requests, ghosts
  <2>5. EndedMeansDead' BY <1>2 DEF MonitorLooks, EndedMeansDead, task, ghosts
  <2>6. Truthful(file)' /\ Truthful(copy)'
    BY <1>2, CopiesStay DEF MonitorLooks, requests, store, ghosts
  <2> QED BY <2>1, <2>4, <2>5, <2>6
<1>3. CASE MonitorSeesAlive
  <2>0. /\ status' = status \/ (status' = "running" /\ status = "starting")
        /\ UNCHANGED <<copy, file, unknown>>
    BY <1>3 DEF MonitorSeesAlive, MarksDirty, MarksNothing, store, ghosts
  <2>1. LaunchHolds'
    BY <1>3, <2>0 DEF MonitorSeesAlive, LaunchHolds, Final, requests
  <2>2. ProcessHolds'
    BY <1>3, <2>0 DEF MonitorSeesAlive, ProcessHolds, Dead, requests
  <2>3. EndedMeansDead'
    BY <1>3, <2>0 DEF MonitorSeesAlive, EndedMeansDead, Final
  <2>4. Truthful(file)' /\ Truthful(copy)'
    BY <1>3, <2>0, CopiesStay DEF MonitorSeesAlive, requests
  <2> QED BY <2>1, <2>2, <2>3, <2>4
<1>4. CASE MonitorSeesEnd
  <2>0. /\ status' \in Final
        /\ ~unknown' => ~unknown /\ proc \in Dead
        /\ unknown => unknown'
    <3>1. status' \in Final /\ unknown' = (unknown \/ view = "unknown")
      BY <1>4 DEF MonitorSeesEnd, Final
    <3>2. view \notin {"unknown", "alive", "none"} => proc \in Dead
      BY DEF ProcessHolds, TypeOK
    <3>3. view # "alive" /\ view # "none"
      BY <1>4 DEF MonitorSeesEnd, ProcessHolds
    <3> QED BY <3>1, <3>2, <3>3
  <2>1. LaunchHolds'
    BY <1>4, <2>0 DEF MonitorSeesEnd, LaunchHolds, Early, Final, Dead, requests
  <2>2. ProcessHolds'
    BY <1>4, <2>0 DEF MonitorSeesEnd, ProcessHolds, Final, Dead, requests
  <2>3. EndedMeansDead' BY <1>4, <2>0 DEF MonitorSeesEnd, EndedMeansDead, Dead
  <2>4. Truthful(file)' /\ Truthful(copy)'
    BY <1>4, <2>0, CopiesStay DEF MonitorSeesEnd, requests
  <2> QED BY <2>1, <2>2, <2>3, <2>4
<1>5. CASE MonitorCopies
  <2>0. Truthful(Memory) BY MemoryTruthful
  <2>1. Truthful(file)' BY <1>5 DEF MonitorCopies, Truthful, requests, ghosts
  <2>2. Truthful(copy)' BY <1>5, <2>0 DEF MonitorCopies, Truthful, requests, ghosts
  <2>3. launch = "idle" => Memory = NoTask
    BY MemoryTyped DEF LaunchHolds, TypeOK
  <2>4. (record => status \notin Final) => Open(Memory)
    BY MemoryTyped DEF Open, TypeOK
  <2>5. LaunchHolds'
    BY <1>5, <2>3, <2>4 DEF MonitorCopies, LaunchHolds, task, requests, ghosts
  <2>6. ProcessHolds' BY <1>5 DEF MonitorCopies, ProcessHolds, task, requests, ghosts
  <2>7. EndedMeansDead' BY <1>5 DEF MonitorCopies, EndedMeansDead, task, ghosts
  <2> QED BY <2>1, <2>2, <2>5, <2>6, <2>7
<1>6. CASE MonitorSaves
  <2>1. Truthful(file)' BY <1>6 DEF MonitorSaves, Truthful, requests, ghosts
  <2>2. Truthful(copy)'
    BY <1>6, NoTaskTruthful DEF MonitorSaves, Truthful, requests, ghosts, NoTask
  <2>3. LaunchHolds'
    BY <1>6, NoTaskTruthful DEF MonitorSaves, LaunchHolds, task, requests, ghosts
  <2>4. ProcessHolds' BY <1>6 DEF MonitorSaves, ProcessHolds, task, requests, ghosts
  <2>5. EndedMeansDead' BY <1>6 DEF MonitorSaves, EndedMeansDead, task, ghosts
  <2> QED BY <2>1, <2>2, <2>3, <2>4, <2>5
<1> QED BY <1>1, <1>2, <1>3, <1>4, <1>5, <1>6 DEF Monitor

\* A master that starts from a truthful file is no worse off: if the process
\* runs and the file does not know its pid, that is noted.
LEMMA BootStep ==
  ASSUME TypeOK, IInv, NEW f, f.record \in BOOLEAN, f.status \in Statuses,
         f.pid \in BOOLEAN, Truthful(f), launch = "idle" => f = NoTask, Boots(f)
  PROVE  IInv'
<1>0. /\ launch' \in {"idle", "done"} /\ (launch' = "idle" <=> launch = "idle")
      /\ proc' = proc /\ (unknown => unknown')
      /\ ~unknown' => ~unknown /\ (proc = "alive" => f.pid)
  BY DEF Boots
<1>1. NoTask.record = FALSE /\ NoTask.pid = FALSE /\ NoTask.status = "pending"
  BY DEF NoTask
<1>3. LaunchHolds'
  BY <1>0, <1>1 DEF Boots, LaunchHolds, IInv, Early
<1>4. ProcessHolds'
  BY <1>0, <1>1 DEF Boots, ProcessHolds, Truthful, Dead
<1>5. EndedMeansDead'
  BY <1>0, <1>1 DEF Boots, EndedMeansDead, Truthful
<1>6. Truthful(file)' /\ Truthful(copy)'
  <2>1. launch \in {"polling", "done"} => launch' \in {"polling", "done"} BY <1>0
  <2>2. Truthful(file)' BY <1>0, <2>1 DEF Boots, Truthful
  <2>3. Truthful(copy)' BY <1>0, <1>1 DEF Boots, Truthful
  <2> QED BY <2>2, <2>3
<1> QED BY <1>3, <1>4, <1>5, <1>6 DEF IInv

LEMMA InvStep == TypeOK /\ IInv /\ [Next]_vars => IInv'
<1> SUFFICES ASSUME TypeOK, IInv, [Next]_vars PROVE IInv' OBVIOUS
<1>1. CASE Launch BY <1>1, LaunchStep
<1>2. CASE Stop \/ Logs \/ Deletes BY <1>2, RequestStep
<1>3. CASE Monitor BY <1>3, MonitorStep
<1>4. CASE ProcessEnds
  <2>0. proc = "alive" /\ proc' \in Dead /\ proc' # "alive" /\ proc' # "none"
    BY <1>4 DEF ProcessEnds, Dead
  <2>1. LaunchHolds'
    BY <1>4, <2>0 DEF IInv, ProcessEnds, LaunchHolds, Early, task, requests, store, ghosts
  <2>2. ProcessHolds'
    BY <1>4, <2>0 DEF IInv, ProcessEnds, ProcessHolds, task, requests, watch, ghosts
  <2>3. EndedMeansDead' BY <1>4, <2>0 DEF IInv, ProcessEnds, EndedMeansDead, task, ghosts
  <2>4. Truthful(file)' /\ Truthful(copy)'
    BY <1>4, <2>0, CopiesStay DEF IInv, ProcessEnds, requests, store, ghosts
  <2> QED BY <2>1, <2>2, <2>3, <2>4 DEF IInv
<1>5. CASE AgentChanges \/ UNCHANGED vars
  <2>1. UNCHANGED <<task, proc, requests, watch, store, ghosts>>
    BY <1>5 DEF AgentChanges, vars
  <2> QED
    BY <2>1, CopiesStay DEF IInv, LaunchHolds, ProcessHolds, EndedMeansDead, Early,
       task, requests, watch, store, ghosts
<1>6. CASE Crash \/ Shutdown
  <2>1. PICK f \in {file, Memory, copy} : Boots(f) BY <1>6 DEF Crash, Shutdown
  <2>2. f \in Tasks BY MemoryTyped DEF TypeOK, Tasks
  <2>3. f.record \in BOOLEAN /\ f.status \in Statuses /\ f.pid \in BOOLEAN
    BY <2>2 DEF Tasks
  <2>4. Truthful(f) BY MemoryTruthful DEF IInv
  <2>5. launch = "idle" => f = NoTask BY MemoryTyped DEF IInv, LaunchHolds, TypeOK
  <2> QED BY <2>1, <2>3, <2>4, <2>5, BootStep
<1> QED BY <1>1, <1>2, <1>3, <1>4, <1>5, <1>6 DEF Next

\* A task that is shown as over, or is gone, does not run, unless it was judged,
\* deleted or forgotten at a time when its pid was not known.
THEOREM EndedTasksAreDead == Spec => []EndedMeansDead
<1>1. IInv => EndedMeansDead BY DEF IInv
<1> QED BY <1>1, TypeInit, TypeStep, InvInit, InvStep, PTL DEF Spec

(***************************************************************************)
(* What is in the file                                                     *)
(***************************************************************************)
\* A step leaves the file as good as it was for one of three reasons: it marks
\* what it changed, a request is not done yet, or nothing changed.
LEMMA Marked == (dirty' = TRUE) /\ (monitor' = "saving" => missed') => UInv'
BY DEF UInv

LEMMA NotQuiet == ~Quiet' => UInv'
BY DEF UInv

LEMMA Same ==
  ASSUME UInv, UNCHANGED <<record, status, pid, dirty, missed, file, copy>>,
         Quiet' => Quiet, monitor' = "saving" => monitor = "saving"
  PROVE  UInv'
<1>1. Memory' = Memory BY DEF Memory
<1> QED BY <1>1 DEF UInv

LEMMA BootSaved ==
  ASSUME NEW f \in Tasks, ~f.record => f = NoTask, Boots(f)
  PROVE  UInv'
<1>1. monitor' = "idle" /\ file' = f /\ record' = f.record /\ status' = f.status
      /\ pid' = f.pid
  BY DEF Boots
<1>2. Memory' = f
  <2>1. Memory' = [record |-> f.record, status |-> IF f.record THEN f.status ELSE "pending",
                   pid |-> f.record /\ f.pid]
    BY <1>1 DEF Memory
  <2>2. CASE f.record
    <3>1. (f.record /\ f.pid) = f.pid BY <2>2 DEF Tasks
    <3> QED BY <2>1, <2>2, <3>1 DEF Tasks
  <2>3. CASE ~f.record
    <3>1. f = NoTask /\ f.record = FALSE /\ (f.record /\ f.pid) = FALSE
      BY <2>3 DEF Tasks
    <3> QED BY <2>1, <2>3, <3>1 DEF NoTask
  <2> QED BY <2>2, <2>3
<1> QED BY <1>1, <1>2 DEF UInv

LEMMA SavedInit == Init => UInv
<1> SUFFICES ASSUME Init PROVE UInv OBVIOUS
<1>1. record = FALSE /\ file = NoTask /\ monitor = "idle" BY DEF Init
<1>2. (record /\ pid) = FALSE BY <1>1
<1>3. Memory = NoTask BY <1>1, <1>2 DEF Memory, NoTask
<1> QED BY <1>1, <1>3 DEF UInv

LEMMA SavedStep == TypeOK /\ IInv /\ UInv /\ [Next]_vars => UInv'
<1> SUFFICES ASSUME TypeOK, IInv, UInv, [Next]_vars PROVE UInv' OBVIOUS
<1>1. CASE Launch
  <2>1. CASE CreatesRecord BY <2>1, Marked DEF CreatesRecord, MarksDirty, watch
  <2>2. CASE BuildFails BY <2>2, Same DEF BuildFails, Quiet, task, watch, store, ghosts
  <2>3. CASE SetsStarting BY <2>3, NotQuiet DEF SetsStarting, Quiet
  <2>4. CASE Spawns BY <2>4, NotQuiet DEF Spawns, Quiet
  <2>5. CASE SpawnRaises BY <2>5, Marked DEF SpawnRaises, MarksDirty, watch
  <2>6. CASE RecordsPid BY <2>6, NotQuiet DEF RecordsPid, Quiet
  <2>7. CASE Polls BY <2>7, Marked DEF Polls, MarksDirty, watch
  <2> QED BY <1>1, <2>1, <2>2, <2>3, <2>4, <2>5, <2>6, <2>7 DEF Launch
<1>2. CASE Stop \/ Logs
  <2>1. CASE StopFinds BY <2>1, Same DEF StopFinds, Quiet, task, watch, store, ghosts
  <2>2. CASE StopMarks BY <2>2, NotQuiet DEF StopMarks, Quiet
  <2>3. CASE StopSignals BY <2>3, Marked DEF StopSignals, MarksDirty, watch
  <2>4. CASE LogsDrain BY <2>4, Same DEF LogsDrain, Quiet, watch, store, ghosts
  <2>5. CASE LogsConclude BY <2>5, Marked DEF LogsConclude, MarksDirty, watch
  <2> QED BY <1>2, <2>1, <2>2, <2>3, <2>4, <2>5 DEF Stop, Logs
<1>3. CASE Deletes BY <1>3, Marked DEF Deletes, watch
<1>4. CASE Monitor
  <2>1. CASE MonitorSnapsAgents \/ MonitorLooks \/ MonitorRests
    <3>1. monitor' # "saving" /\ UNCHANGED <<task, requests, store, ghosts>>
      BY <2>1 DEF MonitorSnapsAgents, MonitorLooks, MonitorRests
    <3> QED BY <3>1, Same DEF Quiet, task, requests, store, ghosts
  <2>2. CASE MonitorSeesAlive
    <3>1. monitor' = "refreshed" /\ UNCHANGED <<record, pid, requests>>
      BY <2>2 DEF MonitorSeesAlive
    <3>2. MarksDirty \/ UNCHANGED <<status, store, ghosts>>
      BY <2>2 DEF MonitorSeesAlive, MarksNothing
    <3>3. CASE MarksDirty BY <3>1, <3>3, Marked DEF MarksDirty
    <3>4. CASE UNCHANGED <<status, store, ghosts>>
      BY <3>1, <3>4, Same DEF Quiet, requests, store, ghosts
    <3> QED BY <3>2, <3>3, <3>4
  <2>3. CASE MonitorSeesEnd BY <2>3, Marked DEF MonitorSeesEnd
  <2>4. CASE MonitorCopies
    <3>1. dirty' /\ copy' = Memory /\ Memory' = Memory
      BY <2>4 DEF MonitorCopies, Memory, task
    <3> QED BY <3>1 DEF UInv
  <2>5. CASE MonitorSaves
    <3>1. /\ monitor = "saving" /\ monitor' = "idle" /\ file' = copy
          /\ missed' = missed /\ (Quiet' <=> Quiet) /\ Memory' = Memory
      BY <2>5 DEF MonitorSaves, Memory, Quiet, task, requests, ghosts
    <3> QED BY <3>1 DEF UInv
  <2> QED BY <1>4, <2>1, <2>2, <2>3, <2>4, <2>5 DEF Monitor
<1>5. CASE ProcessEnds \/ AgentChanges \/ UNCHANGED vars
  BY <1>5, Same DEF ProcessEnds, AgentChanges, Quiet, vars, task, requests, watch, store, ghosts
<1>6. CASE Crash \/ Shutdown
  <2>1. PICK f \in {file, Memory, copy} : Boots(f) BY <1>6 DEF Crash, Shutdown
  <2>2. f \in Tasks BY MemoryTyped DEF TypeOK, Tasks
  <2>3. ~f.record => f = NoTask
    <3>1. Truthful(f) BY MemoryTruthful DEF IInv
    <3> QED BY <3>1 DEF Truthful
  <2> QED BY <2>1, <2>2, <2>3, BootSaved
<1> QED BY <1>1, <1>2, <1>3, <1>4, <1>5, <1>6 DEF Next

\* Between requests, what is not marked as changed is in the file, but for what
\* changed while the file was being written.
THEOREM CleanTasksAreSaved == Spec => []CleanMeansSaved
<1>1. UInv => CleanMeansSaved BY DEF UInv, CleanMeansSaved, Settled, Quiet
<1> QED
  BY <1>1, TypeInit, TypeStep, InvInit, InvStep, SavedInit, SavedStep, PTL DEF Spec
=============================================================================
