----------------------------- MODULE MasterTask -----------------------------
(***************************************************************************)
(* A task of the master server (PdbMasterApiServer in server/api_master.py *)
(* with launch_mode "process"), from its launch to its deletion.           *)
(*                                                                         *)
(* The task is a record that four kinds of threads write to: the request   *)
(* that launches it, requests that stop it, fetch its logs or delete it,   *)
(* and the monitor, which looks at every task once a second and now and    *)
(* then saves them all.  Only some of them take _tasks_lock, and only for  *)
(* a part of what they do.  The process of the task outlives the master,   *)
(* which finds it again by its pid.                                        *)
(*                                                                         *)
(* An agent is matched with the task by its id, its pid or its workspace,  *)
(* which may be that of an earlier task; it comes and goes as it likes,    *)
(* and stays in the registry when its process is gone.                     *)
(***************************************************************************)

VARIABLES
  record,      \* the task is in _tasks
  status,      \* process_status
  pid,         \* it is in the record
  runtime,     \* _task_runtime has an entry for the task
  proc,        \* the process: none, alive, or ended well or badly
  matched,     \* an agent that matches is in the registry
  launch, stop, logs,   \* where the requests are
  monitor,     \* where the monitor is
  agentSeen,   \* what it found: an agent that matches,
  view,        \* and the process
  dirty,       \* _dirty
  copy,        \* the task in the snapshot that is being saved
  file,        \* the task in tasks.json
  unknown,     \* history: the task was judged, deleted, or forgotten by a restart
               \* before its pid was known
  missed       \* history: something changed between a snapshot and its save

task     == <<record, status, pid, runtime>>
requests == <<launch, stop, logs>>
watch    == <<monitor, agentSeen, view>>
store    == <<dirty, copy, file>>
ghosts   == <<unknown, missed>>
vars     == <<task, proc, matched, requests, watch, store, ghosts>>

Active   == {"starting", "running", "stopping"}
Final    == {"stopped", "failed"}
Statuses == Active \union Final \union {"pending"}
Dead     == {"well", "badly"}

NoTask == [record |-> FALSE, status |-> "pending", pid |-> FALSE]
Memory == [record |-> record, status |-> IF record THEN status ELSE "pending",
           pid |-> record /\ pid]

TypeOK ==
  /\ record \in BOOLEAN /\ status \in Statuses /\ pid \in BOOLEAN /\ runtime \in BOOLEAN
  /\ proc \in {"none", "alive"} \union Dead /\ matched \in BOOLEAN
  /\ launch \in {"idle", "building", "starting", "spawned", "polling", "done"}
  /\ stop \in {"idle", "stopping", "signalling"}
  /\ logs \in {"idle", "draining"}
  /\ monitor \in {"idle", "snapped", "probing", "refreshed", "saving"}
  /\ agentSeen \in BOOLEAN /\ view \in {"none", "unknown", "alive", "gone"} \union Dead
  /\ dirty \in BOOLEAN
  /\ {copy, file} \subseteq [record : BOOLEAN, status : Statuses, pid : BOOLEAN]
  /\ unknown \in BOOLEAN /\ missed \in BOOLEAN

Init ==
  /\ record = FALSE /\ status = "pending" /\ pid = FALSE /\ runtime = FALSE
  /\ proc = "none" /\ matched \in BOOLEAN
  /\ launch = "idle" /\ stop = "idle" /\ logs = "idle"
  /\ monitor = "idle" /\ agentSeen = FALSE /\ view = "none"
  /\ dirty = FALSE /\ copy = NoTask /\ file = NoTask
  /\ unknown = FALSE /\ missed = FALSE

\* _tasks_lock, which the monitor holds while it probes
Locked == monitor = "probing"

\* _mark_dirty
MarksDirty ==
  /\ dirty' = TRUE
  /\ missed' = (missed \/ monitor = "saving")
  /\ UNCHANGED <<copy, file, unknown>>

MarksNothing == UNCHANGED <<store, ghosts>>

(***************************************************************************)
(* The launch                                                              *)
(***************************************************************************)
CreatesRecord ==
  /\ launch = "idle" /\ ~Locked
  /\ launch' = "building"
  /\ record' = TRUE /\ status' = "pending"
  /\ MarksDirty
  /\ UNCHANGED <<pid, runtime, proc, matched, stop, logs, watch>>

\* _build_veriagent_command raises: the record stays as it is.
BuildFails ==
  /\ launch = "building"
  /\ launch' = "done"
  /\ UNCHANGED <<task, proc, matched, stop, logs, watch, store, ghosts>>

SetsStarting ==
  /\ launch = "building"
  /\ launch' = "starting" /\ status' = "starting"
  /\ UNCHANGED <<record, pid, runtime, proc, matched, stop, logs, watch, store, ghosts>>

Spawns ==
  /\ launch = "starting"
  /\ launch' = "spawned" /\ proc' = "alive" /\ runtime' = TRUE
  /\ UNCHANGED <<record, status, pid, matched, stop, logs, watch, store, ghosts>>

SpawnRaises ==
  /\ launch = "starting"
  /\ launch' = "done" /\ status' = "failed"
  /\ MarksDirty
  /\ UNCHANGED <<record, pid, runtime, proc, matched, stop, logs, watch>>

RecordsPid ==
  /\ launch = "spawned"
  /\ launch' = "polling" /\ pid' = TRUE
  /\ UNCHANGED <<record, status, runtime, proc, matched, stop, logs, watch, store, ghosts>>

\* A process that has already ended is not left to the monitor.
Polls ==
  /\ launch = "polling"
  /\ launch' = "done"
  /\ status' = IF proc = "well" THEN "stopped" ELSE IF proc = "badly" THEN "failed" ELSE status
  /\ runtime' = (runtime /\ proc = "alive")
  /\ MarksDirty
  /\ UNCHANGED <<record, pid, proc, matched, stop, logs, watch>>

(***************************************************************************)
(* Stop, logs and delete                                                   *)
(***************************************************************************)
\* A task that is stopped or failed is not stopped again.
StopFinds ==
  /\ stop = "idle" /\ ~Locked
  /\ record /\ status \notin Final
  /\ stop' = "stopping"
  /\ UNCHANGED <<task, proc, matched, launch, logs, watch, store, ghosts>>

StopMarks ==
  /\ stop = "stopping"
  /\ stop' = "signalling" /\ status' = "stopping"
  /\ UNCHANGED <<record, pid, runtime, proc, matched, launch, logs, watch, store, ghosts>>

\* SIGKILL if it is forced, else SIGTERM; none if the pid is not known.
StopSignals ==
  /\ stop = "signalling"
  /\ stop' = "idle"
  /\ proc' \in IF pid /\ proc = "alive" THEN {"alive", "badly"} ELSE {proc}
  /\ MarksDirty
  /\ UNCHANGED <<task, matched, launch, logs, watch>>

LogsDrain ==
  /\ logs = "idle" /\ ~Locked
  /\ record /\ runtime /\ proc \in Dead
  /\ logs' = "draining" /\ runtime' = FALSE
  /\ UNCHANGED <<record, status, pid, proc, matched, launch, stop, watch, store, ghosts>>

\* after the threads that copy the output were waited for
LogsConclude ==
  /\ logs = "draining"
  /\ logs' = "idle"
  /\ status' = IF status = "stopping" \/ proc = "well" THEN "stopped" ELSE "failed"
  /\ MarksDirty
  /\ UNCHANGED <<record, pid, runtime, proc, matched, launch, stop, watch>>

\* Faulty: the change is not noted.
DeletesQuietly ==
  /\ record /\ status \notin Active /\ ~Locked
  /\ record' = FALSE /\ runtime' = FALSE
  /\ unknown' = (unknown \/ launch \in {"building", "starting", "spawned"})
  /\ UNCHANGED <<status, pid, proc, matched, requests, watch, store, missed>>

\* The request that launches the task goes on with a record that is gone.
Deletes ==
  /\ record /\ status \notin Active /\ ~Locked
  /\ record' = FALSE /\ runtime' = FALSE
  /\ dirty' = TRUE /\ missed' = (missed \/ monitor = "saving")
  /\ unknown' = (unknown \/ launch \in {"building", "starting", "spawned"})
  /\ UNCHANGED <<status, pid, proc, matched, requests, watch, copy, file>>

(***************************************************************************)
(* The monitor                                                             *)
(***************************************************************************)
MonitorSnapsAgents ==
  /\ monitor = "idle"
  /\ monitor' = "snapped" /\ agentSeen' = matched
  /\ UNCHANGED <<task, proc, matched, requests, view, store, ghosts>>

\* poll() if the process was started by this master, else by its pid
MonitorLooks ==
  /\ monitor = "snapped"
  /\ IF record /\ status \in Active
     THEN /\ monitor' = "probing"
          /\ view' = IF runtime THEN proc
                     ELSE IF ~pid THEN "unknown"
                     ELSE IF proc = "alive" THEN "alive" ELSE "gone"
     ELSE monitor' = "refreshed" /\ UNCHANGED view
  /\ UNCHANGED <<task, proc, matched, requests, agentSeen, store, ghosts>>

\* A task is alive if its process is, if its agent was seen, or if the
\* process answers.
MonitorSeesAlive ==
  /\ monitor = "probing"
  /\ \E answers \in {FALSE} \union {proc = "alive"} :
       /\ view = "alive" \/ agentSeen \/ answers
       /\ IF answers /\ status = "starting"
          THEN status' = "running" /\ MarksDirty
          ELSE UNCHANGED status /\ MarksNothing
  /\ monitor' = "refreshed" /\ view' = "none" /\ agentSeen' = FALSE
  /\ UNCHANGED <<record, pid, runtime, proc, matched, requests>>

\* Faulty: the process is not looked at.
MonitorSeesNobody ==
  /\ monitor = "probing" /\ ~agentSeen
  /\ status' = IF status = "stopping" \/ view = "well" THEN "stopped" ELSE "failed"
  /\ runtime' = FALSE
  /\ dirty' = TRUE
  /\ unknown' = (unknown \/ view = "unknown")
  /\ monitor' = "refreshed" /\ view' = "none"
  /\ UNCHANGED <<record, pid, proc, matched, requests, agentSeen, copy, file, missed>>

\* Faulty: only the exit of a child counts, not a pid that is gone.
MonitorSeesExit ==
  /\ monitor = "probing" /\ view \in Dead /\ ~agentSeen
  /\ status' = IF status = "stopping" \/ view = "well" THEN "stopped" ELSE "failed"
  /\ runtime' = FALSE
  /\ dirty' = TRUE
  /\ monitor' = "refreshed" /\ view' = "none"
  /\ UNCHANGED <<record, pid, proc, matched, requests, agentSeen, copy, file, ghosts>>

MonitorSeesEnd ==
  /\ monitor = "probing" /\ view # "alive" /\ ~agentSeen
  /\ status' = IF status = "stopping" \/ view = "well" THEN "stopped" ELSE "failed"
  /\ runtime' = FALSE
  /\ dirty' = TRUE
  /\ unknown' = (unknown \/ view = "unknown")
  /\ monitor' = "refreshed" /\ view' = "none"
  /\ UNCHANGED <<record, pid, proc, matched, requests, agentSeen, copy, file, missed>>

\* every 20 seconds
MonitorRests ==
  /\ monitor = "refreshed"
  /\ monitor' = "idle"
  /\ UNCHANGED <<task, proc, matched, requests, agentSeen, view, store, ghosts>>

MonitorCopies ==
  /\ monitor = "refreshed" /\ dirty
  /\ monitor' = "saving" /\ copy' = Memory
  /\ UNCHANGED <<task, proc, matched, requests, agentSeen, view, dirty, file, ghosts>>

MonitorSaves ==
  /\ monitor = "saving"
  /\ monitor' = "idle"
  /\ file' = copy /\ copy' = NoTask /\ dirty' = FALSE
  /\ UNCHANGED <<task, proc, matched, requests, agentSeen, view, ghosts>>

(***************************************************************************)
(* The world                                                               *)
(***************************************************************************)
ProcessEnds ==
  /\ proc = "alive" /\ proc' \in Dead
  /\ UNCHANGED <<task, matched, requests, watch, store, ghosts>>

AgentChanges ==
  /\ matched' = ~matched
  /\ UNCHANGED <<task, proc, requests, watch, store, ghosts>>

Boots(f) ==
  /\ record' = f.record /\ status' = f.status /\ pid' = f.pid /\ file' = f
  /\ runtime' = FALSE
  /\ launch' = IF launch = "idle" THEN "idle" ELSE "done"
  /\ stop' = "idle" /\ logs' = "idle"
  /\ monitor' = "idle" /\ agentSeen' = FALSE /\ view' = "none"
  /\ dirty' = FALSE /\ copy' = NoTask
  /\ unknown' = (unknown \/ (proc = "alive" /\ ~f.pid))
  /\ UNCHANGED <<proc, matched, missed>>

\* The files are replaced, never half written.
Crash == Boots(file)

\* stop() does not wait for the monitor, which may be about to save something
\* older.
Shutdown ==
  \/ Boots(IF dirty THEN Memory ELSE file)
  \/ monitor = "saving" /\ Boots(copy)

Launch  == CreatesRecord \/ BuildFails \/ SetsStarting \/ Spawns \/ SpawnRaises \/ RecordsPid \/ Polls
Stop    == StopFinds \/ StopMarks \/ StopSignals
Logs    == LogsDrain \/ LogsConclude
Monitor ==
  \/ MonitorSnapsAgents \/ MonitorLooks \/ MonitorSeesAlive \/ MonitorSeesEnd
  \/ MonitorRests \/ MonitorCopies \/ MonitorSaves

Next == Launch \/ Stop \/ Logs \/ Deletes \/ Monitor \/ ProcessEnds \/ AgentChanges \/ Crash \/ Shutdown

Spec == Init /\ [][Next]_vars

\* The monitor goes on, and the page of the task is open, which asks for its
\* logs every five seconds.
FairSpec == Spec /\ WF_vars(Monitor) /\ SF_vars(LogsDrain) /\ WF_vars(LogsConclude)

(***************************************************************************)
(* Properties                                                              *)
(***************************************************************************)
\* A task that is shown as stopped or failed, or that is gone, has no process
\* that goes on, which nobody could stop any more: unless the master judged it,
\* let it be deleted or forgot it at a time when its pid was not known, as the
\* monitor may in the middle of a launch.
EndedMeansDead ==
  (~record \/ status \in Final) /\ ~unknown => proc # "alive"

\* Between requests, what is not marked as changed is in the file, but for what
\* changed while the file was being written.
Settled == launch \in {"idle", "done"} /\ stop # "signalling"

CleanMeansSaved == Settled /\ ~dirty /\ ~missed => file = Memory

\* Once the master is not restarted any more, a task whose process has ended
\* is seen to have ended, also when another master started it.  Only an agent
\* that is still in the registry keeps it going for ever, and that only if its
\* process cannot be waited for.
EndIsNoticed ==
  <>[][~Crash /\ ~Shutdown]_vars =>
    (record /\ status \in Active /\ proc \in Dead
       ~> status \notin Active \/ ~record \/ (matched /\ ~runtime))
=============================================================================
