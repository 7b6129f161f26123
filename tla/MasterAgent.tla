---------------------------- MODULE MasterAgent -----------------------------
(***************************************************************************)
(* An agent and its registration with the master (PdbMasterClient and      *)
(* register and delete_agent of PdbMasterApiServer in                      *)
(* server/api_master.py).                                                  *)
(*                                                                         *)
(* A thread of the agent sends a heartbeat every few seconds.  The master  *)
(* keeps the agents it heard of, and the names of those the operator       *)
(* removed: their heartbeats are answered with "removed", and the agent    *)
(* then stops.  A heartbeat with "force" lifts the removal; the client     *)
(* sends one whenever it is not sure to be connected.                      *)
(*                                                                         *)
(* Heartbeats and answers may be lost; the client gives up on one that is  *)
(* not answered in time, and the master may handle it all the same, later. *)
(* The master may crash and start again from the file it saved last.       *)
(***************************************************************************)
CONSTANT Threads   \* the heartbeat threads a client may have at a time

VARIABLES
  listed, removed,    \* the agent is in _agents, its name in _removed
  removing,           \* delete_agent has deleted the entry, and not added the name
  saving, copy,       \* _save_db is going on, and has copied this of _agents
  file,               \* agents.json
  requests,           \* heartbeats on their way to the master, or in its hands
  pc,                 \* where a heartbeat thread is
  connected,          \* its local variable of that name
  reply,              \* the answer on its way to it
  running, kicked,    \* _running and _kicked of the client
  stop_event, force_next,
  crossed,            \* history: a heartbeat was past the look at _removed when the
                      \* name was added, or had even registered the agent again,
  overlapped,         \* and the same of a save that had copied _agents
  forgot              \* history: the file the master started from did not know
                      \* the agent, and it has not registered since

registry == <<listed, removed, removing>>
disk     == <<saving, copy, file>>
ghosts   == <<crossed, overlapped, forgot>>
threads  == <<pc, connected, reply>>
client   == <<running, kicked, stop_event, force_next>>
vars     == <<registry, disk, requests, threads, client, ghosts>>

\* checked: past the look at _removed; late: its sender has given up on it
Request == [from : Threads, force : BOOLEAN, checked : BOOLEAN, late : BOOLEAN]
Saved   == [listed : BOOLEAN, removed : BOOLEAN, crossed : BOOLEAN]

TypeOK ==
  /\ listed \in BOOLEAN /\ removed \in BOOLEAN /\ removing \in BOOLEAN
  /\ saving \in BOOLEAN /\ copy \in BOOLEAN /\ file \in Saved
  /\ requests \subseteq Request
  /\ pc \in [Threads -> {"none", "ready", "waiting"}]
  /\ connected \in [Threads -> BOOLEAN] /\ reply \in [Threads -> {"none", "ok", "removed"}]
  /\ running \in BOOLEAN /\ kicked \in BOOLEAN
  /\ stop_event \in BOOLEAN /\ force_next \in BOOLEAN
  /\ crossed \in BOOLEAN /\ overlapped \in BOOLEAN /\ forgot \in BOOLEAN

Init ==
  /\ listed = FALSE /\ removed = FALSE /\ removing = FALSE
  /\ saving = FALSE /\ copy = FALSE
  /\ file = [listed |-> FALSE, removed |-> FALSE, crossed |-> FALSE]
  /\ requests = {}
  /\ pc = [h \in Threads |-> "none"] /\ connected = [h \in Threads |-> FALSE]
  /\ reply = [h \in Threads |-> "none"]
  /\ running = FALSE /\ kicked = FALSE /\ stop_event = FALSE /\ force_next = FALSE
  /\ crossed = FALSE /\ overlapped = FALSE /\ forgot = FALSE

(***************************************************************************)
(* The client                                                              *)
(***************************************************************************)
\* A thread of an earlier start may not have noticed the stop yet, and then
\* never does.
Connects ==
  /\ ~running /\ ~kicked
  /\ \E h \in Threads :
       pc[h] = "none" /\ pc' = [pc EXCEPT ![h] = "ready"]
  /\ running' = TRUE /\ stop_event' = FALSE /\ force_next' = TRUE
  /\ UNCHANGED <<registry, disk, requests, connected, reply, kicked, ghosts>>

Disconnects ==
  /\ running
  /\ running' = FALSE /\ stop_event' = TRUE
  /\ UNCHANGED <<registry, disk, requests, threads, kicked, force_next, ghosts>>

SeesStop(h) ==
  /\ pc[h] = "ready" /\ stop_event
  /\ pc' = [pc EXCEPT ![h] = "none"] /\ connected' = [connected EXCEPT ![h] = FALSE]
  /\ UNCHANGED <<registry, disk, requests, reply, client, ghosts>>

Sends(h) ==
  /\ pc[h] = "ready" /\ ~stop_event
  /\ pc' = [pc EXCEPT ![h] = "waiting"]
  /\ requests' = requests \union
       {[from |-> h, force |-> force_next \/ ~connected[h], checked |-> FALSE, late |-> FALSE]}
  /\ force_next' = FALSE
  /\ UNCHANGED <<registry, disk, connected, reply, running, kicked, stop_event, ghosts>>

HearsOk(h) ==
  /\ pc[h] = "waiting" /\ reply[h] = "ok"
  /\ pc' = [pc EXCEPT ![h] = "ready"] /\ reply' = [reply EXCEPT ![h] = "none"]
  /\ connected' = [connected EXCEPT ![h] = TRUE]
  /\ UNCHANGED <<registry, disk, requests, client, ghosts>>

HearsRemoved(h) ==
  /\ pc[h] = "waiting" /\ reply[h] = "removed"
  /\ pc' = [pc EXCEPT ![h] = "none"] /\ reply' = [reply EXCEPT ![h] = "none"]
  /\ connected' = [connected EXCEPT ![h] = FALSE]
  /\ kicked' = TRUE /\ running' = FALSE
  /\ UNCHANGED <<registry, disk, requests, stop_event, force_next, ghosts>>

Of(h, late) == {r \in requests : r.from = h /\ r.late = late}

Late(rs) == {[from |-> r.from, force |-> r.force, checked |-> r.checked, late |-> TRUE] : r \in rs}

InHand == {r \in requests : r.checked}

\* The heartbeat was lost on its way, or the answer was, or the master takes
\* longer than the client waits, an error counts as no answer.
\* Bound: one late heartbeat at a time, but for those of a client that was
\* started again.
GivesUp(h) ==
  /\ pc[h] = "waiting"
  /\ pc' = [pc EXCEPT ![h] = "ready"] /\ reply' = [reply EXCEPT ![h] = "none"]
  /\ connected' = [connected EXCEPT ![h] = FALSE]
  /\ \/ Of(h, FALSE) \intersect InHand = {} /\ requests' = requests \ Of(h, FALSE)
     \/ ~(\E r \in requests : r.late) /\ requests' = (requests \ Of(h, FALSE)) \union Late(Of(h, FALSE))
  /\ UNCHANGED <<registry, disk, client, ghosts>>

\* The agent is started again under its --client-id.
ClientRestarts ==
  /\ pc' = [h \in Threads |-> "none"] /\ connected' = [h \in Threads |-> FALSE]
  /\ reply' = [h \in Threads |-> "none"]
  /\ running' = FALSE /\ kicked' = FALSE /\ stop_event' = FALSE /\ force_next' = FALSE
  /\ requests' \in {Late(requests), Late(InHand)}
  /\ UNCHANGED <<registry, disk, ghosts>>

(***************************************************************************)
(* The master                                                              *)
(***************************************************************************)
\* An answer to a heartbeat that was given up reaches nobody.
Answers(r, s) == reply' = IF r.late THEN reply ELSE [reply EXCEPT ![r.from] = s]

Checked(r) == [from |-> r.from, force |-> r.force, checked |-> TRUE, late |-> r.late]

\* Faulty: the agent is told that all is well.
TurnsKindly(r) ==
  /\ ~r.checked /\ removed /\ ~r.force
  /\ requests' = requests \ {r} /\ Answers(r, "ok")
  /\ UNCHANGED <<registry, disk, pc, connected, client, ghosts>>

Turns(r) ==
  /\ ~r.checked /\ removed /\ ~r.force
  /\ requests' = requests \ {r} /\ Answers(r, "removed")
  /\ UNCHANGED <<registry, disk, pc, connected, client, ghosts>>

\* Faulty: a removal turns nobody away.
AdmitsAll(r) ==
  /\ ~r.checked
  /\ removed' = (removed /\ ~r.force)
  /\ requests' = (requests \ {r}) \union {Checked(r)}
  /\ UNCHANGED <<listed, removing, disk, threads, client, ghosts>>

\* The look at _removed is not under the lock of _agents.
Admits(r) ==
  /\ ~r.checked /\ (removed => r.force)
  /\ removed' = FALSE /\ crossed' = FALSE /\ overlapped' = FALSE
  /\ requests' = (requests \ {r}) \union {Checked(r)}
  /\ UNCHANGED <<listed, removing, disk, threads, client, forgot>>

Registers(r) ==
  /\ r.checked
  /\ listed' = TRUE /\ forgot' = FALSE
  /\ requests' = requests \ {r} /\ Answers(r, "ok")
  /\ UNCHANGED <<removed, removing, disk, pc, connected, client, crossed, overlapped>>

\* delete_agent, in two steps: the entry, under the lock, and then the name.
\* Bound: one removal at a time.
RemovesEntry ==
  /\ listed /\ ~removing
  /\ listed' = FALSE /\ removing' = TRUE
  /\ UNCHANGED <<removed, disk, requests, threads, client, ghosts>>

\* Faulty: the name is not kept.
AddsNothing ==
  /\ removing
  /\ removing' = FALSE
  /\ UNCHANGED <<listed, removed, disk, requests, threads, client, ghosts>>

AddsName ==
  /\ removing
  /\ removing' = FALSE /\ removed' = TRUE
  /\ crossed' = (listed \/ InHand # {}) /\ overlapped' = saving
  /\ UNCHANGED <<listed, disk, requests, threads, client, forgot>>

\* _save_db copies _agents under its lock and lists _removed later.
CopiesAgents ==
  /\ ~saving
  /\ saving' = TRUE /\ copy' = listed /\ overlapped' = FALSE
  /\ UNCHANGED <<registry, file, requests, threads, client, crossed, forgot>>

Saves ==
  /\ saving
  /\ saving' = FALSE /\ copy' = FALSE /\ overlapped' = FALSE
  /\ file' = [listed |-> copy, removed |-> removed, crossed |-> crossed \/ overlapped]
  /\ UNCHANGED <<registry, requests, threads, client, crossed, forgot>>

\* after a crash, or after stop(), which saves
MasterRestarts ==
  /\ listed' = file.listed /\ removed' = file.removed /\ removing' = FALSE
  /\ saving' = FALSE /\ copy' = FALSE /\ overlapped' = FALSE
  /\ crossed' = file.crossed /\ forgot' = (~file.listed /\ ~file.removed)
  /\ requests' = {}
  /\ UNCHANGED <<file, threads, client>>

Heartbeat(h) == SeesStop(h) \/ Sends(h) \/ HearsOk(h) \/ HearsRemoved(h)
Handles(r)   == Turns(r) \/ Admits(r) \/ Registers(r)
Operator     == RemovesEntry \/ AddsName
Store        == CopiesAgents \/ Saves \/ MasterRestarts

Next ==
  \/ Connects \/ Disconnects \/ ClientRestarts
  \/ \E h \in Threads : Heartbeat(h) \/ GivesUp(h)
  \/ \E r \in requests : Handles(r)
  \/ Operator \/ Store

Spec == Init /\ [][Next]_vars

\* The threads go on, the master finishes what it has in hand, and not every
\* heartbeat of a thread is lost.
FairSpec ==
  /\ Spec
  /\ WF_vars(\E r \in InHand : Registers(r))
  /\ \A h \in Threads :
       /\ WF_vars(Heartbeat(h)) /\ WF_vars(GivesUp(h))
       /\ SF_vars(\E r \in Of(h, FALSE) : Turns(r) \/ Admits(r))

(***************************************************************************)
(* Properties                                                              *)
(***************************************************************************)
\* An agent that was removed is not listed again by a heartbeat that does not
\* lift the removal, nor by a restart of the master: unless the heartbeat, or
\* the save the master starts from, overlapped with the removal.
RemovalStands == removed /\ listed => crossed

\* A thread that takes itself for connected, and therefore sends no "force",
\* belongs to an agent the master knows, or is about to: as listed or as
\* removed, unless it was started from a file older than the registration.
ConnectedIsKnown ==
  \A h \in Threads :
    connected[h] => listed \/ removed \/ removing \/ forgot \/ InHand # {}

\* Once nobody connects or disconnects the agent any more, and as long as it
\* sends heartbeats, an agent that is removed is told so and stops, also when
\* answers are lost on the way, or else it lifts the removal.
Beating == \E h \in Threads : pc[h] # "none"

RemovedIsTold ==
  <>[][~Connects /\ ~Disconnects /\ ~ClientRestarts]_vars =>
    (removed /\ Beating ~> kicked \/ ~removed \/ ~Beating)
=============================================================================
