-------------------------- MODULE MasterAgentProofs --------------------------
(***************************************************************************)
(* What holds of MasterAgent for any number of heartbeat threads, any      *)
(* losses and delays and any restarts of the agent and of the master.      *)
(***************************************************************************)
EXTENDS MasterAgent, TLAPS

\* A removal that a heartbeat in the master's hands, or a save under way, may
\* still undo is noted as crossed or overlapped.
Noted ==
  /\ removed /\ (listed \/ InHand # {}) => crossed
  /\ saving /\ copy /\ removed => crossed \/ overlapped
  /\ file.removed /\ file.listed => file.crossed

Known == listed \/ removed \/ removing \/ forgot \/ InHand # {}

\* A thread that is connected, or about to hear that it is, is known.
Sure == \A h \in Threads : connected[h] \/ reply[h] = "ok" => Known

\* What handling or losing requests does to those in the master's hands.
LEMMA InHandMoves ==
  ASSUME requests \subseteq Request
  PROVE  /\ \A r \in requests : ~r.checked => {q \in requests \ {r} : q.checked} = InHand
         /\ \A r \in requests : r.checked => r \in InHand
         /\ \A r \in requests : Checked(r) \in Request /\ Checked(r).checked
         /\ \A rs \in SUBSET requests : Late(rs) \subseteq Request
         /\ \A rs \in SUBSET requests :
              (\E r \in rs : r.checked) => \E r \in Late(rs) : r.checked
<1>1. \A r \in requests : ~r.checked => {q \in requests \ {r} : q.checked} = InHand
  BY DEF InHand
<1>2. \A r \in requests : r.checked => r \in InHand
  BY DEF InHand
<1>3. \A r \in requests : Checked(r) \in Request /\ Checked(r).checked
  BY DEF Checked, Request
<1>4. ASSUME NEW rs \in SUBSET requests, NEW r \in rs
      PROVE  [from |-> r.from, force |-> r.force, checked |-> r.checked, late |-> TRUE] \in Request
  <2>1. r \in Request OBVIOUS
  <2>2. r.from \in Threads /\ r.force \in BOOLEAN /\ r.checked \in BOOLEAN BY <2>1 DEF Request
  <2> QED BY <2>2 DEF Request
<1>6. \A rs \in SUBSET requests : Late(rs) \subseteq Request
  BY <1>4 DEF Late
<1>5. ASSUME NEW rs \in SUBSET requests, NEW r \in rs, r.checked
      PROVE  \E q \in Late(rs) : q.checked
  <2> DEFINE q == [from |-> r.from, force |-> r.force, checked |-> r.checked, late |-> TRUE]
  <2>1. q \in Late(rs) BY DEF Late
  <2>2. q.checked BY <1>5
  <2> QED BY <2>1, <2>2
<1> QED BY <1>1, <1>2, <1>3, <1>5, <1>6

(***************************************************************************)
(* Types                                                                   *)
(***************************************************************************)
LEMMA TypeInit == Init => TypeOK
<1> SUFFICES ASSUME Init PROVE TypeOK OBVIOUS
<1>1. file \in Saved BY DEF Init, Saved
<1>2. requests \subseteq Request BY DEF Init
<1> QED BY <1>1, <1>2 DEF Init, TypeOK

LEMMA TypeStep == TypeOK /\ [Next]_vars => TypeOK'
<1> SUFFICES ASSUME TypeOK, [Next]_vars PROVE TypeOK' OBVIOUS
<1> USE DEF TypeOK
<1>0. requests \subseteq Request OBVIOUS
<1>1. CASE Connects BY <1>1 DEF Connects, registry, disk, ghosts
<1>2. CASE Disconnects BY <1>2 DEF Disconnects, registry, disk, threads, ghosts
<1>3. CASE ClientRestarts
  <2>1. requests' \subseteq Request
    BY <1>3, InHandMoves, <1>0 DEF ClientRestarts, InHand
  <2> QED BY <1>3, <2>1 DEF ClientRestarts, registry, disk, ghosts
<1>4. ASSUME NEW h \in Threads, Heartbeat(h) PROVE TypeOK'
  <2>1. CASE SeesStop(h) BY <2>1 DEF SeesStop, registry, disk, client, ghosts
  <2>2. CASE Sends(h)
    <3> DEFINE r == [from |-> h, force |-> force_next \/ ~connected[h],
                     checked |-> FALSE, late |-> FALSE]
    <3>1. (force_next \/ ~connected[h]) \in BOOLEAN OBVIOUS
    <3>2. r \in Request BY <3>1 DEF Request
    <3>3. requests' \subseteq Request BY <2>2, <3>2 DEF Sends
    <3> QED BY <2>2, <3>3 DEF Sends, registry, disk, ghosts
  <2>3. CASE HearsOk(h) BY <2>3 DEF HearsOk, registry, disk, client, ghosts
  <2>4. CASE HearsRemoved(h) BY <2>4 DEF HearsRemoved, registry, disk, ghosts
  <2> QED BY <1>4, <2>1, <2>2, <2>3, <2>4 DEF Heartbeat
<1>5. ASSUME NEW h \in Threads, GivesUp(h) PROVE TypeOK'
  <2>1. Of(h, FALSE) \in SUBSET requests BY DEF Of
  <2>2. Late(Of(h, FALSE)) \subseteq Request BY <2>1, InHandMoves, <1>0
  <2>3. requests' \subseteq Request BY <1>5, <2>2, <1>0 DEF GivesUp
  <2> QED BY <1>5, <2>3 DEF GivesUp, registry, disk, client, ghosts
<1>6. ASSUME NEW r \in requests, Handles(r) PROVE TypeOK'
  <2>1. r.from \in Threads BY DEF Request
  <2>2. CASE Turns(r)
    BY <2>1, <2>2 DEF Turns, Answers, registry, disk, client, ghosts
  <2>3. CASE Admits(r)
    <3>1. Checked(r) \in Request BY InHandMoves, <1>0
    <3>2. requests' \subseteq Request BY <2>3, <3>1, <1>0 DEF Admits
    <3> QED BY <2>3, <3>2 DEF Admits, disk, threads, client
  <2>4. CASE Registers(r)
    BY <2>1, <2>4 DEF Registers, Answers, disk, client
  <2> QED BY <1>6, <2>2, <2>3, <2>4 DEF Handles
<1>7. CASE Operator
  <2>1. CASE RemovesEntry BY <2>1 DEF RemovesEntry, disk, threads, client, ghosts
  <2>2. CASE AddsName
    <3>1. (listed \/ InHand # {}) \in BOOLEAN OBVIOUS
    <3> QED BY <2>2, <3>1 DEF AddsName, disk, threads, client
  <2> QED BY <1>7, <2>1, <2>2 DEF Operator
<1>8. CASE Store
  <2>1. CASE CopiesAgents BY <2>1 DEF CopiesAgents, registry, threads, client
  <2>2. CASE Saves
    <3>1. file' \in Saved BY <2>2 DEF Saves, Saved
    <3> QED BY <2>2, <3>1 DEF Saves, registry, threads, client
  <2>3. CASE MasterRestarts
    <3>1. file.listed \in BOOLEAN /\ file.removed \in BOOLEAN /\ file.crossed \in BOOLEAN
      BY DEF Saved
    <3>2. (~file.listed /\ ~file.removed) \in BOOLEAN OBVIOUS
    <3> QED BY <2>3, <3>1, <3>2 DEF MasterRestarts, threads, client
  <2> QED BY <1>8, <2>1, <2>2, <2>3 DEF Store
<1>9. CASE UNCHANGED vars
  BY <1>9 DEF vars, registry, disk, threads, client, ghosts
<1> QED BY <1>1, <1>2, <1>3, <1>4, <1>5, <1>6, <1>7, <1>8, <1>9 DEF Next

\* The registry, the client and the requests keep their types for any set of
\* threads.
THEOREM TypeCorrect == Spec => []TypeOK
<1> QED BY TypeInit, TypeStep, PTL DEF Spec

(***************************************************************************)
(* Removals                                                                *)
(***************************************************************************)
LEMMA NotedInit == Init => Noted
  BY DEF Init, Noted, InHand

\* Nothing that the client does puts a request into the master's hands.
LEMMA ClientKeepsHands ==
  ASSUME TypeOK, NEW h \in Threads,
         Connects \/ Disconnects \/ ClientRestarts \/ Heartbeat(h) \/ GivesUp(h)
  PROVE  (InHand # {})' <=> InHand # {}
<1>0. requests \subseteq Request BY DEF TypeOK
<1>1. CASE requests' = requests BY <1>1 DEF InHand
<1>2. CASE ClientRestarts
  <2>1. requests \in SUBSET requests /\ InHand \in SUBSET requests BY DEF InHand
  <2>2. InHand # {} => \E r \in InHand : r.checked BY DEF InHand
  <2>3. InHand # {} => \E r \in Late(InHand) : r.checked
    BY <1>0, <2>1, <2>2, InHandMoves
  <2>4. InHand # {} => \E r \in Late(requests) : r.checked
    BY <1>0, <2>1, InHandMoves DEF InHand
  <2>5. (\E r \in Late(requests) : r.checked) => InHand # {} BY DEF Late, InHand
  <2>6. (\E r \in Late(InHand) : r.checked) => InHand # {} BY DEF Late, InHand
  <2>7. (InHand # {})' <=> \E r \in requests' : r.checked BY DEF InHand
  <2>8. requests' = Late(requests) \/ requests' = Late(InHand) BY <1>2 DEF ClientRestarts
  <2> QED BY <2>3, <2>4, <2>5, <2>6, <2>7, <2>8
<1>3. CASE Sends(h)
  BY <1>3 DEF Sends, InHand
<1>4. CASE GivesUp(h)
  <2> DEFINE rs == Of(h, FALSE)
  <2>1. rs \in SUBSET requests BY DEF Of
  <2>2. CASE rs \intersect InHand = {} /\ requests' = requests \ rs
    BY <2>2 DEF InHand
  <2>3. CASE requests' = (requests \ rs) \union Late(rs)
    <3>1. (\E r \in rs : r.checked) => \E r \in Late(rs) : r.checked
      BY <1>0, <2>1, InHandMoves
    <3>2. (\E r \in Late(rs) : r.checked) => \E r \in rs : r.checked
      <4> SUFFICES ASSUME NEW q \in Late(rs), q.checked PROVE \E r \in rs : r.checked
        OBVIOUS
      <4>1. PICK r \in rs : q = [from |-> r.from, force |-> r.force, checked |-> r.checked,
                                 late |-> TRUE]
        BY DEF Late
      <4> QED BY <4>1
    <3>3. (InHand # {}) <=> \E r \in requests : r.checked BY DEF InHand
    <3>4. (InHand # {})' <=> \E r \in requests' : r.checked BY DEF InHand
    <3>5. (\E r \in requests : r.checked)
             <=> (\E r \in requests \ rs : r.checked) \/ (\E r \in rs : r.checked)
      BY <2>1
    <3>6. (\E r \in requests' : r.checked)
             <=> (\E r \in requests \ rs : r.checked) \/ (\E r \in Late(rs) : r.checked)
      BY <2>3
    <3> QED BY <3>1, <3>2, <3>3, <3>4, <3>5, <3>6
  <2> QED BY <1>4, <2>2, <2>3 DEF GivesUp
<1>5. CASE Connects \/ Disconnects \/ SeesStop(h) \/ HearsOk(h) \/ HearsRemoved(h)
  BY <1>1, <1>5 DEF Connects, Disconnects, SeesStop, HearsOk, HearsRemoved
<1> QED BY <1>2, <1>3, <1>4, <1>5 DEF Heartbeat

LEMMA NotedStep == TypeOK /\ Noted /\ [Next]_vars => Noted'
<1> SUFFICES ASSUME TypeOK, Noted, [Next]_vars PROVE Noted' OBVIOUS
<1>0. requests \subseteq Request BY DEF TypeOK
<1>1. ASSUME UNCHANGED <<listed, removed, saving, copy, file, crossed, overlapped>>,
             (InHand # {})' => InHand # {}
      PROVE  Noted'
  BY <1>1 DEF Noted
<1>2. ASSUME NEW h \in Threads,
             Connects \/ Disconnects \/ ClientRestarts \/ Heartbeat(h) \/ GivesUp(h)
      PROVE  Noted'
  <2>1. (InHand # {})' => InHand # {} BY <1>2, ClientKeepsHands
  <2>2. UNCHANGED <<listed, removed, saving, copy, file, crossed, overlapped>>
    BY <1>2 DEF Connects, Disconnects, ClientRestarts, Heartbeat, SeesStop, Sends,
                HearsOk, HearsRemoved, GivesUp, registry, disk, ghosts
  <2> QED BY <2>1, <2>2, <1>1
<1>3. ASSUME NEW r \in requests, Handles(r) PROVE Noted'
  <2>1. CASE Turns(r)
    <3>1. (InHand # {})' => InHand # {} BY <2>1 DEF Turns, InHand
    <3> QED BY <2>1, <3>1, <1>1 DEF Turns, registry, disk, ghosts
  <2>2. CASE Admits(r) BY <2>2 DEF Admits, Noted, disk
  <2>3. CASE Registers(r)
    <3>1. InHand # {} BY <2>3 DEF Registers, InHand
    <3> QED BY <2>3, <3>1 DEF Registers, Noted, disk
  <2> QED BY <1>3, <2>1, <2>2, <2>3 DEF Handles
<1>4. CASE RemovesEntry
  <2>1. (InHand # {})' => InHand # {} BY <1>4 DEF RemovesEntry, InHand
  <2> QED BY <1>4, <2>1 DEF RemovesEntry, Noted, disk, ghosts
<1>5. CASE AddsName
  <2>1. (InHand # {})' => InHand # {} BY <1>5 DEF AddsName, InHand
  <2> QED BY <1>5, <2>1 DEF AddsName, Noted, disk
<1>6. CASE CopiesAgents
  <2>1. (InHand # {})' => InHand # {} BY <1>6 DEF CopiesAgents, InHand
  <2> QED BY <1>6, <2>1 DEF CopiesAgents, Noted, registry
<1>7. CASE Saves
  <2>1. (InHand # {})' => InHand # {} BY <1>7 DEF Saves, InHand
  <2>2. file'.removed = removed /\ file'.listed = copy /\ file'.crossed = (crossed \/ overlapped)
    BY <1>7 DEF Saves
  <2> QED BY <1>7, <2>1, <2>2 DEF Saves, Noted, registry
<1>8. CASE MasterRestarts
  <2>1. InHand' = {} BY <1>8 DEF MasterRestarts, InHand
  <2> QED BY <1>8, <2>1 DEF MasterRestarts, Noted
<1>9. CASE UNCHANGED vars
  BY <1>9, <1>1 DEF vars, registry, disk, threads, client, ghosts, InHand
<1>10. CASE Connects \/ Disconnects \/ ClientRestarts
  <2>1. CASE Threads = {}
    <3>1. requests = {} BY <1>0, <2>1 DEF Request
    <3>2. InHand' = {} BY <1>10, <3>1 DEF Connects, Disconnects, ClientRestarts, Late, InHand
    <3>3. UNCHANGED <<listed, removed, saving, copy, file, crossed, overlapped>>
      BY <1>10 DEF Connects, Disconnects, ClientRestarts, registry, disk, ghosts
    <3> QED BY <3>2, <3>3, <1>1
  <2>2. CASE Threads # {}
    <3>1. PICK h \in Threads : TRUE BY <2>2
    <3> QED BY <1>10, <3>1, <1>2
  <2> QED BY <2>1, <2>2
<1> QED
  BY <1>2, <1>3, <1>4, <1>5, <1>6, <1>7, <1>8, <1>9, <1>10 DEF Next, Operator, Store

LEMMA NotedAlways == Spec => [](TypeOK /\ Noted)
<1> QED BY TypeInit, TypeStep, NotedInit, NotedStep, PTL DEF Spec

\* No heartbeat brings a removed agent back without lifting the removal, nor
\* does a restart of the master, but for those that overlapped with it.
THEOREM RemovalsStand == Spec => []RemovalStands
<1>1. TypeOK /\ Noted => RemovalStands BY DEF Noted, RemovalStands
<1> QED BY <1>1, NotedAlways, PTL

(***************************************************************************)
(* Connections                                                             *)
(***************************************************************************)
LEMMA SureInit == Init => Sure
  BY DEF Init, Sure

LEMMA SureStep == TypeOK /\ Sure /\ [Next]_vars => Sure'
<1> SUFFICES ASSUME TypeOK, Sure, [Next]_vars, NEW t \in Threads,
                    connected'[t] \/ reply'[t] = "ok"
             PROVE  Known'
  BY DEF Sure
<1> USE DEF TypeOK
<1>0. requests \subseteq Request OBVIOUS
<1>1. connected[t] \/ reply[t] = "ok" => Known BY DEF Sure
<1>2. ASSUME NEW h \in Threads,
             Connects \/ Disconnects \/ ClientRestarts \/ Heartbeat(h) \/ GivesUp(h)
      PROVE  Known'
  <2>1. (InHand # {})' <=> InHand # {} BY <1>2, ClientKeepsHands
  <2>2. UNCHANGED <<listed, removed, removing, forgot>>
    BY <1>2 DEF Connects, Disconnects, ClientRestarts, Heartbeat, SeesStop, Sends,
                HearsOk, HearsRemoved, GivesUp, registry, ghosts
  <2>3. connected[t] \/ reply[t] = "ok"
    <3>1. CASE Connects \/ Disconnects BY <3>1 DEF Connects, Disconnects, threads
    <3>2. CASE ClientRestarts BY <3>2 DEF ClientRestarts
    <3>3. CASE SeesStop(h) BY <3>3 DEF SeesStop
    <3>4. CASE Sends(h) BY <3>4 DEF Sends
    <3>5. CASE HearsOk(h) BY <3>5 DEF HearsOk
    <3>6. CASE HearsRemoved(h) BY <3>6 DEF HearsRemoved
    <3>7. CASE GivesUp(h) BY <3>7 DEF GivesUp
    <3> QED BY <1>2, <3>1, <3>2, <3>3, <3>4, <3>5, <3>6, <3>7 DEF Heartbeat
  <2> QED BY <1>1, <2>1, <2>2, <2>3 DEF Known
<1>3. ASSUME NEW r \in requests, Handles(r) PROVE Known'
  <2>1. CASE Turns(r)
    <3>1. connected[t] \/ reply[t] = "ok" BY <2>1 DEF Turns, Answers, Request
    <3>2. InHand' = InHand BY <2>1, <1>0, InHandMoves DEF Turns, InHand
    <3> QED BY <1>1, <2>1, <3>1, <3>2 DEF Turns, Known, registry, ghosts
  <2>2. CASE Admits(r)
    <3>1. Checked(r).checked BY <1>0, InHandMoves
    <3>2. Checked(r) \in requests' BY <2>2 DEF Admits
    <3> QED BY <3>1, <3>2 DEF Known, InHand
  <2>3. CASE Registers(r) BY <2>3 DEF Registers, Known
  <2> QED BY <1>3, <2>1, <2>2, <2>3 DEF Handles
<1>4. CASE RemovesEntry BY <1>4 DEF RemovesEntry, Known
<1>5. CASE AddsName BY <1>5 DEF AddsName, Known
<1>6. CASE CopiesAgents
  BY <1>1, <1>6 DEF CopiesAgents, Known, InHand, registry, threads
<1>7. CASE Saves
  BY <1>1, <1>7 DEF Saves, Known, InHand, registry, threads
<1>8. CASE MasterRestarts BY <1>8 DEF MasterRestarts, Known
<1>9. CASE UNCHANGED vars
  BY <1>1, <1>9 DEF vars, registry, threads, ghosts, Known, InHand
<1>10. CASE Connects \/ Disconnects \/ ClientRestarts BY <1>2, <1>10
<1> QED
  BY <1>2, <1>3, <1>4, <1>5, <1>6, <1>7, <1>8, <1>9, <1>10 DEF Next, Operator, Store

\* A thread that sends no "force" because it takes itself for connected belongs
\* to an agent the master knows of.
THEOREM ConnectionsAreKnown == Spec => []ConnectedIsKnown
<1>1. Sure => ConnectedIsKnown BY DEF Sure, Known, ConnectedIsKnown
<1> QED BY <1>1, TypeInit, TypeStep, SureInit, SureStep, PTL DEF Spec
=============================================================================
