------------------------------ MODULE Mission ------------------------------
(***************************************************************************)
(* What the stage manager promises, without calls, threads, indices or     *)
(* files: a list of tasks to be done in order, each behind a check.        *)
(*                                                                         *)
(* A task is done only after its check passed, and only when all before it *)
(* are done or excused (the operator let the mission pass over them).      *)
(* What is done is kept from time to time, and a crash goes back to what   *)
(* was kept.  A fault, which is what a race between two tool calls is,     *)
(* voids the promise about checks and order, but not the one about         *)
(* keeping.  A crash in the act of keeping loses everything.               *)
(***************************************************************************)
EXTENDS Integers

CONSTANT Tasks       \* the tasks, by their position in the list

VARIABLES
  checked,   \* tasks whose check has passed
  excused,   \* tasks the mission may pass over
  done,
  kept,      \* what a crash goes back to
  fault

vars == <<checked, excused, done, kept, fault>>

InOrder(t) == \A u \in Tasks : u < t => u \in done \union excused

Init ==
  /\ checked = {} /\ done = {} /\ kept = {}
  /\ excused \subseteq Tasks
  /\ fault = FALSE

Check(t) ==
  /\ checked' = checked \union {t}
  /\ UNCHANGED <<excused, done, kept, fault>>

\* tasks are excused, what is done is kept, or both
ExcuseOrKeep ==
  /\ excused \subseteq excused' /\ excused' \subseteq Tasks
  /\ kept' \in {kept, done}
  /\ UNCHANGED <<checked, done, fault>>

Do(t) ==
  /\ fault \/ (t \in checked /\ InOrder(t))
  /\ done' = done \union {t}
  /\ UNCHANGED <<checked, excused, kept, fault>>

\* a fault strikes while a task is being done, or while it is being kept
Fault ==
  /\ fault' = TRUE
  /\ \/ kept' = done /\ done' = done
     \/ kept' = kept /\ \E t \in Tasks : done' = done \union {t}
  /\ UNCHANGED <<checked, excused>>

Crash ==
  /\ \/ kept' = kept
     \/ kept' = {}
  /\ done' = kept'
  /\ excused \subseteq excused' /\ excused' \subseteq Tasks
  /\ UNCHANGED <<checked, fault>>

Next ==
  \/ \E t \in Tasks : Check(t) \/ Do(t)
  \/ ExcuseOrKeep \/ Fault \/ Crash

Spec == Init /\ [][Next]_vars

=============================================================================
