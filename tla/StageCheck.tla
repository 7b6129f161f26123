----------------------------- MODULE StageCheck -----------------------------
(***************************************************************************)
(* The check of one stage (VerifyStage._do_check in stage/vstage.py) with  *)
(* its checkers (Checker.check and kill in checkers/base.py).              *)
(*                                                                         *)
(* The calls of one tool take turns, but Check, Complete and what the      *)
(* operator invokes are different tools: they run through the checkers of  *)
(* the stage at the same time and keep their verdict in one attribute of   *)
(* the stage.  A checker lets one call in at a time, by a flag that is     *)
(* read and then set, and KillCheck resets that flag.  What a checker      *)
(* starts (pytest, a model checker) is a process it has a handle of.       *)
(***************************************************************************)
EXTENDS Integers

CONSTANTS
  Callers,  \* the tools that check
  Last,     \* the checkers of the stage are 1 .. Last
  Nobody    \* no process

ASSUME CheckAssumption == Last \in Nat \ {0} /\ Nobody \notin Callers

VARIABLES
  check_pass,   \* the verdict, shared by the calls
  is_in_check,  \* of each checker
  process,      \* its _process, named after the call that started it
  alive,        \* calls whose process runs
  pc, at,       \* where a call is, and in which checker
  result,       \* ck_pass, of the last checker the call was in
  killing,      \* the checker KillCheck found at work, or 0
  own,          \* history: every checker the call was in let it pass
  met,          \* history: another call was under way at the same time
  hit           \* history: KillCheck reset the checker the call was in

stage   == <<check_pass, is_in_check, process, alive>>
caller  == <<pc, at, result>>
ghosts  == <<own, met, hit>>
vars    == <<stage, caller, killing, ghosts>>

Checkers == 1 .. Last
Inside   == {"checking", "running"}
Active   == {"next", "entering", "clearing", "back", "ending"} \union Inside
Over     == {"idle", "passed", "failed"}

TypeOK ==
  /\ check_pass \in BOOLEAN
  /\ is_in_check \in [Checkers -> BOOLEAN]
  /\ process \in [Checkers -> Callers \union {Nobody}]
  /\ alive \subseteq Callers
  /\ pc \in [Callers -> Active \union Over]
  /\ at \in [Callers -> Checkers]
  /\ result \in [Callers -> BOOLEAN]
  /\ killing \in Checkers \union {0}
  /\ own \in [Callers -> BOOLEAN] /\ met \in [Callers -> BOOLEAN]
  /\ hit \in [Callers -> BOOLEAN]

Init ==
  /\ check_pass = FALSE
  /\ is_in_check = [c \in Checkers |-> FALSE]
  /\ process = [c \in Checkers |-> Nobody]
  /\ alive = {}
  /\ pc = [t \in Callers |-> "idle"] /\ at = [t \in Callers |-> 1]
  /\ result = [t \in Callers |-> FALSE]
  /\ killing = 0
  /\ own = [t \in Callers |-> FALSE] /\ met = [t \in Callers |-> FALSE]
  /\ hit = [t \in Callers |-> FALSE]

To(t, l) == pc' = [pc EXCEPT ![t] = l]

(***************************************************************************)
(* _do_check                                                               *)
(***************************************************************************)
\* Skills, reference files or output files are missing: a verdict of its own.
GateFails(t) ==
  /\ pc[t] \in Over
  /\ To(t, "failed") /\ own' = [own EXCEPT ![t] = FALSE]
  /\ UNCHANGED <<stage, at, result, killing, met, hit>>

\* Faulty: the verdict is left from the call before.
StartsUnreset(t) ==
  /\ pc[t] \in Over
  /\ To(t, "next") /\ at' = [at EXCEPT ![t] = 1]
  /\ own' = [own EXCEPT ![t] = TRUE]
  /\ met' = [u \in Callers |-> IF u = t THEN \E v \in Callers : pc[v] \in Active
                               ELSE met[u] \/ pc[u] \in Active]
  /\ hit' = [hit EXCEPT ![t] = FALSE]
  /\ UNCHANGED <<stage, result, killing>>

Starts(t) ==
  /\ pc[t] \in Over
  /\ check_pass' = TRUE
  /\ To(t, "next") /\ at' = [at EXCEPT ![t] = 1]
  /\ own' = [own EXCEPT ![t] = TRUE]
  /\ met' = [u \in Callers |-> IF u = t THEN \E v \in Callers : pc[v] \in Active
                               ELSE met[u] \/ pc[u] \in Active]
  /\ hit' = [hit EXCEPT ![t] = FALSE]
  /\ UNCHANGED <<is_in_check, process, alive, result, killing>>

RecordsPass(t) ==
  /\ pc[t] = "back" /\ result[t]
  /\ IF at[t] < Last
     THEN To(t, "next") /\ at' = [at EXCEPT ![t] = @ + 1]
     ELSE To(t, "ending") /\ UNCHANGED at
  /\ UNCHANGED <<stage, result, killing, ghosts>>

RecordsFail(t) ==
  /\ pc[t] = "back" /\ ~result[t]
  /\ check_pass' = FALSE
  /\ To(t, "ending") /\ own' = [own EXCEPT ![t] = FALSE]
  /\ UNCHANGED <<is_in_check, process, alive, at, result, killing, met, hit>>

Returns(t) ==
  /\ pc[t] = "ending"
  /\ To(t, IF check_pass THEN "passed" ELSE "failed")
  /\ UNCHANGED <<stage, at, result, killing, ghosts>>

(***************************************************************************)
(* Checker.check                                                           *)
(***************************************************************************)
Yields(t, l, b) == To(t, l) /\ result' = [result EXCEPT ![t] = b]

\* "Previous check is still running, please wait"
Refused(t) ==
  /\ pc[t] = "next" /\ is_in_check[at[t]]
  /\ Yields(t, "back", FALSE)
  /\ UNCHANGED <<stage, at, killing, ghosts>>

FindsFree(t) ==
  /\ pc[t] = "next" /\ ~is_in_check[at[t]]
  /\ To(t, "entering")
  /\ UNCHANGED <<stage, at, result, killing, ghosts>>

\* Faulty: the flag is not set.
EntersUnmarked(t) ==
  /\ pc[t] = "entering"
  /\ To(t, "checking")
  /\ UNCHANGED <<stage, at, result, killing, ghosts>>

Enters(t) ==
  /\ pc[t] = "entering"
  /\ is_in_check' = [is_in_check EXCEPT ![at[t]] = TRUE]
  /\ To(t, "checking")
  /\ UNCHANGED <<check_pass, process, alive, at, result, killing, ghosts>>

\* set_check_process, called back when the process has been started
StartsProcess(t) ==
  /\ pc[t] = "checking"
  /\ process' = [process EXCEPT ![at[t]] = t]
  /\ alive' = alive \union {t}
  /\ To(t, "running")
  /\ UNCHANGED <<check_pass, is_in_check, at, result, killing, ghosts>>

\* by itself or by its timeout
ProcessEnds(t) ==
  /\ t \in alive
  /\ alive' = alive \ {t}
  /\ UNCHANGED <<check_pass, is_in_check, process, caller, killing, ghosts>>

Done(t) == pc[t] = "checking" \/ (pc[t] = "running" /\ t \notin alive)

\* some checkers never start a process
Concludes(t) ==
  /\ Done(t)
  /\ is_in_check' = [is_in_check EXCEPT ![at[t]] = FALSE]
  /\ \E b \in BOOLEAN : Yields(t, "clearing", b)
  /\ UNCHANGED <<check_pass, process, alive, at, killing, ghosts>>

\* the result is known, but the handle still there
Clears(t) ==
  /\ pc[t] = "clearing"
  /\ process' = [process EXCEPT ![at[t]] = Nobody]
  /\ To(t, "back")
  /\ UNCHANGED <<check_pass, is_in_check, alive, at, result, killing, ghosts>>

\* Faulty: an exception leaves the flag set.
RaisesBusy(t) ==
  /\ Done(t)
  /\ Yields(t, "back", FALSE)
  /\ UNCHANGED <<stage, at, killing, ghosts>>

\* do_check raises: the handle stays.
Raises(t) ==
  /\ Done(t)
  /\ is_in_check' = [is_in_check EXCEPT ![at[t]] = FALSE]
  /\ Yields(t, "back", FALSE)
  /\ UNCHANGED <<check_pass, process, alive, at, killing, ghosts>>

(***************************************************************************)
(* KillCheck: do_kill, and kill of each checker that is_processing         *)
(***************************************************************************)
KillFinds(c) ==
  /\ killing = 0
  /\ is_in_check[c] /\ process[c] # Nobody
  /\ killing' = c
  /\ UNCHANGED <<stage, caller, ghosts>>

\* What was found may be over by now, and something else have begun.
Kills ==
  /\ killing # 0
  /\ alive' = IF is_in_check[killing] THEN alive \ {process[killing]} ELSE alive
  /\ is_in_check' = [is_in_check EXCEPT ![killing] = FALSE]
  /\ hit' = [t \in Callers |-> hit[t] \/ (pc[t] \in Active /\ at[t] = killing)]
  /\ killing' = 0
  /\ UNCHANGED <<check_pass, process, caller, own, met>>

Check(t) ==
  \/ GateFails(t) \/ Starts(t) \/ RecordsPass(t) \/ RecordsFail(t) \/ Returns(t)
  \/ Refused(t) \/ FindsFree(t) \/ Enters(t) \/ StartsProcess(t) \/ ProcessEnds(t)
  \/ Concludes(t) \/ Clears(t) \/ Raises(t)

Next == (\E t \in Callers : Check(t)) \/ (\E c \in Checkers : KillFinds(c)) \/ Kills

Spec == Init /\ [][Next]_vars

(***************************************************************************)
(* Properties                                                              *)
(***************************************************************************)
\* A checker is busy only while a call is in it: no exception, no kill and no
\* crossing of calls leaves it refusing everybody.
BusyMeansInside ==
  \A c \in Checkers : is_in_check[c] => \E t \in Callers : at[t] = c /\ pc[t] \in Inside

\* A call that met no other passes exactly when all checkers let it pass.
VerdictIsOwnIfAlone ==
  \A t \in Callers : pc[t] \in {"passed", "failed"} /\ ~met[t] => (pc[t] = "passed" <=> own[t])

\* While the process of a check that met no other runs, KillCheck finds it,
\* unless it came once before it was there.
RunningIsFound ==
  \A t \in Callers :
    pc[t] = "running" /\ ~met[t] /\ ~hit[t] => is_in_check[at[t]] /\ process[at[t]] = t
=============================================================================
