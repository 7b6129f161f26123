-------------------------- MODULE StageCheckProofs --------------------------
(* Proofs about StageCheck. *)
EXTENDS StageCheck, TLAPS

(***************************************************************************)
(* TypeOK                                                                  *)
(***************************************************************************)
LEMMA TypeInit == Init => TypeOK
<1>1. 1 \in Checkers BY CheckAssumption DEF Checkers
<1> QED BY <1>1 DEF Init, TypeOK, Active, Over

LEMMA TypeStep ==
  ASSUME TypeOK, [Next]_vars
  PROVE  TypeOK'
<1> USE CheckAssumption DEF TypeOK
<1>1. ASSUME NEW t \in Callers, Check(t) PROVE TypeOK'
  <2> USE DEF stage, caller, ghosts, To, Yields, Active, Inside, Over
  <2>1. CASE GateFails(t)     BY <2>1 DEF GateFails
  <2>2. CASE Starts(t)
    <3>1. 1 \in Checkers BY DEF Checkers
    <3>2. met' \in [Callers -> BOOLEAN] BY <2>2 DEF Starts
    <3> QED BY <2>2, <3>1, <3>2 DEF Starts
  <2>3. CASE RecordsPass(t)
    <3>1. at[t] < Last => at[t] + 1 \in Checkers BY DEF Checkers
    <3>2. at' \in [Callers -> Checkers] BY <2>3, <3>1 DEF RecordsPass
    <3> QED BY <2>3, <3>2 DEF RecordsPass
  <2>4. CASE RecordsFail(t)   BY <2>4 DEF RecordsFail
  <2>5. CASE Returns(t)       BY <2>5 DEF Returns
  <2>6. CASE Refused(t)       BY <2>6 DEF Refused
  <2>7. CASE FindsFree(t)     BY <2>7 DEF FindsFree
  <2>8. CASE Enters(t)        BY <2>8 DEF Enters
  <2>9. CASE StartsProcess(t) BY <2>9 DEF StartsProcess
  <2>10. CASE ProcessEnds(t)  BY <2>10 DEF ProcessEnds
  <2>11. CASE Concludes(t)    BY <2>11 DEF Concludes
  <2>12. CASE Clears(t)       BY <2>12 DEF Clears
  <2>13. CASE Raises(t)       BY <2>13 DEF Raises
  <2> QED BY <1>1, <2>1, <2>2, <2>3, <2>4, <2>5, <2>6, <2>7, <2>8, <2>9, <2>10,
             <2>11, <2>12, <2>13 DEF Check
<1>2. ASSUME NEW c \in Checkers, KillFinds(c) PROVE TypeOK'
  BY <1>2 DEF KillFinds, stage, caller, ghosts
<1>3. CASE Kills
  <2>1. hit' \in [Callers -> BOOLEAN] BY <1>3 DEF Kills
  <2> QED BY <1>3, <2>1 DEF Kills, caller
<1>4. CASE UNCHANGED vars BY <1>4 DEF vars, stage, caller, ghosts
<1> QED BY <1>1, <1>2, <1>3, <1>4 DEF Next

(***************************************************************************)
(* The inductive invariant.  Calls that are under way together know it, so *)
(* that whoever does not is alone with check_pass; and a flag that is set  *)
(* was set last by a call that is still inside.                            *)
(***************************************************************************)
TogetherIsMet ==
  \A t, u \in Callers :
    t # u /\ pc[t] \in Active /\ pc[u] \in Active => met[t] /\ met[u]

VerdictIsKept ==
  \A t \in Callers :
    ~met[t] =>
      /\ pc[t] \in Active => check_pass = own[t]
      /\ pc[t] = "passed" => own[t]
      /\ pc[t] = "failed" => ~own[t]

InsideIsMarked ==
  \A t \in Callers :
    /\ ~met[t] /\ ~hit[t] /\ pc[t] \in Inside => is_in_check[at[t]]
    /\ ~met[t] /\ pc[t] = "running" => process[at[t]] = t

IInv == BusyMeansInside /\ TogetherIsMet /\ VerdictIsKept /\ InsideIsMarked

LEMMA InvInit == Init => IInv
BY DEF Init, IInv, BusyMeansInside, TogetherIsMet, VerdictIsKept, InsideIsMarked, Active, Inside

LEMMA InvStep ==
  ASSUME TypeOK, IInv, [Next]_vars
  PROVE  IInv'
<1> USE DEF TypeOK, IInv
<1>1. ASSUME NEW t \in Callers, Check(t) PROVE IInv'
  <2> USE DEF BusyMeansInside, TogetherIsMet, VerdictIsKept, InsideIsMarked,
              stage, caller, ghosts, To, Yields, Active, Inside, Over
  <2>1. CASE GateFails(t)     BY <2>1 DEF GateFails
  <2>2. CASE Starts(t)
    <3>1. /\ pc[t] \in Over /\ pc'[t] = "next" /\ own'[t] = TRUE /\ check_pass' = TRUE
          /\ \A v \in Callers : pc[v] \in Active => met'[t]
          /\ UNCHANGED <<is_in_check, process>>
      BY <2>2 DEF Starts
    <3>2. \A u \in Callers : u # t =>
            pc'[u] = pc[u] /\ at'[u] = at[u] /\ own'[u] = own[u] /\ hit'[u] = hit[u]
      BY <2>2 DEF Starts
    <3>7. ASSUME NEW u \in Callers, u # t PROVE (met[u] => met'[u]) /\ (pc[u] \in Active => met'[u])
      <4>1. met' = [v \in Callers |-> IF v = t THEN \E w \in Callers : pc[w] \in Active
                                     ELSE met[v] \/ pc[v] \in Active]
        BY <2>2 DEF Starts
      <4>2. met'[u] <=> met[u] \/ pc[u] \in Active BY <3>7, <4>1, Zenon
      <4> QED BY <4>2, Zenon
    <3>3. BusyMeansInside' BY <3>1, <3>2
    <3>4. TogetherIsMet' BY <3>1, <3>2, <3>7
    <3>5. VerdictIsKept'
      <4>1. SUFFICES ASSUME NEW u \in Callers, ~met'[u]
                     PROVE  /\ pc'[u] \in Active => check_pass' = own'[u]
                            /\ pc'[u] = "passed" => own'[u]
                            /\ pc'[u] = "failed" => ~own'[u]
        OBVIOUS
      <4>2. CASE u = t BY <4>2, <3>1
      <4>3. CASE u # t BY <4>1, <4>3, <3>1, <3>2, <3>7
      <4> QED BY <4>2, <4>3
    <3>6. InsideIsMarked' BY <3>1, <3>2, <3>7
    <3> QED BY <3>3, <3>4, <3>5, <3>6
  <2>3. CASE RecordsPass(t)
    <3>1. /\ pc[t] = "back" /\ pc'[t] \in {"next", "ending"}
          /\ \A u \in Callers : u # t => pc'[u] = pc[u] /\ at'[u] = at[u]
          /\ UNCHANGED <<check_pass, is_in_check, process, own, met, hit>>
      BY <2>3 DEF RecordsPass
    <3>2. BusyMeansInside' BY <3>1
    <3>3. TogetherIsMet' BY <3>1
    <3>4. VerdictIsKept' BY <3>1
    <3>5. InsideIsMarked' BY <3>1
    <3> QED BY <3>2, <3>3, <3>4, <3>5
  <2>4. CASE RecordsFail(t)
    <3>1. /\ pc[t] = "back" /\ pc'[t] = "ending" /\ own'[t] = FALSE /\ check_pass' = FALSE
          /\ \A u \in Callers : u # t => pc'[u] = pc[u] /\ own'[u] = own[u]
          /\ UNCHANGED <<at, is_in_check, process, met, hit>>
      BY <2>4 DEF RecordsFail
    <3>2. \A u \in Callers : u # t /\ pc[u] \in Active => met[u] BY <3>1
    <3>3. BusyMeansInside' BY <3>1
    <3>4. TogetherIsMet' BY <3>1
    <3>5. VerdictIsKept'
      <4>1. SUFFICES ASSUME NEW u \in Callers, ~met'[u]
                     PROVE  /\ pc'[u] \in Active => check_pass' = own'[u]
                            /\ pc'[u] = "passed" => own'[u]
                            /\ pc'[u] = "failed" => ~own'[u]
        OBVIOUS
      <4>2. ~met[u] BY <4>1, <3>1
      <4>3. CASE u = t BY <4>3, <3>1
      <4>4. CASE u # t BY <4>4, <4>2, <3>1, <3>2
      <4> QED BY <4>3, <4>4
    <3>6. InsideIsMarked' BY <3>1
    <3> QED BY <3>3, <3>4, <3>5, <3>6
  <2>5. CASE Returns(t)       BY <2>5 DEF Returns
  <2>6. CASE Refused(t)       BY <2>6 DEF Refused
  <2>7. CASE FindsFree(t)     BY <2>7 DEF FindsFree
  <2>8. CASE Enters(t)        BY <2>8 DEF Enters
  <2>9. CASE StartsProcess(t) BY <2>9 DEF StartsProcess
  <2>10. CASE ProcessEnds(t)  BY <2>10 DEF ProcessEnds
  <2>11. CASE Concludes(t)    BY <2>11 DEF Concludes, Done
  <2>12. CASE Clears(t)       BY <2>12 DEF Clears
  <2>13. CASE Raises(t)       BY <2>13 DEF Raises, Done
  <2> QED BY <1>1, <2>1, <2>2, <2>3, <2>4, <2>5, <2>6, <2>7, <2>8, <2>9, <2>10,
             <2>11, <2>12, <2>13 DEF Check
<1>2. ASSUME NEW c \in Checkers, KillFinds(c) PROVE IInv'
  BY <1>2 DEF KillFinds, stage, caller, ghosts, BusyMeansInside, TogetherIsMet,
              VerdictIsKept, InsideIsMarked
<1>3. CASE Kills
  BY <1>3 DEF Kills, caller, BusyMeansInside, TogetherIsMet, VerdictIsKept,
              InsideIsMarked, Active, Inside
<1>4. CASE UNCHANGED vars
  BY <1>4 DEF vars, stage, caller, ghosts, BusyMeansInside, TogetherIsMet,
              VerdictIsKept, InsideIsMarked
<1> QED BY <1>1, <1>2, <1>3, <1>4 DEF Next

LEMMA Always == Spec => [](TypeOK /\ IInv)
<1>1. Init => TypeOK /\ IInv BY TypeInit, InvInit
<1>2. TypeOK /\ IInv /\ [Next]_vars => (TypeOK /\ IInv)' BY TypeStep, InvStep
<1> QED BY <1>1, <1>2, PTL DEF Spec

(***************************************************************************)
(* Theorems                                                                *)
(***************************************************************************)
\* No call runs past the last checker; attributes keep their types.
THEOREM TypeCorrect == Spec => []TypeOK
BY Always, PTL

\* However calls, exceptions and kills cross, no checker is left locked.
THEOREM CheckersComeFree == Spec => []BusyMeansInside
<1>1. IInv => BusyMeansInside BY DEF IInv
<1> QED BY <1>1, Always, PTL

\* A call that met no other gets the verdict of its own checkers.
THEOREM VerdictsAreOwn == Spec => []VerdictIsOwnIfAlone
<1>1. IInv => VerdictIsOwnIfAlone BY DEF IInv, VerdictIsKept, VerdictIsOwnIfAlone
<1> QED BY <1>1, Always, PTL

\* The process of a call that met no other can be killed.
THEOREM ProcessesAreFound == Spec => []RunningIsFound
<1>1. IInv => RunningIsFound BY DEF IInv, InsideIsMarked, RunningIsFound, Inside
<1> QED BY <1>1, Always, PTL
=============================================================================
