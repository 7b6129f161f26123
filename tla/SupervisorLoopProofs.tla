------------------------ MODULE SupervisorLoopProofs ------------------------
(* Proofs about SupervisorLoop. *)
EXTENDS SupervisorLoop, TLAPS

(***************************************************************************)
(* TypeOK                                                                  *)
(***************************************************************************)
LEMMA Bounds == MaxRetry \in 1 .. MaxRetry /\ 0 \in 0 .. MaxPresses
BY LoopAssumption

LEMMA Tries ==
  ASSUME retries \in 1 .. MaxRetry, NEW n \in {retries - 1, MaxRetry}, n # 0
  PROVE  n \in 1 .. MaxRetry
BY LoopAssumption

LEMMA QueueGrows ==
  ASSUME cmdqueue \in Seq(Commands), NEW c \in Commands
  PROVE  Append(cmdqueue, c) \in Seq(Commands)
OBVIOUS

LEMMA TypeInit == Init => TypeOK
<1>1. <<>> \in Seq(Commands) OBVIOUS
<1> QED BY <1>1, Bounds DEF Init, TypeOK, MainTyped, AgentTyped, ShellTyped, ThreadsTyped,
           GhostsTyped, Looping, AtPrompt, Bases, Parts

LEMMA MainTypedStep ==
  ASSUME TypeOK, [Next]_vars
  PROVE  MainTyped'
<1> USE Bounds
    DEF TypeOK, MainTyped, AgentTyped, ShellTyped, ThreadsTyped, GhostsTyped, Looping,
        AtPrompt, Bases, main, agent, shell, threads, ghosts, At, To, Over, Back, Ends
<1>1. CASE SeesExit \/ TakesTips \/ Begins \/ Completes \/ Stops \/ Raises
  BY <1>1 DEF SeesExit, TakesTips, Begins, Completes, Stops, Raises,
       Returned, TurnOver, Leaves, Parts
<1>2. CASE QueuesQuit \/ SeesNothingPending \/ Worked \/ Retries
  BY <1>2, Tries DEF QueuesQuit, SeesNothingPending, Worked, Retries,
       Looks, Aborted, Returned, StopsLoop, Enters, Commands, Parts
<1>3. CASE RunsQueued \/ Waits \/ Types
  BY <1>3 DEF RunsQueued, Waits, Types,
       Loop, NextRound, Quit, Enters, Resumes, Commands, Parts
<1>4. CASE HandlesWakeup \/ HandlesCtrlC
  BY <1>4 DEF HandlesWakeup, HandlesCtrlC,
       KeyboardInterrupt, Aborted, Leaves, BreakAsked
<1>5. CASE \/ ClearsBreak \/ SeesBusy \/ Defers \/ ToolQueuesQuit \/ AlreadyQueued
          \/ ToolWakes \/ CompleteNeedsHuman \/ Exits
  BY <1>5 DEF ClearsBreak, SeesBusy, Defers, ToolQueuesQuit, AlreadyQueued,
       ToolWakes, CompleteNeedsHuman, Exits, Steps, Commands
<1>6. CASE PostsCommand \/ PostsInterrupt \/ ApiWakes \/ CtrlC
  BY <1>6 DEF PostsCommand, PostsInterrupt, ApiWakes, CtrlC,
       BreakAsked, Presses, Commands
<1>7. CASE UNCHANGED vars BY <1>7 DEF vars
<1> QED BY <1>1, <1>2, <1>3, <1>4, <1>5, <1>6, <1>7 DEF Next, Runs, ExitGoesOn

LEMMA AgentTypedStep ==
  ASSUME TypeOK, [Next]_vars
  PROVE  AgentTyped'
<1> USE Bounds
    DEF TypeOK, MainTyped, AgentTyped, ShellTyped, ThreadsTyped, GhostsTyped, Looping,
        AtPrompt, Bases, main, agent, shell, threads, ghosts, At, To, Over, Back, Ends
<1>1. CASE SeesExit \/ TakesTips \/ Begins \/ Completes \/ Stops \/ Raises
  BY <1>1 DEF SeesExit, TakesTips, Begins, Completes, Stops, Raises,
       Returned, TurnOver, Leaves, Parts
<1>2. CASE QueuesQuit \/ SeesNothingPending \/ Worked \/ Retries
  BY <1>2 DEF QueuesQuit, SeesNothingPending, Worked, Retries,
       Looks, Aborted, Returned, StopsLoop, Enters, Commands, Parts
<1>3. CASE RunsQueued \/ Waits \/ Types
  BY <1>3 DEF RunsQueued, Waits, Types,
       Loop, NextRound, Quit, Enters, Resumes, Commands, Parts
<1>4. CASE HandlesWakeup \/ HandlesCtrlC
  BY <1>4 DEF HandlesWakeup, HandlesCtrlC,
       KeyboardInterrupt, Aborted, Leaves, BreakAsked
<1>5. CASE \/ ClearsBreak \/ SeesBusy \/ Defers \/ ToolQueuesQuit \/ AlreadyQueued
          \/ ToolWakes \/ CompleteNeedsHuman \/ Exits
  BY <1>5 DEF ClearsBreak, SeesBusy, Defers, ToolQueuesQuit, AlreadyQueued,
       ToolWakes, CompleteNeedsHuman, Exits, Steps, Commands
<1>6. CASE PostsCommand \/ PostsInterrupt \/ ApiWakes \/ CtrlC
  BY <1>6 DEF PostsCommand, PostsInterrupt, ApiWakes, CtrlC,
       BreakAsked, Presses, Commands
<1>7. CASE UNCHANGED vars BY <1>7 DEF vars
<1> QED BY <1>1, <1>2, <1>3, <1>4, <1>5, <1>6, <1>7 DEF Next, Runs, ExitGoesOn

LEMMA ShellTypedStep ==
  ASSUME TypeOK, [Next]_vars
  PROVE  ShellTyped'
<1> USE Bounds
    DEF TypeOK, MainTyped, AgentTyped, ShellTyped, ThreadsTyped, GhostsTyped, Looping,
        AtPrompt, Bases, main, agent, shell, threads, ghosts, At, To, Over, Back, Ends
<1>1. CASE SeesExit \/ TakesTips \/ Begins \/ Completes \/ Stops \/ Raises
  BY <1>1 DEF SeesExit, TakesTips, Begins, Completes, Stops, Raises,
       Returned, TurnOver, Leaves, Parts
<1>2. CASE QueuesQuit \/ SeesNothingPending \/ Worked \/ Retries
  BY <1>2, QueueGrows DEF QueuesQuit, SeesNothingPending, Worked, Retries,
       Looks, Aborted, Returned, StopsLoop, Enters, Commands, Parts
<1>3. CASE RunsQueued \/ Waits \/ Types
  BY <1>3 DEF RunsQueued, Waits, Types,
       Loop, NextRound, Quit, Enters, Resumes, Commands, Parts
<1>4. CASE HandlesWakeup \/ HandlesCtrlC
  BY <1>4 DEF HandlesWakeup, HandlesCtrlC,
       KeyboardInterrupt, Aborted, Leaves, BreakAsked
<1>5. CASE \/ ClearsBreak \/ SeesBusy \/ Defers \/ ToolQueuesQuit \/ AlreadyQueued
          \/ ToolWakes \/ CompleteNeedsHuman \/ Exits
  BY <1>5, QueueGrows DEF ClearsBreak, SeesBusy, Defers, ToolQueuesQuit, AlreadyQueued,
       ToolWakes, CompleteNeedsHuman, Exits, Steps, Commands
<1>6. CASE PostsCommand \/ PostsInterrupt \/ ApiWakes \/ CtrlC
  BY <1>6, QueueGrows DEF PostsCommand, PostsInterrupt, ApiWakes, CtrlC,
       BreakAsked, Presses, Commands
<1>7. CASE UNCHANGED vars BY <1>7 DEF vars
<1> QED BY <1>1, <1>2, <1>3, <1>4, <1>5, <1>6, <1>7 DEF Next, Runs, ExitGoesOn

LEMMA ThreadsTypedStep ==
  ASSUME TypeOK, [Next]_vars
  PROVE  ThreadsTyped'
<1> USE Bounds
    DEF TypeOK, MainTyped, AgentTyped, ShellTyped, ThreadsTyped, GhostsTyped, Looping,
        AtPrompt, Bases, main, agent, shell, threads, ghosts, At, To, Over, Back, Ends
<1>1. CASE SeesExit \/ TakesTips \/ Begins \/ Completes \/ Stops \/ Raises
  BY <1>1 DEF SeesExit, TakesTips, Begins, Completes, Stops, Raises,
       Returned, TurnOver, Leaves, Parts
<1>2. CASE QueuesQuit \/ SeesNothingPending \/ Worked \/ Retries
  BY <1>2 DEF QueuesQuit, SeesNothingPending, Worked, Retries,
       Looks, Aborted, Returned, StopsLoop, Enters, Commands, Parts
<1>3. CASE RunsQueued \/ Waits \/ Types
  BY <1>3 DEF RunsQueued, Waits, Types,
       Loop, NextRound, Quit, Enters, Resumes, Commands, Parts
<1>4. CASE HandlesWakeup \/ HandlesCtrlC
  BY <1>4 DEF HandlesWakeup, HandlesCtrlC,
       KeyboardInterrupt, Aborted, Leaves, BreakAsked
<1>5. CASE \/ ClearsBreak \/ SeesBusy \/ Defers \/ ToolQueuesQuit \/ AlreadyQueued
          \/ ToolWakes \/ CompleteNeedsHuman \/ Exits
  BY <1>5 DEF ClearsBreak, SeesBusy, Defers, ToolQueuesQuit, AlreadyQueued,
       ToolWakes, CompleteNeedsHuman, Exits, Steps, Commands
<1>6. CASE PostsCommand \/ PostsInterrupt \/ ApiWakes \/ CtrlC
  <2>1. presses < MaxPresses => presses + 1 \in 0 .. MaxPresses BY LoopAssumption
  <2> QED BY <1>6, <2>1 DEF PostsCommand, PostsInterrupt, ApiWakes, CtrlC,
       BreakAsked, Presses, Commands
<1>7. CASE UNCHANGED vars BY <1>7 DEF vars
<1> QED BY <1>1, <1>2, <1>3, <1>4, <1>5, <1>6, <1>7 DEF Next, Runs, ExitGoesOn

LEMMA GhostsTypedStep ==
  ASSUME TypeOK, [Next]_vars
  PROVE  GhostsTyped'
<1> USE Bounds
    DEF TypeOK, MainTyped, AgentTyped, ShellTyped, ThreadsTyped, GhostsTyped, Looping,
        AtPrompt, Bases, main, agent, shell, threads, ghosts, At, To, Over, Back, Ends
<1>1. CASE SeesExit \/ TakesTips \/ Begins \/ Completes \/ Stops \/ Raises
  <2>1. since \in {1, 2} => since + 1 \in {2, 3} OBVIOUS
  <2> QED BY <1>1, <2>1 DEF SeesExit, TakesTips, Begins, Completes, Stops, Raises,
       Returned, TurnOver, Leaves, Parts
<1>2. CASE QueuesQuit \/ SeesNothingPending \/ Worked \/ Retries
  BY <1>2 DEF QueuesQuit, SeesNothingPending, Worked, Retries,
       Looks, Aborted, Returned, StopsLoop, Enters, Commands, Parts
<1>3. CASE RunsQueued \/ Waits \/ Types
  BY <1>3 DEF RunsQueued, Waits, Types,
       Loop, NextRound, Quit, Enters, Resumes, Commands, Parts
<1>4. CASE HandlesWakeup \/ HandlesCtrlC
  BY <1>4 DEF HandlesWakeup, HandlesCtrlC,
       KeyboardInterrupt, Aborted, Leaves, BreakAsked
<1>5. CASE \/ ClearsBreak \/ SeesBusy \/ Defers \/ ToolQueuesQuit \/ AlreadyQueued
          \/ ToolWakes \/ CompleteNeedsHuman \/ Exits
  BY <1>5 DEF ClearsBreak, SeesBusy, Defers, ToolQueuesQuit, AlreadyQueued,
       ToolWakes, CompleteNeedsHuman, Exits, Steps, Commands
<1>6. CASE PostsCommand \/ PostsInterrupt \/ ApiWakes \/ CtrlC
  BY <1>6 DEF PostsCommand, PostsInterrupt, ApiWakes, CtrlC,
       BreakAsked, Presses, Commands
<1>7. CASE UNCHANGED vars BY <1>7 DEF vars
<1> QED BY <1>1, <1>2, <1>3, <1>4, <1>5, <1>6, <1>7 DEF Next, Runs, ExitGoesOn

LEMMA TypeStep ==
  ASSUME TypeOK, [Next]_vars
  PROVE  TypeOK'
BY MainTypedStep, AgentTypedStep, ShellTypedStep, ThreadsTypedStep, GhostsTypedStep DEF TypeOK

(***************************************************************************)
(* The inductive invariant: what must not go on is broken, waits for a     *)
(* human or is exited, until the main thread is back at the prompt.        *)
(***************************************************************************)
Quiet == AtPrompt \union {"over"}

ErrorIsFresh ==
  /\ pc = "working" => ~error
  /\ pc \in {"ended", "after"} /\ error => failed

FailureHolds ==
  failed /\ ~is_exit =>
    pc \in Quiet \/ (pc \in {"ended", "after"} /\ leave # "raise" /\ need_break)

BreakHolds ==
  /\ since # 0 /\ ~is_exit => pc \in Quiet \/ need_break
  /\ since = 2 /\ ~is_exit => pc \in Quiet \union {"working", "ended", "after", "retrying"}
  /\ since # 3

HumanHolds ==
  asked = "asked" /\ ~is_exit =>
    \/ pc \in Quiet
    \/ pc = "working" /\ need_human
    \/ pc \in {"ended", "after"} /\ leave # "raise" /\ need_human

ExitHolds == tool # "idle" => is_exit

IInv == ExitHolds /\ ErrorIsFresh /\ FailureHolds /\ BreakHolds /\ HumanHolds /\ WakeupIsSpent

LEMMA InvInit == Init => IInv
BY DEF Init, IInv, ExitHolds, ErrorIsFresh, FailureHolds, BreakHolds, HumanHolds, WakeupIsSpent,
       Quiet, AtPrompt

LEMMA InvStep ==
  ASSUME TypeOK, IInv, [Next]_vars
  PROVE  IInv'
<1> USE DEF TypeOK, MainTyped, AgentTyped, ShellTyped, ThreadsTyped, GhostsTyped, IInv, ExitHolds,
            ErrorIsFresh, FailureHolds, BreakHolds, HumanHolds, WakeupIsSpent,
            Quiet, Looping, AtPrompt, main, agent, shell, threads, ghosts,
            At, To, Over, Back, Ends
<1>1. CASE SeesExit BY <1>1 DEF SeesExit, Returned
<1>2. CASE TakesTips BY <1>2 DEF TakesTips
<1>3. CASE Begins BY <1>3 DEF Begins
<1>4. CASE Completes BY <1>4 DEF Completes, TurnOver, Leaves, Parts
<1>5. CASE Stops
  <2>1. /\ pc = "working" /\ pc' = "ended" /\ leave' = "on" /\ need_break' = TRUE /\ failed' = TRUE
        /\ UNCHANGED <<is_exit, asked, since, wakeup, sigint, tool, api>>
    BY <1>5 DEF Stops, TurnOver, Leaves
  <2>2. need_human => need_human'
    <3>1. need_human' \in {need_human, TRUE} BY <1>5 DEF Stops
    <3> QED BY <3>1
  <2>3. ErrorIsFresh' /\ FailureHolds' BY <2>1
  <2>4. BreakHolds' BY <2>1
  <2>5. HumanHolds' BY <2>1, <2>2
  <2>6. WakeupIsSpent' /\ ExitHolds' BY <2>1
  <2> QED BY <2>3, <2>4, <2>5, <2>6
<1>6. CASE Raises
  <2>1. /\ pc = "working" /\ pc' = "ended" /\ asked' # "asked"
        /\ UNCHANGED <<is_exit, error, failed, need_break, since, wakeup, sigint, tool, api>>
    BY <1>6 DEF Raises, TurnOver, Leaves
  <2>2. ErrorIsFresh' /\ FailureHolds' BY <2>1
  <2>3. BreakHolds' BY <2>1
  <2>4. HumanHolds' /\ WakeupIsSpent' /\ ExitHolds' BY <2>1
  <2> QED BY <2>2, <2>3, <2>4
<1>7. CASE QueuesQuit BY <1>7 DEF QueuesQuit, Looks, Commands
<1>8. CASE SeesNothingPending BY <1>8 DEF SeesNothingPending, Looks
<1>9. CASE Worked
  <2>1. /\ pc = "after" /\ leave \in {"on", "raise", "abort"}
        /\ UNCHANGED <<is_exit, error, failed, need_break, need_human, asked, since>>
        /\ UNCHANGED <<wakeup, sigint, tool, api>>
    BY <1>9 DEF Worked
  <2>2. \/ pc' \in Quiet
        \/ leave = "raise" /\ pc' = "retrying" /\ leave' = "on"
        \/ leave = "on" /\ pc' = "top" /\ error /\ ~need_break
        \/ leave = "on" /\ pc' = "top" /\ ~is_exit /\ ~need_break /\ ~need_human
    <3>1. Returned => pc' \in Quiet BY DEF Returned
    <3>2. CASE leave = "abort" BY <1>9, <3>2 DEF Worked, Aborted
    <3>3. CASE leave = "raise" BY <1>9, <3>3 DEF Worked
    <3>4. CASE leave = "on"
      <4>1. CASE (error /\ ~need_break) \/ (base # "round" /\ ~StopsLoop)
        <5>1. To("top") BY <1>9, <3>4, <4>1 DEF Worked
        <5> QED BY <3>4, <4>1, <5>1 DEF StopsLoop
      <4>2. CASE ~((error /\ ~need_break) \/ (base # "round" /\ ~StopsLoop))
        <5>1. Returned BY <1>9, <3>4, <4>2, Zenon DEF Worked
        <5> QED BY <3>1, <5>1
      <4> QED BY <4>1, <4>2
    <3> QED BY <2>1, <3>2, <3>3, <3>4
  <2>3. WakeupIsSpent' /\ ExitHolds' BY <2>1
  <2>4. CASE pc' \in Quiet BY <2>1, <2>3, <2>4
  <2>5. CASE leave = "raise" /\ pc' = "retrying" /\ leave' = "on" BY <2>1, <2>3, <2>5
  <2>6. CASE leave = "on" /\ pc' = "top" /\ error /\ ~need_break
    <3>1. is_exit BY <2>1, <2>6
    <3> QED BY <2>1, <2>3, <2>6, <3>1
  <2>7. CASE leave = "on" /\ pc' = "top" /\ ~is_exit /\ ~need_break /\ ~need_human
    BY <2>1, <2>3, <2>7
  <2> QED BY <2>2, <2>4, <2>5, <2>6, <2>7
<1>10. CASE Retries BY <1>10 DEF Retries, Enters
<1>11. CASE RunsQueued BY <1>11 DEF RunsQueued, Loop, Quit, Enters, Resumes, Commands, Parts
<1>12. CASE Waits BY <1>12 DEF Waits
<1>13. CASE HandlesWakeup BY <1>13 DEF HandlesWakeup, KeyboardInterrupt, Aborted, Leaves
<1>14. CASE HandlesCtrlC BY <1>14 DEF HandlesCtrlC, KeyboardInterrupt, Aborted, Leaves, BreakAsked
<1>15. CASE Types BY <1>15 DEF Types, Loop, NextRound, Quit, Enters, Resumes, Parts
<1>16. CASE ClearsBreak BY <1>16 DEF ClearsBreak, Steps
<1>17. CASE SeesBusy BY <1>17 DEF SeesBusy, Steps
<1>18. CASE Defers BY <1>18 DEF Defers, Steps
<1>19. CASE ToolQueuesQuit BY <1>19 DEF ToolQueuesQuit, Steps
<1>20. CASE AlreadyQueued BY <1>20 DEF AlreadyQueued, Steps
<1>21. CASE ToolWakes BY <1>21 DEF ToolWakes, Steps
<1>22. CASE CompleteNeedsHuman BY <1>22 DEF CompleteNeedsHuman
<1>23. CASE Exits BY <1>23 DEF Exits, Steps
<1>24. CASE PostsCommand BY <1>24 DEF PostsCommand, Presses
<1>25. CASE PostsInterrupt BY <1>25 DEF PostsInterrupt, BreakAsked, Presses
<1>26. CASE ApiWakes BY <1>26 DEF ApiWakes
<1>27. CASE CtrlC BY <1>27 DEF CtrlC, Presses
<1>28. CASE UNCHANGED vars BY <1>28 DEF vars
<1> QED BY <1>1, <1>2, <1>3, <1>4, <1>5, <1>6, <1>7, <1>8, <1>9, <1>10, <1>11,
         <1>12, <1>13, <1>14, <1>15, <1>16, <1>17, <1>18, <1>19, <1>20, <1>21,
         <1>22, <1>23, <1>24, <1>25, <1>26, <1>27, <1>28 DEF Next, Runs, ExitGoesOn

LEMMA Always == Spec => [](TypeOK /\ IInv)
<1>1. Init => TypeOK /\ IInv BY TypeInit, InvInit
<1>2. TypeOK /\ IInv /\ [Next]_vars => (TypeOK /\ IInv)' BY TypeStep, InvStep
<1> QED BY <1>1, <1>2, PTL DEF Spec

(***************************************************************************)
(* What carries an Exit to the end of the program: the call, then what it  *)
(* left for the main thread, then the queue.                               *)
(***************************************************************************)
BusyMeansWorking == busy => pc = "working"

QueuedStays == queued /\ pc # "over" => QuitIsQueued

InputIsWoken == pc = "input" /\ cmdqueue # <<>> => wakeup

ExitIsCarried ==
  is_exit /\ ~cut =>
    \/ pc = "over"
    \/ tool \in {"exiting", "asking", "queuing"}
    \/ pc \in {"working", "ended"} /\ (tool = "deferring" \/ (pending /\ ~queued))
    \/ QuitIsQueued

ExitInv == BusyMeansWorking /\ QueuedStays /\ InputIsWoken /\ ExitIsCarried

\* What is queued stays until it is run.
LEMMA AppendKeeps ==
  ASSUME cmdqueue \in Seq(Commands), NEW c \in Commands, cmdqueue' = Append(cmdqueue, c)
  PROVE  QuitIsQueued \/ c = "quit" => QuitIsQueued'
<1>1. /\ Len(cmdqueue') = Len(cmdqueue) + 1 /\ cmdqueue'[Len(cmdqueue) + 1] = c
      /\ \A i \in 1 .. Len(cmdqueue) : cmdqueue'[i] = cmdqueue[i]
      /\ Len(cmdqueue) \in Nat
  OBVIOUS
<1>2. CASE c = "quit"
  <2>1. Len(cmdqueue) + 1 \in 1 .. Len(cmdqueue') BY <1>1
  <2> QED BY <1>1, <1>2, <2>1 DEF QuitIsQueued
<1>3. CASE QuitIsQueued
  <2>1. PICK i \in 1 .. Len(cmdqueue) : cmdqueue[i] = "quit" BY <1>3 DEF QuitIsQueued
  <2>2. i \in 1 .. Len(cmdqueue') /\ cmdqueue'[i] = "quit" BY <1>1, <2>1
  <2> QED BY <2>2 DEF QuitIsQueued
<1> QED BY <1>2, <1>3

LEMMA TailKeeps ==
  ASSUME cmdqueue \in Seq(Commands), cmdqueue # <<>>, cmdqueue' = Tail(cmdqueue),
         QuitIsQueued, Head(cmdqueue) # "quit"
  PROVE  QuitIsQueued'
<1>1. PICK i \in 1 .. Len(cmdqueue) : cmdqueue[i] = "quit" BY DEF QuitIsQueued
<1>2. i # 1 BY <1>1
<1>3. i - 1 \in 1 .. Len(cmdqueue') /\ cmdqueue'[i - 1] = cmdqueue[i] BY <1>2
<1> QED BY <1>1, <1>3 DEF QuitIsQueued

\* A step that changes nothing an Exit hangs on, and does not begin one.
LEMMA ExitKept ==
  ASSUME ExitInv, UNCHANGED <<is_exit, pending, queued, cmdqueue, wakeup, tool>>,
         cut => cut', busy' => pc' = "working",
         pc = "over" => pc' = "over",
         pc' = "input" => pc = "input" \/ cmdqueue = <<>>,
         pc \in {"working", "ended"} =>
           \/ pc' \in {"working", "ended"} \/ cut'
           \/ tool # "deferring" /\ ~(pending /\ ~queued)
  PROVE  ExitInv'
BY DEF ExitInv, BusyMeansWorking, QueuedStays, InputIsWoken, ExitIsCarried, QuitIsQueued

LEMMA ExitInit == Init => ExitInv
BY DEF Init, ExitInv, BusyMeansWorking, QueuedStays, InputIsWoken, ExitIsCarried, AtPrompt

LEMMA ExitStepMain ==
  ASSUME TypeOK, ExitInv, Runs \/ Types
  PROVE  ExitInv'
<1> USE DEF Looping, AtPrompt, main, agent, shell, threads, ghosts, At, To, Over, Back, Ends
<1>0. cmdqueue \in Seq(Commands) /\ leave \in {"on", "raise", "abort"}
  BY DEF TypeOK, ShellTyped, MainTyped
<1>1. CASE SeesExit BY <1>1, ExitKept DEF SeesExit, Returned, ExitInv, BusyMeansWorking
<1>2. CASE TakesTips BY <1>2, ExitKept DEF TakesTips, ExitInv, BusyMeansWorking
<1>3. CASE Begins BY <1>3, ExitKept DEF Begins
<1>4. CASE Completes \/ Stops \/ Raises
  <2>1. pc = "working" /\ pc' = "ended" /\ busy' = FALSE
        /\ UNCHANGED <<is_exit, pending, queued, shell, threads, cut>>
    BY <1>4 DEF Completes, Stops, Raises, TurnOver, Leaves
  <2> QED BY <2>1, ExitKept
<1>5. CASE QueuesQuit
  <2>1. QuitIsQueued' BY <1>0, <1>5, AppendKeeps DEF QueuesQuit, Commands
  <2> QED BY <1>5, <2>1 DEF QueuesQuit, Looks, ExitInv, BusyMeansWorking, QueuedStays,
          InputIsWoken, ExitIsCarried
<1>6. CASE SeesNothingPending
  BY <1>6, ExitKept DEF SeesNothingPending, Looks, ExitInv, BusyMeansWorking
<1>7. CASE Worked
  <2>1. pc = "after" /\ pc' \in {"top", "retrying", "prompt", "over"}
        /\ UNCHANGED <<agent, shell, threads, ghosts>>
    <3>1. Returned => pc' \in {"prompt", "over"} BY DEF Returned
    <3>2. Aborted => pc' \in {"prompt", "over"} BY DEF Aborted
    <3>3. CASE leave = "abort" BY <1>7, <3>2, <3>3 DEF Worked
    <3>4. CASE leave = "raise" BY <1>7, <3>4 DEF Worked
    <3>5. CASE leave = "on"
      <4>1. CASE (error /\ ~need_break) \/ (base # "round" /\ ~StopsLoop)
        BY <1>7, <3>5, <4>1 DEF Worked
      <4>2. CASE ~((error /\ ~need_break) \/ (base # "round" /\ ~StopsLoop))
        <5>1. Returned BY <1>7, <3>5, <4>2, Zenon DEF Worked
        <5> QED BY <1>7, <3>1, <5>1 DEF Worked
      <4> QED BY <4>1, <4>2
    <3> QED BY <1>0, <3>3, <3>4, <3>5
  <2> QED BY <2>1, ExitKept DEF ExitInv, BusyMeansWorking
<1>8. CASE Retries BY <1>8, ExitKept DEF Retries, Enters, ExitInv, BusyMeansWorking
<1>9. CASE RunsQueued
  <2>1. CASE Head(cmdqueue) = "quit"
    BY <1>9, <2>1 DEF RunsQueued, Loop, Quit, ExitInv, BusyMeansWorking, QueuedStays, InputIsWoken,
       ExitIsCarried
  <2>2. CASE Head(cmdqueue) # "quit"
    <3>1. QuitIsQueued => QuitIsQueued' BY <1>0, <1>9, <2>2, TailKeeps DEF RunsQueued
    <3>2. pc = "prompt" /\ pc' \in {"top", "prompt"}
          /\ UNCHANGED <<is_exit, busy, pending, queued, tool, wakeup, cut>>
      BY <1>9, <2>2 DEF RunsQueued, Loop, Enters, Resumes
    <3> QED BY <3>1, <3>2 DEF ExitInv, BusyMeansWorking, QueuedStays, InputIsWoken, ExitIsCarried
  <2> QED BY <2>1, <2>2
<1>10. CASE Waits BY <1>10, ExitKept DEF Waits, ExitInv, BusyMeansWorking
<1>11. CASE HandlesWakeup
  <2>1. UNCHANGED <<is_exit, pending, queued, cmdqueue, tool>> BY <1>11 DEF HandlesWakeup
  <2>2. CASE pc \in AtPrompt
    <3>1. pc' = "prompt" /\ UNCHANGED <<busy, cut>>
      BY <1>11, <2>2 DEF HandlesWakeup, KeyboardInterrupt
    <3> QED BY <2>1, <2>2, <3>1 DEF ExitInv, BusyMeansWorking, QueuedStays, InputIsWoken,
            ExitIsCarried, QuitIsQueued
  <2>3. CASE pc = "working"
    <3>1. pc' = "ended" /\ busy' = FALSE /\ UNCHANGED cut
      BY <1>11, <2>3 DEF HandlesWakeup, KeyboardInterrupt, Leaves
    <3> QED BY <2>1, <2>3, <3>1 DEF ExitInv, BusyMeansWorking, QueuedStays, InputIsWoken,
            ExitIsCarried, QuitIsQueued
  <2>4. CASE pc \in Looping \ {"working"}
    <3>1. pc' \in {"prompt", "over"} /\ cut' = (cut \/ pc = "ended") /\ UNCHANGED busy
      BY <1>11, <2>4 DEF HandlesWakeup, KeyboardInterrupt, Aborted
    <3> QED BY <2>1, <2>4, <3>1 DEF ExitInv, BusyMeansWorking, QueuedStays, InputIsWoken,
            ExitIsCarried, QuitIsQueued
  <2> QED BY <1>11, <2>2, <2>3, <2>4 DEF HandlesWakeup, KeyboardInterrupt
<1>12. CASE HandlesCtrlC
  BY <1>12, ExitKept DEF HandlesCtrlC, BreakAsked, KeyboardInterrupt, Aborted, Leaves,
     ExitInv, BusyMeansWorking
<1>13. CASE Types
  <2>1. CASE Quit BY <1>13, <2>1 DEF Types, Quit, ExitInv, BusyMeansWorking, QueuedStays,
                     InputIsWoken, ExitIsCarried
  <2>2. CASE Loop \/ NextRound
    BY <1>13, <2>2, ExitKept DEF Types, Loop, NextRound, Enters, Resumes, ExitInv, BusyMeansWorking
  <2> QED BY <1>13, <2>1, <2>2 DEF Types
<1> QED BY <1>1, <1>2, <1>3, <1>4, <1>5, <1>6, <1>7, <1>8, <1>9, <1>10, <1>11, <1>12, <1>13 DEF Runs

LEMMA ExitStepThreads ==
  ASSUME TypeOK, ExitInv, [Next]_vars, ~Runs, ~Types
  PROVE  ExitInv'
<1> USE DEF main, agent, shell, threads, ghosts
<1>0. cmdqueue \in Seq(Commands) BY DEF TypeOK, ShellTyped
<1>1. CASE ClearsBreak \/ SeesBusy \/ Defers \/ AlreadyQueued \/ ToolWakes \/ Exits
  BY <1>1 DEF ClearsBreak, SeesBusy, Defers, AlreadyQueued, ToolWakes, Exits, Steps, AtPrompt,
     ExitInv, BusyMeansWorking, QueuedStays, InputIsWoken, ExitIsCarried, QuitIsQueued
<1>2. CASE ToolQueuesQuit
  <2>1. QuitIsQueued' BY <1>0, <1>2, AppendKeeps DEF ToolQueuesQuit, Commands
  <2> QED BY <1>2, <2>1 DEF ToolQueuesQuit, Steps, ExitInv, BusyMeansWorking, QueuedStays,
          InputIsWoken, ExitIsCarried
<1>3. CASE PostsCommand
  <2>1. QuitIsQueued => QuitIsQueued' BY <1>0, <1>3, AppendKeeps DEF PostsCommand
  <2> QED BY <1>3, <2>1 DEF PostsCommand, Presses, ExitInv, BusyMeansWorking, QueuedStays,
          InputIsWoken, ExitIsCarried
<1>4. CASE CompleteNeedsHuman \/ PostsInterrupt \/ ApiWakes \/ CtrlC \/ UNCHANGED vars
  BY <1>4, ExitKept DEF CompleteNeedsHuman, PostsInterrupt, ApiWakes, CtrlC, BreakAsked, Presses,
     vars, ExitInv, BusyMeansWorking
<1> QED BY <1>1, <1>2, <1>3, <1>4 DEF Next, ExitGoesOn

LEMMA ExitStep == TypeOK /\ ExitInv /\ [Next]_vars => ExitInv'
BY ExitStepMain, ExitStepThreads

(***************************************************************************)
(* Theorems                                                                *)
(***************************************************************************)
\* The tries are counted within their bound; flags and queues keep their types.
THEOREM TypeCorrect == Spec => []TypeOK
BY Always, PTL

\* However signals, threads and retries cross, a break that was asked for lets
\* at most one turn begin.
THEOREM BreaksAreObeyed == Spec => []BreakStopsSoon
<1>1. TypeOK /\ IInv => BreakStopsSoon BY DEF TypeOK, GhostsTyped, IInv, BreakHolds, BreakStopsSoon
<1> QED BY <1>1, Always, PTL

\* No wakeup is left over for an operator's Ctrl-C to be taken for.
THEOREM WakeupsAreSpent == Spec => []WakeupIsSpent
<1>1. IInv => WakeupIsSpent BY DEF IInv
<1> QED BY <1>1, Always, PTL

\* No turn begins after one that failed until the operator resumes.
THEOREM FailuresStop == Spec => StopsForFailure
<1>1. IInv /\ [Next]_vars => [Begins => ~failed]_vars
  BY DEF IInv, FailureHolds, Quiet, AtPrompt, Begins, At
<1> QED BY <1>1, Always, PTL DEF Spec, StopsForFailure

\* No turn begins after one that asked for a human check and did not raise.
THEOREM HumansAreAwaited == Spec => StopsForHuman
<1>1. IInv /\ [Next]_vars => [Begins => asked # "asked"]_vars
  BY DEF IInv, HumanHolds, Quiet, AtPrompt, Begins, At
<1> QED BY <1>1, Always, PTL DEF Spec, StopsForHuman

\* What the operator said is only taken out of the message when it is told.
THEOREM MessagesAreKept == Spec => MessageIsKept
<1> DEFINE Kept == "operator" \in message \ message' => TakesTips
<1> USE DEF main, agent, shell, threads, ghosts
<1>1. ASSUME [Next]_vars, ~TakesTips PROVE "operator" \in message => "operator" \in message'
  <2>1. CASE SeesExit \/ Begins \/ QueuesQuit \/ SeesNothingPending \/ Worked
    BY <2>1 DEF SeesExit, Begins, QueuesQuit, SeesNothingPending, Worked
  <2>2. CASE Completes \/ Stops \/ Raises BY <2>2 DEF Completes, Stops, Raises
  <2>3. CASE Retries \/ RunsQueued \/ Types
    BY <2>3 DEF Retries, RunsQueued, Types, Enters, Loop, NextRound, Quit
  <2>4. CASE Waits \/ HandlesWakeup \/ HandlesCtrlC
    BY <2>4 DEF Waits, HandlesWakeup, HandlesCtrlC
  <2>5. CASE ExitGoesOn \/ CompleteNeedsHuman \/ Exits
    BY <2>5 DEF ExitGoesOn, ClearsBreak, SeesBusy, Defers, ToolQueuesQuit, AlreadyQueued, ToolWakes,
       CompleteNeedsHuman, Exits
  <2>6. CASE PostsCommand \/ PostsInterrupt \/ ApiWakes \/ CtrlC \/ UNCHANGED vars
    BY <2>6 DEF PostsCommand, PostsInterrupt, ApiWakes, CtrlC, vars
  <2> QED BY <1>1, <2>1, <2>2, <2>3, <2>4, <2>5, <2>6 DEF Next, Runs
<1>2. [Next]_vars => [Kept]_vars BY <1>1
<1> QED BY <1>2, PTL DEF Spec, MessageIsKept

\* Until the program is over, an Exit is in somebody's hands, and nobody waits
\* for a signal that does not come.
THEOREM ExitsAreUnderWay == Spec => []ExitIsUnderWay
<1>1. IInv /\ ExitInv => ExitIsUnderWay
  <2>1. QuitIsQueued => cmdqueue # <<>> BY DEF QuitIsQueued
  <2> QED BY <2>1 DEF IInv, WakeupIsSpent, ExitInv, InputIsWoken, ExitIsCarried, ExitIsUnderWay
<1> QED BY <1>1, Always, ExitInit, ExitStep, PTL DEF Spec

\* A loop that was broken has at most as many steps of its own left as there are
\* places ahead of it.
THEOREM BreaksRunDown == Spec => BreakRunsDown
<1> DEFINE Forward == need_break /\ need_break' /\ {pc, pc'} \subseteq Looping
                        => pc' = pc \/ Ahead[pc'] < Ahead[pc]
<1> USE DEF Looping, AtPrompt, Ahead, At, To, Over, Back, Ends, main
<1>1. ASSUME TypeOK, [Next]_vars PROVE Forward
  <2>0. leave \in {"on", "raise", "abort"} BY <1>1 DEF TypeOK, MainTyped
  <2>1. CASE SeesExit \/ TakesTips \/ Begins
    BY <2>1 DEF SeesExit, TakesTips, Begins, Returned
  <2>2. CASE Completes \/ Stops \/ Raises
    <3>1. pc = "working" /\ pc' = "ended"
      BY <2>2 DEF Completes, Stops, Raises, TurnOver, Leaves
    <3> QED BY <3>1
  <2>3. CASE QueuesQuit \/ SeesNothingPending BY <2>3 DEF QueuesQuit, SeesNothingPending, Looks
  <2>4. CASE Worked
    <3>1. need_break => pc = "after" /\ pc' \in {"retrying", "prompt", "over"}
      <4>1. Returned => pc' \in {"prompt", "over"} BY DEF Returned
      <4>2. Aborted => pc' \in {"prompt", "over"} BY DEF Aborted
      <4>3. CASE leave = "abort" BY <2>4, <4>2, <4>3 DEF Worked
      <4>4. CASE leave = "raise" BY <2>4, <4>4 DEF Worked
      <4>5. CASE leave = "on" /\ need_break
        <5>1. Returned BY <2>4, <4>5, Zenon DEF Worked, StopsLoop
        <5> QED BY <2>4, <4>1, <5>1 DEF Worked
      <4> QED BY <2>0, <4>3, <4>4, <4>5
    <3> QED BY <3>1
  <2>5. CASE Retries \/ RunsQueued \/ Waits \/ Types
    BY <2>5 DEF Retries, RunsQueued, Waits, Types, Enters, Loop, NextRound, Quit
  <2>6. CASE HandlesWakeup \/ HandlesCtrlC
    BY <2>6 DEF HandlesWakeup, HandlesCtrlC, KeyboardInterrupt, Aborted, Leaves
  <2>7. CASE ExitGoesOn \/ CompleteNeedsHuman \/ Exits
    BY <2>7 DEF ExitGoesOn, ClearsBreak, SeesBusy, Defers, ToolQueuesQuit, AlreadyQueued, ToolWakes,
       CompleteNeedsHuman, Exits
  <2>8. CASE PostsCommand \/ PostsInterrupt \/ ApiWakes \/ CtrlC \/ UNCHANGED vars
    BY <2>8 DEF PostsCommand, PostsInterrupt, ApiWakes, CtrlC, vars
  <2> QED BY <1>1, <2>1, <2>2, <2>3, <2>4, <2>5, <2>6, <2>7, <2>8 DEF Next, Runs
<1>2. TypeOK /\ [Next]_vars => [Forward]_vars BY <1>1
<1> QED BY <1>2, Always, PTL DEF Spec, BreakRunsDown
=============================================================================
