--------------------------- MODULE SupervisorLoop ---------------------------
(***************************************************************************)
(* The supervised loop (VerifyAgent.run_loop, one_loop and do_work in      *)
(* verify_agent.py) under the operator's shell (verify_pdb.py).            *)
(*                                                                         *)
(* The main thread runs the loop: it gives the backend a turn, looks at    *)
(* how the turn ended and gives it the next one, until somebody broke the  *)
(* loop, a human is needed or the mission was exited.  Meanwhile Complete  *)
(* and Exit run on the thread of the tools, and commands and interrupts    *)
(* come in on the thread of the API.  Both reach the main thread through   *)
(* flags, a queue of commands and SIGINT, whose handler raises             *)
(* KeyboardInterrupt wherever the main thread happens to be.               *)
(*                                                                         *)
(* The loop is run by the program itself, by a command given at its start, *)
(* by the command loop at the prompt, or for one round by next_round.      *)
(***************************************************************************)
EXTENDS Naturals, Sequences

CONSTANTS
  MaxRetry,    \* max_loop_retry
  MaxQueue,    \* bound: commands waiting
  MaxPresses   \* bound: interrupts and posted commands

ASSUME LoopAssumption == MaxRetry \in Nat \ {0} /\ MaxQueue \in Nat /\ MaxPresses \in Nat

VARIABLES
  pc,          \* where the main thread is
  base,        \* who runs the loop
  leave,       \* how do_work is left: on, raise or abort
  retries,     \* try_count
  arg,         \* the loop was given a message
  need_break, need_human, is_exit,
  error,       \* _tool__call_error is not empty
  busy,        \* _is_work_busy
  pending, queued,  \* _exit_on_completion_pending, _exit_on_completion_queued
  message,     \* _continue_msg, what it is made of
  cmdqueue,
  wakeup,      \* _api_wakeup
  sigint,      \* SIGINT is on its way
  tool,        \* where Exit is, on the thread of the tools
  api,         \* where the thread of the API is
  presses,
  failed,      \* history: a turn failed and the operator has not resumed
  asked,       \* history: a human was asked for, or was after the turn had ended,
               \* or a turn raised since
  since,       \* history: 0, or 1 + the turns begun since a break was asked for
  cut          \* history: do_work looked for a pending exit between the moment
               \* Exit saw it busy and the moment Exit noted it, or was
               \* interrupted before it looked

main    == <<pc, base, leave, retries, arg>>
agent   == <<need_break, need_human, is_exit, error, busy, pending, queued, message>>
shell   == <<cmdqueue, wakeup, sigint>>
threads == <<tool, api, presses>>
ghosts  == <<failed, asked, since, cut>>
vars    == <<main, agent, shell, threads, ghosts>>

Looping  == {"top", "tips", "working", "ended", "after", "retrying"}
AtPrompt == {"prompt", "input"}
Bases    == {"program", "init", "prompt", "round"}
Commands == {"loop", "quit", "other"}
Parts    == {"operator", "feedback"}

MainTyped ==
  /\ pc \in Looping \union AtPrompt \union {"over"} /\ base \in Bases
  /\ leave \in {"on", "raise", "abort"}
  /\ retries \in 1 .. MaxRetry /\ arg \in BOOLEAN

AgentTyped ==
  /\ need_break \in BOOLEAN /\ need_human \in BOOLEAN /\ is_exit \in BOOLEAN
  /\ error \in BOOLEAN /\ busy \in BOOLEAN
  /\ pending \in BOOLEAN /\ queued \in BOOLEAN
  /\ message \subseteq Parts

ShellTyped == cmdqueue \in Seq(Commands) /\ wakeup \in BOOLEAN /\ sigint \in BOOLEAN

ThreadsTyped ==
  /\ tool \in {"idle", "exiting", "asking", "deferring", "queuing", "waking"}
  /\ api \in {"idle", "waking"} /\ presses \in 0 .. MaxPresses

GhostsTyped ==
  /\ failed \in BOOLEAN /\ cut \in BOOLEAN
  /\ asked \in {"no", "asked", "late", "raised"} /\ since \in {0, 1, 2, 3}

TypeOK == MainTyped /\ AgentTyped /\ ShellTyped /\ ThreadsTyped /\ GhostsTyped

Init ==
  /\ \/ base \in {"program", "init"} /\ pc = "top" /\ need_break = FALSE
     \/ base = "prompt" /\ pc = "prompt" /\ need_break = TRUE
  /\ leave = "on" /\ retries = MaxRetry /\ arg = FALSE
  /\ need_human = FALSE /\ is_exit = FALSE /\ error = FALSE /\ busy = FALSE
  /\ pending = FALSE /\ queued = FALSE /\ message = {}
  /\ cmdqueue = <<>> /\ wakeup = FALSE /\ sigint = FALSE
  /\ tool = "idle" /\ api = "idle" /\ presses = 0
  /\ failed = FALSE /\ asked = "no" /\ since = 0 /\ cut = FALSE

(***************************************************************************)
(* The loop.  The main thread handles a signal before anything else.       *)
(***************************************************************************)
At(l) == pc = l /\ ~sigint
To(l) == pc' = l /\ leave' = "on" /\ UNCHANGED <<base, retries, arg>>
Looks == pc' = "after" /\ UNCHANGED <<base, leave, retries, arg>>

Over    == leave' = "on" /\ retries' = MaxRetry /\ arg' = FALSE
Back    == pc' = "prompt" /\ base' = "prompt" /\ Over
Ends    == pc' = "over" /\ Over /\ UNCHANGED base

\* run_loop, or the one round, returns to whoever called it.
Returned == IF base = "program" THEN Ends ELSE Back

SeesExit ==
  /\ \/ At("top") /\ base # "round"
     \/ At("tips")
  /\ is_exit
  /\ Returned /\ UNCHANGED <<agent, shell, threads, ghosts>>

\* get_current_tips: an error to repeat comes before any message.
TakesTips ==
  /\ At("top") /\ (is_exit => base = "round")
  /\ message' = IF error THEN message ELSE {}
  /\ To("tips")
  /\ UNCHANGED <<need_break, need_human, is_exit, error, busy, pending, queued>>
  /\ UNCHANGED <<shell, threads, ghosts>>

Begins ==
  /\ At("tips") /\ ~is_exit
  /\ busy' = TRUE /\ error' = FALSE
  /\ To("working")
  /\ since' = IF since \in {1, 2} THEN since + 1 ELSE since
  /\ UNCHANGED <<need_break, need_human, is_exit, pending, queued, message>>
  /\ UNCHANGED <<shell, threads, failed, asked, cut>>

\* A tool it called may still be at work.
TurnOver == At("working") /\ busy' = FALSE

Leaves(l) == pc' = "ended" /\ leave' = l /\ UNCHANGED <<base, retries, arg>>

\* Faulty: instead of what the operator said.
CompletesOver ==
  /\ TurnOver /\ Leaves("on")
  /\ message' \in {message, {"feedback"}}
  /\ UNCHANGED <<need_break, need_human, is_exit, error, pending, queued>>
  /\ UNCHANGED <<shell, threads, ghosts>>

\* with what the supervisor noticed put before what the operator said
Completes ==
  /\ TurnOver /\ Leaves("on")
  /\ message' \in {message, message \union {"feedback"}}
  /\ UNCHANGED <<need_break, need_human, is_exit, error, pending, queued>>
  /\ UNCHANGED <<shell, threads, ghosts>>

\* Faulty: the loop is not broken.
StopsUnbroken ==
  /\ TurnOver /\ Leaves("on")
  /\ error' = TRUE /\ need_human' \in {need_human, TRUE} /\ failed' = TRUE
  /\ UNCHANGED <<need_break, is_exit, pending, queued, message, shell, threads, asked, since, cut>>

\* The turn failed, was interrupted, or requires approval.
Stops ==
  /\ TurnOver /\ Leaves("on")
  /\ error' = TRUE /\ need_break' = TRUE /\ need_human' \in {need_human, TRUE}
  /\ failed' = TRUE
  /\ UNCHANGED <<is_exit, pending, queued, message, shell, threads, asked, since, cut>>

Raises ==
  /\ TurnOver /\ Leaves("raise")
  /\ asked' = IF asked = "asked" THEN "raised" ELSE asked
  /\ UNCHANGED <<need_break, need_human, is_exit, error, pending, queued, message>>
  /\ UNCHANGED <<shell, threads, failed, since, cut>>

\* _queue_exit_on_completion in the finally of do_work, and the program
\* signals itself.
QueuesQuit ==
  /\ At("ended") /\ pending /\ ~queued
  /\ Looks
  /\ pending' = FALSE /\ queued' = TRUE
  /\ cmdqueue' = Append(cmdqueue, "quit") /\ wakeup' = TRUE /\ sigint' = TRUE
  /\ UNCHANGED <<need_break, need_human, is_exit, error, busy, message, threads, ghosts>>

SeesNothingPending ==
  /\ At("ended") /\ ~(pending /\ ~queued)
  /\ Looks
  /\ cut' = (cut \/ tool = "deferring")
  /\ UNCHANGED <<agent, shell, threads, failed, asked, since>>

\* KeyboardInterrupt passes do_loop; only the loop of the prompt catches it.
Aborted == IF base \in {"program", "init"} THEN Ends ELSE Back

\* Faulty: a human is not waited for.
StopsAlone == is_exit \/ need_break

\* Faulty: a break is not seen.
StopsUnbreakable == is_exit \/ need_human

StopsLoop == is_exit \/ need_break \/ need_human

\* what follows a turn, in one_loop, run_loop and do_loop
Worked ==
  /\ At("after")
  /\ CASE leave = "abort" -> Aborted
       [] leave = "raise" -> IF base \in {"init", "prompt"} THEN To("retrying") ELSE Ends
       [] leave = "on"    -> IF (error /\ ~need_break) \/ (base # "round" /\ ~StopsLoop)
                             THEN To("top") ELSE Returned
  /\ UNCHANGED <<agent, shell, threads, ghosts>>

\* run_loop starts
Enters(n, a, b) ==
  /\ pc' = "top" /\ retries' = n /\ arg' = a /\ base' = b
  /\ need_human' = FALSE
  /\ message' = IF a THEN {"operator"} ELSE message
  /\ leave' = "on"

\* Faulty: the break is not looked at.
RetriesOn ==
  /\ At("retrying")
  /\ \E n \in {retries - 1, MaxRetry} :
       IF n = 0
       THEN Back /\ UNCHANGED <<need_human, message>>
       ELSE Enters(n, arg, base)
  /\ UNCHANGED <<need_break, is_exit, error, busy, pending, queued, shell, threads, ghosts>>

\* do_loop after its delay; a loop that lived long gets all its tries back.
Retries ==
  /\ At("retrying")
  /\ \E n \in {retries - 1, MaxRetry} :
       IF n = 0 \/ need_break
       THEN Back /\ UNCHANGED <<need_human, message>>
       ELSE Enters(n, arg, base)
  /\ UNCHANGED <<need_break, is_exit, error, busy, pending, queued, shell, threads, ghosts>>

(***************************************************************************)
(* The prompt                                                              *)
(***************************************************************************)
\* The operator resumes: what stopped the loop is dealt with.
Resumes ==
  /\ need_break' = FALSE
  /\ failed' = FALSE /\ asked' = "no" /\ since' = 0 /\ UNCHANGED cut

Loop ==
  /\ \E a \in BOOLEAN : Enters(MaxRetry, a, "prompt")
  /\ Resumes /\ UNCHANGED <<is_exit, error, busy, pending, queued>>

NextRound ==
  /\ pc' = "top" /\ base' = "round" /\ Over
  /\ \E a \in BOOLEAN : message' = IF a THEN {"operator"} ELSE message
  /\ Resumes /\ UNCHANGED <<need_human, is_exit, error, busy, pending, queued>>

Quit ==
  /\ Ends /\ is_exit' = TRUE
  /\ UNCHANGED <<need_break, need_human, error, busy, pending, queued, message, ghosts>>

\* A command that was queued comes before one that is typed.
RunsQueued ==
  /\ At("prompt") /\ cmdqueue # <<>>
  /\ cmdqueue' = Tail(cmdqueue)
  /\ \/ Head(cmdqueue) = "loop" /\ Loop
     \/ Head(cmdqueue) = "quit" /\ Quit
     \/ Head(cmdqueue) = "other" /\ UNCHANGED <<main, agent, ghosts>>
  /\ UNCHANGED <<wakeup, sigint, threads>>

\* input() knows nothing of the queue.
Waits ==
  /\ At("prompt") /\ cmdqueue = <<>>
  /\ To("input") /\ UNCHANGED <<agent, shell, threads, ghosts>>

Types ==
  /\ At("input")
  /\ Loop \/ NextRound \/ Quit
  /\ UNCHANGED <<shell, threads>>

(***************************************************************************)
(* SIGINT                                                                  *)
(***************************************************************************)
KeyboardInterrupt ==
  \/ /\ pc \in AtPrompt
     /\ To("prompt") /\ UNCHANGED <<busy, cut>>
  \/ /\ pc = "working"
     /\ Leaves("abort") /\ busy' = FALSE /\ UNCHANGED cut
  \/ /\ pc \in Looping \ {"working"}
     /\ Aborted /\ cut' = (cut \/ pc = "ended") /\ UNCHANGED busy

\* Faulty: the flag is left set.
HandlesWakeupTwice ==
  /\ sigint /\ wakeup
  /\ sigint' = FALSE /\ UNCHANGED wakeup
  /\ KeyboardInterrupt
  /\ UNCHANGED <<need_break, need_human, is_exit, error, pending, queued, message>>
  /\ UNCHANGED <<cmdqueue, threads, failed, asked, since>>

\* add_cmds sent it
HandlesWakeup ==
  /\ sigint /\ wakeup
  /\ sigint' = FALSE /\ wakeup' = FALSE
  /\ KeyboardInterrupt
  /\ UNCHANGED <<need_break, need_human, is_exit, error, pending, queued, message>>
  /\ UNCHANGED <<cmdqueue, threads, failed, asked, since>>

BreakAsked == need_break' = TRUE /\ since' = IF since = 0 THEN 1 ELSE since

\* Only a command that runs is aborted besides; the program itself is not one.
HandlesCtrlC ==
  /\ sigint /\ ~wakeup
  /\ sigint' = FALSE /\ BreakAsked
  /\ IF pc \in Looping /\ base # "program"
     THEN KeyboardInterrupt
     ELSE UNCHANGED <<main, busy, cut>>
  /\ UNCHANGED <<need_human, is_exit, error, pending, queued, message>>
  /\ UNCHANGED <<cmdqueue, wakeup, threads, failed, asked>>

(***************************************************************************)
(* The thread of the tools                                                 *)
(***************************************************************************)
\* Complete refuses until a human has checked.
CompleteNeedsHuman ==
  /\ tool = "idle" /\ pc \in Looping
  /\ need_human' = TRUE /\ asked' = IF pc = "working" THEN "asked" ELSE "late"
  /\ UNCHANGED <<main, need_break, is_exit, error, busy, pending, queued, message>>
  /\ UNCHANGED <<shell, threads, failed, since, cut>>

Steps(from, to) == tool = from /\ tool' = to /\ pc # "over" /\ UNCHANGED <<api, presses>>

\* called in a turn, or by an agent of its own while the shell waits
Exits ==
  /\ Steps("idle", "exiting") /\ pc \in AtPrompt \union {"working"}
  /\ is_exit' = TRUE
  /\ UNCHANGED <<main, need_break, need_human, error, busy, pending, queued, message>>
  /\ UNCHANGED <<shell, ghosts>>

\* try_exit_on_completion, as with --exit-on-completion
ClearsBreak ==
  /\ Steps("exiting", "asking")
  /\ need_break' = FALSE
  /\ UNCHANGED <<main, need_human, is_exit, error, busy, pending, queued, message>>
  /\ UNCHANGED <<shell, ghosts>>

SeesBusy ==
  /\ Steps("asking", IF busy THEN "deferring" ELSE "queuing")
  /\ UNCHANGED <<main, agent, shell, ghosts>>

\* Faulty: nobody is told.
DefersNothing ==
  /\ Steps("deferring", "idle")
  /\ UNCHANGED <<main, agent, shell, ghosts>>

Defers ==
  /\ Steps("deferring", "idle")
  /\ pending' = TRUE
  /\ UNCHANGED <<main, need_break, need_human, is_exit, error, busy, queued, message>>
  /\ UNCHANGED <<shell, ghosts>>

ToolQueuesQuit ==
  /\ ~queued /\ Steps("queuing", "waking")
  /\ queued' = TRUE /\ pending' = FALSE
  /\ cmdqueue' = Append(cmdqueue, "quit") /\ wakeup' = TRUE
  /\ UNCHANGED <<main, need_break, need_human, is_exit, error, busy, message>>
  /\ UNCHANGED <<sigint, ghosts>>

AlreadyQueued ==
  /\ queued /\ Steps("queuing", "idle")
  /\ UNCHANGED <<main, agent, shell, ghosts>>

ToolWakes ==
  /\ Steps("waking", "idle")
  /\ sigint' = TRUE
  /\ UNCHANGED <<main, agent, cmdqueue, wakeup, ghosts>>

(***************************************************************************)
(* The operator, from outside the prompt                                   *)
(***************************************************************************)
Presses == presses < MaxPresses /\ presses' = presses + 1 /\ pc # "over" /\ UNCHANGED tool

PostsCommand ==
  /\ api = "idle" /\ Len(cmdqueue) < MaxQueue /\ Presses
  /\ \E c \in Commands : cmdqueue' = Append(cmdqueue, c)
  /\ wakeup' = TRUE /\ api' = "waking"
  /\ UNCHANGED <<main, agent, sigint, ghosts>>

\* POST /api/interrupt
PostsInterrupt ==
  /\ api = "idle" /\ Presses
  /\ BreakAsked /\ api' = "waking"
  /\ UNCHANGED <<main, need_human, is_exit, error, busy, pending, queued, message>>
  /\ UNCHANGED <<shell, failed, asked, cut>>

ApiWakes ==
  /\ api = "waking" /\ pc # "over"
  /\ api' = "idle" /\ sigint' = TRUE
  /\ UNCHANGED <<main, agent, cmdqueue, wakeup, tool, presses, ghosts>>

CtrlC ==
  /\ Presses /\ sigint' = TRUE
  /\ UNCHANGED <<main, agent, cmdqueue, wakeup, api, ghosts>>

Runs ==
  \/ SeesExit \/ TakesTips \/ Begins \/ Completes \/ Stops \/ Raises
  \/ QueuesQuit \/ SeesNothingPending \/ Worked \/ Retries \/ RunsQueued \/ Waits
  \/ HandlesWakeup \/ HandlesCtrlC

ExitGoesOn == ClearsBreak \/ SeesBusy \/ Defers \/ ToolQueuesQuit \/ AlreadyQueued \/ ToolWakes

Next ==
  \/ Runs \/ Types \/ ExitGoesOn \/ CompleteNeedsHuman \/ Exits
  \/ PostsCommand \/ PostsInterrupt \/ ApiWakes \/ CtrlC

Spec == Init /\ [][Next]_vars

\* Every thread goes on, and a backend that is given a turn ends it.
FairSpec == Spec /\ WF_vars(Runs) /\ WF_vars(ExitGoesOn) /\ WF_vars(ApiWakes)

(***************************************************************************)
(* Properties                                                              *)
(***************************************************************************)
\* "VeriAgent stopped the supervised loop to avoid advancing with stale Codex
\* state": after a turn that failed none begins until the operator resumes,
\* though Exit clears the break.
StopsForFailure == [][Begins => ~failed]_vars

\* Once a break was asked for at most one turn begins, the one the loop was
\* about to give: no retry, no wakeup and no Exit makes it go on.
BreakStopsSoon == since <= 2

\* No turn begins after the one in which Complete asked for a human check,
\* unless that one raised and is retried.
StopsForHuman == [][Begins => asked # "asked"]_vars

\* What the operator said stays until it is told, whatever else is noted,
\* retried or interrupted.
MessageIsKept == [][ "operator" \in message \ message' => TakesTips ]_vars

\* A wakeup that is noted is still to come, so that it is never an operator's
\* Ctrl-C that is taken for it after all the wakeups have come.
WakeupIsSpent == wakeup => sigint \/ "waking" \in {tool, api}

\* "Exit the agent automatically when all tasks are completed": after Exit
\* the program ends by itself, whatever the main thread is at, but for the
\* one moment in which the loop does not learn of it.
ExitIsAutomatic == tool = "exiting" ~> pc = "over" \/ cut

QuitIsQueued == \E i \in 1 .. Len(cmdqueue) : cmdqueue[i] = "quit"

\* At no moment between Exit and the end of the program is it up to the agent or
\* the operator to go on: the call is under way, or the main thread will look
\* for what it left, or a quit is queued, of which input(), which does not look at
\* the queue, is told by a signal that is on its way.
ExitIsUnderWay ==
  is_exit /\ ~cut =>
    \/ pc = "over"
    \/ tool \in {"exiting", "asking", "queuing"}
    \/ pc \in {"working", "ended"} /\ (tool = "deferring" \/ (pending /\ ~queued))
    \/ QuitIsQueued /\ (pc = "input" => sigint \/ "waking" \in {tool, api})

\* How far the main thread is from the end of run_loop.
Ahead == [top |-> 6, tips |-> 5, working |-> 4, ended |-> 3, after |-> 2, retrying |-> 1]

\* A loop that somebody broke only goes forward to its end: no failure, retry,
\* wakeup or Exit sends the main thread back, or round again.
BreakRunsDown ==
  [][need_break /\ need_break' /\ {pc, pc'} \subseteq Looping
       => pc' = pc \/ Ahead[pc'] < Ahead[pc]]_vars

\* A loop somebody broke gives the thread back.
BreakEndsLoop == need_break /\ pc \in Looping ~> pc \notin Looping \/ ~need_break
=============================================================================
