------------------------------ MODULE ToolCall ------------------------------
(***************************************************************************)
(* The calls of one tool (UCTool in tools/uctool.py).                      *)
(*                                                                         *)
(* Calls of ainvoke are coroutines of one event loop and take turns by the *)
(* tool's asyncio lock; what the tool does runs on a thread of its own, so *)
(* that a coroutine can be cancelled while it goes on.  A streaming call   *)
(* (one with an MCP context) starts a keep-alive thread, which counts the  *)
(* seconds and asks the tool to leave when they are over, and joins it on  *)
(* the event loop before it gives the lock back.  The operator's shell     *)
(* uses invoke, which takes no lock.                                       *)
(*                                                                         *)
(* Nothing in the repository puts data into stream_queue, so the keep-     *)
(* alive loop always finds it empty and only counts down.                  *)
(***************************************************************************)
EXTENDS Integers, FiniteSets

CONSTANTS
  Calls,    \* calls of ainvoke
  Direct,   \* calls of invoke
  NoCall,   \* who holds a lock that is free
  TimeOut   \* turns of the keep-alive loop: timeout + lock_time_out

ASSUME CallAssumption ==
  /\ Calls \intersect Direct = {} /\ NoCall \notin Calls
  /\ TimeOut \in Nat \ {0}

VARIABLES
  status,         \* where each call is
  lock,           \* holder of async_lock
  running,        \* calls whose _run is executing
  isInStreaming, isInCall, isAliveLoop,
  forceExit,
  loop,           \* the keep-alive thread of each call
  countDown,      \* and its count_down
  disabled        \* is_disabled

flags == <<isInStreaming, isInCall, isAliveLoop>>
vars  == <<status, lock, running, flags, forceExit, loop, countDown, disabled>>

Statuses == {"idle", "waiting", "plain", "streaming", "joining",
             "answered", "refused", "raised", "cancelled"}
InHand   == {"plain", "streaming", "joining"}
Finished == {"answered", "refused", "raised", "cancelled"}
LoopStates == {"none", "starting", "counting", "expiring", "leaving", "ended"}

TypeOK ==
  /\ status \in [Calls \union Direct -> Statuses]
  /\ lock \in Calls \union {NoCall}
  /\ running \subseteq Calls \union Direct
  /\ isInStreaming \in BOOLEAN /\ isInCall \in BOOLEAN /\ isAliveLoop \in BOOLEAN
  /\ forceExit \in BOOLEAN /\ disabled \in BOOLEAN
  /\ loop \in [Calls -> LoopStates]
  /\ countDown \in [Calls -> 0 .. TimeOut]

Init ==
  /\ status = [c \in Calls \union Direct |-> "idle"]
  /\ lock = NoCall
  /\ running = {}
  /\ isInStreaming = FALSE /\ isInCall = FALSE /\ isAliveLoop = FALSE
  /\ forceExit = FALSE
  /\ loop = [c \in Calls |-> "none"]
  /\ countDown = [c \in Calls |-> 0]
  /\ disabled = FALSE

To(c, s) == status' = [status EXCEPT ![c] = s]

\* join() of a thread stops the whole event loop
Blocked == \E c \in Calls : status[c] = "joining"

(***************************************************************************)
(* ainvoke                                                                 *)
(***************************************************************************)
Arrives(c) ==
  /\ status[c] = "idle" /\ ~Blocked
  /\ To(c, IF disabled THEN "refused" ELSE "waiting")
  /\ UNCHANGED <<lock, running, flags, forceExit, loop, countDown, disabled>>

\* Faulty: the lock is awaited without a timeout.
LockNeverTimesOut(c) == FALSE /\ UNCHANGED vars

LockTimesOut(c) ==
  /\ status[c] = "waiting" /\ ~Blocked
  /\ To(c, "refused")
  /\ UNCHANGED <<lock, running, flags, forceExit, loop, countDown, disabled>>

\* which of those that wait gets the lock is left open
Gets(c) == status[c] = "waiting" /\ lock = NoCall /\ ~Blocked

EntersPlain(c) ==
  /\ Gets(c)
  /\ lock' = c /\ To(c, "plain")
  /\ isInCall' = TRUE /\ running' = running \union {c}
  /\ UNCHANGED <<isInStreaming, isAliveLoop, forceExit, loop, countDown, disabled>>

\* A call that finds another one in streaming, or its loop alive, says so and
\* gives the lock back.  The lock alone keeps it from ever finding them.
EntersStreaming(c) ==
  /\ Gets(c)
  /\ IF isInStreaming \/ isAliveLoop
     THEN /\ To(c, "refused")
          /\ UNCHANGED <<lock, running, isInStreaming, forceExit, loop, countDown>>
     ELSE /\ lock' = c /\ To(c, "streaming")
          /\ isInStreaming' = TRUE /\ running' = running \union {c}
          /\ forceExit' = FALSE
          /\ loop' = [loop EXCEPT ![c] = "starting"]
          /\ countDown' = [countDown EXCEPT ![c] = TimeOut]
  /\ UNCHANGED <<isInCall, isAliveLoop, disabled>>

\* The tool is done, by a result or an exception.
BodyEnds(c) ==
  /\ c \in running
  /\ running' = running \ {c}
  /\ UNCHANGED <<status, lock, flags, forceExit, loop, countDown, disabled>>

\* Faulty: the keep-alive thread is left to itself.
StreamingEndsUnjoined(c) ==
  /\ status[c] = "streaming" /\ c \notin running /\ ~Blocked
  /\ isInStreaming' = FALSE /\ lock' = NoCall
  /\ To(c, "answered")
  /\ UNCHANGED <<running, isInCall, isAliveLoop, forceExit, loop, countDown, disabled>>

StreamingEnds(c) ==
  /\ status[c] = "streaming" /\ c \notin running /\ ~Blocked
  /\ isInStreaming' = FALSE
  /\ To(c, "joining")
  /\ UNCHANGED <<lock, running, isInCall, isAliveLoop, forceExit, loop, countDown, disabled>>

\* Faulty: the lock is not given back.
JoinReturnsLocked(c) ==
  /\ status[c] = "joining" /\ loop[c] = "ended"
  /\ To(c, "answered")
  /\ UNCHANGED <<lock, running, flags, forceExit, loop, countDown, disabled>>

JoinReturns(c) ==
  /\ status[c] = "joining" /\ loop[c] = "ended"
  /\ lock' = NoCall /\ To(c, "answered")
  /\ UNCHANGED <<running, flags, forceExit, loop, countDown, disabled>>

PlainEnds(c) ==
  /\ status[c] = "plain" /\ c \notin running /\ ~Blocked
  /\ isInCall' = FALSE
  /\ lock' = NoCall /\ To(c, "answered")
  /\ UNCHANGED <<running, isInStreaming, isAliveLoop, forceExit, loop, countDown, disabled>>

\* ainvoke catches the exception, and its finally clause then fails on
\* alive_thread, which was never assigned: the lock is not released.
PlainRaises(c) ==
  /\ status[c] = "plain" /\ c \notin running /\ ~Blocked
  /\ isInCall' = FALSE /\ To(c, "raised")
  /\ UNCHANGED <<lock, running, isInStreaming, isAliveLoop, forceExit, loop, countDown, disabled>>

CancelledWaiting(c) ==
  /\ status[c] = "waiting" /\ ~Blocked
  /\ To(c, "cancelled")
  /\ UNCHANGED <<lock, running, flags, forceExit, loop, countDown, disabled>>

\* Faulty: the lock is given back while the tool is still at work.
CancelledAtWorkFreed(c) ==
  /\ status[c] \in {"plain", "streaming"} /\ ~Blocked
  /\ To(c, "cancelled")
  /\ lock' = NoCall
  /\ isInCall' = (isInCall /\ status[c] # "plain")
  /\ UNCHANGED <<running, isInStreaming, isAliveLoop, forceExit, loop, countDown, disabled>>

\* The client gave up.  CancelledError is not an Exception: a streaming call
\* skips the reset of is_in_streaming, and both kinds fail on alive_thread.
CancelledAtWork(c) ==
  /\ status[c] \in {"plain", "streaming"} /\ ~Blocked
  /\ To(c, "cancelled")
  /\ isInCall' = (isInCall /\ status[c] # "plain")
  /\ UNCHANGED <<lock, running, isInStreaming, isAliveLoop, forceExit, loop, countDown, disabled>>

(***************************************************************************)
(* The keep-alive thread                                                   *)
(***************************************************************************)
LoopTo(c, s) == loop' = [loop EXCEPT ![c] = s]

LoopStarts(c) ==
  /\ loop[c] = "starting"
  /\ LoopTo(c, "counting") /\ isAliveLoop' = TRUE
  /\ UNCHANGED <<status, lock, running, isInStreaming, isInCall, forceExit, countDown, disabled>>

LoopSeesEnd(c) ==
  /\ loop[c] = "counting" /\ ~isInStreaming
  /\ LoopTo(c, "ended") /\ isAliveLoop' = FALSE
  /\ UNCHANGED <<status, lock, running, isInStreaming, isInCall, forceExit, countDown, disabled>>

LoopCounts(c) ==
  /\ loop[c] = "counting" /\ isInStreaming
  /\ countDown' = [countDown EXCEPT ![c] = @ - 1]
  /\ LoopTo(c, IF countDown[c] = 1 THEN "expiring" ELSE "counting")
  /\ UNCHANGED <<status, lock, running, flags, forceExit, disabled>>

\* The call may have ended since the loop last looked.
LoopForces(c) ==
  /\ loop[c] = "expiring"
  /\ LoopTo(c, "leaving") /\ forceExit' = TRUE
  /\ UNCHANGED <<status, lock, running, flags, countDown, disabled>>

LoopLeaves(c) ==
  /\ loop[c] = "leaving"
  /\ LoopTo(c, "ended") /\ isAliveLoop' = FALSE
  /\ UNCHANGED <<status, lock, running, isInStreaming, isInCall, forceExit, countDown, disabled>>

(***************************************************************************)
(* invoke, and the switch GitNotDirtyChecker operates                      *)
(***************************************************************************)
InvokeStarts(d) ==
  /\ status[d] = "idle"
  /\ To(d, "plain") /\ isInCall' = TRUE /\ running' = running \union {d}
  /\ UNCHANGED <<lock, isInStreaming, isAliveLoop, forceExit, loop, countDown, disabled>>

InvokeEnds(d) ==
  /\ status[d] = "plain" /\ d \notin running
  /\ To(d, "answered") /\ isInCall' = FALSE
  /\ UNCHANGED <<lock, running, isInStreaming, isAliveLoop, forceExit, loop, countDown, disabled>>

SetDisabled ==
  /\ disabled' = ~disabled
  /\ UNCHANGED <<status, lock, running, flags, forceExit, loop, countDown>>

Ainvoke(c) ==
  \/ Arrives(c) \/ LockTimesOut(c) \/ EntersPlain(c) \/ EntersStreaming(c)
  \/ StreamingEnds(c) \/ JoinReturns(c) \/ PlainEnds(c) \/ PlainRaises(c)
  \/ CancelledWaiting(c) \/ CancelledAtWork(c)

KeepAlive(c) ==
  LoopStarts(c) \/ LoopSeesEnd(c) \/ LoopCounts(c) \/ LoopForces(c) \/ LoopLeaves(c)

Next ==
  \/ \E c \in Calls : Ainvoke(c) \/ KeepAlive(c)
  \/ \E c \in Calls \union Direct : BodyEnds(c)
  \/ \E d \in Direct : InvokeStarts(d) \/ InvokeEnds(d)
  \/ SetDisabled

Spec == Init /\ [][Next]_vars

\* Timers fire, threads are scheduled, the event loop gets to what is ready,
\* and a tool that works is done at some point: those that run programs give
\* them a timeout.
Fairness ==
  /\ \A c \in Calls :
       /\ WF_vars(LockTimesOut(c)) /\ WF_vars(KeepAlive(c))
       /\ WF_vars(StreamingEnds(c) \/ PlainEnds(c) \/ PlainRaises(c)) /\ WF_vars(JoinReturns(c))
  /\ \A c \in Calls \union Direct : WF_vars(BodyEnds(c))

FairSpec == Spec /\ Fairness

(***************************************************************************)
(* Properties                                                              *)
(***************************************************************************)
\* The tool never does the work of two ainvoke calls at once, also when the
\* client gives up on a call and the thread that executes it goes on.  What
\* guarantees it in that case is that the lock is never released.
OneAtATime == \A c, d \in running \intersect Calls : c = d

\* A streaming call that is asked to leave has used up its own time: the loop
\* of an earlier call never cuts it short, although threads outlive calls.
ForcedOnTime == forceExit /\ isInStreaming => lock # NoCall /\ countDown[lock] = 0

\* Every call of ainvoke ends, whatever happened to the tool before.
EveryCallEnds == \A c \in Calls : status[c] = "waiting" ~> status[c] \in Finished

\* The lock comes back, unless its holder raised or was cancelled: in
\* particular the join does not wait for ever.
LockComesBack ==
  \A c \in Calls : lock = c ~> (lock # c \/ status[c] \in {"raised", "cancelled"})

\* "is busy, get lock timeout. Please try again later." is what a call is told
\* that does not get the lock: somebody is at work, and will be done.
BusyMeansAtWork == lock # NoCall => status[lock] \in InHand

\* How many steps of the keep-alive thread are left once streaming is over.
StepsLeft == [starting |-> 2, counting |-> 1, expiring |-> 2, leaving |-> 1, ended |-> 0]

\* While a call joins its keep-alive thread the event loop stands still for all.
\* The thread has at most two more steps to go, and each takes it on.
JoinIsShort ==
  [][\A c \in Calls : status[c] = "joining" =>
       /\ loop[c] \in DOMAIN StepsLeft
       /\ loop'[c] = loop[c] \/ StepsLeft[loop'[c]] < StepsLeft[loop[c]]]_vars

\* To its clients a tool is what Turns promises: who is in hand has the turn, and
\* a call that raised or was cancelled in its turn is lost.
Place(c) ==
  CASE status[c] = "idle"               -> "outside"
    [] status[c] = "waiting"            -> "queue"
    [] status[c] \in InHand             -> "inside"
    [] status[c] = "answered"           -> "answered"
    [] status[c] = "refused"            -> "gone"
    [] status[c] = "raised"             -> "lost"
    [] status[c] = "cancelled"          -> IF lock = c THEN "lost" ELSE "gone"

TurnTaking == INSTANCE Turns WITH
  Clients <- Calls,
  Nobody  <- NoCall,
  place   <- [c \in Calls |-> Place(c)],
  turn    <- lock,
  served  <- running \intersect Calls

\* ainvoke, its lock and its threads implement the queue of Turns.
TakesTurns == TurnTaking!Spec
=============================================================================
