---------------------------- MODULE CodexSession ----------------------------
(***************************************************************************)
(* The Codex backend (CodexAppServerBackend in abackend/codex_sdk.py) with *)
(* the file that remembers its thread (abackend/codex_session.py).         *)
(*                                                                         *)
(* A Codex thread is a conversation; every turn of the agent adds to it.   *)
(* The thread is named in codex_thread.json together with a fingerprint of *)
(* the task, so that the next process can go on with it.  The process may  *)
(* die at any point, in the middle of writing the file as well.            *)
(*                                                                         *)
(* A turn is requested and then streamed by the main thread.  Who asks for *)
(* a break, on another thread or in the signal handler, sets a flag and    *)
(* then interrupts the turn it finds.                                      *)
(***************************************************************************)
EXTENDS Naturals

CONSTANTS
  Prints,      \* fingerprints: DUT, workflow, workspace inputs, backend arguments
  NoPrint,     \* of a file that names no thread
  MaxThreads,  \* bound: threads started
  MaxTurns     \* bound: turns begun

ASSUME SessionAssumption ==
  /\ NoPrint \notin Prints
  /\ MaxThreads \in Nat /\ MaxTurns \in Nat

VARIABLES
  inputs,      \* the fingerprint the task has now
  file, torn,  \* codex_thread.json; torn: it cannot be read
  threads, turns,  \* how many there are; 0 stands for none of them
  grown,       \* of each thread, the fingerprints of the processes that used it
  owner,       \* of each turn, its thread
  pc,          \* where the main thread is
  forced,      \* --resume-codex-thread
  print,       \* the fingerprint the process took
  state,       \* what it read
  thread,      \* _thread
  active,      \* _active_turn
  last,        \* status of _last_turn
  errors,      \* _supervisor_signals holds an error
  need_break,
  asking,      \* set_break is between the flag and the interrupt
  told,        \* the turn that was interrupted last
  mixed,       \* history: threads that were resumed by force
  strange,     \* history: the file names a turn of the thread that was given up
  said,        \* history: what Codex said of the turn
  trouble,     \* history: an error was seen in the turn, or its stream broke
  missed       \* history: an interrupt came while the turn was being requested, or failed

disk    == <<inputs, file, torn>>
codex   == <<threads, turns, grown, owner>>
process == <<forced, print, state, thread>>
turn    == <<active, last, errors, said, trouble>>
break   == <<need_break, asking, told, missed>>
vars    == <<disk, codex, pc, process, turn, break, mixed, strange>>

NoState  == [thread |-> 0, turn |-> 0, print |-> NoPrint]
State    == [thread : 0 .. MaxThreads, turn : 0 .. MaxTurns, print : Prints \union {NoPrint}]
Statuses == {"completed", "interrupted", "failed", "approval"}
InTurn   == {"turning", "streaming"}

DiskTyped == inputs \in Prints /\ file \in State /\ torn \in BOOLEAN

CodexTyped ==
  /\ threads \in 0 .. MaxThreads /\ turns \in 0 .. MaxTurns
  /\ grown \in [1 .. MaxThreads -> SUBSET Prints]
  /\ owner \in [1 .. MaxTurns -> 0 .. MaxThreads]

ProcessTyped ==
  /\ pc \in {"down", "loaded", "threaded", "ready", "requesting", "judging"} \union InTurn
  /\ forced \in BOOLEAN /\ print \in Prints /\ state \in State
  /\ thread \in 0 .. threads /\ (pc \in {"down", "loaded"} <=> thread = 0)

TurnTyped ==
  /\ active \in 0 .. turns /\ (pc \in InTurn => active # 0)
  /\ last \in Statuses \union {"none"} /\ said \in Statuses \union {"none"}
  /\ errors \in BOOLEAN /\ trouble \in BOOLEAN

BreakTyped ==
  /\ need_break \in BOOLEAN /\ asking \in BOOLEAN /\ missed \in BOOLEAN
  /\ told \in 0 .. MaxTurns
  /\ mixed \subseteq 1 .. MaxThreads /\ strange \in BOOLEAN

TypeOK == DiskTyped /\ CodexTyped /\ ProcessTyped /\ TurnTyped /\ BreakTyped

Init ==
  /\ inputs \in Prints /\ file = NoState /\ torn = FALSE
  /\ threads = 0 /\ turns = 0
  /\ grown = [t \in 1 .. MaxThreads |-> {}] /\ owner = [t \in 1 .. MaxTurns |-> 0]
  /\ pc = "down" /\ forced = FALSE /\ print = inputs /\ state = NoState /\ thread = 0
  /\ active = 0 /\ last = "none" /\ errors = FALSE /\ said = "none" /\ trouble = FALSE
  /\ need_break = FALSE /\ asking = FALSE /\ told = 0 /\ missed = FALSE
  /\ mixed = {} /\ strange = FALSE

(***************************************************************************)
(* start_or_resume_thread                                                  *)
(***************************************************************************)
\* A file that cannot be read ends the start, until somebody removes it.
Loads ==
  /\ pc = "down" /\ ~torn
  /\ pc' = "loaded"
  /\ forced' \in BOOLEAN /\ print' = inputs /\ state' = file
  /\ UNCHANGED <<disk, codex, thread, turn, break, mixed, strange>>

Matches      == state.print = print
ShouldResume == state.thread # 0 /\ (Matches \/ forced)

Resumes ==
  /\ pc = "loaded" /\ ShouldResume
  /\ pc' = "threaded" /\ thread' = state.thread
  /\ grown' = [grown EXCEPT ![state.thread] = @ \union {print}]
  /\ mixed' = IF Matches THEN mixed ELSE mixed \union {state.thread}
  /\ UNCHANGED <<disk, threads, turns, owner, forced, print, state, turn, break, strange>>

\* because there is none to resume, or it could not be resumed
StartsThread ==
  /\ pc = "loaded" /\ threads < MaxThreads
  /\ pc' = "threaded" /\ thread' = threads + 1 /\ threads' = threads + 1
  /\ grown' = [grown EXCEPT ![threads + 1] = {print}]
  /\ UNCHANGED <<disk, turns, owner, forced, print, state, turn, break, mixed, strange>>

\* Faulty: what was read is saved again.
SavesOldThread ==
  /\ pc = "threaded"
  /\ pc' = "ready"
  /\ file' = [thread |-> IF ShouldResume THEN state.thread ELSE thread,
              turn |-> IF ShouldResume THEN state.turn ELSE 0, print |-> print]
  /\ strange' = (ShouldResume /\ (thread # state.thread \/ strange))
  /\ UNCHANGED <<inputs, torn, codex, process, turn, break, mixed>>

\* Faulty: the last turn is kept.
SavesOldTurn ==
  /\ pc = "threaded"
  /\ pc' = "ready"
  /\ file' = [thread |-> thread, turn |-> state.turn, print |-> print]
  /\ strange' = (ShouldResume /\ (thread # state.thread \/ strange))
  /\ UNCHANGED <<inputs, torn, codex, process, turn, break, mixed>>

\* A thread that could not be resumed leaves its last turn behind.
SavesThread ==
  /\ pc = "threaded"
  /\ pc' = "ready"
  /\ file' = [thread |-> thread, turn |-> IF ShouldResume THEN state.turn ELSE 0,
              print |-> print]
  /\ strange' = (ShouldResume /\ (thread # state.thread \/ strange))
  /\ UNCHANGED <<inputs, torn, codex, process, turn, break, mixed>>

(***************************************************************************)
(* run_turn                                                                *)
(***************************************************************************)
\* The loop looked at the flag before it gives the backend a turn.
Goes ==
  /\ pc = "ready" /\ ~need_break
  /\ pc' = "requesting"
  /\ last' = "none" /\ errors' = FALSE /\ said' = "none" /\ trouble' = FALSE
  /\ UNCHANGED <<disk, codex, process, active, break, mixed, strange>>

TurnStarts ==
  /\ pc = "requesting" /\ turns < MaxTurns
  /\ pc' = "turning"
  /\ turns' = turns + 1 /\ active' = turns + 1
  /\ owner' = [owner EXCEPT ![turns + 1] = thread]
  /\ UNCHANGED <<disk, threads, grown, process, last, errors, said, trouble, break, mixed, strange>>

TurnIsRefused ==
  /\ pc = "requesting"
  /\ pc' = "ready"
  /\ UNCHANGED <<disk, codex, process, turn, break, mixed, strange>>

\* CodexSessionStore.update(last_turn_id=...)
NamesTurn == file' = [thread |-> file.thread, turn |-> active, print |-> file.print]

RecordsTurn ==
  /\ pc = "turning"
  /\ pc' = "streaming"
  /\ NamesTurn /\ strange' = FALSE
  /\ UNCHANGED <<inputs, torn, codex, process, turn, break, mixed>>

\* turn_completed; the stream may go on after it
HandlesCompletion ==
  /\ pc = "streaming" /\ said = "none"
  /\ \E s \in Statuses : said' = s /\ last' = s
  /\ NamesTurn
  /\ UNCHANGED <<inputs, torn, codex, pc, process, active, errors, trouble, break, mixed, strange>>

\* Faulty: what comes after the completion is not looked at.
HandlesErrorInTime ==
  /\ pc = "streaming"
  /\ errors' = (errors \/ last = "none") /\ trouble' = TRUE
  /\ UNCHANGED <<disk, codex, pc, process, active, last, said, break, mixed, strange>>

\* an event, or an approval that is denied, that makes an error signal
HandlesError ==
  /\ pc = "streaming"
  /\ errors' = TRUE /\ trouble' = TRUE
  /\ UNCHANGED <<disk, codex, pc, process, active, last, said, break, mixed, strange>>

StreamRaises ==
  /\ pc = "streaming"
  /\ pc' = "judging"
  /\ last' = "failed" /\ active' = 0 /\ trouble' = TRUE
  /\ UNCHANGED <<disk, codex, process, errors, said, break, mixed, strange>>

StreamEnds ==
  /\ pc = "streaming"
  /\ pc' = "judging"
  /\ active' = 0
  /\ UNCHANGED <<disk, codex, process, last, errors, said, trouble, break, mixed, strange>>

\* without a turn_completed the flag tells an interruption from a failure
Ended == IF last # "none" THEN last ELSE IF need_break THEN "interrupted" ELSE "failed"

Judges ==
  /\ pc = "judging"
  /\ pc' = "ready"
  /\ last' = IF errors /\ Ended = "completed" THEN "failed" ELSE Ended
  /\ UNCHANGED <<disk, codex, process, active, errors, said, trouble, break, mixed, strange>>

\* KeyboardInterrupt; only the stream is inside try ... finally
Aborts ==
  /\ pc \in {"requesting", "judging"} \union InTurn
  /\ pc' = "ready"
  /\ active' = IF pc = "streaming" THEN 0 ELSE active
  /\ UNCHANGED <<disk, codex, process, last, errors, said, trouble, break, mixed, strange>>

(***************************************************************************)
(* set_break and interrupt                                                 *)
(***************************************************************************)
AsksBreak ==
  /\ ~asking /\ pc # "down"
  /\ need_break' = TRUE /\ asking' = TRUE
  /\ UNCHANGED <<disk, codex, pc, process, turn, told, missed, mixed, strange>>

\* Faulty: only a stream is interrupted.
InterruptsStream ==
  /\ asking
  /\ asking' = FALSE
  /\ told' = IF pc = "streaming" THEN active ELSE told
  /\ missed' = (missed \/ pc = "requesting")
  /\ UNCHANGED <<disk, codex, pc, process, turn, need_break, mixed, strange>>

Interrupts ==
  /\ asking
  /\ asking' = FALSE
  /\ told' = IF active # 0 THEN active ELSE told
  /\ missed' = (missed \/ pc = "requesting")
  /\ UNCHANGED <<disk, codex, pc, process, turn, need_break, mixed, strange>>

\* "Failed to interrupt Codex turn"
InterruptRaises ==
  /\ asking /\ active # 0
  /\ asking' = FALSE /\ missed' = TRUE
  /\ UNCHANGED <<disk, codex, pc, process, turn, need_break, told, mixed, strange>>

\* set_break(False), by the operator's loop between turns or by Exit in one
ClearsBreak ==
  /\ pc \in {"ready"} \union InTurn /\ need_break
  /\ need_break' = FALSE /\ missed' = FALSE
  /\ UNCHANGED <<disk, codex, pc, process, turn, asking, told, mixed, strange>>

(***************************************************************************)
(* The world                                                               *)
(***************************************************************************)
TaskChanges ==
  /\ inputs' \in Prints
  /\ UNCHANGED <<file, torn, codex, pc, process, turn, break, mixed, strange>>

Gone ==
  /\ pc # "down" /\ pc' = "down"
  /\ forced' = FALSE /\ print' = inputs /\ state' = NoState /\ thread' = 0
  /\ active' = 0 /\ last' = "none" /\ errors' = FALSE /\ said' = "none"
  /\ trouble' = FALSE /\ need_break' = FALSE /\ asking' = FALSE /\ told' = 0 /\ missed' = FALSE
  /\ UNCHANGED <<inputs, codex, mixed>>

\* a crash, or any regular end
Crashes == Gone /\ UNCHANGED <<file, torn, strange>>

\* save_json_file truncates the file before it writes it.
CrashesInSave ==
  /\ pc \in {"threaded"} \union InTurn
  /\ Gone /\ torn' = TRUE /\ file' = NoState /\ strange' = FALSE

OperatorRemovesFile ==
  /\ torn /\ pc = "down"
  /\ torn' = FALSE
  /\ UNCHANGED <<inputs, file, codex, pc, process, turn, break, mixed, strange>>

Streams == HandlesCompletion \/ HandlesError \/ StreamRaises \/ StreamEnds

Next ==
  \/ Loads \/ Resumes \/ StartsThread \/ SavesThread
  \/ Goes \/ TurnStarts \/ TurnIsRefused \/ RecordsTurn \/ Streams \/ Judges \/ Aborts
  \/ AsksBreak \/ Interrupts \/ InterruptRaises \/ ClearsBreak
  \/ TaskChanges \/ Crashes \/ CrashesInSave \/ OperatorRemovesFile

Spec == Init /\ [][Next]_vars

\* The threads go on, and Codex closes the stream of a turn it is told to
\* interrupt; of another turn it need not.
Fairness ==
  /\ WF_vars(RecordsTurn) /\ WF_vars(Interrupts)
  /\ WF_vars(told = active /\ (StreamEnds \/ StreamRaises))

FairSpec == Spec /\ Fairness

(***************************************************************************)
(* Properties                                                              *)
(***************************************************************************)
\* "Saved threads are reused only when DUT, workflow, workspace input hash, and
\* backend args match": whatever crashed when, a thread that was never resumed
\* by force was only used by processes that had one and the same fingerprint.
ReuseIsMatched ==
  pc # "down" /\ thread # 0 /\ thread \notin mixed => grown[thread] = {print}

\* The turn in the file is one of the thread in the file, unless a resume
\* failed and no turn has begun since.
TurnIsOfThread == file.turn # 0 /\ ~strange => owner[file.turn] = file.thread

\* The loop is told that a turn is completed only if Codex said so, its stream
\* did not break and no error was seen in it, not even after Codex said so.
CompletedIsClean ==
  [][Judges /\ last' = "completed" => said = "completed" /\ ~trouble]_vars

\* Whoever broke the loop in the middle of a turn is about to interrupt that very
\* turn, or has done so, and not one that is over; only a break that was missed is
\* left to the flag alone.
BreakIsTold == need_break /\ pc \in InTurn => missed \/ asking \/ told = active

\* A break ends the turn under way, however long Codex would take, unless it
\* came in the moment in which the turn was being requested.
BreakReachesTurn ==
  need_break /\ pc \in InTurn ~> pc \notin InTurn \/ missed
=============================================================================
