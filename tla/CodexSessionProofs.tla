------------------------- MODULE CodexSessionProofs -------------------------
(* Proofs about CodexSession. *)
EXTENDS CodexSession, TLAPS

(***************************************************************************)
(* TypeOK is inductive once it is known that what is saved was begun.      *)
(***************************************************************************)
Begun ==
  /\ file.thread \in 0 .. threads /\ file.turn \in 0 .. turns
  /\ state.thread \in 0 .. threads /\ state.turn \in 0 .. turns

Typed == TypeOK /\ Begun

LEMMA SavedState ==
  /\ \A t \in 0 .. MaxThreads, n \in 0 .. MaxTurns, p \in Prints \union {NoPrint} :
        [thread |-> t, turn |-> n, print |-> p] \in State
  /\ NoState \in State
BY SessionAssumption DEF State, NoState

LEMMA Zero == \A n \in Nat : 0 \in 0 .. n
OBVIOUS

LEMMA NoneOfThem == Typed => 0 \in 0 .. threads /\ 0 \in 0 .. turns /\ 0 \in 0 .. MaxTurns
BY SessionAssumption DEF Typed, Begun, TypeOK, CodexTyped

LEMMA TypedInit == Init => Typed
<1> SUFFICES ASSUME Init PROVE Typed
  OBVIOUS
<1> USE SessionAssumption, SavedState DEF Init
<1>1. DiskTyped BY DEF DiskTyped
<1>2. CodexTyped BY DEF CodexTyped
<1>3. ProcessTyped
  <2>1. thread \in 0 .. threads BY Zero
  <2>2. pc \in {"down"} OBVIOUS
  <2> QED BY <2>1, <2>2 DEF ProcessTyped
<1>4. TurnTyped
  <2>1. active \in 0 .. turns BY Zero
  <2> QED BY <2>1 DEF TurnTyped, InTurn
<1>5. BreakTyped
  <2>1. told \in 0 .. MaxTurns /\ mixed \subseteq 1 .. MaxThreads OBVIOUS
  <2> QED BY <2>1 DEF BreakTyped
<1>6. Begun BY DEF Begun, NoState
<1> QED BY <1>1, <1>2, <1>3, <1>4, <1>5, <1>6 DEF Typed, TypeOK

LEMMA DiskTypedStep == Typed /\ [Next]_vars => DiskTyped'
<1> SUFFICES ASSUME Typed, [Next]_vars PROVE DiskTyped'
  OBVIOUS
<1> USE SessionAssumption
    DEF Typed, TypeOK, DiskTyped, disk
<1>1. CASE SavesThread
  <2>1. thread \in 0 .. MaxThreads /\ print \in Prints /\ state.turn \in 0 .. MaxTurns
    BY DEF ProcessTyped, CodexTyped, Begun
  <2> QED BY <1>1, <2>1, SavedState DEF SavesThread
<1>2. CASE RecordsTurn \/ HandlesCompletion
  <2>1. active \in 0 .. MaxTurns BY DEF TurnTyped, CodexTyped
  <2> QED BY <1>2, <2>1, SavedState DEF RecordsTurn, HandlesCompletion, NamesTurn, State
<1>3. CASE CrashesInSave BY <1>3, SavedState DEF CrashesInSave, Gone
<1>4. CASE Loads \/ Resumes \/ StartsThread \/ Goes \/ TurnStarts \/ TurnIsRefused
  BY <1>4 DEF Loads, Resumes, StartsThread, Goes, TurnStarts, TurnIsRefused
<1>5. CASE HandlesError \/ StreamRaises \/ StreamEnds \/ Judges \/ Aborts
  BY <1>5 DEF HandlesError, StreamRaises, StreamEnds, Judges, Aborts
<1>6. CASE AsksBreak \/ Interrupts \/ InterruptRaises \/ ClearsBreak
  BY <1>6 DEF AsksBreak, Interrupts, InterruptRaises, ClearsBreak
<1>7. CASE TaskChanges \/ Crashes \/ OperatorRemovesFile
  BY <1>7 DEF TaskChanges, Crashes, OperatorRemovesFile, Gone
<1>8. CASE UNCHANGED vars BY <1>8 DEF vars
<1> QED BY <1>1, <1>2, <1>3, <1>4, <1>5, <1>6, <1>7, <1>8 DEF Next, Streams

LEMMA CodexTypedStep == Typed /\ [Next]_vars => CodexTyped'
<1> SUFFICES ASSUME Typed, [Next]_vars PROVE CodexTyped'
  OBVIOUS
<1> USE SessionAssumption
    DEF Typed, TypeOK, CodexTyped, codex
<1>1. CASE Resumes
  <2>1. state.thread \in 1 .. MaxThreads BY <1>1 DEF Resumes, ShouldResume, Begun
  <2> QED BY <1>1, <2>1 DEF Resumes, ProcessTyped
<1>2. CASE StartsThread
  <2>1. threads + 1 \in 1 .. MaxThreads BY <1>2 DEF StartsThread
  <2> QED BY <1>2, <2>1 DEF StartsThread, ProcessTyped
<1>3. CASE TurnStarts
  <2>1. turns + 1 \in 1 .. MaxTurns /\ thread \in 0 .. MaxThreads
    BY <1>3 DEF TurnStarts, ProcessTyped
  <2> QED BY <1>3, <2>1 DEF TurnStarts
<1>4. CASE Loads \/ SavesThread \/ Goes \/ TurnIsRefused \/ RecordsTurn \/ HandlesCompletion
  BY <1>4 DEF Loads, SavesThread, Goes, TurnIsRefused, RecordsTurn, HandlesCompletion
<1>5. CASE HandlesError \/ StreamRaises \/ StreamEnds \/ Judges \/ Aborts
  BY <1>5 DEF HandlesError, StreamRaises, StreamEnds, Judges, Aborts
<1>6. CASE AsksBreak \/ Interrupts \/ InterruptRaises \/ ClearsBreak
  BY <1>6 DEF AsksBreak, Interrupts, InterruptRaises, ClearsBreak
<1>7. CASE TaskChanges \/ Crashes \/ CrashesInSave \/ OperatorRemovesFile
  BY <1>7 DEF TaskChanges, Crashes, CrashesInSave, OperatorRemovesFile, Gone
<1>8. CASE UNCHANGED vars BY <1>8 DEF vars
<1> QED BY <1>1, <1>2, <1>3, <1>4, <1>5, <1>6, <1>7, <1>8 DEF Next, Streams
LEMMA ProcessTypedStep == Typed /\ [Next]_vars => ProcessTyped'
<1> SUFFICES ASSUME Typed, [Next]_vars PROVE ProcessTyped'
  OBVIOUS
<1> USE SessionAssumption
    DEF Typed, TypeOK, ProcessTyped, process, InTurn
<1>1. CASE Loads BY <1>1 DEF Loads, DiskTyped, codex
<1>2. CASE Resumes BY <1>2 DEF Resumes, ShouldResume, Begun
<1>3. CASE StartsThread BY <1>3 DEF StartsThread, CodexTyped
<1>4. CASE TurnStarts BY <1>4 DEF TurnStarts
<1>5. CASE SavesThread \/ Goes \/ TurnIsRefused \/ RecordsTurn \/ HandlesCompletion
  BY <1>5 DEF SavesThread, Goes, TurnIsRefused, RecordsTurn, HandlesCompletion, codex
<1>6. CASE HandlesError \/ StreamRaises \/ StreamEnds \/ Judges \/ Aborts
  BY <1>6 DEF HandlesError, StreamRaises, StreamEnds, Judges, Aborts, codex
<1>7. CASE AsksBreak \/ Interrupts \/ InterruptRaises \/ ClearsBreak
  BY <1>7 DEF AsksBreak, Interrupts, InterruptRaises, ClearsBreak, codex
<1>8. CASE TaskChanges \/ OperatorRemovesFile
  BY <1>8 DEF TaskChanges, OperatorRemovesFile, codex
<1>9. CASE Crashes \/ CrashesInSave
  <2>1. pc' = "down" /\ forced' = FALSE /\ print' = inputs /\ state' = NoState
        /\ thread' = 0 /\ threads' = threads
    BY <1>9 DEF Crashes, CrashesInSave, Gone, codex
  <2>2. inputs \in Prints BY DEF DiskTyped
  <2> QED BY <2>1, <2>2, SavedState, NoneOfThem
<1>10. CASE UNCHANGED vars BY <1>10 DEF vars, codex
<1> QED BY <1>1, <1>2, <1>3, <1>4, <1>5, <1>6, <1>7, <1>8, <1>9, <1>10 DEF Next, Streams

LEMMA TurnTypedStep == Typed /\ [Next]_vars => TurnTyped'
<1> SUFFICES ASSUME Typed, [Next]_vars PROVE TurnTyped'
  OBVIOUS
<1> USE SessionAssumption
    DEF Typed, TypeOK, TurnTyped, turn, codex, InTurn, Statuses
<1>1. CASE Loads \/ Resumes \/ StartsThread \/ SavesThread
  BY <1>1 DEF Loads, Resumes, StartsThread, SavesThread
<1>2. CASE Goes \/ TurnIsRefused \/ RecordsTurn
  BY <1>2 DEF Goes, TurnIsRefused, RecordsTurn
<1>3. CASE TurnStarts BY <1>3 DEF TurnStarts, CodexTyped
<1>4. CASE HandlesCompletion \/ HandlesError
  BY <1>4 DEF HandlesCompletion, HandlesError
<1>5. CASE StreamRaises \/ StreamEnds \/ Aborts
  <2>1. /\ active' \in {active, 0} /\ turns' = turns /\ pc' \notin InTurn
        /\ last' \in {last, "failed"} /\ trouble' \in {trouble, TRUE}
        /\ errors' = errors /\ said' = said
    BY <1>5 DEF StreamRaises, StreamEnds, Aborts
  <2>2. active' \in 0 .. turns' BY <2>1, NoneOfThem
  <2> QED BY <2>1, <2>2
<1>6. CASE Judges BY <1>6 DEF Judges, Ended
<1>7. CASE AsksBreak \/ Interrupts \/ InterruptRaises \/ ClearsBreak
  BY <1>7 DEF AsksBreak, Interrupts, InterruptRaises, ClearsBreak
<1>8. CASE TaskChanges \/ OperatorRemovesFile
  BY <1>8 DEF TaskChanges, OperatorRemovesFile
<1>9. CASE Crashes \/ CrashesInSave
  <2>1. active' = 0 /\ turns' = turns /\ pc' \notin InTurn /\ last' = "none"
        /\ errors' = FALSE /\ said' = "none" /\ trouble' = FALSE
    BY <1>9 DEF Crashes, CrashesInSave, Gone
  <2> QED BY <2>1, NoneOfThem
<1>10. CASE UNCHANGED vars BY <1>10 DEF vars
<1> QED BY <1>1, <1>2, <1>3, <1>4, <1>5, <1>6, <1>7, <1>8, <1>9, <1>10 DEF Next, Streams

LEMMA BreakTypedStep == Typed /\ [Next]_vars => BreakTyped'
<1> SUFFICES ASSUME Typed, [Next]_vars PROVE BreakTyped'
  OBVIOUS
<1> USE SessionAssumption
    DEF Typed, TypeOK, BreakTyped, break
<1>1. CASE Resumes
  <2>1. state.thread \in 1 .. MaxThreads
    BY <1>1 DEF Resumes, ShouldResume, Begun, CodexTyped
  <2> QED BY <1>1, <2>1 DEF Resumes
<1>2. CASE Loads \/ StartsThread \/ Goes \/ TurnStarts \/ TurnIsRefused
  BY <1>2 DEF Loads, StartsThread, Goes, TurnStarts, TurnIsRefused
<1>3. CASE SavesThread BY <1>3 DEF SavesThread
<1>4. CASE RecordsTurn \/ Streams \/ Judges \/ Aborts
  BY <1>4 DEF RecordsTurn, Streams, HandlesCompletion, HandlesError, StreamRaises,
              StreamEnds, Judges, Aborts
<1>5. CASE AsksBreak \/ InterruptRaises \/ ClearsBreak
  BY <1>5 DEF AsksBreak, InterruptRaises, ClearsBreak
<1>6. CASE Interrupts
  <2>1. active \in 0 .. MaxTurns BY DEF TurnTyped, CodexTyped
  <2>2. told' \in 0 .. MaxTurns BY <1>6, <2>1 DEF Interrupts
  <2> QED BY <1>6, <2>2 DEF Interrupts
<1>7. CASE TaskChanges \/ OperatorRemovesFile
  BY <1>7 DEF TaskChanges, OperatorRemovesFile
<1>8. CASE Crashes \/ CrashesInSave
  <2>1. need_break' = FALSE /\ asking' = FALSE /\ told' = 0 /\ missed' = FALSE
        /\ mixed' = mixed
    BY <1>8 DEF Crashes, CrashesInSave, Gone
  <2>2. strange' \in {strange, FALSE} BY <1>8 DEF Crashes, CrashesInSave
  <2> QED BY <2>1, <2>2, NoneOfThem
<1>9. CASE UNCHANGED vars BY <1>9 DEF vars
<1> QED BY <1>1, <1>2, <1>3, <1>4, <1>5, <1>6, <1>7, <1>8, <1>9 DEF Next, Streams

LEMMA BegunStep == Typed /\ [Next]_vars => Begun'
<1> SUFFICES ASSUME Typed, [Next]_vars PROVE Begun'
  OBVIOUS
<1> USE SessionAssumption
    DEF Typed, TypeOK, Begun, disk, codex, process
<1>1. CASE Loads \/ Resumes \/ Goes \/ TurnIsRefused
  BY <1>1 DEF Loads, Resumes, Goes, TurnIsRefused
<1>2. CASE StartsThread \/ TurnStarts BY <1>2 DEF StartsThread, TurnStarts, CodexTyped
<1>3. CASE SavesThread BY <1>3 DEF SavesThread, ProcessTyped, CodexTyped
<1>4. CASE RecordsTurn \/ HandlesCompletion
  BY <1>4 DEF RecordsTurn, HandlesCompletion, NamesTurn, TurnTyped
<1>5. CASE HandlesError \/ StreamRaises \/ StreamEnds \/ Judges \/ Aborts
  BY <1>5 DEF HandlesError, StreamRaises, StreamEnds, Judges, Aborts
<1>6. CASE AsksBreak \/ Interrupts \/ InterruptRaises \/ ClearsBreak
  BY <1>6 DEF AsksBreak, Interrupts, InterruptRaises, ClearsBreak
<1>7. CASE TaskChanges \/ OperatorRemovesFile
  BY <1>7 DEF TaskChanges, OperatorRemovesFile
<1>8. CASE Crashes \/ CrashesInSave
  BY <1>8 DEF Crashes, CrashesInSave, Gone, NoState, CodexTyped
<1>9. CASE UNCHANGED vars BY <1>9 DEF vars
<1> QED BY <1>1, <1>2, <1>3, <1>4, <1>5, <1>6, <1>7, <1>8, <1>9 DEF Next, Streams

LEMMA TypedStep == Typed /\ [Next]_vars => Typed'
BY DiskTypedStep, CodexTypedStep, ProcessTypedStep, TurnTypedStep, BreakTypedStep, BegunStep
   DEF Typed, TypeOK

LEMMA AlwaysTyped == Spec => []Typed
BY TypedInit, TypedStep, PTL DEF Spec

\* Every variable of the backend and of its file keeps its type; in particular
\* there is always a turn to interrupt while the events of one are handled.
THEOREM TypeCorrect == Spec => []TypeOK
<1>1. Typed => TypeOK BY DEF Typed
<1> QED BY <1>1, AlwaysTyped, PTL

(***************************************************************************)
(* Which thread is used: what a process read is what the file still says   *)
(* until the process saves, and from then on the file is the process's     *)
(* own; so whoever reads the file finds the fingerprint of all who used    *)
(* its thread.                                                             *)
(***************************************************************************)
ReadIsKept == pc \in {"loaded", "threaded"} => file = state

FileIsOwn ==
  pc \notin {"down", "loaded", "threaded"} => file.thread = thread /\ file.print = print

FileIsMatched ==
  file.thread # 0 /\ file.thread \notin mixed => grown[file.thread] = {file.print}

Matched == ReadIsKept /\ FileIsOwn /\ FileIsMatched /\ ReuseIsMatched

LEMMA MatchedStep == Typed /\ Matched /\ [Next]_vars => Matched'
<1> SUFFICES ASSUME Typed, Matched, [Next]_vars PROVE Matched'
  OBVIOUS
<1> USE DEF Matched, ReadIsKept, FileIsOwn, FileIsMatched, ReuseIsMatched,
            disk, codex, process
<1>t. /\ grown \in [1 .. MaxThreads -> SUBSET Prints] /\ threads \in 0 .. MaxThreads
      /\ MaxThreads \in Nat /\ (pc \in {"down", "loaded"} <=> thread = 0)
      /\ file.thread \in 0 .. threads /\ state.thread \in 0 .. threads
  BY SessionAssumption DEF Typed, TypeOK, CodexTyped, ProcessTyped, Begun
<1>1. CASE Loads BY <1>1, <1>t DEF Loads
<1>2. CASE Resumes
  <2>1. state.thread \in 1 .. MaxThreads BY <1>2, <1>t DEF Resumes, ShouldResume
  <2>2. grown'[state.thread] = grown[state.thread] \union {print}
    BY <1>2, <1>t, <2>1 DEF Resumes
  <2>3. /\ file = state /\ thread' = state.thread /\ file' = file /\ state' = state
        /\ print' = print /\ pc' = "threaded"
    BY <1>2 DEF Resumes
  <2>4. CASE Matches
    <3>1. mixed' = mixed /\ state.print = print BY <1>2, <2>4 DEF Resumes, Matches
    <3>2. state.thread \notin mixed => grown'[state.thread] = {print}
      BY <2>1, <2>2, <2>3, <3>1, <1>t
    <3> QED BY <2>3, <3>1, <3>2
  <2>5. CASE ~Matches
    <3>1. state.thread \in mixed' BY <1>2, <2>5 DEF Resumes
    <3> QED BY <2>3, <3>1
  <2> QED BY <2>4, <2>5
<1>3. CASE StartsThread
  <2>1. /\ grown' = [grown EXCEPT ![threads + 1] = {print}] /\ thread' = threads + 1
        /\ threads + 1 \in 1 .. MaxThreads /\ file.thread # threads + 1
        /\ file' = file /\ state' = state /\ print' = print /\ mixed' = mixed
        /\ pc = "loaded" /\ pc' = "threaded"
    BY <1>3, <1>t DEF StartsThread
  <2>2. grown'[threads + 1] = {print} BY <2>1, <1>t
  <2>3. file.thread # 0 => grown'[file.thread] = grown[file.thread] BY <2>1, <1>t
  <2> QED BY <2>1, <2>2, <2>3
<1>4. CASE SavesThread
  <2>1. /\ file'.thread = thread /\ file'.print = print /\ pc = "threaded" /\ pc' = "ready"
        /\ thread' = thread /\ print' = print /\ grown' = grown /\ mixed' = mixed
    BY <1>4 DEF SavesThread
  <2> QED BY <2>1, <1>t
<1>5. CASE RecordsTurn \/ HandlesCompletion
  <2>1. /\ file'.thread = file.thread /\ file'.print = file.print
        /\ pc \in InTurn /\ pc' \in InTurn
        /\ thread' = thread /\ print' = print /\ grown' = grown /\ mixed' = mixed
    BY <1>5 DEF RecordsTurn, HandlesCompletion, NamesTurn, InTurn
  <2> QED BY <2>1, <1>t DEF InTurn
<1>6. CASE Goes \/ TurnStarts \/ TurnIsRefused
  BY <1>6 DEF Goes, TurnStarts, TurnIsRefused
<1>7. CASE HandlesError \/ StreamRaises \/ StreamEnds \/ Judges \/ Aborts
  BY <1>7 DEF HandlesError, StreamRaises, StreamEnds, Judges, Aborts, InTurn
<1>8. CASE AsksBreak \/ Interrupts \/ InterruptRaises \/ ClearsBreak
  BY <1>8 DEF AsksBreak, Interrupts, InterruptRaises, ClearsBreak
<1>9. CASE TaskChanges \/ OperatorRemovesFile
  BY <1>9 DEF TaskChanges, OperatorRemovesFile
<1>10. CASE Crashes BY <1>10 DEF Crashes, Gone
<1>11. CASE CrashesInSave BY <1>11 DEF CrashesInSave, Gone, NoState
<1>12. CASE UNCHANGED vars BY <1>12 DEF vars
<1> QED BY <1>1, <1>2, <1>3, <1>4, <1>5, <1>6, <1>7, <1>8, <1>9, <1>10, <1>11, <1>12
        DEF Next, Streams

LEMMA MatchedInit == Init => Matched
BY DEF Init, NoState, Matched, ReadIsKept, FileIsOwn, FileIsMatched, ReuseIsMatched

LEMMA AlwaysMatched == Spec => []Matched
BY AlwaysTyped, MatchedInit, MatchedStep, PTL DEF Spec

\* "Saved threads are reused only when DUT, workflow, workspace input hash, and
\* backend args match": a thread that was never resumed by force was only used
\* by processes with one fingerprint, whatever crashed when.
THEOREM ReuseMatches == Spec => []ReuseIsMatched
<1>1. Matched => ReuseIsMatched BY DEF Matched
<1> QED BY <1>1, AlwaysMatched, PTL

(***************************************************************************)
(* Which turn the file names.                                              *)
(***************************************************************************)
ActiveIsOfThread == pc \in InTurn => owner[active] = thread

Owned == TurnIsOfThread /\ ActiveIsOfThread

LEMMA OwnedStep == Typed /\ Matched /\ Owned /\ [Next]_vars => Owned'
<1> SUFFICES ASSUME Typed, Matched, Owned, [Next]_vars PROVE Owned'
  OBVIOUS
<1> USE DEF Owned, TurnIsOfThread, ActiveIsOfThread, disk, codex, process, turn, InTurn
<1>t. /\ owner \in [1 .. MaxTurns -> 0 .. MaxThreads] /\ turns \in 0 .. MaxTurns
      /\ MaxTurns \in Nat /\ active \in 0 .. turns
      /\ file.turn \in 0 .. turns /\ thread \in 0 .. MaxThreads
  BY SessionAssumption DEF Typed, TypeOK, CodexTyped, ProcessTyped, TurnTyped, Begun
<1>f. pc \in InTurn => file.thread = thread
  BY DEF Matched, FileIsOwn
<1>1. CASE SavesThread
  <2>1. /\ file' = [thread |-> thread, turn |-> IF ShouldResume THEN state.turn ELSE 0,
                    print |-> print]
        /\ strange' = (ShouldResume /\ (thread # state.thread \/ strange))
        /\ owner' = owner /\ pc' = "ready" /\ file = state
    BY <1>1 DEF SavesThread, Matched, ReadIsKept
  <2>2. CASE ~ShouldResume BY <2>1, <2>2
  <2>3. CASE ShouldResume
    <3>1. file'.thread = thread /\ file'.turn = state.turn BY <2>1, <2>3
    <3>2. ~strange' => thread = state.thread /\ ~strange BY <2>1, <2>3
    <3> QED BY <2>1, <3>1, <3>2
  <2> QED BY <2>2, <2>3
<1>2. CASE TurnStarts
  <2>1. /\ owner' = [owner EXCEPT ![turns + 1] = thread] /\ active' = turns + 1
        /\ turns + 1 \in 1 .. MaxTurns /\ file.turn # turns + 1
        /\ file' = file /\ thread' = thread /\ strange' = strange
    BY <1>2, <1>t DEF TurnStarts
  <2>2. owner'[turns + 1] = thread BY <2>1, <1>t
  <2>3. file.turn # 0 => owner'[file.turn] = owner[file.turn] BY <2>1, <1>t
  <2> QED BY <2>1, <2>2, <2>3
<1>3. CASE RecordsTurn \/ HandlesCompletion
  <2>1. /\ file'.turn = active /\ file'.thread = file.thread /\ pc \in InTurn
        /\ owner' = owner /\ thread' = thread /\ active' = active
    BY <1>3 DEF RecordsTurn, HandlesCompletion, NamesTurn
  <2> QED BY <2>1, <1>f
<1>4. CASE Loads \/ Resumes \/ StartsThread \/ Goes \/ TurnIsRefused
  BY <1>4 DEF Loads, Resumes, StartsThread, Goes, TurnIsRefused
<1>5. CASE HandlesError \/ StreamRaises \/ StreamEnds \/ Judges \/ Aborts
  BY <1>5 DEF HandlesError, StreamRaises, StreamEnds, Judges, Aborts
<1>6. CASE AsksBreak \/ Interrupts \/ InterruptRaises \/ ClearsBreak
  BY <1>6 DEF AsksBreak, Interrupts, InterruptRaises, ClearsBreak
<1>7. CASE TaskChanges \/ OperatorRemovesFile \/ Crashes
  BY <1>7 DEF TaskChanges, OperatorRemovesFile, Crashes, Gone
<1>8. CASE CrashesInSave BY <1>8 DEF CrashesInSave, Gone, NoState
<1>9. CASE UNCHANGED vars BY <1>9 DEF vars
<1> QED BY <1>1, <1>2, <1>3, <1>4, <1>5, <1>6, <1>7, <1>8, <1>9 DEF Next, Streams

LEMMA OwnedInit == Init => Owned
BY DEF Init, NoState, Owned, TurnIsOfThread, ActiveIsOfThread, InTurn

\* The turn in codex_thread.json is one of the thread in it, unless a resume
\* failed and no turn has begun since.
THEOREM TurnsAreOfThread == Spec => []TurnIsOfThread
<1>1. Owned => TurnIsOfThread BY DEF Owned
<1> QED BY <1>1, AlwaysTyped, AlwaysMatched, OwnedInit, OwnedStep, PTL DEF Spec

(***************************************************************************)
(* Which turn is taken for completed.                                      *)
(***************************************************************************)
Noticed ==
  /\ last = "completed" => said = "completed"
  /\ trouble => errors \/ (last = "failed" /\ pc # "streaming")
  /\ pc \in {"requesting", "turning"} => ~trouble

LEMMA NoticedStep == Typed /\ Noticed /\ [Next]_vars => Noticed'
<1> SUFFICES ASSUME Typed, Noticed, [Next]_vars PROVE Noticed'
  OBVIOUS
<1> USE DEF Noticed, turn, InTurn
<1>1. CASE Loads \/ Resumes \/ StartsThread \/ SavesThread
  BY <1>1 DEF Loads, Resumes, StartsThread, SavesThread
<1>2. CASE Goes \/ TurnIsRefused \/ TurnStarts BY <1>2 DEF Goes, TurnIsRefused, TurnStarts
<1>3. CASE RecordsTurn BY <1>3 DEF RecordsTurn
<1>4. CASE Streams
  BY <1>4 DEF Streams, HandlesCompletion, HandlesError, StreamRaises, StreamEnds
<1>5. CASE Judges BY <1>5 DEF Judges, Ended
<1>6. CASE Aborts BY <1>6 DEF Aborts
<1>7. CASE AsksBreak \/ Interrupts \/ InterruptRaises \/ ClearsBreak
  BY <1>7 DEF AsksBreak, Interrupts, InterruptRaises, ClearsBreak
<1>8. CASE TaskChanges \/ OperatorRemovesFile
  BY <1>8 DEF TaskChanges, OperatorRemovesFile
<1>9. CASE Crashes \/ CrashesInSave BY <1>9 DEF Crashes, CrashesInSave, Gone
<1>10. CASE UNCHANGED vars BY <1>10 DEF vars
<1> QED BY <1>1, <1>2, <1>3, <1>4, <1>5, <1>6, <1>7, <1>8, <1>9, <1>10 DEF Next

LEMMA NoticedInit == Init => Noticed
BY DEF Init, Noticed

\* A turn is reported as completed only if Codex said so, its stream did not
\* break and no error was seen in it, before or after Codex said so.
THEOREM CompletionsAreClean == Spec => CompletedIsClean
<1>1. Noticed /\ [Next]_vars
      => [Judges /\ last' = "completed" => said = "completed" /\ ~trouble]_vars
  <2> SUFFICES ASSUME Noticed, Judges, last' = "completed"
               PROVE  said = "completed" /\ ~trouble
    OBVIOUS
  <2>1. last = "completed" /\ ~errors
    BY DEF Judges, Ended
  <2> QED BY <2>1 DEF Noticed, Judges
<1> QED BY <1>1, AlwaysTyped, NoticedInit, NoticedStep, PTL DEF Spec, CompletedIsClean

(***************************************************************************)
(* Which turn a break interrupts.                                          *)
(***************************************************************************)
\* A break that comes while a turn is being requested is still being told, or
\* has found no turn.
Told == BreakIsTold /\ (need_break /\ pc = "requesting" => missed \/ asking)

LEMMA ToldStep == Typed /\ Told /\ [Next]_vars => Told'
<1> SUFFICES ASSUME Typed, Told, [Next]_vars PROVE Told'
  OBVIOUS
<1> USE DEF Told, BreakIsTold, break, turn, InTurn
<1>1. CASE Loads \/ Resumes \/ StartsThread \/ SavesThread
  BY <1>1 DEF Loads, Resumes, StartsThread, SavesThread
<1>2. CASE Goes \/ TurnIsRefused \/ TurnStarts BY <1>2 DEF Goes, TurnIsRefused, TurnStarts
<1>3. CASE RecordsTurn \/ Streams
  BY <1>3 DEF RecordsTurn, Streams, HandlesCompletion, HandlesError, StreamRaises, StreamEnds
<1>4. CASE Judges \/ Aborts BY <1>4 DEF Judges, Aborts
<1>5. CASE AsksBreak \/ ClearsBreak BY <1>5 DEF AsksBreak, ClearsBreak
<1>6. CASE InterruptRaises BY <1>6 DEF InterruptRaises
<1>7. CASE Interrupts
  <2>1. pc \in InTurn => active # 0 BY DEF Typed, TypeOK, TurnTyped
  <2> QED BY <1>7, <2>1 DEF Interrupts
<1>8. CASE TaskChanges \/ OperatorRemovesFile
  BY <1>8 DEF TaskChanges, OperatorRemovesFile
<1>9. CASE Crashes \/ CrashesInSave BY <1>9 DEF Crashes, CrashesInSave, Gone
<1>10. CASE UNCHANGED vars BY <1>10 DEF vars
<1> QED BY <1>1, <1>2, <1>3, <1>4, <1>5, <1>6, <1>7, <1>8, <1>9, <1>10 DEF Next

LEMMA ToldInit == Init => Told
BY DEF Init, Told, BreakIsTold, InTurn

\* A break that no moment of requesting and no failure swallowed is told to the
\* turn that runs, whichever turns were begun, aborted and interrupted before.
THEOREM BreaksAreTold == Spec => []BreakIsTold
<1>1. Told => BreakIsTold BY DEF Told
<1> QED BY <1>1, AlwaysTyped, ToldInit, ToldStep, PTL DEF Spec
=============================================================================
