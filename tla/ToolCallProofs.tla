--------------------------- MODULE ToolCallProofs ---------------------------
(* Proofs about ToolCall. *)
EXTENDS ToolCall, TLAPS

(***************************************************************************)
(* What keeps the calls apart is the lock: whoever is at work, in hand, or *)
(* has a keep-alive thread that is not over, holds it.                     *)
(***************************************************************************)
Ongoing == {"starting", "counting", "expiring", "leaving"}

Holds ==
  \A c \in Calls :
    c \in running \/ status[c] \in InHand \/ loop[c] \in Ongoing => lock = c

Phases ==
  \A c \in Calls :
    /\ status[c] = "joining" => c \notin running /\ ~isInStreaming
    /\ status[c] = "plain" => loop[c] \notin Ongoing /\ ~isInStreaming
    /\ status[c] = "streaming" => isInStreaming

StreamIsHeld == isInStreaming => lock # NoCall

Counts ==
  \A c \in Calls :
    /\ loop[c] \in {"starting", "counting"} => countDown[c] > 0
    /\ loop[c] = "expiring" => countDown[c] = 0

IInv == Holds /\ Phases /\ StreamIsHeld /\ Counts /\ ForcedOnTime

(***************************************************************************)
(* TypeOK                                                                  *)
(***************************************************************************)
\* A count that is not used up stays within its range.
LEMMA TypeInit == Init => TypeOK
<1>1. 0 \in 0 .. TimeOut BY CallAssumption
<1> QED BY <1>1 DEF Init, TypeOK, Statuses, LoopStates

LEMMA TypeAinvoke ==
  ASSUME TypeOK, NEW c \in Calls, Ainvoke(c)
  PROVE  TypeOK'
<1> USE CallAssumption DEF TypeOK, To, flags, Statuses, LoopStates
<1>1. CASE Arrives(c)          BY <1>1 DEF Arrives
<1>2. CASE LockTimesOut(c)     BY <1>2 DEF LockTimesOut
<1>3. CASE EntersPlain(c)      BY <1>3 DEF EntersPlain, Gets
<1>4. CASE EntersStreaming(c)
  <2>1. TimeOut \in 0 .. TimeOut OBVIOUS
  <2>2. countDown' \in [Calls -> 0 .. TimeOut]
    BY <1>4, <2>1 DEF EntersStreaming
  <2> QED BY <1>4, <2>2 DEF EntersStreaming, Gets
<1>5. CASE StreamingEnds(c)    BY <1>5 DEF StreamingEnds
<1>6. CASE JoinReturns(c)      BY <1>6 DEF JoinReturns
<1>7. CASE PlainEnds(c)        BY <1>7 DEF PlainEnds
<1>8. CASE PlainRaises(c)      BY <1>8 DEF PlainRaises
<1>9. CASE CancelledWaiting(c) BY <1>9 DEF CancelledWaiting
<1>10. CASE CancelledAtWork(c) BY <1>10 DEF CancelledAtWork
<1> QED
  BY <1>1, <1>2, <1>3, <1>4, <1>5, <1>6, <1>7, <1>8, <1>9, <1>10 DEF Ainvoke

LEMMA TypeKeepAlive ==
  ASSUME TypeOK, Counts, NEW c \in Calls, KeepAlive(c)
  PROVE  TypeOK'
<1> USE CallAssumption DEF TypeOK, LoopTo, flags, LoopStates
<1>1. CASE LoopStarts(c)   BY <1>1 DEF LoopStarts
<1>2. CASE LoopSeesEnd(c)  BY <1>2 DEF LoopSeesEnd
<1>3. CASE LoopCounts(c)   BY <1>3 DEF LoopCounts, Counts
<1>4. CASE LoopForces(c)   BY <1>4 DEF LoopForces
<1>5. CASE LoopLeaves(c)   BY <1>5 DEF LoopLeaves
<1> QED BY <1>1, <1>2, <1>3, <1>4, <1>5 DEF KeepAlive

LEMMA TypeStep ==
  ASSUME TypeOK, Counts, [Next]_vars
  PROVE  TypeOK'
<1>1. CASE \E c \in Calls : Ainvoke(c)   BY <1>1, TypeAinvoke
<1>2. CASE \E c \in Calls : KeepAlive(c) BY <1>2, TypeKeepAlive
<1>3. CASE \E c \in Calls \union Direct : BodyEnds(c)
  BY <1>3 DEF BodyEnds, TypeOK, flags
<1>4. CASE \E d \in Direct : InvokeStarts(d)
  BY <1>4 DEF InvokeStarts, TypeOK, To, Statuses
<1>5. CASE \E d \in Direct : InvokeEnds(d)
  BY <1>5 DEF InvokeEnds, TypeOK, To, Statuses
<1>6. CASE SetDisabled    BY <1>6 DEF SetDisabled, TypeOK, flags
<1>7. CASE UNCHANGED vars BY <1>7 DEF vars, flags, TypeOK
<1> QED BY <1>1, <1>2, <1>3, <1>4, <1>5, <1>6, <1>7 DEF Next

(***************************************************************************)
(* The inductive invariant                                                 *)
(***************************************************************************)
LEMMA InvInit == Init => IInv
BY CallAssumption
DEF Init, IInv, Holds, Phases, StreamIsHeld, Counts, ForcedOnTime, InHand, Ongoing

\* While the lock is free, nobody is at work and nothing streams.
LEMMA FreeMeansQuiet ==
  ASSUME TypeOK, Holds, StreamIsHeld, lock = NoCall
  PROVE  /\ ~isInStreaming
         /\ \A c \in Calls : /\ c \notin running
                             /\ status[c] \notin InHand
                             /\ loop[c] \notin Ongoing
BY CallAssumption DEF Holds, StreamIsHeld

LEMMA InvAinvoke ==
  ASSUME TypeOK, IInv, NEW c \in Calls, Ainvoke(c)
  PROVE  IInv'
<1> USE CallAssumption
    DEF TypeOK, IInv, Holds, Phases, StreamIsHeld, Counts, ForcedOnTime,
        To, flags, InHand, Ongoing
<1>1. CASE Arrives(c)          BY <1>1 DEF Arrives
<1>2. CASE LockTimesOut(c)     BY <1>2 DEF LockTimesOut
<1>3. CASE EntersPlain(c)      BY <1>3, FreeMeansQuiet DEF EntersPlain, Gets
<1>4. CASE EntersStreaming(c)  BY <1>4, FreeMeansQuiet DEF EntersStreaming, Gets
<1>5. CASE StreamingEnds(c)    BY <1>5 DEF StreamingEnds
<1>6. CASE JoinReturns(c)      BY <1>6 DEF JoinReturns
<1>7. CASE PlainEnds(c)        BY <1>7 DEF PlainEnds
<1>8. CASE PlainRaises(c)      BY <1>8 DEF PlainRaises
<1>9. CASE CancelledWaiting(c) BY <1>9 DEF CancelledWaiting
<1>10. CASE CancelledAtWork(c) BY <1>10 DEF CancelledAtWork
<1> QED
  BY <1>1, <1>2, <1>3, <1>4, <1>5, <1>6, <1>7, <1>8, <1>9, <1>10 DEF Ainvoke

LEMMA InvKeepAlive ==
  ASSUME TypeOK, IInv, NEW c \in Calls, KeepAlive(c)
  PROVE  IInv'
<1> USE CallAssumption
    DEF TypeOK, IInv, Holds, Phases, StreamIsHeld, Counts, ForcedOnTime,
        LoopTo, flags, InHand, Ongoing
<1>1. CASE LoopStarts(c)   BY <1>1 DEF LoopStarts
<1>2. CASE LoopSeesEnd(c)  BY <1>2 DEF LoopSeesEnd
<1>3. CASE LoopCounts(c)   BY <1>3 DEF LoopCounts
<1>4. CASE LoopForces(c)   BY <1>4 DEF LoopForces
<1>5. CASE LoopLeaves(c)   BY <1>5 DEF LoopLeaves
<1> QED BY <1>1, <1>2, <1>3, <1>4, <1>5 DEF KeepAlive

LEMMA InvStep ==
  ASSUME TypeOK, IInv, [Next]_vars
  PROVE  IInv'
<1>1. CASE \E c \in Calls : Ainvoke(c)   BY <1>1, InvAinvoke
<1>2. CASE \E c \in Calls : KeepAlive(c) BY <1>2, InvKeepAlive
<1> USE CallAssumption
    DEF TypeOK, IInv, Holds, Phases, StreamIsHeld, Counts, ForcedOnTime,
        To, flags, InHand, Ongoing
<1>3. CASE \E c \in Calls \union Direct : BodyEnds(c)
  BY <1>3 DEF BodyEnds
<1>4. CASE \E d \in Direct : InvokeStarts(d)
  BY <1>4 DEF InvokeStarts
<1>5. CASE \E d \in Direct : InvokeEnds(d)
  BY <1>5 DEF InvokeEnds
<1>6. CASE SetDisabled    BY <1>6 DEF SetDisabled
<1>7. CASE UNCHANGED vars BY <1>7 DEF vars
<1> QED BY <1>1, <1>2, <1>3, <1>4, <1>5, <1>6, <1>7 DEF Next

LEMMA Always == Spec => [](TypeOK /\ IInv)
<1>1. Init => TypeOK /\ IInv BY TypeInit, InvInit
<1>2. TypeOK /\ IInv /\ [Next]_vars => (TypeOK /\ IInv)'
  BY TypeStep, InvStep DEF IInv
<1> QED BY <1>1, <1>2, PTL DEF Spec

(***************************************************************************)
(* Theorems                                                                *)
(***************************************************************************)
\* Flags, counters and the states of calls and threads stay in their ranges:
\* a keep-alive loop stops counting at zero.
THEOREM TypeCorrect == Spec => []TypeOK
BY Always, PTL

\* The tool works for one ainvoke call at a time, however many calls wait, are
\* cancelled or raise.
THEOREM CallsTakeTurns == Spec => []OneAtATime
<1>1. IInv => OneAtATime BY DEF IInv, Holds, OneAtATime
<1> QED BY <1>1, Always, PTL

\* Only a streaming call that used up its time is asked to leave.
THEOREM NobodyIsForcedEarly == Spec => []ForcedOnTime
<1>1. IInv => ForcedOnTime BY DEF IInv
<1> QED BY <1>1, Always, PTL

(***************************************************************************)
(* The join                                                                *)
(***************************************************************************)
\* A call that streams or joins has a keep-alive thread.
HasLoop == \A c \in Calls : status[c] \in {"streaming", "joining"} => loop[c] # "none"

LEMMA HasLoopStep ==
  ASSUME TypeOK, HasLoop, [Next]_vars
  PROVE  HasLoop'
<1> USE DEF TypeOK, HasLoop, flags, To, LoopTo
<1>1. ASSUME NEW c \in Calls, Ainvoke(c) PROVE HasLoop'
  <2>1. CASE Arrives(c) \/ LockTimesOut(c) \/ EntersPlain(c) \/ JoinReturns(c) \/ CancelledWaiting(c)
    BY <2>1 DEF Arrives, LockTimesOut, EntersPlain, JoinReturns, CancelledWaiting
  <2>2. CASE EntersStreaming(c) BY <2>2 DEF EntersStreaming
  <2>3. CASE StreamingEnds(c) \/ PlainEnds(c) \/ PlainRaises(c) \/ CancelledAtWork(c)
    BY <2>3 DEF StreamingEnds, PlainEnds, PlainRaises, CancelledAtWork
  <2> QED BY <1>1, <2>1, <2>2, <2>3 DEF Ainvoke
<1>2. ASSUME NEW c \in Calls, KeepAlive(c) PROVE HasLoop'
  BY <1>2 DEF KeepAlive, LoopStarts, LoopSeesEnd, LoopCounts, LoopForces, LoopLeaves
<1>3. ASSUME NEW c \in Calls \union Direct, BodyEnds(c) PROVE HasLoop'
  BY <1>3 DEF BodyEnds
<1>4. ASSUME NEW d \in Direct, InvokeStarts(d) \/ InvokeEnds(d) PROVE HasLoop'
  BY <1>4 DEF InvokeStarts, InvokeEnds
<1>5. CASE SetDisabled \/ UNCHANGED vars BY <1>5 DEF SetDisabled, vars
<1> QED BY <1>1, <1>2, <1>3, <1>4, <1>5 DEF Next

LEMMA JoinStep ==
  ASSUME TypeOK, IInv, HasLoop, [Next]_vars, NEW c \in Calls, status[c] = "joining"
  PROVE  /\ loop[c] \in DOMAIN StepsLeft
         /\ loop'[c] = loop[c] \/ StepsLeft[loop'[c]] < StepsLeft[loop[c]]
<1>1. loop[c] \in DOMAIN StepsLeft BY DEF TypeOK, LoopStates, HasLoop, StepsLeft
<1>2. ~isInStreaming BY DEF IInv, Phases
<1>3. lock = c BY DEF IInv, Holds, InHand
<1>4. ASSUME NEW d \in Calls, Ainvoke(d) PROVE loop'[c] = loop[c]
  <2>1. CASE EntersStreaming(d)
    BY <1>3, <2>1, CallAssumption DEF EntersStreaming, Gets
  <2> QED BY <1>4, <2>1 DEF Ainvoke, Arrives, LockTimesOut, EntersPlain, JoinReturns,
          CancelledWaiting, StreamingEnds, PlainEnds, PlainRaises, CancelledAtWork, flags
<1>5. ASSUME NEW d \in Calls, KeepAlive(d)
      PROVE  loop'[c] = loop[c] \/ StepsLeft[loop'[c]] < StepsLeft[loop[c]]
  <2> USE DEF TypeOK, LoopTo, StepsLeft
  <2>1. CASE LoopStarts(d)  BY <2>1 DEF LoopStarts
  <2>2. CASE LoopSeesEnd(d) BY <2>2 DEF LoopSeesEnd
  <2>3. CASE LoopCounts(d)  BY <1>2, <2>3 DEF LoopCounts
  <2>4. CASE LoopForces(d)  BY <2>4 DEF LoopForces
  <2>5. CASE LoopLeaves(d)  BY <2>5 DEF LoopLeaves
  <2> QED BY <1>5, <2>1, <2>2, <2>3, <2>4, <2>5 DEF KeepAlive
<1>6. CASE \/ \E d \in Calls \union Direct : BodyEnds(d)
           \/ \E d \in Direct : InvokeStarts(d) \/ InvokeEnds(d)
           \/ SetDisabled \/ UNCHANGED vars
  BY <1>1, <1>6 DEF BodyEnds, InvokeStarts, InvokeEnds, SetDisabled, vars, flags
<1> QED BY <1>1, <1>4, <1>5, <1>6 DEF Next

\* The event loop stands still for at most two steps of the thread it joins.
THEOREM JoinsAreShort == Spec => JoinIsShort
<1> DEFINE Short == \A c \in Calls : status[c] = "joining" =>
                      /\ loop[c] \in DOMAIN StepsLeft
                      /\ loop'[c] = loop[c] \/ StepsLeft[loop'[c]] < StepsLeft[loop[c]]
<1>1. Init => HasLoop BY DEF Init, HasLoop
<1>2. TypeOK /\ IInv /\ HasLoop /\ [Next]_vars => [Short]_vars BY JoinStep
<1> QED BY <1>1, <1>2, HasLoopStep, Always, PTL DEF Spec, JoinIsShort

(***************************************************************************)
(* The tool takes turns                                                    *)
(***************************************************************************)
\* The lock is only ever held by a call that is in hand or was lost in its turn.
HolderInside == \A c \in Calls : lock = c => status[c] \in InHand \union {"raised", "cancelled"}

LEMMA HolderStep ==
  ASSUME TypeOK, IInv, HolderInside, [Next]_vars
  PROVE  HolderInside'
<1> USE CallAssumption DEF TypeOK, HolderInside, InHand, flags, To
<1>1. ASSUME NEW c \in Calls, Ainvoke(c) PROVE HolderInside'
  <2>1. CASE Arrives(c) \/ LockTimesOut(c) \/ CancelledWaiting(c)
    BY <2>1 DEF Arrives, LockTimesOut, CancelledWaiting
  <2>2. CASE EntersPlain(c) \/ EntersStreaming(c)
    BY <2>2 DEF EntersPlain, EntersStreaming, Gets
  <2>3. CASE JoinReturns(c) \/ PlainEnds(c)
    BY <2>3 DEF JoinReturns, PlainEnds
  <2>4. CASE StreamingEnds(c) \/ PlainRaises(c) \/ CancelledAtWork(c)
    BY <2>4 DEF StreamingEnds, PlainRaises, CancelledAtWork
  <2> QED BY <1>1, <2>1, <2>2, <2>3, <2>4 DEF Ainvoke
<1>2. ASSUME NEW c \in Calls, KeepAlive(c) PROVE HolderInside'
  BY <1>2 DEF KeepAlive, LoopStarts, LoopSeesEnd, LoopCounts, LoopForces, LoopLeaves
<1>3. ASSUME NEW c \in Calls \union Direct, BodyEnds(c) PROVE HolderInside'
  BY <1>3 DEF BodyEnds
<1>4. ASSUME NEW d \in Direct, InvokeStarts(d) \/ InvokeEnds(d) PROVE HolderInside'
  BY <1>4 DEF InvokeStarts, InvokeEnds
<1>5. CASE SetDisabled \/ UNCHANGED vars BY <1>5 DEF SetDisabled, vars
<1> QED BY <1>1, <1>2, <1>3, <1>4, <1>5 DEF Next

places == [c \in Calls |-> Place(c)]

LEMMA PlaceStays ==
  ASSUME NEW c \in Calls, status'[c] = status[c],
         status[c] = "cancelled" => (lock' = c <=> lock = c)
  PROVE  Place(c)' = Place(c)
BY DEF Place

LEMMA PlaceMoves ==
  ASSUME TypeOK, NEW c \in Calls, NEW s, To(c, s),
         \A d \in Calls \ {c} : status[d] = "cancelled" => (lock' = d <=> lock = d)
  PROVE  status'[c] = s /\ TurnTaking!Moves(c, Place(c), Place(c)')
<1>1. status'[c] = s /\ \A d \in Calls \ {c} : status'[d] = status[d] BY DEF TypeOK, To
<1>2. \A d \in Calls \ {c} : Place(d)' = Place(d) BY <1>1, PlaceStays
<1>3. places' = [places EXCEPT ![c] = Place(c)'] BY <1>2 DEF places
<1> QED BY <1>1, <1>3 DEF places, TurnTaking!Moves

\* The steps of a call that its client sees, by what becomes of its place.
LEMMA AinvokeTurn ==
  ASSUME TypeOK, IInv, HolderInside, NEW c \in Calls, Ainvoke(c)
  PROVE  TurnTaking!Next \/ UNCHANGED TurnTaking!vars
<1>0. NoCall \notin Calls BY CallAssumption
<1>1. CASE Arrives(c)
  <2>1. PICK s \in {"waiting", "refused"} : To(c, s)
    BY <1>1 DEF Arrives
  <2>2. UNCHANGED <<lock, running>> /\ status[c] = "idle"
    BY <1>1 DEF Arrives
  <2>3. status'[c] = s /\ TurnTaking!Moves(c, Place(c), Place(c)') BY <2>1, <2>2, PlaceMoves
  <2>4. Place(c) = "outside" BY <2>2 DEF Place, InHand
  <2>5. Place(c)' = IF s = "waiting" THEN "queue" ELSE "gone" BY <2>1, <2>3 DEF Place, InHand
  <2>6. TurnTaking!Asks(c) \/ TurnTaking!TurnedAway(c)
    BY <2>2, <2>3, <2>4, <2>5 DEF TurnTaking!Asks, TurnTaking!TurnedAway
  <2> QED BY <2>6 DEF TurnTaking!Next
<1>2. CASE \/ LockTimesOut(c) \/ CancelledWaiting(c)
           \/ (EntersStreaming(c) /\ (isInStreaming \/ isAliveLoop))
  <2>1. PICK s \in {"refused", "cancelled"} : To(c, s)
    BY <1>2 DEF LockTimesOut, CancelledWaiting, EntersStreaming
  <2>2. UNCHANGED <<lock, running>> /\ status[c] = "waiting"
    BY <1>2 DEF LockTimesOut, CancelledWaiting, EntersStreaming, Gets
  <2>3. status'[c] = s /\ TurnTaking!Moves(c, Place(c), Place(c)') BY <2>1, <2>2, PlaceMoves
  <2>4. lock # c BY <2>2 DEF HolderInside, InHand
  <2>5. Place(c) = "queue" /\ Place(c)' = "gone" BY <2>1, <2>2, <2>3, <2>4 DEF Place, InHand
  <2>6. TurnTaking!TurnedAway(c)
    BY <2>2, <2>3, <2>5 DEF TurnTaking!TurnedAway
  <2> QED BY <2>6 DEF TurnTaking!Next
<1>3. CASE EntersPlain(c) \/ (EntersStreaming(c) /\ ~(isInStreaming \/ isAliveLoop))
  <2>1. PICK s \in {"plain", "streaming"} : To(c, s)
    BY <1>3 DEF EntersPlain, EntersStreaming
  <2>2. /\ status[c] = "waiting" /\ lock = NoCall /\ lock' = c
        /\ running' = running \union {c}
    BY <1>3 DEF EntersPlain, EntersStreaming, Gets
  <2>3. status'[c] = s /\ TurnTaking!Moves(c, Place(c), Place(c)')
    BY <1>0, <2>1, <2>2, PlaceMoves
  <2>4. Place(c) = "queue" /\ Place(c)' = "inside" BY <2>1, <2>2, <2>3 DEF Place, InHand
  <2>5. running \intersect Calls = {} /\ (running \intersect Calls)' = {c}
    BY <2>2, FreeMeansQuiet DEF IInv
  <2>6. TurnTaking!GetsTurn(c)
    BY <2>2, <2>3, <2>4, <2>5 DEF TurnTaking!GetsTurn
  <2> QED BY <2>6 DEF TurnTaking!Next
<1>4. CASE StreamingEnds(c)
  <2>1. To(c, "joining") /\ UNCHANGED <<lock, running>> /\ status[c] = "streaming"
    BY <1>4 DEF StreamingEnds
  <2>2. status'[c] = "joining" /\ TurnTaking!Moves(c, Place(c), Place(c)') BY <2>1, PlaceMoves
  <2>3. Place(c)' = Place(c) BY <2>1, <2>2 DEF Place, InHand
  <2>4. UNCHANGED TurnTaking!vars BY <2>1, <2>2, <2>3 DEF TurnTaking!vars, TurnTaking!Moves
  <2> QED BY <2>4
<1>5. CASE JoinReturns(c) \/ PlainEnds(c)
  <2>1. /\ To(c, "answered") /\ status[c] \in {"joining", "plain"}
        /\ lock' = NoCall /\ UNCHANGED running /\ c \notin running
    BY <1>5 DEF JoinReturns, PlainEnds, IInv, Phases
  <2>2. lock = c BY <2>1 DEF IInv, Holds, InHand
  <2>3. status'[c] = "answered" /\ TurnTaking!Moves(c, Place(c), Place(c)')
    BY <1>0, <2>1, <2>2, PlaceMoves
  <2>4. Place(c) = "inside" /\ Place(c)' = "answered" BY <2>1, <2>3 DEF Place, InHand
  <2>5. TurnTaking!Answered(c) BY <2>1, <2>2, <2>3, <2>4 DEF TurnTaking!Answered
  <2> QED BY <2>5 DEF TurnTaking!Next
<1>6. CASE PlainRaises(c) \/ CancelledAtWork(c)
  <2>1. PICK s \in {"raised", "cancelled"} : To(c, s)
    BY <1>6 DEF PlainRaises, CancelledAtWork
  <2>2. status[c] \in {"plain", "streaming"} /\ UNCHANGED <<lock, running>>
    BY <1>6 DEF PlainRaises, CancelledAtWork
  <2>3. lock = c BY <2>2 DEF IInv, Holds, InHand
  <2>4. status'[c] = s /\ TurnTaking!Moves(c, Place(c), Place(c)') BY <2>1, <2>2, PlaceMoves
  <2>5. Place(c) = "inside" /\ Place(c)' = "lost"
    BY <2>1, <2>2, <2>3, <2>4 DEF Place, InHand
  <2>6. TurnTaking!GetsLost(c) BY <2>2, <2>3, <2>4, <2>5 DEF TurnTaking!GetsLost
  <2> QED BY <2>6 DEF TurnTaking!Next
<1> QED BY <1>1, <1>2, <1>3, <1>4, <1>5, <1>6 DEF Ainvoke

\* Whatever leaves places and the lock alone is a stutter, but for the end of work.
LEMMA QuietTurn ==
  ASSUME UNCHANGED lock, \A c \in Calls : status'[c] = status[c],
         UNCHANGED (running \intersect Calls)
  PROVE  UNCHANGED TurnTaking!vars
<1>1. \A c \in Calls : Place(c)' = Place(c) BY PlaceStays
<1> QED BY <1>1 DEF TurnTaking!vars

LEMMA StepTurn ==
  ASSUME TypeOK, IInv, HolderInside, [Next]_vars
  PROVE  TurnTaking!Next \/ UNCHANGED TurnTaking!vars
<1> USE CallAssumption DEF flags
<1>1. CASE \E c \in Calls : Ainvoke(c) BY <1>1, AinvokeTurn
<1>2. CASE \E c \in Calls : KeepAlive(c)
  BY <1>2, QuietTurn DEF KeepAlive, LoopStarts, LoopSeesEnd, LoopCounts, LoopForces, LoopLeaves
<1>3. ASSUME NEW c \in Calls, BodyEnds(c) PROVE TurnTaking!Next
  <2>1. UNCHANGED lock /\ \A d \in Calls : Place(d)' = Place(d)
    BY <1>3, PlaceStays DEF BodyEnds
  <2>2. TurnTaking!WorkEnds(c) BY <1>3, <2>1 DEF BodyEnds, TurnTaking!WorkEnds
  <2> QED BY <2>2 DEF TurnTaking!Next
<1>4. CASE \E d \in Direct : BodyEnds(d) BY <1>4, QuietTurn DEF BodyEnds
<1>5. CASE \E d \in Direct : InvokeStarts(d) \/ InvokeEnds(d)
  BY <1>5, QuietTurn DEF InvokeStarts, InvokeEnds, To, TypeOK
<1>6. CASE SetDisabled \/ UNCHANGED vars BY <1>6, QuietTurn DEF SetDisabled, vars
<1> QED BY <1>1, <1>2, <1>3, <1>4, <1>5, <1>6 DEF Next

\* To the clients of ainvoke, any number of them, a tool is what Turns promises:
\* flags, keep-alive threads, invoke and cancelled calls add nothing to it.
THEOREM TurnsAreTaken == Spec => TakesTurns
<1>1. Init => TurnTaking!Init /\ HolderInside
  BY CallAssumption DEF Init, HolderInside, Place, InHand, TurnTaking!Init
<1>2. TypeOK /\ IInv /\ HolderInside /\ [Next]_vars => [TurnTaking!Next]_(TurnTaking!vars)
  BY StepTurn
<1> QED BY <1>1, <1>2, HolderStep, Always, PTL DEF Spec, TakesTurns, TurnTaking!Spec

=============================================================================
