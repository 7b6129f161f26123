------------------------------- MODULE Turns -------------------------------
(***************************************************************************)
(* What a tool promises to those that call it, without flags, threads that *)
(* keep a client alive, or an event loop: it serves them one by one.       *)
(*                                                                         *)
(* A client that wants something asks, waits, and is given its turn only   *)
(* when nobody has it and the work done for all before is over.  It hears  *)
(* the answer when its own work is done, and only then is the turn free.   *)
(* A client may be turned away or leave before its turn has come.  One     *)
(* that gets lost in its turn takes the turn along: the promise does not   *)
(* include that the tool recovers from that.                               *)
(***************************************************************************)
CONSTANTS Clients, Nobody

VARIABLES
  place,   \* where each client is
  turn,    \* whose turn it is
  served   \* those some work is being done for

vars == <<place, turn, served>>

Moves(c, from, to) == place[c] = from /\ place' = [place EXCEPT ![c] = to]

Init ==
  /\ place = [c \in Clients |-> "outside"]
  /\ turn = Nobody
  /\ served = {}

Asks(c) == Moves(c, "outside", "queue") /\ UNCHANGED <<turn, served>>

TurnedAway(c) ==
  /\ Moves(c, "outside", "gone") \/ Moves(c, "queue", "gone")
  /\ UNCHANGED <<turn, served>>

GetsTurn(c) ==
  /\ Moves(c, "queue", "inside")
  /\ turn = Nobody /\ turn' = c
  /\ served = {} /\ served' = {c}

WorkEnds(c) ==
  /\ c \in served /\ served' = served \ {c}
  /\ UNCHANGED <<place, turn>>

Answered(c) ==
  /\ Moves(c, "inside", "answered")
  /\ c \notin served
  /\ turn = c /\ turn' = Nobody
  /\ UNCHANGED served

GetsLost(c) ==
  /\ Moves(c, "inside", "lost")
  /\ turn = c
  /\ UNCHANGED <<turn, served>>

Next ==
  \E c \in Clients :
    Asks(c) \/ TurnedAway(c) \/ GetsTurn(c) \/ WorkEnds(c) \/ Answered(c) \/ GetsLost(c)

Spec == Init /\ [][Next]_vars
=============================================================================
