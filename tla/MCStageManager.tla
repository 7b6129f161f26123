--------------------------- MODULE MCStageManager ---------------------------
(* Finite instances of StageManager. *)
EXTENDS StageManager

\* a flat list of stages
Flat == [i \in 0 .. N-1 |-> {}]

\* the last stage has the one before it as a substage
Nested == [i \in 0 .. N-1 |-> IF i = N-1 THEN {N-2} ELSE {}]
=============================================================================
