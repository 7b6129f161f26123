---------------------------- MODULE MCBatchTask ----------------------------
(* Instances of BatchTask for TLC. *)
EXTENDS BatchTask

Two   == 1 .. 2
Three == 1 .. 3
=============================================================================
