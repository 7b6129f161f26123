-------------------------- MODULE MCSupervisorLoop --------------------------
(* Finite instances of SupervisorLoop: the bounds are in the cfg files. *)
EXTENDS SupervisorLoop
=============================================================================
