---------------------------- MODULE MCMasterTask ----------------------------
(* MasterTask is finite as it stands. *)
EXTENDS MasterTask
=============================================================================
