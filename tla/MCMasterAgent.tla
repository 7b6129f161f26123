---------------------------- MODULE MCMasterAgent ----------------------------
(* Finite instances of MasterAgent: the threads are in the cfg file. *)
EXTENDS MasterAgent
=============================================================================
