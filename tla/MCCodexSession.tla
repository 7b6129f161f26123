--------------------------- MODULE MCCodexSession ---------------------------
(* Finite instances of CodexSession. *)
EXTENDS CodexSession, TLC
=============================================================================
