----------------------------- MODULE MCToolCall -----------------------------
(* Finite instances of ToolCall. *)
EXTENDS ToolCall
=============================================================================
