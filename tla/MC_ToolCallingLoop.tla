------------------------- MODULE MC_ToolCallingLoop -------------------------
(* The limits are numbers, so the configuration gives them directly; turns  *)
(* are ordered, so there is no symmetry to use.                            *)
EXTENDS ToolCallingLoop
=============================================================================
