--------------------------- MODULE MCLogicAnalyser ---------------------------
(* Small memories; nothing to define but the constants of the .cfg file. *)
EXTENDS LogicAnalyser
=============================================================================
