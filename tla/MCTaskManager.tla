--------------------------- MODULE MCTaskManager ---------------------------
(***************************************************************************)
(* Small instances of TaskManager.                                         *)
(***************************************************************************)
EXTENDS TaskManager, TLC

Symmetric == Permutations(Caller)
=============================================================================
