--------------------------- MODULE MCTimerManager ---------------------------
(***************************************************************************)
(* Small instances of TimerManager.                                        *)
(***************************************************************************)
EXTENDS TimerManager

Symmetric == Permutations(Timer)
=============================================================================
