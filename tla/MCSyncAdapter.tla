--------------------------- MODULE MCSyncAdapter ---------------------------
(***************************************************************************)
(* Small instances of SyncAdapter.                                         *)
(***************************************************************************)
EXTENDS SyncAdapter, TLC

\* Addresses and clients are interchangeable in every property without ~>.
Symmetric == Permutations(Sem) \cup Permutations(Client)
=============================================================================
