------------------------- MODULE MCServiceRequests -------------------------
(***************************************************************************)
(* Instances of ServiceRequests for TLC.                                   *)
(***************************************************************************)
EXTENDS ServiceRequests, TLC

SymAll == Permutations(Workers) \cup Permutations(Snaps) \cup Permutations(Inodes)
=============================================================================
