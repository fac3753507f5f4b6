------------------------ MODULE MCServiceConnections ------------------------
(***************************************************************************)
(* Instances of ServiceConnections for TLC.                                *)
(***************************************************************************)
EXTENDS ServiceConnections, TLC

SymClients == Permutations(Clients)
=============================================================================
