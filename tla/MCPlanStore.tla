----------------------------- MODULE MCPlanStore -----------------------------
(***************************************************************************)
(* Instances of PlanStore for TLC.  Digests are interchangeable: Init and  *)
(* Next treat them alike.  (Processes are not, where only some verify.)    *)
(***************************************************************************)
EXTENDS PlanStore, TLC

SymDigests == Permutations(Digests)
=============================================================================
