---------------------------- MODULE MCPlanChange ----------------------------
(* Small instances of PlanChange for TLC. *)
EXTENDS PlanChange, TLC

Symmetry == Permutations(Workers) \union Permutations(Plans) \union Permutations(Terms)
=============================================================================
