-------------------------- MODULE MCPlanArtifacts --------------------------
(* PlanArtifacts on two cycles, two submissions in flight and one click. *)
EXTENDS PlanArtifacts, TLC

CONSTANTS p1, f1, s1, s2, c1

MCPlans == {p1}

MCFeedback == {f1}

MCHashOf == [p \in MCPlans |-> p]

MCSubmitters == {s1, s2}

MCClickers == {c1}

Symmetry == Permutations(MCSubmitters)
=============================================================================
