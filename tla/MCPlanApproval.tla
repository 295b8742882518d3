--------------------------- MODULE MCPlanApproval ---------------------------
(* PlanApproval on two plans with different payload hashes. *)
EXTENDS PlanApproval, TLC

CONSTANTS p1, p2

MCPlans == {p1, p2}

MCHashOf == [p \in MCPlans |-> p]

(* What the steps and the liveness properties depend on: neither reads the  *)
(* history, what a queued injection quotes, or which of the two plans is    *)
(* stored, as long as a submission can be of this or of the other one.      *)
Control ==
    << IF session = Absent THEN Absent ELSE [session EXCEPT !.plan = @ = NoPlan],
       Len(submissions),
       [h \in Handlers |->
           <<handler[h].pc, handler[h].op, handler[h].token, handler[h].id>>],
       [i \in DOMAIN queue |-> <<queue[i].id, queue[i].decision>>] >>

Symmetry == Permutations(Handlers) \cup Permutations(MCPlans)
=============================================================================
