-------------------------- MODULE MCPlanQuestions --------------------------
(* PlanQuestions: a question offers two of four answers. *)
EXTENDS PlanQuestions, TLC

CONSTANTS a1, a2, a3, a4, p1

MCAnswers == {a1, a2, a3, a4}

Locked(options) == [options |-> options, allowFreetext |-> FALSE]

(* No answer fits both questions, so that one which meets the question that *)
(* replaced its own does not fit.                                           *)
MCLocked == {Locked({a1, a2}), Locked({a3, a4})}

MCQuestions ==
    {Locked({a1, a2}), [Locked({a1, a2}) EXCEPT !.allowFreetext = TRUE]}

(* The options of one question, and the two questions, change places.      *)
Symmetry ==
    Permutations(Handlers)
    \cup Permutations({a1, a2})
    \cup Permutations({a3, a4})
    \cup {a1 :> a3 @@ a2 :> a4 @@ a3 :> a1 @@ a4 :> a2}

MCPlans == {p1}

MCHashOf == [p \in MCPlans |-> p]
=============================================================================
