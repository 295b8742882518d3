--------------------------- MODULE PlanModeStore ---------------------------
(***************************************************************************)
(* What PlanModeStore promises about one session, whoever calls it: every  *)
(* public mutator is one atomic action on the persisted payload.  The      *)
(* compositions of this project implement this specification.              *)
(*                                                                         *)
(* A call that skips, reuses, finds nothing to do or fails leaves the      *)
(* payload alone: it is a stuttering step here.                            *)
(***************************************************************************)
EXTENDS PlanModeState

CONSTANTS
    ApprovalIds,  \* ids newPlanApprovalId may mint
    QuestionIds,  \* ids ask_user_question may mint
    MaxRejections \* bound on rejectionCount, for TLC

ASSUME IdAssumption ==
    /\ ApprovalIds \subseteq Nat \ {NoId}
    /\ QuestionIds \subseteq Nat \ {NoQuestion}
    /\ MaxRejections \in Nat

VARIABLE session

Tokens == ApprovalIds \cup {NoId}

(* PlanModeStore.persistApprovalRequest *)
PersistApprovalRequest(id, p) ==
    /\ InPlanMode(session)
    /\ ~ReusesApproval(session, p)
    /\ session' = ApprovalRequested(session, id, p)

(* PlanModeStore.enterPlanMode *)
EnterPlanMode ==
    /\ ~InPlanMode(session)
    /\ session' = Entered(session)

(* PlanModeStore.exitPlanMode *)
ExitPlanMode(token) ==
    /\ MayExit(session, token)
    /\ session' = Exited(session)

(* recordApproval, recordRejection and recordTimeout, by applyApprovalAction *)
ApplyApprovalAction(action, fb, token) ==
    /\ Decidable(session, action, token)
    /\ session' = Resolved(session, action, fb)

(* PlanModeStore.setAutoApprove *)
SetAutoApprove(flag) ==
    /\ OrFresh(session).autoApprove # flag
    /\ session' = AutoApproveSet(session, flag)

(* PlanModeStore.persistPendingQuestion *)
PersistPendingQuestion(q) == session' = QuestionAsked(session, q)

(* PlanModeStore.clearPendingQuestion *)
ClearPendingQuestion(expected) ==
    /\ HasQuestion(session, expected)
    /\ session' = QuestionCleared(session)

----------------------------------------------------------------------------
Init == session = Absent

Step ==
    \/ \E id \in ApprovalIds, p \in Plans : PersistApprovalRequest(id, p)
    \/ EnterPlanMode
    \/ \E token \in Tokens : ExitPlanMode(token)
    \/ \E action \in ApprovalAction, token \in Tokens,
          fb \in Feedback \cup {NoFeedback} :
          ApplyApprovalAction(action, fb, token)
    \/ \E flag \in {"on", "off"} : SetAutoApprove(flag)
    \/ \E q \in QuestionIds : PersistPendingQuestion(q)
    \/ \E q \in QuestionIds \cup {NoQuestion} : ClearPendingQuestion(q)

(* The promise a composition implements.                                   *)
Promise == Init /\ [][Step]_session

(* The same, with rejectionCount bounded so that TLC can explore it.       *)
RejectionsBounded ==
    session # Absent => session.rejectionCount <= MaxRejections

Next == Step /\ RejectionsBounded'

Spec == Init /\ [][Next]_session

----------------------------------------------------------------------------
TypeOK == session \in SessionPayload

(* Each field of the payload agrees with the others, after any sequence of *)
(* calls: a verdict and the mutation gate (mode) never disagree, an open   *)
(* or expired approval has an id and a plan to show, the two appear and    *)
(* disappear together, and a rejection is counted exactly until the next   *)
(* acceptance or exit.                                                     *)
Coherent ==
    session # Absent =>
        /\ session.mode = "normal" =>
               /\ session.approval \in {"none", "approved", "edited"}
               /\ session.rejectionCount = 0
        /\ session.mode = "plan" =>
               session.approval \notin {"approved", "edited"}
        /\ session.approval # "none" => session.approvalId # NoId
        /\ session.approvalId = NoId <=> session.plan = NoPlan
        /\ session.approval = "rejected" => session.rejectionCount > 0
        /\ session.feedback # NoFeedback => session.rejectionCount > 0

(* approval.ts, terminal-state guard: approved, edited and timed_out       *)
(* require a fresh exit_plan_mode call before any new action can apply.    *)
(* So whatever arrives late, a settled cycle is only ever abandoned (to    *)
(* none) or replaced by a new pending one, never given another verdict.    *)
Settled(s) == s # Absent /\ s.approval \in {"approved", "edited", "timed_out"}

SettledStaysSettled ==
    [][ Settled(session) =>
          \/ session'.approval \in {session.approval, "none"}
          \/ session'.approval = "pending" /\ session'.mode = "plan" ]_session
=============================================================================
