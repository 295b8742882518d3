--------------------------- MODULE PlanModeState ---------------------------
(***************************************************************************)
(* The persisted plan-mode payload of one session (types.ts,               *)
(* PlanModeSessionState) and the pure functions PlanModeStore and          *)
(* resolvePlanApproval apply to it.  Every mutator of the store is one     *)
(* locked read-modify-write of this record, so a mutator is a guard and a  *)
(* function from record to record.                                         *)
(*                                                                         *)
(* Abstractions.  A submitted plan is one value for the title, the steps   *)
(* and the payload hash, which persistApprovalRequest always writes        *)
(* together; HashOf says which plans hash alike (the hash skips the        *)
(* activeForm of a step).  An approval id or question id is a natural      *)
(* number, 0 for an absent field.  Timestamps, the schema version and      *)
(* approvalRunId, which nothing writes, are left out.                      *)
(***************************************************************************)
EXTENDS Naturals

CONSTANTS
    Plans,      \* submitted plans: title, steps and archetype of one call
    NoPlan,     \* no lastPlanSteps / lastPlanPayloadHash in the payload
    HashOf,     \* HashOf[p]: computePlanPayloadHash of plan p
    Feedback,   \* texts a user may attach to a rejection
    NoFeedback, \* no feedback in the payload
    Absent      \* the session has no plan-mode payload yet

NoId == 0

NoQuestion == 0

PlanMode == {"plan", "normal"}

PlanApprovalState ==
    {"none", "pending", "approved", "edited", "rejected", "timed_out"}

AutoApproveFlag == {"unset", "on", "off"}

SessionState ==
    [ mode            : PlanMode,
      approval        : PlanApprovalState,
      rejectionCount  : Nat,
      approvalId      : Nat,
      plan            : Plans \cup {NoPlan},
      feedback        : Feedback \cup {NoFeedback},
      autoApprove     : AutoApproveFlag,
      pendingQuestion : Nat ]

SessionPayload == SessionState \cup {Absent}

ASSUME PlanAssumption     == NoPlan \notin Plans
ASSUME FeedbackAssumption == NoFeedback \notin Feedback
ASSUME AbsentAssumption   == Absent \notin SessionState

----------------------------------------------------------------------------
(* The payload a lazily initialised or an exited session has.              *)
FreshSession ==
    [ mode            |-> "normal",
      approval        |-> "none",
      rejectionCount  |-> 0,
      approvalId      |-> NoId,
      plan            |-> NoPlan,
      feedback        |-> NoFeedback,
      autoApprove     |-> "unset",
      pendingQuestion |-> NoQuestion ]

OrFresh(s) == IF s = Absent THEN FreshSession ELSE s

InPlanMode(s) == s # Absent /\ s.mode = "plan"

OpenForDecision(s) == s.approval \in {"pending", "rejected"}

(* The version token of an approval event.  NoId: the caller sent none.    *)
TokenFits(s, token) == token \in {NoId, s.approvalId}

----------------------------------------------------------------------------
(* persistApprovalRequest *)

ReusesApproval(s, p) ==
    /\ s.plan # NoPlan
    /\ HashOf[s.plan] = HashOf[p]
    /\ s.approval = "pending"
    /\ s.approvalId # NoId

ApprovalRequested(s, id, p) ==
    [s EXCEPT !.approval = "pending", !.approvalId = id, !.plan = p]

----------------------------------------------------------------------------
(* enterPlanMode and exitPlanMode *)

(* mutant: the approval of the previous cycle survives re-entry *)
EnteredKeepingApproval(s) == [OrFresh(s) EXCEPT !.mode = "plan"]

Entered(s) == [OrFresh(s) EXCEPT !.mode = "plan", !.approval = "none"]

MayExit(s, token) ==
    /\ InPlanMode(s)
    /\ token # NoId => OpenForDecision(s)
    /\ TokenFits(s, token)

Exited(s) == FreshSession

----------------------------------------------------------------------------
(* resolvePlanApproval, behind applyApprovalAction's plan-mode guard.      *)

ApprovalAction == {"approve", "edit", "reject", "timeout"}

(* mutant: no terminal-state guard *)
DecidableAnyState(s, action, token) == InPlanMode(s) /\ TokenFits(s, token)

Decidable(s, action, token) ==
    /\ InPlanMode(s)
    /\ TokenFits(s, token)
    /\ OpenForDecision(s)
    /\ action = "timeout" => s.approval = "pending"

(* mutant: mode and approval swapped *)
AcceptedSwapped(s, verdict) ==
    [s EXCEPT !.mode = verdict, !.approval = "none",
              !.feedback = NoFeedback, !.rejectionCount = 0]

Accepted(s, verdict) ==
    [s EXCEPT !.mode = "normal", !.approval = verdict,
              !.feedback = NoFeedback, !.rejectionCount = 0]

Rejected(s, fb) ==
    [s EXCEPT !.approval = "rejected", !.rejectionCount = @ + 1,
              !.feedback = IF fb = NoFeedback THEN @ ELSE fb]

TimedOut(s) == [s EXCEPT !.approval = "timed_out", !.feedback = NoFeedback]

Resolved(s, action, fb) ==
    CASE action = "approve" -> Accepted(s, "approved")
      [] action = "edit"    -> Accepted(s, "edited")
      [] action = "reject"  -> Rejected(s, fb)
      [] action = "timeout" -> TimedOut(s)

----------------------------------------------------------------------------
(* setAutoApprove, persistPendingQuestion and clearPendingQuestion *)

AutoApproveSet(s, flag) == [OrFresh(s) EXCEPT !.autoApprove = flag]

QuestionAsked(s, q) == [OrFresh(s) EXCEPT !.pendingQuestion = q]

HasQuestion(s, expected) ==
    /\ s # Absent
    /\ s.pendingQuestion # NoQuestion
    /\ expected \in {NoQuestion, s.pendingQuestion}

QuestionCleared(s) == [s EXCEPT !.pendingQuestion = NoQuestion]
=============================================================================
