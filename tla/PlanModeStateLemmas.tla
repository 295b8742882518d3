------------------------ MODULE PlanModeStateLemmas ------------------------
(***************************************************************************)
(* What the payload operators of PlanModeState return: a well-typed        *)
(* payload, and which fields they touch.  The proofs about the store and   *)
(* its compositions cite these instead of expanding the operators.         *)
(***************************************************************************)
EXTENDS PlanModeState, TLAPS

USE PlanAssumption, FeedbackAssumption, AbsentAssumption

(* A fresh payload (types.ts, the schema's default) is well typed.         *)
LEMMA FreshType == FreshSession \in SessionState
BY DEF FreshSession, SessionState, PlanMode, PlanApprovalState,
       AutoApproveFlag, NoId, NoQuestion

(* Lazy initialisation yields a well-typed payload.                        *)
LEMMA OrFreshType ==
    ASSUME NEW s \in SessionPayload
    PROVE  OrFresh(s) \in SessionState
BY FreshType DEF OrFresh, SessionPayload

(* A payload that is present is a record.                                  *)
LEMMA PresentType ==
    ASSUME NEW s \in SessionPayload, s # Absent
    PROVE  s \in SessionState
BY DEF SessionPayload

(* enterPlanMode resets the approval and touches nothing else but mode.    *)
LEMMA EnteredFields ==
    ASSUME NEW s \in SessionPayload
    PROVE  /\ Entered(s) \in SessionState
           /\ Entered(s) # Absent
           /\ Entered(s).mode = "plan"
           /\ Entered(s).approval = "none"
           /\ Entered(s).rejectionCount = OrFresh(s).rejectionCount
           /\ Entered(s).approvalId = OrFresh(s).approvalId
           /\ Entered(s).plan = OrFresh(s).plan
           /\ Entered(s).feedback = OrFresh(s).feedback
           /\ Entered(s).autoApprove = OrFresh(s).autoApprove
           /\ Entered(s).pendingQuestion = OrFresh(s).pendingQuestion
<1>1. OrFresh(s) \in SessionState
    BY OrFreshType
<1>2. Entered(s) \in SessionState
    BY <1>1 DEF Entered, SessionState, PlanMode, PlanApprovalState
<1>3. Entered(s) # Absent
    BY <1>2
<1> QED
    BY <1>1, <1>2, <1>3 DEF Entered, SessionState

(* persistApprovalRequest writes the approval, its id and its plan.        *)
LEMMA ApprovalRequestedFields ==
    ASSUME NEW s \in SessionState, NEW id \in Nat, NEW p \in Plans
    PROVE  /\ ApprovalRequested(s, id, p) \in SessionState
           /\ ApprovalRequested(s, id, p) # Absent
           /\ ApprovalRequested(s, id, p).mode = s.mode
           /\ ApprovalRequested(s, id, p).approval = "pending"
           /\ ApprovalRequested(s, id, p).rejectionCount = s.rejectionCount
           /\ ApprovalRequested(s, id, p).approvalId = id
           /\ ApprovalRequested(s, id, p).plan = p
           /\ ApprovalRequested(s, id, p).feedback = s.feedback
           /\ ApprovalRequested(s, id, p).autoApprove = s.autoApprove
<1>1. ApprovalRequested(s, id, p) \in SessionState
    BY DEF ApprovalRequested, SessionState, PlanApprovalState
<1>2. ApprovalRequested(s, id, p) # Absent
    BY <1>1
<1> QED
    BY <1>1, <1>2 DEF ApprovalRequested, SessionState

(* resolvePlanApproval moves the approval to its verdict and keeps the id,  *)
(* the plan and the flag.                                                   *)
LEMMA ResolvedFields ==
    ASSUME NEW s \in SessionState, NEW action \in ApprovalAction,
           NEW fb \in Feedback \cup {NoFeedback}
    PROVE  /\ Resolved(s, action, fb) \in SessionState
           /\ Resolved(s, action, fb) # Absent
           /\ Resolved(s, action, fb).approvalId = s.approvalId
           /\ Resolved(s, action, fb).plan = s.plan
           /\ Resolved(s, action, fb).autoApprove = s.autoApprove
           /\ action = "approve" => Resolved(s, action, fb).approval = "approved"
           /\ action = "edit"    => Resolved(s, action, fb).approval = "edited"
           /\ action = "reject"  => Resolved(s, action, fb).approval = "rejected"
           /\ action = "timeout" => Resolved(s, action, fb).approval = "timed_out"
<1> DEFINE r == Resolved(s, action, fb)
           Keeps(verdict) == /\ r \in SessionState
                             /\ r.approvalId = s.approvalId
                             /\ r.plan = s.plan
                             /\ r.autoApprove = s.autoApprove
                             /\ r.approval = verdict
<1>1. ASSUME NEW verdict \in {"approved", "edited"}, r = Accepted(s, verdict)
      PROVE  Keeps(verdict)
    <2>1. Accepted(s, verdict) \in SessionState
        BY DEF Accepted, SessionState, PlanMode, PlanApprovalState
    <2>2. /\ Accepted(s, verdict).approvalId = s.approvalId
          /\ Accepted(s, verdict).plan = s.plan
          /\ Accepted(s, verdict).autoApprove = s.autoApprove
          /\ Accepted(s, verdict).approval = verdict
        BY DEF Accepted, SessionState
    <2> HIDE DEF r
    <2> QED
        BY <1>1, <2>1, <2>2
<1>2. Keeps("rejected") \/ action # "reject"
    <2> SUFFICES ASSUME action = "reject" PROVE Keeps("rejected")
        OBVIOUS
    <2>1. r = Rejected(s, fb)
        BY DEF Resolved
    <2>2. s.rejectionCount + 1 \in Nat /\ s.feedback \in Feedback \cup {NoFeedback}
        BY DEF SessionState
    <2>3. Rejected(s, fb) \in SessionState
        BY <2>2 DEF Rejected, SessionState, PlanApprovalState
    <2>4. /\ Rejected(s, fb).approvalId = s.approvalId
          /\ Rejected(s, fb).plan = s.plan
          /\ Rejected(s, fb).autoApprove = s.autoApprove
          /\ Rejected(s, fb).approval = "rejected"
        BY DEF Rejected, SessionState
    <2> HIDE DEF r
    <2> QED
        BY <2>1, <2>3, <2>4
<1>3. Keeps("timed_out") \/ action # "timeout"
    <2> SUFFICES ASSUME action = "timeout" PROVE Keeps("timed_out")
        OBVIOUS
    <2>1. r = TimedOut(s)
        BY DEF Resolved
    <2>2. TimedOut(s) \in SessionState
        BY DEF TimedOut, SessionState, PlanApprovalState
    <2>3. /\ TimedOut(s).approvalId = s.approvalId
          /\ TimedOut(s).plan = s.plan
          /\ TimedOut(s).autoApprove = s.autoApprove
          /\ TimedOut(s).approval = "timed_out"
        BY DEF TimedOut, SessionState
    <2> HIDE DEF r
    <2> QED
        BY <2>1, <2>2, <2>3
<1>4. Keeps("approved") \/ action # "approve"
    <2> SUFFICES ASSUME action = "approve" PROVE Keeps("approved")
        OBVIOUS
    <2>1. r = Accepted(s, "approved")
        BY DEF Resolved
    <2> QED
        BY <1>1, <2>1
<1>5. Keeps("edited") \/ action # "edit"
    <2> SUFFICES ASSUME action = "edit" PROVE Keeps("edited")
        OBVIOUS
    <2>1. r = Accepted(s, "edited")
        BY DEF Resolved
    <2> QED
        BY <1>1, <2>1
<1> HIDE DEF r
<1>6. r \in SessionState => r # Absent
    OBVIOUS
<1>7. \/ action = "approve" \/ action = "edit"
      \/ action = "reject"  \/ action = "timeout"
    BY DEF ApprovalAction
<1>8. r \in SessionState
    BY <1>2, <1>3, <1>4, <1>5, <1>7
<1> QED
    BY <1>2, <1>3, <1>4, <1>5, <1>6, <1>7, <1>8 DEF r

(* setAutoApprove writes the flag alone.                                   *)
LEMMA AutoApproveSetFields ==
    ASSUME NEW s \in SessionPayload, NEW flag \in {"on", "off"}
    PROVE  /\ AutoApproveSet(s, flag) \in SessionState
           /\ AutoApproveSet(s, flag) # Absent
           /\ AutoApproveSet(s, flag).mode = OrFresh(s).mode
           /\ AutoApproveSet(s, flag).approval = OrFresh(s).approval
           /\ AutoApproveSet(s, flag).rejectionCount = OrFresh(s).rejectionCount
           /\ AutoApproveSet(s, flag).approvalId = OrFresh(s).approvalId
           /\ AutoApproveSet(s, flag).plan = OrFresh(s).plan
           /\ AutoApproveSet(s, flag).feedback = OrFresh(s).feedback
           /\ AutoApproveSet(s, flag).autoApprove = flag
<1>1. OrFresh(s) \in SessionState
    BY OrFreshType
<1>2. AutoApproveSet(s, flag) \in SessionState
    BY <1>1 DEF AutoApproveSet, SessionState, AutoApproveFlag
<1>3. AutoApproveSet(s, flag) # Absent
    BY <1>2
<1> QED
    BY <1>1, <1>2, <1>3 DEF AutoApproveSet, SessionState

(* persistPendingQuestion writes the slot alone.                           *)
LEMMA QuestionAskedFields ==
    ASSUME NEW s \in SessionPayload, NEW q \in Nat
    PROVE  /\ QuestionAsked(s, q) \in SessionState
           /\ QuestionAsked(s, q) # Absent
           /\ QuestionAsked(s, q).pendingQuestion = q
<1>1. OrFresh(s) \in SessionState
    BY OrFreshType
<1>2. QuestionAsked(s, q) \in SessionState
    BY <1>1 DEF QuestionAsked, SessionState
<1>3. QuestionAsked(s, q) # Absent
    BY <1>2
<1> QED
    BY <1>1, <1>2, <1>3 DEF QuestionAsked, SessionState

(* clearPendingQuestion empties the slot.                                  *)
LEMMA QuestionClearedFields ==
    ASSUME NEW s \in SessionState
    PROVE  /\ QuestionCleared(s) \in SessionState
           /\ QuestionCleared(s) # Absent
           /\ QuestionCleared(s).pendingQuestion = NoQuestion
<1>1. QuestionCleared(s) \in SessionState
    BY DEF QuestionCleared, SessionState, NoQuestion
<1>2. QuestionCleared(s) # Absent
    BY <1>1
<1> QED
    BY <1>1, <1>2 DEF QuestionCleared, SessionState
=============================================================================
