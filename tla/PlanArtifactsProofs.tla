------------------------- MODULE PlanArtifactsProofs -------------------------
(***************************************************************************)
(* First the store: its payload is well typed and coherent after any       *)
(* sequence of calls, for any plans, ids, feedback and bound, and a settled *)
(* cycle stays settled.  Everything is proved of Step, so it holds of      *)
(* Promise, which bounds nothing, of Spec, which TLC explores, and of what *)
(* is built on the store.                                                  *)
(*                                                                         *)
(* Then what a cycle leaves outside of the payload: the host's task flows, *)
(* the ledger, the plan files, the cards and their tokens follow the       *)
(* payload, for any number of submissions, clicks, files and flows, and    *)
(* wherever the process stops.                                             *)
(***************************************************************************)
EXTENDS PlanArtifacts, PlanModeStateLemmas, WellFoundedInduction

USE PlanAssumption, FeedbackAssumption, AbsentAssumption, IdAssumption

(* Every mutator of the store keeps the payload's type: types.ts.          *)
LEMMA StepType == TypeOK /\ [Step]_session => TypeOK'
<1> SUFFICES ASSUME TypeOK, [Step]_session PROVE TypeOK'
    OBVIOUS
<1> USE DEF TypeOK, SessionPayload
<1>0. session = Absent \/ session \in SessionState
    OBVIOUS
<1>o. OrFresh(session) \in SessionState
    BY OrFreshType
<1>1. ASSUME NEW id \in ApprovalIds, NEW p \in Plans,
             PersistApprovalRequest(id, p)
      PROVE  TypeOK'
    BY <1>0, <1>1 DEF PersistApprovalRequest, InPlanMode, ApprovalRequested,
                SessionState, PlanApprovalState
<1>2. CASE EnterPlanMode
    BY <1>2, <1>o DEF EnterPlanMode, Entered, SessionState, PlanMode,
                PlanApprovalState
<1>3. ASSUME NEW token \in Tokens, ExitPlanMode(token)
      PROVE  TypeOK'
    BY <1>3, FreshType DEF ExitPlanMode, Exited
<1>4. ASSUME NEW action \in ApprovalAction, NEW token \in Tokens,
             NEW fb \in Feedback \cup {NoFeedback},
             ApplyApprovalAction(action, fb, token)
      PROVE  TypeOK'
    <2>1. session \in SessionState /\ session' = Resolved(session, action, fb)
        BY <1>0, <1>4 DEF ApplyApprovalAction, Decidable, InPlanMode
    <2> QED
        BY <2>1, ResolvedFields
<1>5. ASSUME NEW flag \in {"on", "off"}, SetAutoApprove(flag)
      PROVE  TypeOK'
    BY <1>5, <1>o DEF SetAutoApprove, AutoApproveSet, SessionState,
                AutoApproveFlag
<1>6. ASSUME NEW q \in QuestionIds, PersistPendingQuestion(q)
      PROVE  TypeOK'
    BY <1>6, <1>o DEF PersistPendingQuestion, QuestionAsked, SessionState
<1>7. ASSUME NEW q \in QuestionIds \cup {NoQuestion}, ClearPendingQuestion(q)
      PROVE  TypeOK'
    BY <1>0, <1>7 DEF ClearPendingQuestion, HasQuestion, QuestionCleared,
                SessionState, NoQuestion
<1>8. CASE UNCHANGED session
    BY <1>8
<1> QED
    BY <1>1, <1>2, <1>3, <1>4, <1>5, <1>6, <1>7, <1>8 DEF Step

(* The payload always has the type of types.ts' PlanModeSessionState, or    *)
(* is absent.                                                               *)
THEOREM StoreTypeCorrect == Spec => []TypeOK
<1>1. Init => TypeOK
    BY DEF Init, TypeOK, SessionPayload
<1>2. [Next]_session => [Step]_session
    BY DEF Next
<1> QED
    BY <1>1, <1>2, StepType, PTL DEF Spec

----------------------------------------------------------------------------
(* A present payload is a record; Fresh and OrFresh payloads are coherent.  *)
LEMMA OrFreshCoherent ==
    ASSUME TypeOK, Coherent
    PROVE  /\ OrFresh(session) \in SessionState
           /\ OrFresh(session).mode = "normal" =>
                  OrFresh(session).approval \in {"none", "approved", "edited"}
                  /\ OrFresh(session).rejectionCount = 0
           /\ OrFresh(session).mode = "plan" =>
                  OrFresh(session).approval \notin {"approved", "edited"}
           /\ OrFresh(session).approval # "none" =>
                  OrFresh(session).approvalId # NoId
           /\ OrFresh(session).approvalId = NoId <=>
                  OrFresh(session).plan = NoPlan
           /\ OrFresh(session).approval = "rejected" =>
                  OrFresh(session).rejectionCount > 0
           /\ OrFresh(session).feedback # NoFeedback =>
                  OrFresh(session).rejectionCount > 0
<1>1. OrFresh(session) \in SessionState
    BY OrFreshType DEF TypeOK
<1>2. CASE session = Absent
    BY <1>1, <1>2 DEF OrFresh, FreshSession, NoId
<1>3. CASE session # Absent
    BY <1>1, <1>3 DEF OrFresh, Coherent
<1> QED
    BY <1>2, <1>3

(* No call of any mutator makes two fields of the payload disagree.        *)
LEMMA StepCoherent == TypeOK /\ Coherent /\ [Step]_session => Coherent'
<1> SUFFICES ASSUME TypeOK, Coherent, [Step]_session PROVE Coherent'
    OBVIOUS
<1>0. session = Absent \/ session \in SessionState
    BY DEF TypeOK, SessionPayload
<1>1. ASSUME NEW id \in ApprovalIds, NEW p \in Plans,
             PersistApprovalRequest(id, p)
      PROVE  Coherent'
    <2>1. session \in SessionState /\ session.mode = "plan"
        BY <1>0, <1>1 DEF PersistApprovalRequest, InPlanMode
    <2>2. session' = ApprovalRequested(session, id, p)
        BY <1>1 DEF PersistApprovalRequest
    <2>3. id # NoId /\ p # NoPlan
        OBVIOUS
    <2> QED
        BY <1>0, <2>1, <2>2, <2>3
        DEF ApprovalRequested, Coherent, SessionState
<1>2. CASE EnterPlanMode
    <2>1. session' = Entered(session)
        BY <1>2 DEF EnterPlanMode
    <2>2. /\ session'.mode = "plan"
          /\ session'.approval = "none"
          /\ session'.rejectionCount = OrFresh(session).rejectionCount
          /\ session'.approvalId = OrFresh(session).approvalId
          /\ session'.plan = OrFresh(session).plan
          /\ session'.feedback = OrFresh(session).feedback
        BY <2>1, OrFreshCoherent DEF Entered, SessionState
    <2> QED
        BY <2>2, OrFreshCoherent DEF Coherent
<1>3. ASSUME NEW token \in Tokens, ExitPlanMode(token)
      PROVE  Coherent'
    BY <1>3 DEF ExitPlanMode, Exited, FreshSession, Coherent, NoId
<1>4. ASSUME NEW action \in ApprovalAction, NEW token \in Tokens,
             NEW fb \in Feedback \cup {NoFeedback},
             ApplyApprovalAction(action, fb, token)
      PROVE  Coherent'
    <2>1. /\ session \in SessionState
          /\ session # Absent
          /\ session.mode = "plan"
          /\ session.approval \in {"pending", "rejected"}
          /\ session' = Resolved(session, action, fb)
        BY <1>0, <1>4
        DEF ApplyApprovalAction, Decidable, InPlanMode, OpenForDecision
    <2>2. session.rejectionCount \in Nat
        BY <2>1 DEF SessionState
    <2>3. ASSUME NEW verdict \in {"approved", "edited"},
                 session' = Accepted(session, verdict)
          PROVE  Coherent'
        BY <2>1, <2>3 DEF Accepted, Coherent, SessionState
    <2>4. CASE action = "reject"
        <3>1. session' = Rejected(session, fb)
            BY <2>1, <2>4 DEF Resolved
        <3>2. /\ session'.mode = "plan"
              /\ session'.approval = "rejected"
              /\ session'.rejectionCount = session.rejectionCount + 1
              /\ session'.approvalId = session.approvalId
              /\ session'.plan = session.plan
            BY <2>1, <3>1 DEF Rejected, SessionState
        <3> QED
            BY <2>1, <2>2, <3>2 DEF Coherent
    <2>5. CASE action = "timeout"
        <3>1. session' = TimedOut(session)
            BY <2>1, <2>5 DEF Resolved
        <3> QED
            BY <2>1, <3>1 DEF TimedOut, Coherent, SessionState
    <2>6. CASE action = "approve"
        BY <2>1, <2>3, <2>6 DEF Resolved
    <2>7. CASE action = "edit"
        BY <2>1, <2>3, <2>7 DEF Resolved
    <2> QED
        BY <2>4, <2>5, <2>6, <2>7 DEF ApprovalAction
<1>5. ASSUME NEW flag \in {"on", "off"}, SetAutoApprove(flag)
      PROVE  Coherent'
    <2>1. session' = [OrFresh(session) EXCEPT !.autoApprove = flag]
        BY <1>5 DEF SetAutoApprove, AutoApproveSet
    <2>2. /\ session'.mode = OrFresh(session).mode
          /\ session'.approval = OrFresh(session).approval
          /\ session'.rejectionCount = OrFresh(session).rejectionCount
          /\ session'.approvalId = OrFresh(session).approvalId
          /\ session'.plan = OrFresh(session).plan
          /\ session'.feedback = OrFresh(session).feedback
        BY <2>1, OrFreshCoherent DEF SessionState
    <2> QED
        BY <2>2, OrFreshCoherent DEF Coherent
<1>6. ASSUME NEW q \in QuestionIds, PersistPendingQuestion(q)
      PROVE  Coherent'
    <2>1. session' = [OrFresh(session) EXCEPT !.pendingQuestion = q]
        BY <1>6 DEF PersistPendingQuestion, QuestionAsked
    <2>2. /\ session'.mode = OrFresh(session).mode
          /\ session'.approval = OrFresh(session).approval
          /\ session'.rejectionCount = OrFresh(session).rejectionCount
          /\ session'.approvalId = OrFresh(session).approvalId
          /\ session'.plan = OrFresh(session).plan
          /\ session'.feedback = OrFresh(session).feedback
        BY <2>1, OrFreshCoherent DEF SessionState
    <2> QED
        BY <2>2, OrFreshCoherent DEF Coherent
<1>7. ASSUME NEW q \in QuestionIds \cup {NoQuestion}, ClearPendingQuestion(q)
      PROVE  Coherent'
    BY <1>0, <1>7 DEF ClearPendingQuestion, HasQuestion, QuestionCleared,
                Coherent, SessionState
<1>8. CASE UNCHANGED session
    BY <1>8 DEF Coherent
<1> QED
    BY <1>1, <1>2, <1>3, <1>4, <1>5, <1>6, <1>7, <1>8 DEF Step

(* Whatever is called in whatever order, mode, approval, id, plan, count    *)
(* and feedback agree.  Coherent is inductive once typing is known.         *)
THEOREM StoreCoherent == Spec => []Coherent
<1>1. Init => Coherent
    BY DEF Init, Coherent
<1>2. [Next]_session => [Step]_session
    BY DEF Next
<1> QED
    BY <1>1, <1>2, StepCoherent, StoreTypeCorrect, PTL DEF Spec

----------------------------------------------------------------------------
(* A settled cycle is given no other verdict by any call of any mutator.   *)
LEMMA StepSettled ==
    TypeOK /\ [Step]_session =>
        [ Settled(session) =>
            \/ session'.approval \in {session.approval, "none"}
            \/ session'.approval = "pending" /\ session'.mode = "plan" ]_session
<1> DEFINE Stays ==
        \/ session'.approval \in {session.approval, "none"}
        \/ session'.approval = "pending" /\ session'.mode = "plan"
<1> SUFFICES ASSUME TypeOK, Step, Settled(session) PROVE Stays
    OBVIOUS
<1>0. session \in SessionState /\ session # Absent
    BY DEF TypeOK, SessionPayload, Settled
<1>o. OrFresh(session) = session
    BY <1>0 DEF OrFresh
<1>1. ASSUME NEW id \in ApprovalIds, NEW p \in Plans,
             PersistApprovalRequest(id, p)
      PROVE  Stays
    BY <1>0, <1>1 DEF PersistApprovalRequest, InPlanMode, ApprovalRequested,
                SessionState
<1>2. CASE EnterPlanMode
    BY <1>0, <1>2, <1>o DEF EnterPlanMode, Entered, SessionState
<1>3. ASSUME NEW token \in Tokens, ExitPlanMode(token)
      PROVE  Stays
    BY <1>3 DEF ExitPlanMode, Exited, FreshSession
<1>4. ASSUME NEW action \in ApprovalAction, NEW token \in Tokens,
             NEW fb \in Feedback \cup {NoFeedback},
             ApplyApprovalAction(action, fb, token)
      PROVE  Stays
    BY <1>4 DEF ApplyApprovalAction, Decidable, OpenForDecision, Settled
<1>5. ASSUME NEW flag \in {"on", "off"}, SetAutoApprove(flag)
      PROVE  Stays
    BY <1>0, <1>5, <1>o DEF SetAutoApprove, AutoApproveSet, SessionState
<1>6. ASSUME NEW q \in QuestionIds, PersistPendingQuestion(q)
      PROVE  Stays
    BY <1>0, <1>6, <1>o DEF PersistPendingQuestion, QuestionAsked, SessionState
<1>7. ASSUME NEW q \in QuestionIds \cup {NoQuestion}, ClearPendingQuestion(q)
      PROVE  Stays
    BY <1>0, <1>7 DEF ClearPendingQuestion, QuestionCleared, SessionState
<1> QED
    BY <1>1, <1>2, <1>3, <1>4, <1>5, <1>6, <1>7 DEF Step

(* approval.ts' terminal-state guard, for every caller and any ids: a late  *)
(* event never gives a settled cycle a second verdict.                      *)
THEOREM StoreSettles == Spec => SettledStaysSettled
<1>1. [Next]_session => [Step]_session
    BY DEF Next
<1> QED
    BY <1>1, StepSettled, StoreTypeCorrect, PTL DEF Spec, SettledStaysSettled

----------------------------------------------------------------------------
(* What a cycle leaves behind.  The invariant, one part per place. *)

(* The payload names only ids that were minted.                            *)
PayloadInv ==
    /\ TypeOK
    /\ Coherent
    /\ minted \in Nat
    /\ session # Absent => session.approvalId \in Tokens /\ session.approvalId <= minted

(* The flows: a cycle has at most one, named with a minted id; the flow of *)
(* the cycle in the payload is finished only if that cycle is over, so no  *)
(* late event brings a finished flow back to life.                         *)
FlowsKnown ==
    /\ flows \in Seq(Flow)
    /\ \A i \in DOMAIN flows : flows[i].id <= minted
    /\ \A i, j \in DOMAIN flows :
          flows[i].id = flows[j].id /\ flows[i].id # NoId => i = j

FinishedIsOver ==
    session # Absent =>
        \A i \in DOMAIN flows :
            /\ flows[i].id = session.approvalId
            /\ flows[i].id # NoId
            /\ flows[i].status = "finished"
            => session.approval \in {"none", "approved", "edited"}

NoFlowYet == fault = "none" /\ session = Absent => ActiveFlows = {}

FlowInv ==
    /\ FlowsKnown
    /\ FinishedIsOver
    /\ NoFlowYet
    /\ FlowFollowsCycle
    /\ OneLiveFlow

LedgerInv == ledger \subseteq Ids /\ LedgerTracksPending

(* A plan that was written is still in its file when its card goes out.    *)
PlansWritten ==
    \A s \in Submitters :
        submitter[s].pc \in {"notify", "send"} /\ submitter[s].file # NoFile =>
            files[submitter[s].file] = submitter[s].id

(* A call that is past the store has the id it minted.                     *)
Submission == {w \in SubmitterState : w.pc # "idle" => w.id \in Ids}

FileInv ==
    /\ files \in [1..MaxSuffix -> Ids \cup {Free, Taken}]
    /\ submitter \in [Submitters -> Submission]
    /\ cards \subseteq [id : Ids, file : 0..MaxSuffix, buttons : BOOLEAN]
    /\ PlansWritten
    /\ CardsShowTheirPlan

TokenInv ==
    /\ tokens \subseteq Button
    /\ clicker \in [Clickers -> Button \cup {NoButton}]
    /\ TokensHaveCards

ArtifactsInv ==
    PayloadInv /\ FlowInv /\ LedgerInv /\ FileInv /\ TokenInv /\ fault \in Fault

LEMMA InvTypeOK == ArtifactsInv => ArtifactsTypeOK
  BY DEF ArtifactsInv, ArtifactsTypeOK, PayloadInv, FlowInv, FlowsKnown, LedgerInv,
         FileInv, Submission, TokenInv

----------------------------------------------------------------------------
(* The payload *)

(* The four ways a write of the store changes the cycle in the payload: a  *)
(* new cycle is submitted; plan mode is entered, left, or a payload first  *)
(* made; the cycle stays; it is given a verdict.                           *)
Requested ==
    /\ session # Absent
    /\ session'.approval = "pending"
    /\ session'.approvalId = minted + 1
    /\ minted' = minted + 1

Returned ==
    /\ session'.approval = "none"
    /\ session'.approvalId \in {NoId, IdBefore(session)}
    /\ minted' = minted

Kept ==
    /\ session # Absent
    /\ session'.approvalId = session.approvalId
    /\ session'.approval = session.approval
    /\ minted' = minted

Judged ==
    /\ session # Absent
    /\ session'.approvalId = session.approvalId
    /\ session.approval \in {"pending", "rejected"}
    /\ session'.approval \in {"approved", "edited", "rejected", "timed_out"}
    /\ session'.approval = "timed_out" => session.approval = "pending"
    /\ minted' = minted

Moves == session' # Absent /\ (Requested \/ Returned \/ Kept \/ Judged)

LEMMA ExitMoves ==
  ASSUME PayloadInv, NEW token, ExitPlanMode(token), minted' = minted
  PROVE  Moves
<1>1. session' = FreshSession
  BY DEF ExitPlanMode, Exited
<1>2. FreshSession # Absent
  BY FreshType
<1> QED
  BY <1>1, <1>2 DEF Moves, Returned, FreshSession

LEMMA ApplyMoves ==
  ASSUME PayloadInv, NEW action \in ApprovalAction, NEW fb \in Feedback \cup {NoFeedback},
         NEW token, ApplyApprovalAction(action, fb, token), minted' = minted
  PROVE  Moves
<1>1. /\ session \in SessionState
      /\ session # Absent
      /\ session' = Resolved(session, action, fb)
      /\ session.approval \in {"pending", "rejected"}
      /\ action = "timeout" => session.approval = "pending"
  BY DEF ApplyApprovalAction, Decidable, InPlanMode, OpenForDecision, PayloadInv,
         TypeOK, SessionPayload
<1>2. /\ session' # Absent
      /\ session'.approvalId = session.approvalId
      /\ action = "approve" => session'.approval = "approved"
      /\ action = "edit" => session'.approval = "edited"
      /\ action = "reject" => session'.approval = "rejected"
      /\ action = "timeout" => session'.approval = "timed_out"
  BY <1>1, ResolvedFields
<1>3. action \in {"approve", "edit", "reject", "timeout"}
  BY DEF ApprovalAction
<1> QED
  BY <1>1, <1>2, <1>3 DEF Moves, Judged

LEMMA ElsewhereMoves ==
  ASSUME PayloadInv, Elsewhere, minted' = minted
  PROVE  Moves
<1>1. CASE EnterPlanMode
  BY <1>1, EnteredFields DEF EnterPlanMode, Moves, Returned, IdBefore, PayloadInv, TypeOK
<1>2. CASE \E token \in Tokens : ExitPlanMode(token)
  BY <1>2, ExitMoves
<1>3. CASE \E action \in ApprovalAction, token \in Tokens, fb \in Feedback :
              ApplyApprovalAction(action, fb, token)
  BY <1>3, ApplyMoves
<1>4. CASE \E flag \in {"on", "off"} : SetAutoApprove(flag)
  <2>1. PICK flag \in {"on", "off"} : SetAutoApprove(flag)
    BY <1>4
  <2>2. /\ session' # Absent
        /\ session'.approval = OrFresh(session).approval
        /\ session'.approvalId = OrFresh(session).approvalId
    BY <2>1, AutoApproveSetFields DEF SetAutoApprove, PayloadInv, TypeOK
  <2>3. CASE session = Absent
    BY <2>2, <2>3 DEF OrFresh, FreshSession, Moves, Returned
  <2>4. CASE session # Absent
    BY <2>2, <2>4 DEF OrFresh, Moves, Kept
  <2> QED
    BY <2>3, <2>4
<1> QED
  BY <1>1, <1>2, <1>3, <1>4 DEF Elsewhere

LEMMA SubmitMoves ==
  ASSUME PayloadInv, NEW s \in Submitters, NEW p \in Plans, Submit(s, p)
  PROVE  Moves /\ minted + 1 \in ApprovalIds /\ minted' = minted + 1
<1>1. /\ minted + 1 \in ApprovalIds
      /\ minted' = minted + 1
      /\ session \in SessionState
      /\ session # Absent
      /\ session' = ApprovalRequested(session, minted + 1, p)
  BY DEF Submit, PersistApprovalRequest, InPlanMode, Ids, PayloadInv, TypeOK,
         SessionPayload
<1>2. /\ session' # Absent
      /\ session'.approval = "pending"
      /\ session'.approvalId = minted + 1
  BY <1>1, ApprovalRequestedFields
<1> QED
  BY <1>1, <1>2 DEF Moves, Requested

(* Every write of the compositions is a call of the store.                 *)
LEMMA ElsewhereIsStep == Elsewhere => Step
  BY DEF Elsewhere, Step

LEMMA MovesKeepPayload ==
  ASSUME PayloadInv, Moves, Step, minted' = minted \/ minted + 1 \in ApprovalIds
  PROVE  PayloadInv'
<1>1. TypeOK' /\ Coherent'
  BY StepType, StepCoherent DEF PayloadInv
<1>2. /\ minted \in Nat
      /\ session # Absent => session.approvalId \in Tokens /\ session.approvalId <= minted
      /\ IdBefore(session) \in Tokens /\ IdBefore(session) <= minted
  BY DEF PayloadInv, IdBefore, OrFresh, FreshSession, Tokens, NoId
<1>3. minted' \in Nat
  BY <1>2 DEF Moves, Requested, Returned, Kept, Judged
<1>4. CASE Requested
  <2>1. minted' # minted
    BY <1>2, <1>4 DEF Requested
  <2>2. session'.approvalId \in Tokens /\ session'.approvalId <= minted'
    BY <1>2, <1>4, <2>1 DEF Requested, Tokens
  <2> QED
    BY <1>1, <1>3, <2>2 DEF PayloadInv, Tokens
<1>5. CASE Returned \/ Kept \/ Judged
  <2>1. session'.approvalId \in Tokens /\ session'.approvalId <= minted'
    BY <1>2, <1>5 DEF Returned, Kept, Judged, Tokens, NoId
  <2> QED
    BY <1>1, <1>3, <2>1 DEF PayloadInv, Tokens
<1> QED
  BY <1>4, <1>5 DEF Moves

----------------------------------------------------------------------------
(* The flows *)

LEMMA LeastNatural ==
  ASSUME NEW T \in SUBSET Nat, T # {}
  PROVE  \E m \in T : \A k \in T : m <= k
<1> DEFINE R == OpToRel(<, Nat)
<1>1. IsWellFoundedOn(R, Nat)
  BY NatLessThanWellFounded
<1>2. \A x, y \in Nat : <<y, x>> \in R <=> y < x
  BY DEF OpToRel
<1> HIDE DEF R
<1>3. PICK x \in T : \A y \in T : ~(<<y, x>> \in R)
  BY <1>1, WFMin
<1>4. x \in Nat /\ \A k \in T : k \in Nat
  OBVIOUS
<1>5. ASSUME NEW k \in T PROVE x <= k
  <2>1. ~(<<k, x>> \in R)
    BY <1>3
  <2>2. ~(k < x)
    BY <1>2, <1>4, <2>1
  <2> QED
    BY <1>4, <2>2
<1> QED
  BY <1>5

(* Array.prototype.find on a list that has such a flow finds one.          *)
LEMMA FirstMember ==
  ASSUME NEW T \in SUBSET Nat, T # {}
  PROVE  First(T) \in T
  BY LeastNatural DEF First

(* Where and how one event changes the flows.                              *)
Rewritten(i, w) ==
    /\ flows' \in Seq(Flow)
    /\ DOMAIN flows' = DOMAIN flows \cup {i}
    /\ flows'[i] = w
    /\ \A j \in DOMAIN flows : j # i => flows'[j] = flows[j]

LEMMA SetIsRewritten ==
  ASSUME flows \in Seq(Flow), NEW i \in DOMAIN flows, NEW w \in Flow,
         flows' = [flows EXCEPT ![i] = w]
  PROVE  Rewritten(i, w)
<1>1. /\ flows' \in Seq(Flow)
      /\ DOMAIN flows' = DOMAIN flows
  OBVIOUS
<1>2. flows'[i] = w /\ \A j \in DOMAIN flows : j # i => flows'[j] = flows[j]
  OBVIOUS
<1> QED
  BY <1>1, <1>2 DEF Rewritten

LEMMA AppendIsRewritten ==
  ASSUME flows \in Seq(Flow), NEW w \in Flow, flows' = Append(flows, w)
  PROVE  \E i : i \notin DOMAIN flows /\ Rewritten(i, w)
<1>1. /\ Len(flows) + 1 \notin DOMAIN flows
      /\ Rewritten(Len(flows) + 1, w)
  BY DEF Rewritten
<1> QED
  BY <1>1

(* What recordTransition does to the flows, by cases.                      *)
Shown ==
    /\ session'.approval = "pending"
    /\ FlowsOf(session'.approvalId) # {}
    /\ UNCHANGED <<flows, fault>>

Skipped ==
    /\ session'.approval # "pending"
    /\ \/ IdBefore(session) = NoId
       \/ FlowsOf(IdBefore(session)) = {}
       \/ session'.approval = "timed_out"
    /\ UNCHANGED <<flows, fault>>

Refused == flows' = flows /\ fault' = "refused"

TakenOver(i) ==
    /\ session'.approval = "pending"
    /\ FlowsOf(session'.approvalId) = {}
    /\ i \in ActiveFlows
    /\ Rewritten(i, Waiting(session'.approvalId, "approval"))
    /\ fault' = fault

Created(i) ==
    /\ session'.approval = "pending"
    /\ FlowsOf(session'.approvalId) = {}
    /\ i \notin DOMAIN flows
    /\ Rewritten(i, Waiting(session'.approvalId, "approval"))
    /\ fault' = "refused" \/ (ActiveFlows = {} /\ fault' = fault)

Revised(i) ==
    /\ session'.approval = "rejected"
    /\ IdBefore(session) # NoId
    /\ i \in FlowsOf(IdBefore(session))
    /\ Rewritten(i, Waiting(session'.approvalId, "revision"))
    /\ fault' = fault

Finished(i) ==
    /\ session'.approval \in {"approved", "edited", "none"}
    /\ IdBefore(session) # NoId
    /\ i \in FlowsOf(IdBefore(session))
    /\ Rewritten(i, [flows[i] EXCEPT !.status = "finished", !.id = session'.approvalId])
    /\ fault' = fault

FlowChange ==
    \/ Shown \/ Skipped \/ Refused
    \/ \E i : TakenOver(i) \/ Created(i) \/ Revised(i) \/ Finished(i)

LEMMA WaitingType ==
  ASSUME NEW id \in Tokens, NEW step \in {"approval", "revision"}
  PROVE  Waiting(id, step) \in Flow
  BY DEF Waiting, Flow, Tokens, Ids

LEMMA ShowPendingChanges ==
  ASSUME FlowsKnown, session'.approval = "pending",
         NEW id \in Tokens, id = session'.approvalId, ShowPending(id)
  PROVE  FlowChange
<1> DEFINE w == Waiting(id, "approval")
<1> USE DEF FlowsKnown
<1>1. w \in Flow
  BY WaitingType
<1>2. ActiveFlows \in SUBSET Nat /\ ActiveFlows \subseteq DOMAIN flows
  BY DEF ActiveFlows
<1> HIDE DEF w
<1>3. CASE FlowsOf(id) # {} /\ UNCHANGED <<flows, fault>>
  BY <1>3 DEF FlowChange, Shown
<1>4. CASE FlowsOf(id) = {} /\ ActiveFlows # {} /\ SetWaiting(ActiveFlows, id, "approval")
  <2>1. First(ActiveFlows) \in ActiveFlows
    BY <1>2, <1>4, FirstMember
  <2>2. Rewritten(First(ActiveFlows), w) /\ fault' = fault
    BY <1>1, <1>2, <1>4, <2>1, SetIsRewritten DEF SetWaiting, w
  <2> QED
    BY <1>4, <2>1, <2>2 DEF FlowChange, TakenOver, w
<1>5. CASE /\ FlowsOf(id) = {} /\ CreateManaged(id)
           /\ fault' = "refused" \/ (ActiveFlows = {} /\ fault' = fault)
  <2>1. PICK i : i \notin DOMAIN flows /\ Rewritten(i, w)
    BY <1>1, <1>5, AppendIsRewritten DEF CreateManaged, w
  <2> QED
    BY <1>5, <2>1 DEF FlowChange, Created, w
<1>6. CASE HostRefuses
  BY <1>6 DEF FlowChange, Refused, HostRefuses, HappensOnce
<1> QED
  BY <1>3, <1>4, <1>5, <1>6 DEF ShowPending, HappensOnce

LEMMA ShowDecidedChanges ==
  ASSUME FlowsKnown, session'.approvalId \in Tokens,
         session'.approval # "pending", session'.approval \in PlanApprovalState,
         IdBefore(session) # NoId, ShowDecided(IdBefore(session), session')
  PROVE  FlowChange
<1> DEFINE id == IdBefore(session)
           i  == First(FlowsOf(id))
<1> USE DEF FlowsKnown
<1>1. FlowsOf(id) \in SUBSET Nat /\ FlowsOf(id) \subseteq DOMAIN flows
  BY DEF FlowsOf
<1>2. FlowsOf(id) # {} => i \in FlowsOf(id) /\ i \in DOMAIN flows
  BY <1>1, FirstMember
<1> HIDE DEF i, id
<1>3. CASE FlowsOf(id) = {} /\ UNCHANGED <<flows, fault>>
  BY <1>3 DEF FlowChange, Skipped, id
<1>4. CASE session'.approval = "timed_out" /\ UNCHANGED <<flows, fault>>
  BY <1>4 DEF FlowChange, Skipped
<1>5. CASE /\ FlowsOf(id) # {} /\ session'.approval = "rejected"
           /\ SetWaiting(FlowsOf(id), session'.approvalId, "revision")
  <2>1. Rewritten(i, Waiting(session'.approvalId, "revision")) /\ fault' = fault
    BY <1>2, <1>5, WaitingType, SetIsRewritten DEF SetWaiting, i
  <2> QED
    BY <1>2, <1>5, <2>1 DEF FlowChange, Revised, id
<1>6. CASE /\ FlowsOf(id) # {} /\ session'.approval \in {"approved", "edited", "none"}
           /\ flows' = [flows EXCEPT ![i] =
                  [@ EXCEPT !.status = "finished", !.id = session'.approvalId]]
           /\ UNCHANGED fault
  <2> DEFINE w == [flows[i] EXCEPT !.status = "finished", !.id = session'.approvalId]
  <2>1. flows[i] \in Flow
    BY <1>2, <1>6
  <2>2. w \in Flow
    BY <2>1 DEF Flow, Tokens, Ids
  <2>3. flows' = [flows EXCEPT ![i] = w]
    BY <1>6
  <2> HIDE DEF w
  <2>4. Rewritten(i, w)
    BY <1>2, <1>6, <2>2, <2>3, SetIsRewritten
  <2> QED
    BY <1>2, <1>6, <2>4 DEF FlowChange, Finished, id, w
<1>7. CASE HostRefuses
  BY <1>7 DEF FlowChange, Refused, HostRefuses, HappensOnce
<1> QED
  BY <1>3, <1>4, <1>5, <1>6, <1>7 DEF ShowDecided, id, i

LEMMA ListenChangesFlows ==
  ASSUME PayloadInv, PayloadInv', Moves, FlowsKnown, RecordTransition(session, session')
  PROVE  FlowChange
<1>1. /\ session'.approvalId \in Tokens
      /\ session'.approval \in PlanApprovalState
  BY DEF PayloadInv, Moves, TypeOK, SessionPayload, SessionState
<1>2. CASE session'.approval = "pending"
  BY <1>1, <1>2, ShowPendingChanges DEF RecordTransition
<1>3. CASE session'.approval # "pending"
  <2>1. session'.approvalId \in {NoId, IdBefore(session)}
    BY <1>3 DEF Moves, Requested, Returned, Kept, Judged, IdBefore, OrFresh
  <2>2. IF IdBefore(session) = NoId THEN UNCHANGED <<flows, fault>>
        ELSE ShowDecided(IdBefore(session), session')
    BY <1>3, <2>1 DEF RecordTransition
  <2>3. CASE IdBefore(session) = NoId
    BY <1>3, <2>2, <2>3 DEF FlowChange, Skipped
  <2> QED
    BY <1>1, <1>3, <2>2, <2>3, ShowDecidedChanges
<1> QED
  BY <1>2, <1>3

(* A step of the payload, seen from the cycle before it.                   *)
LEMMA MoveFacts ==
  ASSUME PayloadInv, PayloadInv', Moves
  PROVE  /\ minted \in Nat /\ minted' \in Nat /\ minted <= minted'
         /\ session' # Absent
         /\ session'.approvalId \in Nat /\ session'.approvalId <= minted'
         /\ session'.approval # "none" => session'.approvalId # NoId
         /\ session # Absent => IdBefore(session) = session.approvalId
         /\ session = Absent => IdBefore(session) = NoId
         /\ ~Requested => session'.approvalId \in {NoId, IdBefore(session)}
         /\ session # Absent /\ IdBefore(session) = NoId => session.approval = "none"
<1>1. session' # Absent
  BY DEF Moves
<1>2. Tokens \subseteq Nat
  BY DEF Tokens, NoId
<1>3. minted \in Nat /\ minted' \in Nat /\ minted <= minted'
  BY DEF PayloadInv, Moves, Requested, Returned, Kept, Judged
<1>4. session'.approvalId \in Tokens /\ session'.approvalId <= minted'
  BY <1>1 DEF PayloadInv, Tokens
<1>5. session'.approval # "none" => session'.approvalId # NoId
  BY <1>1 DEF PayloadInv, Coherent
<1>6. /\ session # Absent => IdBefore(session) = session.approvalId
      /\ session = Absent => IdBefore(session) = NoId
  BY DEF IdBefore, OrFresh, FreshSession
<1>7. ~Requested => session'.approvalId \in {NoId, IdBefore(session)}
  BY <1>6 DEF Moves, Returned, Kept, Judged
<1>8. session # Absent /\ IdBefore(session) = NoId => session.approval = "none"
  BY <1>6 DEF PayloadInv, Coherent
<1> QED
  BY <1>1, <1>2, <1>3, <1>4, <1>5, <1>6, <1>7, <1>8

LEMMA FlowIds ==
  ASSUME FlowsKnown, NEW i \in DOMAIN flows
  PROVE  flows[i] \in Flow /\ flows[i].id \in Nat /\ flows[i].id <= minted
<1>1. ApprovalIds \cup {NoId} \subseteq Nat
  BY DEF NoId
<1>2. ASSUME NEW w \in Flow PROVE w.id \in Nat
  BY <1>1 DEF Flow, Ids
<1>3. flows[i] \in Flow
  BY DEF FlowsKnown
<1> QED
  BY <1>2, <1>3 DEF FlowsKnown

LEMMA RewrittenKnown ==
  ASSUME FlowsKnown, minted \in Nat, minted' \in Nat, minted <= minted',
         NEW i, NEW w, Rewritten(i, w), w.id \in Nat, w.id <= minted',
         w.id = NoId \/ FlowsOf(w.id) \subseteq {i}
  PROVE  FlowsKnown'
<1>1. flows' \in Seq(Flow)
  BY DEF Rewritten
<1>2. ASSUME NEW j \in DOMAIN flows' PROVE flows'[j].id <= minted'
  <2>1. CASE j = i
    BY <2>1 DEF Rewritten
  <2>2. CASE j # i
    <3>1. j \in DOMAIN flows /\ flows'[j] = flows[j] /\ flows[j] \in Flow
      BY <1>2, <2>2 DEF Rewritten, FlowsKnown
    <3>2. flows[j].id \in Nat /\ flows[j].id <= minted
      BY <3>1, FlowIds
    <3> QED
      BY <3>1, <3>2
  <2> QED
    BY <2>1, <2>2
<1>3. ASSUME NEW j \in DOMAIN flows', NEW k \in DOMAIN flows',
             flows'[j].id = flows'[k].id, flows'[j].id # NoId
      PROVE  j = k
  BY <1>3 DEF Rewritten, FlowsKnown, FlowsOf
<1> QED
  BY <1>1, <1>2, <1>3 DEF FlowsKnown

LEMMA FlowsStayKnown ==
  ASSUME PayloadInv, PayloadInv', Moves, FlowsKnown, FlowChange
  PROVE  FlowsKnown'
<1>1. CASE flows' = flows
  <2>1. \A i \in DOMAIN flows : flows[i].id <= minted'
    BY FlowIds, MoveFacts
  <2> QED
    BY <1>1, <2>1 DEF FlowsKnown
<1>2. ASSUME NEW i, TakenOver(i) \/ Created(i) PROVE FlowsKnown'
  <2> DEFINE w == Waiting(session'.approvalId, "approval")
  <2>1. /\ Rewritten(i, w)
        /\ FlowsOf(session'.approvalId) = {}
    BY <1>2 DEF TakenOver, Created
  <2>2. w.id = session'.approvalId
    BY DEF Waiting
  <2> HIDE DEF w
  <2>3. w.id = NoId \/ FlowsOf(w.id) \subseteq {i}
    BY <2>1, <2>2
  <2> QED
    BY <2>1, <2>2, <2>3, MoveFacts, RewrittenKnown
<1>3. ASSUME NEW i, NEW w, Rewritten(i, w), i \in FlowsOf(IdBefore(session)),
             ~Requested, w.id = session'.approvalId
      PROVE  FlowsKnown'
  <2>1. w.id = NoId \/ FlowsOf(w.id) \subseteq {i}
    BY <1>3, MoveFacts DEF FlowsOf, FlowsKnown
  <2> QED
    BY <1>3, <2>1, MoveFacts, RewrittenKnown
<1>4. ASSUME NEW i, Revised(i) PROVE FlowsKnown'
  <2>1. Waiting(session'.approvalId, "revision").id = session'.approvalId
    BY DEF Waiting
  <2> QED
    BY <1>3, <1>4, <2>1 DEF Revised, Requested
<1>5. ASSUME NEW i, Finished(i) PROVE FlowsKnown'
  <2> DEFINE w == [flows[i] EXCEPT !.status = "finished", !.id = session'.approvalId]
  <2>1. flows[i] \in Flow
    BY <1>5, FlowIds DEF Finished, FlowsOf
  <2>2. w.id = session'.approvalId
    BY <2>1 DEF Flow
  <2>3. Rewritten(i, w) /\ i \in FlowsOf(IdBefore(session)) /\ ~Requested
    BY <1>5 DEF Finished, Requested
  <2> HIDE DEF w
  <2> QED
    BY <1>3, <2>2, <2>3
<1> QED
  BY <1>1, <1>2, <1>4, <1>5 DEF FlowChange, Shown, Skipped, Refused

(* The flow a verdict or a return finds is that of the session's cycle,    *)
(* and of no other.                                                        *)
LEMMA FlowOfCycle ==
  ASSUME PayloadInv, FlowsKnown, IdBefore(session) # NoId,
         NEW i \in FlowsOf(IdBefore(session))
  PROVE  /\ session # Absent
         /\ session.approvalId # NoId
         /\ i \in DOMAIN flows
         /\ flows[i].id = session.approvalId
         /\ \A j \in DOMAIN flows : flows[j].id = session.approvalId => j = i
  BY DEF IdBefore, OrFresh, FreshSession, FlowsOf, FlowsKnown

(* In the cycle that a flow belongs to, no verdict finds it finished.      *)
LEMMA RevisedWasActive ==
  ASSUME PayloadInv, PayloadInv', Moves, FlowsKnown, FinishedIsOver,
         NEW i, Revised(i)
  PROVE  i \in ActiveFlows /\ session.approval \in {"pending", "rejected"}
<1>1. Kept \/ Judged
  BY DEF Revised, Moves, Requested, Returned
<1>2. session.approval \in {"pending", "rejected"}
  BY <1>1 DEF Revised, Kept, Judged
<1>3. /\ session # Absent
      /\ i \in DOMAIN flows
      /\ flows[i].id = session.approvalId
      /\ flows[i].id # NoId
  BY FlowOfCycle DEF Revised
<1> QED
  BY <1>2, <1>3 DEF FinishedIsOver, ActiveFlows

(* A finished flow that a step leaves alone belongs to a cycle that is over *)
(* after the step, too.                                                    *)
LEMMA OldFlowOver ==
  ASSUME PayloadInv, Moves, FlowsKnown, FinishedIsOver, NEW j \in DOMAIN flows,
         flows[j].id = session'.approvalId, flows[j].id # NoId,
         flows[j].status = "finished"
  PROVE  session'.approval \in {"none", "approved", "edited"}
<1>1. CASE Requested
  <2>1. flows[j].id <= minted /\ session'.approvalId = minted + 1 /\ minted \in Nat
    BY <1>1 DEF FlowsKnown, Requested, PayloadInv
  <2> QED
    BY <2>1
<1>2. CASE Returned
  BY <1>2 DEF Returned
<1>3. CASE Kept \/ Judged
  <2>1. session.approval \in {"none", "approved", "edited"}
    BY <1>3 DEF Kept, Judged, FinishedIsOver
  <2> QED
    BY <1>3, <2>1 DEF Kept, Judged
<1> QED
  BY <1>1, <1>2, <1>3 DEF Moves

LEMMA FinishedStaysOver ==
  ASSUME PayloadInv, PayloadInv', Moves, FlowsKnown, FinishedIsOver, FlowChange
  PROVE  FinishedIsOver'
<1> SUFFICES ASSUME NEW j \in DOMAIN flows',
                    flows'[j].id = session'.approvalId, flows'[j].id # NoId,
                    flows'[j].status = "finished"
             PROVE  session'.approval \in {"none", "approved", "edited"}
  BY DEF FinishedIsOver
<1>1. ASSUME j \in DOMAIN flows, flows'[j] = flows[j]
      PROVE  session'.approval \in {"none", "approved", "edited"}
  BY <1>1, OldFlowOver
<1>2. CASE flows' = flows
  BY <1>1, <1>2
<1>3. ASSUME NEW i, TakenOver(i) \/ Created(i) \/ Revised(i)
      PROVE  session'.approval \in {"none", "approved", "edited"}
  <2>1. j # i
    BY <1>3 DEF TakenOver, Created, Revised, Rewritten, Waiting
  <2>2. j \in DOMAIN flows /\ flows'[j] = flows[j]
    BY <1>3, <2>1 DEF TakenOver, Created, Revised, Rewritten
  <2> QED
    BY <1>1, <2>2
<1>4. ASSUME NEW i, Finished(i)
      PROVE  session'.approval \in {"none", "approved", "edited"}
  BY <1>4 DEF Finished
<1> QED
  BY <1>2, <1>3, <1>4 DEF FlowChange, Shown, Skipped, Refused

LEMMA ActiveAfter ==
  ASSUME NEW i, NEW w, Rewritten(i, w)
  PROVE  /\ w.status # "finished" => ActiveFlows' = ActiveFlows \cup {i}
         /\ w.status = "finished" => ActiveFlows' = ActiveFlows \ {i}
  BY DEF Rewritten, ActiveFlows

LEMMA WaitingFields ==
  ASSUME NEW id, NEW step
  PROVE  /\ Waiting(id, step).status # "finished"
         /\ Waiting(id, step).id = id
         /\ Waiting(id, step).step = step
  BY DEF Waiting

(* What a change of the flows does to the unfinished ones.                 *)
LEMMA ActiveChange ==
  ASSUME PayloadInv, PayloadInv', Moves, FlowsKnown, FinishedIsOver
  PROVE  /\ flows' = flows => ActiveFlows' = ActiveFlows
         /\ \A i : TakenOver(i) \/ Revised(i) =>
                i \in ActiveFlows /\ ActiveFlows' = ActiveFlows
         /\ \A i : Created(i) => ActiveFlows' = ActiveFlows \cup {i}
         /\ \A i : Finished(i) => ActiveFlows' = ActiveFlows \ {i}
<1>1. ASSUME flows' = flows PROVE ActiveFlows' = ActiveFlows
  BY <1>1 DEF ActiveFlows
<1>2. ASSUME NEW i, TakenOver(i) \/ Created(i) \/ Revised(i)
      PROVE  ActiveFlows' = ActiveFlows \cup {i}
  <2>1. PICK step : Rewritten(i, Waiting(session'.approvalId, step))
    BY <1>2 DEF TakenOver, Created, Revised
  <2> QED
    BY <2>1, ActiveAfter, WaitingFields
<1>3. ASSUME NEW i, TakenOver(i) \/ Revised(i) PROVE i \in ActiveFlows
  BY <1>3, RevisedWasActive DEF TakenOver
<1>4. ASSUME NEW i, Finished(i) PROVE ActiveFlows' = ActiveFlows \ {i}
  <2> DEFINE w == [flows[i] EXCEPT !.status = "finished", !.id = session'.approvalId]
  <2>1. flows[i] \in Flow
    BY <1>4, FlowIds DEF Finished, FlowsOf
  <2>2. w.status = "finished"
    BY <2>1 DEF Flow
  <2>3. Rewritten(i, w)
    BY <1>4 DEF Finished
  <2> HIDE DEF w
  <2> QED
    BY <2>2, <2>3, ActiveAfter
<1> QED
  BY <1>1, <1>2, <1>3, <1>4

LEMMA OneFlowStays ==
  ASSUME PayloadInv, PayloadInv', Moves, FlowsKnown, FinishedIsOver, OneLiveFlow,
         FlowChange
  PROVE  OneLiveFlow'
<1> SUFFICES ASSUME fault' # "refused"
             PROVE  \A i, j \in ActiveFlows' : i = j
  BY DEF OneLiveFlow
<1>1. fault' = fault
  BY DEF FlowChange, Shown, Skipped, Refused, TakenOver, Created, Revised, Finished
<1>2. \A i, j \in ActiveFlows : i = j
  BY <1>1 DEF OneLiveFlow
<1>3. CASE flows' = flows
  BY <1>2, <1>3, ActiveChange
<1>4. ASSUME NEW i, TakenOver(i) \/ Revised(i) \/ Finished(i)
      PROVE  \A k, j \in ActiveFlows' : k = j
  BY <1>2, <1>4, ActiveChange
<1>5. ASSUME NEW i, Created(i)
      PROVE  \A k, j \in ActiveFlows' : k = j
  <2>1. ActiveFlows = {}
    BY <1>5 DEF Created
  <2> QED
    BY <1>5, <2>1, ActiveChange
<1> QED
  BY <1>3, <1>4, <1>5 DEF FlowChange, Shown, Skipped, Refused

(* While no fault has happened, the cycle before a step either has the one *)
(* unfinished flow or there is none and no verdict is awaited.             *)
LEMMA FollowedCycle ==
  ASSUME PayloadInv, FlowsKnown, NoFlowYet, FlowFollowsCycle, fault = "none"
  PROVE  \/ ActiveFlows = {} /\ (session # Absent =>
                                     session.approval \in {"none", "approved", "edited"})
         \/ /\ session # Absent
            /\ session.approval \in {"pending", "rejected", "timed_out"}
            /\ session.approvalId # NoId
            /\ IdBefore(session) = session.approvalId
            /\ \E i \in ActiveFlows :
                  /\ ActiveFlows = {i}
                  /\ flows[i].id = session.approvalId
                  /\ flows[i].step = "revision" <=> session.approval = "rejected"
                  /\ FlowsOf(session.approvalId) = {i}
<1>1. CASE session = Absent
  BY <1>1 DEF NoFlowYet
<1>2. CASE session # Absent /\ session.approval \in {"none", "approved", "edited"}
  BY <1>2 DEF FlowFollowsCycle
<1>3. CASE session # Absent /\ session.approval \notin {"none", "approved", "edited"}
  <2>1. PICK i \in ActiveFlows :
           /\ ActiveFlows = {i}
           /\ flows[i].id = session.approvalId
           /\ flows[i].step = "revision" <=> session.approval = "rejected"
    BY <1>3 DEF FlowFollowsCycle
  <2>2. session.approval \in {"pending", "rejected", "timed_out"}
    BY <1>3 DEF FlowFollowsCycle
  <2>3. session.approvalId # NoId
    BY <1>3 DEF PayloadInv, Coherent
  <2>4. FlowsOf(session.approvalId) = {i}
    BY <2>1, <2>3 DEF FlowsKnown, FlowsOf, ActiveFlows
  <2> QED
    BY <1>3, <2>1, <2>2, <2>3, <2>4 DEF IdBefore, OrFresh
<1> QED
  BY <1>1, <1>2, <1>3

LEMMA FlowStillFollows ==
  ASSUME PayloadInv, PayloadInv', Moves, FlowsKnown, FinishedIsOver, NoFlowYet,
         FlowFollowsCycle, OneLiveFlow, FlowChange
  PROVE  FlowFollowsCycle'
<1> DEFINE Over == ActiveFlows' = {} /\ session'.approval \in {"none", "approved", "edited"}
           Open == /\ session'.approval \in {"pending", "rejected", "timed_out"}
                   /\ \E i \in ActiveFlows' :
                         /\ ActiveFlows' = {i}
                         /\ flows'[i].id = session'.approvalId
                         /\ flows'[i].step = "revision" <=> session'.approval = "rejected"
<1> SUFFICES ASSUME fault' = "none" PROVE Over \/ Open
  BY DEF FlowFollowsCycle
<1>1. fault = "none"
  BY DEF FlowChange, Shown, Skipped, Refused, TakenOver, Created, Revised, Finished
<1> DEFINE WasOver == /\ ActiveFlows = {}
                      /\ session # Absent =>
                            session.approval \in {"none", "approved", "edited"}
           WasOpen(i) == /\ session # Absent
                         /\ session.approval \in {"pending", "rejected", "timed_out"}
                         /\ session.approvalId # NoId
                         /\ IdBefore(session) = session.approvalId
                         /\ i \in ActiveFlows
                         /\ ActiveFlows = {i}
                         /\ flows[i].id = session.approvalId
                         /\ flows[i].step = "revision" <=> session.approval = "rejected"
                         /\ FlowsOf(session.approvalId) = {i}
<1>2. WasOver \/ \E i : WasOpen(i)
  BY <1>1, FollowedCycle
<1>3. CASE Shown
  <2>1. ~Requested
    <3> SUFFICES ASSUME Requested PROVE FALSE
      OBVIOUS
    <3>1. session'.approvalId = minted + 1 /\ minted \in Nat
      BY MoveFacts DEF Requested
    <3> QED
      BY <1>3, <3>1, FlowIds DEF Shown, FlowsOf
  <2>2. Kept
    BY <1>3, <2>1 DEF Shown, Moves, Returned, Judged
  <2>3. PICK i : WasOpen(i)
    BY <1>2, <1>3, <2>2 DEF Shown, Kept
  <2>4. ActiveFlows' = {i} /\ flows' = flows
    BY <1>3, <2>3, ActiveChange DEF Shown
  <2> QED
    BY <1>3, <2>2, <2>3, <2>4 DEF Shown, Kept
<1>4. CASE Skipped
  <2>1. ActiveFlows' = ActiveFlows /\ flows' = flows /\ ~Requested
    BY <1>4, ActiveChange DEF Skipped, Requested
  <2>2. CASE WasOver
    BY <1>4, <2>1, <2>2 DEF Skipped, Moves, Returned, Kept, Judged
  <2>3. ASSUME NEW i, WasOpen(i) PROVE Over \/ Open
    <3>1. session'.approval = "timed_out"
      BY <1>4, <2>3 DEF Skipped
    <3>2. session'.approvalId = session.approvalId /\ session.approval # "rejected"
      BY <3>1, <2>1 DEF Moves, Returned, Kept, Judged
    <3> QED
      BY <2>1, <2>3, <3>1, <3>2
  <2> QED
    BY <1>2, <2>2, <2>3
<1>5. CASE Refused
  BY <1>5 DEF Refused
<1>6. ASSUME NEW i, TakenOver(i) \/ Created(i) PROVE Over \/ Open
  <2>1. ActiveFlows' = {i}
    BY <1>1, <1>6, ActiveChange DEF OneLiveFlow, Created
  <2>2. /\ session'.approval = "pending"
        /\ flows'[i] = Waiting(session'.approvalId, "approval")
    BY <1>6 DEF TakenOver, Created, Rewritten
  <2> QED
    BY <2>1, <2>2, WaitingFields
<1>7. ASSUME NEW i, Revised(i) PROVE Over \/ Open
  <2>1. i \in ActiveFlows /\ ActiveFlows' = ActiveFlows
    BY <1>7, ActiveChange
  <2>2. ActiveFlows' = {i}
    BY <1>1, <2>1 DEF OneLiveFlow
  <2>3. /\ session'.approval = "rejected"
        /\ flows'[i] = Waiting(session'.approvalId, "revision")
    BY <1>7 DEF Revised, Rewritten
  <2> QED
    BY <2>2, <2>3, WaitingFields
<1>8. ASSUME NEW i, Finished(i) PROVE Over \/ Open
  <2>1. ActiveFlows' = ActiveFlows \ {i} /\ session'.approval \in {"none", "approved", "edited"}
    BY <1>8, ActiveChange DEF Finished
  <2>2. ASSUME NEW k, WasOpen(k) PROVE k = i
    BY <1>8, <2>2 DEF Finished
  <2>3. ActiveFlows' = {}
    BY <1>2, <2>1, <2>2
  <2> QED
    BY <2>1, <2>3
<1> QED
  BY <1>3, <1>4, <1>5, <1>6, <1>7, <1>8 DEF FlowChange

(* An event that is heard: recordTransition keeps every part.              *)
LEMMA HeardKeepsFlows ==
  ASSUME PayloadInv, PayloadInv', Moves, FlowInv, Heard
  PROVE  FlowInv'
<1>1. FlowChange
  BY ListenChangesFlows DEF Heard, Listen, FlowInv
<1>2. FlowsKnown'
  BY <1>1, FlowsStayKnown DEF FlowInv
<1>3. FinishedIsOver'
  BY <1>1, FinishedStaysOver DEF FlowInv
<1>4. NoFlowYet'
  BY DEF NoFlowYet, Moves
<1>5. FlowFollowsCycle'
  BY <1>1, FlowStillFollows DEF FlowInv
<1>6. OneLiveFlow'
  BY <1>1, OneFlowStays DEF FlowInv
<1> QED
  BY <1>2, <1>3, <1>4, <1>5, <1>6 DEF FlowInv

(* An event lost with the process: the flows stay as they were, one live   *)
(* flow at most, though it may be behind the payload.                      *)
LEMMA UnheardKeepsFlows ==
  ASSUME PayloadInv, PayloadInv', Moves, FlowInv, Unheard
  PROVE  FlowInv'
<1>1. flows' = flows /\ fault = "none" /\ fault' = "restarted"
  BY DEF Unheard, Stopped, HappensOnce
<1>2. FlowsKnown'
  <2>1. \A i \in DOMAIN flows : flows[i].id <= minted'
    BY FlowIds, MoveFacts DEF FlowInv
  <2> QED
    BY <1>1, <2>1 DEF FlowsKnown, FlowInv
<1>3. FinishedIsOver'
  BY <1>1, OldFlowOver DEF FlowInv, FinishedIsOver
<1>4. NoFlowYet' /\ FlowFollowsCycle'
  BY <1>1 DEF NoFlowYet, FlowFollowsCycle
<1>5. OneLiveFlow'
  BY <1>1 DEF FlowInv, OneLiveFlow, ActiveFlows
<1> QED
  BY <1>2, <1>3, <1>4, <1>5 DEF FlowInv

(* A step that neither writes the payload nor calls the host, and a        *)
(* restart.                                                                *)
LEMMA FlowsUntouched ==
  ASSUME FlowInv, UNCHANGED <<session, minted, flows>>,
         fault' = fault \/ (fault = "none" /\ fault' = "restarted")
  PROVE  FlowInv'
<1>1. ActiveFlows' = ActiveFlows
  BY DEF ActiveFlows
<1>2. FlowsKnown' /\ FinishedIsOver' /\ NoFlowYet'
  BY <1>1 DEF FlowInv, FlowsKnown, FinishedIsOver, NoFlowYet
<1>3. FlowFollowsCycle'
  BY <1>1 DEF FlowInv, FlowFollowsCycle
<1>4. OneLiveFlow'
  BY <1>1 DEF FlowInv, OneLiveFlow
<1> QED
  BY <1>2, <1>3, <1>4 DEF FlowInv

LEMMA ListenFault ==
  ASSUME FlowsKnown, PayloadInv, PayloadInv', Moves, Heard
  PROVE  fault' = fault \/ (fault = "none" /\ fault' = "refused")
  BY DEF Heard, Listen, RecordTransition, ShowPending, ShowDecided, SetWaiting,
         CreateManaged, HostRefuses, HappensOnce

----------------------------------------------------------------------------
(* The ledger *)

LEMMA HeardKeepsLedger ==
  ASSUME PayloadInv, PayloadInv', Moves, FlowsKnown, LedgerInv, Heard
  PROVE  LedgerInv'
<1>1. ledger' = (ledger \cup Granted(session, session')) \ Pruned(session, session')
  BY DEF Heard, Listen
<1>2. fault' # "restarted" => fault # "restarted"
  BY ListenFault
<1>3. ledger' \subseteq Ids
  <2>1. session'.approval = "pending" => session'.approvalId \in Ids
    BY MoveFacts DEF PayloadInv, Tokens, Ids
  <2> QED
    BY <1>1, <2>1 DEF Granted, LedgerInv
<1>4. CASE Requested
  <2>1. session'.approvalId # IdBefore(session)
    BY <1>4, MoveFacts DEF Requested, PayloadInv
  <2>2. session'.approvalId \in ledger'
    BY <1>1, <1>4, <2>1 DEF Requested, Granted, Pruned
  <2> QED
    BY <1>3, <1>4, <2>2 DEF LedgerInv, LedgerTracksPending, Requested
<1>5. CASE Returned
  BY <1>3, <1>5 DEF LedgerInv, LedgerTracksPending, Returned
<1>6. CASE Kept \/ Judged
  <2>1. IdBefore(session) = session.approvalId /\ session'.approvalId = session.approvalId
    BY <1>6, MoveFacts DEF Kept, Judged
  <2>2. session'.approval = "pending" => session.approval = "pending"
    BY <1>6 DEF Kept, Judged
  <2> QED
    BY <1>1, <1>2, <1>3, <1>6, <2>1, <2>2
    DEF LedgerInv, LedgerTracksPending, Kept, Judged, Granted, Pruned
<1> QED
  BY <1>4, <1>5, <1>6 DEF Moves

LEMMA StoppedKeepsLedger ==
  ASSUME Stopped
  PROVE  LedgerInv'
  BY DEF Stopped, HappensOnce, LedgerInv, LedgerTracksPending

LEMMA LedgerUntouched ==
  ASSUME LedgerInv, UNCHANGED <<session, ledger, fault>>
  PROVE  LedgerInv'
  BY DEF LedgerInv, LedgerTracksPending
----------------------------------------------------------------------------
(* The files and the cards *)

(* No name that is taken is written again.                                 *)
FilesGrow == \A n \in 1..MaxSuffix : files[n] # Free => files'[n] = files[n]

(* The cards that are sent or rewritten attach what an old card attached.  *)
CardsFollow ==
    \A card \in cards' :
        \E was \in cards : card.id = was.id /\ card.file = was.file

LEMMA IdsAreNoMarkers == Ids \subseteq Nat \ {NoId} /\ Free \notin Ids /\ Taken \notin Ids
  BY FileAssumption DEF Ids

LEMMA ClearedCards ==
  ASSUME FileInv, NEW b, ClearButtons(b)
  PROVE  /\ cards' \subseteq [id : Ids, file : 0..MaxSuffix, buttons : BOOLEAN]
         /\ CardsFollow
         /\ \A card \in cards : \E now \in cards' : now.id = card.id
<1> DEFINE Cleared(card) == [card EXCEPT !.buttons = @ /\ card.id # b.id]
<1>1. cards' = {Cleared(card) : card \in cards}
  BY DEF ClearButtons
<1>2. ASSUME NEW card \in cards
      PROVE  /\ Cleared(card) \in [id : Ids, file : 0..MaxSuffix, buttons : BOOLEAN]
             /\ Cleared(card).id = card.id
             /\ Cleared(card).file = card.file
  <2>1. card \in [id : Ids, file : 0..MaxSuffix, buttons : BOOLEAN]
    BY DEF FileInv
  <2> QED
    BY <2>1
<1> HIDE DEF Cleared
<1> QED
  BY <1>1, <1>2 DEF CardsFollow

(* A file that holds a plan goes on holding it.                            *)
LEMMA FilesStay ==
  ASSUME FileInv, FilesGrow, NEW n \in 0..MaxSuffix, n # NoFile, files[n] \in Ids
  PROVE  files'[n] = files[n]
<1>1. n \in 1..MaxSuffix
  BY SuffixAssumption DEF NoFile
<1> QED
  BY <1>1, IdsAreNoMarkers DEF FilesGrow

LEMMA CardsStay ==
  ASSUME FileInv, FilesGrow, CardsFollow
  PROVE  CardsShowTheirPlan'
<1> SUFFICES ASSUME NEW card \in cards', card.file # NoFile
             PROVE  files'[card.file] = card.id
  BY DEF CardsShowTheirPlan
<1>1. PICK was \in cards : card.id = was.id /\ card.file = was.file
  BY DEF CardsFollow
<1>2. was.file \in 0..MaxSuffix /\ was.id \in Ids /\ files[was.file] = was.id
  BY <1>1 DEF FileInv, CardsShowTheirPlan
<1> QED
  BY <1>1, <1>2, FilesStay

(* One submission moves, the others keep their state and so their files.   *)
LEMMA OneSubmitterMoves ==
  ASSUME FileInv, FilesGrow, NEW s \in Submitters, NEW w \in Submission,
         submitter' = [submitter EXCEPT ![s] = w],
         w.pc \in {"notify", "send"} /\ w.file # NoFile => files'[w.file] = w.id
  PROVE  submitter' \in [Submitters -> Submission] /\ PlansWritten'
<1>1. submitter' \in [Submitters -> Submission]
  BY DEF FileInv
<1>2. ASSUME NEW o \in Submitters,
             submitter'[o].pc \in {"notify", "send"}, submitter'[o].file # NoFile
      PROVE  files'[submitter'[o].file] = submitter'[o].id
  <2>1. CASE o = s
    <3>1. submitter'[o] = w
      BY <2>1 DEF FileInv
    <3> QED
      BY <1>2, <3>1
  <2>2. CASE o # s
    <3>1. submitter'[o] = submitter[o] /\ submitter[o] \in Submission
      BY <2>2 DEF FileInv
    <3>2. files[submitter[o].file] = submitter[o].id
      BY <1>2, <3>1 DEF FileInv, PlansWritten
    <3>3. submitter[o].file \in 0..MaxSuffix /\ submitter[o].id \in Ids \cup {NoId}
      BY <3>1 DEF Submission, SubmitterState
    <3>4. submitter[o].file \in 1..MaxSuffix
      BY <1>2, <3>1, <3>3, SuffixAssumption DEF NoFile
    <3>5. files[submitter[o].file] # Free
      BY <3>2, <3>3, FileAssumption, IdsAreNoMarkers DEF NoId
    <3> QED
      BY <3>1, <3>2, <3>4, <3>5 DEF FilesGrow
  <2> QED
    BY <2>1, <2>2
<1> QED
  BY <1>1, <1>2 DEF PlansWritten

(* A token keeps its card, or the submission that is about to send it.     *)
LEMMA TokensStay ==
  ASSUME TokenInv, tokens' \subseteq tokens,
         \A card \in cards : \E now \in cards' : now.id = card.id,
         \A s \in Submitters : AtPc(s, "send") => submitter'[s] = submitter[s]
  PROVE  tokens' \subseteq Button /\ TokensHaveCards'
<1>1. ASSUME NEW b \in tokens'
      PROVE  \/ \E card \in cards' : card.id = b.id
             \/ \E s \in Submitters : submitter'[s].pc = "send" /\ submitter'[s].id = b.id
  BY DEF TokenInv, TokensHaveCards, OnScreen, AtPc
<1> QED
  BY <1>1 DEF TokenInv, TokensHaveCards, OnScreen, AtPc
----------------------------------------------------------------------------
(* The steps.  A write of the store, with its event heard or lost.         *)

LEMMA WriteKeepsFollowers ==
  ASSUME ArtifactsInv, Step, Moves, minted' = minted \/ minted + 1 \in ApprovalIds,
         Heard \/ Unheard
  PROVE  PayloadInv' /\ FlowInv' /\ LedgerInv' /\ fault' \in Fault
<1>1. PayloadInv'
  BY MovesKeepPayload DEF ArtifactsInv
<1>2. FlowInv'
  BY <1>1, HeardKeepsFlows, UnheardKeepsFlows DEF ArtifactsInv
<1>3. LedgerInv'
  BY <1>1, HeardKeepsLedger, StoppedKeepsLedger DEF ArtifactsInv, FlowInv, Unheard
<1>4. fault' \in Fault
  BY <1>1, ListenFault DEF ArtifactsInv, FlowInv, Unheard, Stopped, HappensOnce, Fault
<1> QED
  BY <1>1, <1>2, <1>3, <1>4

LEMMA Untouched ==
  ASSUME ArtifactsInv, UNCHANGED <<session, minted, flows, ledger, fault>>
  PROVE  PayloadInv' /\ FlowInv' /\ LedgerInv' /\ fault' \in Fault
<1>1. PayloadInv'
  BY DEF ArtifactsInv, PayloadInv, TypeOK, Coherent
<1> QED
  BY <1>1, FlowsUntouched, LedgerUntouched DEF ArtifactsInv

(* The process stops: no call, no token and no callback is left.           *)
LEMMA StoppedKeepsRest ==
  ASSUME ArtifactsInv, Stopped, UNCHANGED <<files, cards>>
  PROVE  FileInv' /\ TokenInv'
<1>1. Idle \in Submission /\ Idle.pc = "idle"
  BY SuffixAssumption DEF Idle, Submission, SubmitterState, NoFile, NoId
<1>2. submitter' \in [Submitters -> Submission] /\ PlansWritten'
  BY <1>1 DEF Stopped, PlansWritten
<1>3. FileInv'
  BY <1>2 DEF ArtifactsInv, FileInv, CardsShowTheirPlan
<1>4. TokenInv'
  BY DEF Stopped, TokenInv, TokensHaveCards
<1> QED
  BY <1>3, <1>4

LEMMA FilesUntouched ==
  ASSUME FileInv, UNCHANGED files
  PROVE  files' \in [1..MaxSuffix -> Ids \cup {Free, Taken}] /\ FilesGrow
  BY DEF FileInv, FilesGrow

LEMMA SubmitterUntouched ==
  ASSUME FileInv, FilesGrow, UNCHANGED submitter
  PROVE  submitter' \in [Submitters -> Submission] /\ PlansWritten'
<1> SUFFICES ASSUME NEW o \in Submitters,
                    submitter[o].pc \in {"notify", "send"}, submitter[o].file # NoFile
             PROVE  files'[submitter[o].file] = submitter[o].id
  BY DEF FileInv, PlansWritten
<1>1. submitter[o] \in Submission
  BY DEF FileInv
<1>3. files[submitter[o].file] = submitter[o].id
  BY DEF FileInv, PlansWritten
<1>4. submitter[o].file \in 1..MaxSuffix /\ submitter[o].id \in Ids \cup {NoId}
  BY <1>1, SuffixAssumption DEF Submission, SubmitterState, NoFile
<1>5. files[submitter[o].file] # Free
  BY <1>3, <1>4, FileAssumption, IdsAreNoMarkers DEF NoId
<1> QED
  BY <1>3, <1>4, <1>5 DEF FilesGrow

LEMMA StoreCallKeeps == ArtifactsInv /\ StoreCall => ArtifactsInv'
<1> SUFFICES ASSUME ArtifactsInv, StoreCall PROVE ArtifactsInv'
  OBVIOUS
<1>1. PayloadInv' /\ FlowInv' /\ LedgerInv' /\ fault' \in Fault
  BY ElsewhereMoves, ElsewhereIsStep, WriteKeepsFollowers DEF StoreCall, ArtifactsInv
<1>2. CASE UNCHANGED taskVars
  <2>1. UNCHANGED <<files, cards, submitter, tokens, clicker>>
    BY <1>2 DEF StoreCall, taskVars
  <2>2. FileInv'
    BY <2>1, FilesUntouched, SubmitterUntouched DEF ArtifactsInv, FileInv, CardsShowTheirPlan
  <2>3. TokenInv'
    BY <2>1 DEF ArtifactsInv, TokenInv, TokensHaveCards, OnScreen, AtPc
  <2> QED
    BY <1>1, <2>2, <2>3 DEF ArtifactsInv
<1>3. CASE Unheard
  <2>1. FileInv' /\ TokenInv'
    BY <1>3, StoppedKeepsRest DEF StoreCall, Unheard
  <2> QED
    BY <1>1, <2>1 DEF ArtifactsInv
<1> QED
  BY <1>2, <1>3 DEF StoreCall

LEMMA SubmitKeeps ==
  ASSUME ArtifactsInv, NEW s \in Submitters, NEW p \in Plans, Submit(s, p)
  PROVE  ArtifactsInv'
<1>0. ArtifactsInv /\ UNCHANGED <<files, cards>>
  BY DEF Submit
<1>1. Moves /\ minted + 1 \in ApprovalIds /\ minted' = minted + 1
  BY SubmitMoves DEF ArtifactsInv
<1>2. Step
  BY <1>1 DEF Submit, Step
<1>3. PayloadInv' /\ FlowInv' /\ LedgerInv' /\ fault' \in Fault
  BY <1>1, <1>2, WriteKeepsFollowers DEF Submit
<1>4. CASE Unheard
  BY <1>0, <1>3, <1>4, StoppedKeepsRest DEF Unheard, ArtifactsInv
<1>5. CASE Heard /\ submitter' = [submitter EXCEPT ![s] =
                                    [pc |-> "write", id |-> minted', file |-> 1]]
           /\ UNCHANGED <<tokens, clicker>>
  <2> DEFINE w == [pc |-> "write", id |-> minted', file |-> 1]
  <2>1. w \in Submission /\ w.pc = "write"
    BY <1>1, SuffixAssumption DEF Submission, SubmitterState, Ids
  <2>2. submitter' = [submitter EXCEPT ![s] = w]
    BY <1>5
  <2> HIDE DEF w
  <2>3. submitter' \in [Submitters -> Submission] /\ PlansWritten'
    BY <1>0, <2>1, <2>2, OneSubmitterMoves, FilesUntouched DEF ArtifactsInv
  <2>4. FileInv'
    BY <1>0, <2>3 DEF ArtifactsInv, FileInv, CardsShowTheirPlan
  <2>5. \A o \in Submitters : AtPc(o, "send") => submitter'[o] = submitter[o]
    BY <2>2 DEF AtPc, ArtifactsInv, FileInv, Submit, Idle
  <2>6. TokenInv'
    BY <1>0, <1>5, <2>5, TokensStay DEF ArtifactsInv, TokenInv
  <2> QED
    BY <1>3, <2>4, <2>6 DEF ArtifactsInv
<1> QED
  BY <1>4, <1>5 DEF Submit
(* The exclusive create, and a write that fails half way, leave every file *)
(* that is there alone.                                                    *)
LEMMA WritingGrows ==
  ASSUME FileInv, NEW s \in Submitters, WriteFile(s) \/ WriteFails(s)
  PROVE  files' \in [1..MaxSuffix -> Ids \cup {Free, Taken}] /\ FilesGrow
<1>1. submitter[s] \in Submission
  BY DEF FileInv
<1>2. submitter[s].id \in Ids
  BY <1>1 DEF Submission, WriteFile, WriteFails, AtPc
<1>3. CASE UNCHANGED files
  BY <1>3, FilesUntouched
<1>4. ASSUME NEW v, files' = [files EXCEPT ![submitter[s].file] = v],
             files[submitter[s].file] = Free
      PROVE  FilesGrow
  BY <1>4 DEF FilesGrow, FileInv
<1> QED
  BY <1>2, <1>3, <1>4 DEF WriteFile, WriteFails, FileInv
(* A submission goes on to the card without a file.                        *)
LEMMA GivesUp ==
  ASSUME NEW s,
         submitter' = [submitter EXCEPT ![s].pc = "notify", ![s].file = NoFile]
  PROVE  submitter' = [submitter EXCEPT ![s] = [submitter[s] EXCEPT !.pc = "notify",
                                                                    !.file = NoFile]]
<1> DEFINE once == [submitter EXCEPT ![s].pc = "notify"]
<1>1. /\ DOMAIN once = DOMAIN submitter
      /\ \A y \in DOMAIN submitter : y # s => once[y] = submitter[y]
      /\ s \in DOMAIN submitter => once[s] = [submitter[s] EXCEPT !.pc = "notify"]
  OBVIOUS
<1>2. submitter' = [once EXCEPT ![s].file = NoFile]
  OBVIOUS
<1> HIDE DEF once
<1> QED
  BY <1>1, <1>2

(* A plan that is written is in its file until its card goes out.          *)
LEMMA WritingKeeps ==
  ASSUME ArtifactsInv, NEW s \in Submitters, WriteFile(s) \/ WriteFails(s)
  PROVE  ArtifactsInv'
<1>0. /\ FileInv /\ TokenInv
      /\ UNCHANGED <<session, minted, flows, ledger, tokens, cards, clicker, fault>>
      /\ submitter[s].pc = "write"
  BY DEF ArtifactsInv, WriteFile, WriteFails, AtPc
<1>1. PayloadInv' /\ FlowInv' /\ LedgerInv' /\ fault' \in Fault
  BY <1>0, Untouched
<1>2. files' \in [1..MaxSuffix -> Ids \cup {Free, Taken}] /\ FilesGrow
  BY <1>0, WritingGrows
<1>3. submitter[s] \in Submission /\ submitter[s].file \in 0..MaxSuffix
  BY <1>0 DEF FileInv, Submission, SubmitterState
<1>4. PICK w \in Submission :
         /\ submitter' = [submitter EXCEPT ![s] = w]
         /\ w.pc = "notify" /\ w.file # NoFile => files'[w.file] = w.id
         /\ w.pc \in {"write", "notify"}
  <2> DEFINE Ahead(f) == [submitter[s] EXCEPT !.pc = "notify", !.file = f]
             Again    == [submitter[s] EXCEPT !.file = @ + 1]
  <2>1. ASSUME NEW f \in 0..MaxSuffix
        PROVE  /\ Ahead(f) \in Submission
               /\ Ahead(f).pc = "notify"
               /\ Ahead(f).file = f
               /\ Ahead(f).id = submitter[s].id
    BY <1>0, <1>3 DEF Submission, SubmitterState
  <2> HIDE DEF Ahead, Again
  <2>2. CASE /\ files[submitter[s].file] = Free
             /\ files' = [files EXCEPT ![submitter[s].file] = submitter[s].id]
             /\ submitter' = [submitter EXCEPT ![s].pc = "notify"]
    <3>1. submitter' = [submitter EXCEPT ![s] = Ahead(submitter[s].file)]
      BY <1>3, <2>2 DEF Submission, SubmitterState, Ahead
    <3>2. submitter[s].file # NoFile =>
             files'[submitter[s].file] = submitter[s].id
      BY <1>0, <1>3, <2>2, SuffixAssumption DEF FileInv, NoFile
    <3> QED
      BY <1>3, <2>1, <3>1, <3>2
  <2>3. CASE /\ submitter[s].file < MaxSuffix
             /\ submitter' = [submitter EXCEPT ![s].file = submitter[s].file + 1]
    <3>1. Again \in Submission /\ Again.pc = "write"
      BY <1>0, <1>3, <2>3, SuffixAssumption DEF Submission, SubmitterState, Again
    <3>2. submitter' = [submitter EXCEPT ![s] = Again]
      BY <2>3 DEF Again
    <3> QED
      BY <3>1, <3>2
  <2>4. CASE submitter' = [submitter EXCEPT ![s].pc = "notify", ![s].file = NoFile]
    <3>1. NoFile \in 0..MaxSuffix
      BY SuffixAssumption DEF NoFile
    <3>2. submitter' = [submitter EXCEPT ![s] = Ahead(NoFile)]
      BY <2>4, GivesUp DEF Ahead
    <3> QED
      BY <2>1, <3>1, <3>2
  <2> QED
    BY <2>2, <2>3, <2>4 DEF WriteFile, WriteFails
<1>5. submitter' \in [Submitters -> Submission] /\ PlansWritten'
  BY <1>0, <1>2, <1>4, OneSubmitterMoves
<1>6. FileInv'
  <2>1. CardsFollow
    BY <1>0 DEF CardsFollow
  <2>2. CardsShowTheirPlan'
    BY <1>0, <1>2, <2>1, CardsStay
  <2> QED
    BY <1>0, <1>2, <1>5, <2>2 DEF FileInv
<1>7. \A o \in Submitters : AtPc(o, "send") => submitter'[o] = submitter[o]
  BY <1>0, <1>4 DEF AtPc, FileInv
<1>8. TokenInv'
  BY <1>0, <1>7, TokensStay DEF TokenInv
<1> QED
  BY <1>1, <1>6, <1>8 DEF ArtifactsInv

LEMMA ButtonsInType ==
  ASSUME NEW id \in Ids
  PROVE  /\ ButtonsOf(id) \subseteq Button
         /\ \A b \in Button : b \in ButtonsOf(id) <=> b.id = id
<1>1. ASSUME NEW b \in Button, b.id = id PROVE b \in ButtonsOf(id)
  <2>1. b = [id |-> id, action |-> b.action] /\ b.action \in ButtonActions
    BY <1>1 DEF Button
  <2> QED
    BY <2>1 DEF ButtonsOf
<1> QED
  BY <1>1 DEF ButtonsOf, Button

(* The tokens of a card are minted while its submission is about to send   *)
(* it, and are dropped if it does not arrive.                              *)
LEMMA NotifyKeeps ==
  ASSUME ArtifactsInv, NEW s \in Submitters, Notify(s)
  PROVE  ArtifactsInv'
<1>0. /\ FileInv /\ TokenInv
      /\ UNCHANGED <<session, minted, flows, ledger, files, cards, clicker, fault>>
      /\ submitter[s].pc = "notify"
  BY DEF ArtifactsInv, Notify, AtPc, hostVars
<1>1. PayloadInv' /\ FlowInv' /\ LedgerInv' /\ fault' \in Fault
  BY <1>0, Untouched
<1>2. submitter[s] \in Submission /\ submitter[s].id \in Ids
  BY <1>0 DEF FileInv, Submission
<1> DEFINE sending == [submitter[s] EXCEPT !.pc = "send"]
<1>3. /\ sending \in Submission /\ sending.pc = "send"
      /\ sending.id = submitter[s].id /\ sending.file = submitter[s].file
  BY <1>0, <1>2 DEF Submission, SubmitterState
<1>4. /\ Idle \in Submission
      /\ Idle.pc = "idle"
  BY SuffixAssumption DEF Idle, Submission, SubmitterState, NoFile, NoId
<1>5. PICK w \in {Idle, sending} :
         /\ submitter' = [submitter EXCEPT ![s] = w]
         /\ w = Idle => tokens' = tokens
         /\ w = sending => tokens' = tokens \cup ButtonsOf(submitter[s].id)
  BY <1>3, <1>4 DEF Notify
<1> HIDE DEF sending
<1>6. submitter' \in [Submitters -> Submission] /\ PlansWritten'
  <2>1. w.pc \in {"notify", "send"} /\ w.file # NoFile => files'[w.file] = w.id
    BY <1>0, <1>3, <1>4, <1>5 DEF FileInv, PlansWritten
  <2> QED
    BY <1>0, <1>3, <1>4, <1>5, <2>1, OneSubmitterMoves, FilesUntouched
<1>7. FileInv'
  BY <1>0, <1>6 DEF FileInv, CardsShowTheirPlan
<1>8. TokenInv'
  <2>1. tokens' \subseteq Button
    BY <1>0, <1>2, <1>5, ButtonsInType DEF TokenInv
  <2>2. \A o \in Submitters : o # s => submitter'[o] = submitter[o]
    BY <1>0, <1>5 DEF FileInv
  <2>3. ASSUME NEW b \in tokens'
        PROVE  \/ \E card \in cards' : card.id = b.id
               \/ \E o \in Submitters : submitter'[o].pc = "send" /\ submitter'[o].id = b.id
    <3>1. CASE b \in tokens
      BY <1>0, <2>2, <3>1 DEF TokenInv, TokensHaveCards, OnScreen, AtPc
    <3>2. CASE b \notin tokens
      <4>1. w = sending /\ b \in ButtonsOf(submitter[s].id)
        BY <1>5, <3>2
      <4>2. submitter'[s].pc = "send" /\ submitter'[s].id = b.id
        BY <1>0, <1>3, <1>5, <4>1 DEF ButtonsOf, FileInv
      <4> QED
        BY <4>2
    <3> QED
      BY <3>1, <3>2
  <2> QED
    BY <1>0, <2>1, <2>3 DEF TokenInv, TokensHaveCards, OnScreen, AtPc
<1> QED
  BY <1>1, <1>7, <1>8 DEF ArtifactsInv
(* The card goes out with the file its plan was written to, or is refused, *)
(* and takes its tokens back.                                              *)
LEMMA SendingKeeps ==
  ASSUME ArtifactsInv, NEW s \in Submitters, Delivered(s) \/ Undelivered(s)
  PROVE  ArtifactsInv'
<1>0. /\ FileInv /\ TokenInv
      /\ UNCHANGED <<session, minted, flows, ledger, files, clicker, fault>>
      /\ submitter[s].pc = "send"
      /\ submitter' = [submitter EXCEPT ![s] = Idle]
  BY DEF ArtifactsInv, Delivered, Undelivered, AtPc, hostVars
<1>1. PayloadInv' /\ FlowInv' /\ LedgerInv' /\ fault' \in Fault
  BY <1>0, Untouched
<1>2. /\ submitter[s] \in Submission
      /\ submitter[s].id \in Ids
      /\ submitter[s].file \in 0..MaxSuffix
  BY <1>0 DEF FileInv, Submission, SubmitterState
<1>3. submitter' \in [Submitters -> Submission] /\ PlansWritten'
  <2>1. Idle \in Submission /\ Idle.pc = "idle"
    BY SuffixAssumption DEF Idle, Submission, SubmitterState, NoFile, NoId
  <2> QED
    BY <1>0, <2>1, OneSubmitterMoves, FilesUntouched
<1>4. \A o \in Submitters : o # s => submitter'[o] = submitter[o]
  BY <1>0 DEF FileInv
<1>5. CASE Delivered(s)
  <2> DEFINE card == [id |-> submitter[s].id, file |-> submitter[s].file, buttons |-> TRUE]
  <2>1. /\ card \in [id : Ids, file : 0..MaxSuffix, buttons : BOOLEAN]
        /\ card.id = submitter[s].id
        /\ card.file = submitter[s].file
    BY <1>2
  <2>2. cards' = cards \cup {card} /\ tokens' = tokens
    BY <1>5 DEF Delivered
  <2> HIDE DEF card
  <2>3. CardsShowTheirPlan'
    BY <1>0, <2>1, <2>2 DEF FileInv, CardsShowTheirPlan, PlansWritten
  <2>4. FileInv'
    BY <1>0, <1>3, <2>1, <2>2, <2>3 DEF FileInv
  <2>5. ASSUME NEW b \in tokens'
        PROVE  \/ \E shown \in cards' : shown.id = b.id
               \/ \E o \in Submitters : submitter'[o].pc = "send" /\ submitter'[o].id = b.id
    BY <1>0, <1>4, <2>1, <2>2 DEF TokenInv, TokensHaveCards, OnScreen, AtPc
  <2>6. TokenInv'
    BY <1>0, <2>2, <2>5 DEF TokenInv, TokensHaveCards, OnScreen, AtPc
  <2> QED
    BY <1>1, <2>4, <2>6 DEF ArtifactsInv
<1>6. CASE Undelivered(s)
  <2>1. cards' = cards /\ tokens' = tokens \ ButtonsOf(submitter[s].id)
    BY <1>6 DEF Undelivered, hostVars
  <2>2. FileInv'
    BY <1>0, <1>3, <2>1 DEF FileInv, CardsShowTheirPlan
  <2>3. ASSUME NEW b \in tokens'
        PROVE  \/ \E shown \in cards' : shown.id = b.id
               \/ \E o \in Submitters : submitter'[o].pc = "send" /\ submitter'[o].id = b.id
    <3>1. b \in tokens /\ b.id # submitter[s].id
      BY <1>0, <1>2, <2>1, ButtonsInType DEF TokenInv
    <3> QED
      BY <1>0, <1>4, <2>1, <3>1 DEF TokenInv, TokensHaveCards, OnScreen, AtPc
  <2>4. TokenInv'
    BY <1>0, <2>1, <2>3 DEF TokenInv, TokensHaveCards, OnScreen, AtPc
  <2> QED
    BY <1>1, <2>2, <2>4 DEF ArtifactsInv
<1> QED
  BY <1>5, <1>6

(* What every click on a card does to the screen and to the tokens.        *)
LEMMA ClickedKeeps ==
  ASSUME ArtifactsInv, UNCHANGED <<files, submitter>>, tokens' \subseteq tokens,
         UNCHANGED cards \/ \E b : ClearButtons(b),
         clicker' \in [Clickers -> Button \cup {NoButton}]
  PROVE  FileInv' /\ TokenInv'
<1>0. FileInv /\ TokenInv
  BY DEF ArtifactsInv
<1>1. /\ cards' \subseteq [id : Ids, file : 0..MaxSuffix, buttons : BOOLEAN]
      /\ CardsFollow
      /\ \A card \in cards : \E now \in cards' : now.id = card.id
  <2>1. CASE UNCHANGED cards
    BY <1>0, <2>1 DEF FileInv, CardsFollow
  <2>2. CASE \E b : ClearButtons(b)
    BY <1>0, <2>2, ClearedCards
  <2> QED
    BY <2>1, <2>2
<1>2. CardsShowTheirPlan'
  BY <1>0, <1>1, FilesUntouched, CardsStay
<1>3. submitter' \in [Submitters -> Submission] /\ PlansWritten'
  BY <1>0, FilesUntouched, SubmitterUntouched
<1>4. FileInv'
  BY <1>0, <1>1, <1>2, <1>3, FilesUntouched DEF FileInv
<1>5. TokenInv'
  BY <1>0, <1>1, TokensStay DEF TokenInv
<1> QED
  BY <1>4, <1>5

LEMMA ClickKeeps ==
  ASSUME ArtifactsInv, NEW c \in Clickers,
         (\E b \in Button : Click(c, b) \/ ClickDead(c, b)) \/ DispatchFails(c)
  PROVE  ArtifactsInv'
<1>1. /\ UNCHANGED <<session, minted, flows, ledger, files, submitter, fault>>
      /\ tokens' \subseteq tokens
      /\ UNCHANGED cards \/ \E b : ClearButtons(b)
      /\ clicker' \in [Clickers -> Button \cup {NoButton}]
  <2>1. clicker \in [Clickers -> Button \cup {NoButton}]
    BY DEF ArtifactsInv, TokenInv
  <2> QED
    BY <2>1 DEF Click, ClickDead, DispatchFails, taskVars
<1> QED
  BY <1>1, Untouched, ClickedKeeps DEF ArtifactsInv

LEMMA ActionMoves ==
  ASSUME PayloadInv, NEW b \in Button, ActionOf(b), minted' = minted
  PROVE  Step /\ Moves
<1>1. b.id \in Tokens
  BY DEF Button, Tokens, Ids
<1>2. ASSUME NEW action \in ApprovalAction, NEW fb \in Feedback \cup {NoFeedback},
             ApplyApprovalAction(action, fb, b.id)
      PROVE  Step /\ Moves
  BY <1>1, <1>2, ApplyMoves DEF Step
<1>3. CASE ExitPlanMode(b.id)
  BY <1>1, <1>3, ExitMoves DEF Step
<1> QED
  BY <1>2, <1>3 DEF ActionOf, TokenOf, ApprovalAction

LEMMA DispatchKeeps ==
  ASSUME ArtifactsInv, NEW c \in Clickers, DispatchClick(c)
  PROVE  ArtifactsInv'
<1>1. clicker[c] \in Button /\ ActionOf(clicker[c]) /\ minted' = minted /\ files' = files
  BY DEF DispatchClick, ArtifactsInv, TokenInv
<1>2. Step /\ Moves
  BY <1>1, ActionMoves DEF ArtifactsInv
<1>3. PayloadInv' /\ FlowInv' /\ LedgerInv' /\ fault' \in Fault
  BY <1>1, <1>2, WriteKeepsFollowers DEF DispatchClick
<1>4. CASE /\ ClearButtons(clicker[c])
           /\ clicker' = [clicker EXCEPT ![c] = NoButton]
           /\ UNCHANGED <<submitter, tokens>>
  <2>1. clicker' \in [Clickers -> Button \cup {NoButton}]
    BY <1>4 DEF ArtifactsInv, TokenInv
  <2>2. FileInv' /\ TokenInv'
    BY <1>1, <1>4, <2>1, ClickedKeeps
  <2> QED
    BY <1>3, <2>2 DEF ArtifactsInv
<1>5. CASE Unheard /\ UNCHANGED cards
  BY <1>1, <1>3, <1>5, StoppedKeepsRest DEF Unheard, ArtifactsInv
<1> QED
  BY <1>4, <1>5 DEF DispatchClick

LEMMA RestartKeeps == ArtifactsInv /\ Restart => ArtifactsInv'
<1> SUFFICES ASSUME ArtifactsInv, Restart PROVE ArtifactsInv'
  OBVIOUS
<1>1. /\ UNCHANGED <<session, minted, flows, files, cards>>
      /\ Stopped /\ fault = "none" /\ fault' = "restarted"
  BY DEF Restart, hostVars, Stopped, HappensOnce
<1>2. PayloadInv'
  BY <1>1 DEF ArtifactsInv, PayloadInv, TypeOK, Coherent
<1>3. FlowInv' /\ LedgerInv'
  BY <1>1, FlowsUntouched, StoppedKeepsLedger DEF ArtifactsInv
<1>4. FileInv' /\ TokenInv'
  BY <1>1, StoppedKeepsRest
<1> QED
  BY <1>1, <1>2, <1>3, <1>4 DEF ArtifactsInv, Fault
LEMMA ArtifactsInitInv == ArtifactsInit => ArtifactsInv
<1> SUFFICES ASSUME ArtifactsInit PROVE ArtifactsInv
  OBVIOUS
<1> USE DEF ArtifactsInit, Init
<1>1. PayloadInv
  BY DEF PayloadInv, TypeOK, SessionPayload, Coherent
<1>2. FlowInv
  <2>1. flows \in Seq(Flow) /\ DOMAIN flows = {}
    OBVIOUS
  <2>2. ActiveFlows = {}
    BY <2>1 DEF ActiveFlows
  <2> QED
    BY <2>1, <2>2 DEF FlowInv, FlowsKnown, FinishedIsOver, NoFlowYet, FlowFollowsCycle,
                      OneLiveFlow
<1>3. LedgerInv
  BY DEF LedgerInv, LedgerTracksPending
<1>4. FileInv
  <2>1. Idle \in Submission /\ Idle.pc = "idle"
    BY SuffixAssumption DEF Idle, Submission, SubmitterState, NoFile, NoId
  <2> QED
    BY <2>1 DEF FileInv, PlansWritten, CardsShowTheirPlan
<1>5. TokenInv
  BY DEF TokenInv, TokensHaveCards
<1> QED
  BY <1>1, <1>2, <1>3, <1>4, <1>5 DEF ArtifactsInv, Fault

LEMMA ArtifactsStepInv == ArtifactsInv /\ [ArtifactsNext]_vars => ArtifactsInv'
<1> SUFFICES ASSUME ArtifactsInv, [ArtifactsNext]_vars PROVE ArtifactsInv'
  OBVIOUS
<1>1. CASE StoreCall
  BY <1>1, StoreCallKeeps
<1>2. ASSUME NEW s \in Submitters, NEW p \in Plans, Submit(s, p) PROVE ArtifactsInv'
  BY <1>2, SubmitKeeps
<1>3. ASSUME NEW s \in Submitters, WriteFile(s) \/ WriteFails(s) PROVE ArtifactsInv'
  BY <1>3, WritingKeeps
<1>4. ASSUME NEW s \in Submitters, Notify(s) PROVE ArtifactsInv'
  BY <1>4, NotifyKeeps
<1>5. ASSUME NEW s \in Submitters, Delivered(s) \/ Undelivered(s) PROVE ArtifactsInv'
  BY <1>5, SendingKeeps
<1>6. ASSUME NEW c \in Clickers, NEW b \in Button, Click(c, b) \/ ClickDead(c, b)
      PROVE  ArtifactsInv'
  BY <1>6, ClickKeeps
<1>7. ASSUME NEW c \in Clickers, DispatchFails(c) PROVE ArtifactsInv'
  BY <1>7, ClickKeeps
<1>8. ASSUME NEW c \in Clickers, DispatchClick(c) PROVE ArtifactsInv'
  BY <1>8, DispatchKeeps
<1>9. CASE Restart
  BY <1>9, RestartKeeps
<1>10. CASE UNCHANGED vars
  <2>1. UNCHANGED <<session, minted, flows, ledger, files, submitter, tokens, cards,
                    clicker, fault>>
    BY <1>10 DEF vars
  <2>2. FileInv' /\ TokenInv'
    BY <2>1, ClickedKeeps DEF ArtifactsInv, TokenInv
  <2> QED
    BY <2>1, <2>2, Untouched DEF ArtifactsInv
<1> QED
  BY <1>1, <1>2, <1>3, <1>4, <1>5, <1>6, <1>7, <1>8, <1>9, <1>10 DEF ArtifactsNext

(* The invariant holds whatever calls, clicks, writers and stops interleave. *)
THEOREM ArtifactsInvariant == ArtifactsSpec => []ArtifactsInv
  BY ArtifactsInitInv, ArtifactsStepInv, PTL DEF ArtifactsSpec

(* Every part of the state keeps its type: among the rest, a submission     *)
(* never asks for a file name beyond MAX_COLLISION_SUFFIX, and no click is  *)
(* in flight that no card could have sent.                                  *)
THEOREM ArtifactsTypeCorrect == ArtifactsSpec => []ArtifactsTypeOK
  BY ArtifactsInvariant, InvTypeOK, PTL

(* recordTransition, whatever the order of submissions, verdicts, returns   *)
(* and sidebar calls: while no event is lost and no host call refused, an   *)
(* open cycle has exactly one unfinished flow, under its id and at its      *)
(* step, and a cycle that is over has none.                                 *)
THEOREM FlowsFollow == ArtifactsSpec => []FlowFollowsCycle
<1>1. ArtifactsInv => FlowFollowsCycle
  BY DEF ArtifactsInv, FlowInv
<1> QED
  BY <1>1, ArtifactsInvariant, PTL

(* Whichever event is lost with the process, the next cycle takes over the  *)
(* session's unfinished flow: unless the host refuses, they never pile up.  *)
THEOREM OneFlow == ArtifactsSpec => []OneLiveFlow
<1>1. ArtifactsInv => OneLiveFlow
  BY DEF ArtifactsInv, FlowInv
<1> QED
  BY <1>1, ArtifactsInvariant, PTL

(* GrantLedger.record and prune: the ledger knows the pending cycle unless  *)
(* the process was restarted, and never one that was given a verdict.       *)
THEOREM LedgerTracks == ArtifactsSpec => []LedgerTracksPending
<1>1. ArtifactsInv => LedgerTracksPending
  BY DEF ArtifactsInv, LedgerInv
<1> QED
  BY <1>1, ArtifactsInvariant, PTL

(* persistPlanArchetypeMarkdown and the card that attaches its file: for    *)
(* any number of submissions on one name, any foreign files and any number  *)
(* of suffixes, a card attaches the plan it asks about, for ever.           *)
THEOREM CardsShow == ArtifactsSpec => []CardsShowTheirPlan
<1>1. ArtifactsInv => CardsShowTheirPlan
  BY DEF ArtifactsInv, FileInv
<1> QED
  BY <1>1, ArtifactsInvariant, PTL

(* plan-notifications.ts: a token that can be redeemed belongs to a card on *)
(* the screen or on its way there.                                          *)
THEOREM TokensCarded == ArtifactsSpec => []TokensHaveCards
<1>1. ArtifactsInv => TokensHaveCards
  BY DEF ArtifactsInv, TokenInv
<1> QED
  BY <1>1, ArtifactsInvariant, PTL

(* No step writes a file that is there: the exclusive create.               *)
THEOREM NoPlanOverwritten == ArtifactsSpec => PlansNeverOverwritten
<1>1. ArtifactsInv /\ [ArtifactsNext]_vars =>
         [\A n \in 1..MaxSuffix : files[n] # Free => files'[n] = files[n]]_files
  <2> SUFFICES ASSUME ArtifactsInv, ArtifactsNext, files' # files PROVE FilesGrow
    BY DEF FilesGrow, vars
  <2>1. PICK s \in Submitters : WriteFile(s) \/ WriteFails(s)
    BY DEF ArtifactsNext, StoreCall, Submit, Notify, Delivered, Undelivered, Click,
           ClickDead, DispatchClick, DispatchFails, Restart, hostVars
  <2> QED
    BY <2>1, WritingGrows DEF ArtifactsInv
<1> QED
  BY <1>1, ArtifactsInvariant, PTL DEF ArtifactsSpec, PlansNeverOverwritten

(* The card's id goes along as version token and is compared at the write,  *)
(* so a click decides the cycle of its card, or nothing.                    *)
THEOREM ClicksDecideTheirCycle == ArtifactsSpec => ClickDecidesItsCycle
<1>1. ArtifactsInv /\ [ArtifactsNext]_vars =>
         [\A c \in Clickers : DispatchClick(c) => session.approvalId = clicker[c].id]_vars
  <2> SUFFICES ASSUME ArtifactsInv, NEW c \in Clickers, DispatchClick(c)
               PROVE  session.approvalId = clicker[c].id
    OBVIOUS
  <2>1. ActionOf(clicker[c]) /\ clicker[c] \in Button
    BY DEF DispatchClick, ArtifactsInv, TokenInv
  <2>2. clicker[c].id # NoId
    BY <2>1, IdsAreNoMarkers DEF Button
  <2>3. TokenFits(session, clicker[c].id)
    BY <2>1 DEF ActionOf, TokenOf, ApplyApprovalAction, Decidable, ExitPlanMode, MayExit
  <2> QED
    BY <2>2, <2>3 DEF TokenFits
<1> QED
  BY <1>1, ArtifactsInvariant, PTL DEF ArtifactsSpec, ClickDecidesItsCycle

(* The calls around the store write the payload only through its mutators:  *)
(* with submissions, clicks and stops, the session still behaves as         *)
(* PlanModeStore promises.                                                  *)
THEOREM ArtifactsImplementStore == ArtifactsSpec => Promise
<1>1. ArtifactsInit => Init
  BY DEF ArtifactsInit
<1>2. ArtifactsInv /\ [ArtifactsNext]_vars => [Step]_session
  <2> SUFFICES ASSUME ArtifactsInv, ArtifactsNext, session' # session PROVE Step
    BY DEF vars
  <2>1. CASE StoreCall
    BY <2>1, ElsewhereIsStep DEF StoreCall
  <2>2. ASSUME NEW s \in Submitters, NEW p \in Plans, Submit(s, p) PROVE Step
    BY <2>2 DEF Submit, Ids, Step
  <2>3. ASSUME NEW c \in Clickers, DispatchClick(c) PROVE Step
    <3>1. clicker[c] \in Button /\ ActionOf(clicker[c]) /\ minted' = minted
      BY <2>3 DEF DispatchClick, ArtifactsInv, TokenInv
    <3> QED
      BY <3>1, ActionMoves DEF ArtifactsInv
  <2> QED
    BY <2>1, <2>2, <2>3
    DEF ArtifactsNext, WriteFile, WriteFails, Notify, Delivered, Undelivered, Click,
        ClickDead, DispatchFails, Restart
<1> QED
  BY <1>1, <1>2, ArtifactsInvariant, PTL DEF ArtifactsSpec, Promise
(* So the payload stays coherent, whoever calls the store.                  *)
THEOREM ArtifactsCoherent == ArtifactsSpec => []Coherent
<1>1. ArtifactsInv => Coherent
  BY DEF ArtifactsInv, PayloadInv
<1> QED
  BY <1>1, ArtifactsInvariant, PTL

(* And a cycle decided on the sidebar, by the trigger or by a button is     *)
(* given no other verdict by a click that comes late.                       *)
THEOREM ArtifactsSettle == ArtifactsSpec => SettledStaysSettled
<1>1. ArtifactsInv => TypeOK
  BY DEF ArtifactsInv, PayloadInv
<1> QED
  BY <1>1, StepSettled, ArtifactsInvariant, ArtifactsImplementStore, PTL
  DEF Promise, SettledStaysSettled
=============================================================================
