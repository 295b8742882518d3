------------------------- MODULE PlanApprovalProofs -------------------------
(***************************************************************************)
(* The approval cycle, for any number of handlers, plans, cycles and       *)
(* queued injections, and any payload hash.                                *)
(***************************************************************************)
EXTENDS PlanApproval, PlanModeStateLemmas

USE PlanAssumption, FeedbackAssumption, AbsentAssumption, BoundsAssumption

(* A handler that is not running has well-typed locals.                    *)
LEMMA IdleType == Idle \in HandlerState
BY DEF Idle, HandlerState, NoId

(* The resolver's action of a handler's operation, and the verdict of its  *)
(* injection, are ones the resolver and the prompt builder know.           *)
LEMMA OpTypes ==
    ASSUME NEW op \in DecisionOps \cup {"auto"}
    PROVE  /\ ActionOf(op) \in ApprovalAction
           /\ DecisionOf(op) \in {"approved", "edited", "rejected"}
BY DEF DecisionOps, ActionOf, DecisionOf, ApprovalAction

(* The payload a store call writes keeps the types of session and armed.   *)
LEMMA WriteType ==
    ASSUME TypeOK, NEW s \in SessionState, Write(s)
    PROVE  session' \in SessionPayload /\ armed' \subseteq Nat
<1>1. s.approvalId \in Nat
    BY DEF SessionState
<1> QED
    BY <1>1 DEF TypeOK, Write, SessionPayload

(* Moving one handler on, or ending it, keeps the type of handler.         *)
LEMMA GotoType ==
    ASSUME TypeOK, NEW h \in Handlers,
           NEW pc \in {"idle", "fire", "read", "record", "enqueue"}, Goto(h, pc)
    PROVE  handler' \in [Handlers -> HandlerState]
<1>1. [handler[h] EXCEPT !.pc = pc] \in HandlerState
    BY DEF TypeOK, HandlerState
<1> QED
    BY <1>1 DEF TypeOK, Goto

(* A handler that finishes keeps the type of handler.                     *)
LEMMA FinishType ==
    ASSUME TypeOK, NEW h \in Handlers, Finish(h)
    PROVE  handler' \in [Handlers -> HandlerState]
BY IdleType DEF TypeOK, Finish

(* exit_plan_mode starts a well-typed trigger.                             *)
LEMMA FireType ==
    ASSUME TypeOK, NEW h \in Handlers, NEW id \in Nat, NEW p \in Plans,
           Fire(h, id, p)
    PROVE  handler' \in [Handlers -> HandlerState]
<1>1. [Idle EXCEPT !.pc = "fire", !.token = id, !.id = id, !.plan = p]
        \in HandlerState
    BY IdleType DEF HandlerState
<1> QED
    BY <1>1 DEF TypeOK, Fire

(* Typing is preserved by every step.                                      *)
LEMMA NextType == TypeOK /\ [Next]_vars => TypeOK'
<1> SUFFICES ASSUME TypeOK, [Next]_vars PROVE TypeOK'
    OBVIOUS
<1> USE DEF TypeOK
<1>1. CASE EnterPlanMode
    BY <1>1, EnteredFields, WriteType DEF EnterPlanMode
<1>2. CASE CancelPlan
    BY <1>2, FreshType, WriteType DEF CancelPlan, Exited
<1>3. ASSUME NEW flag \in {"on", "off"}, ToggleAuto(flag)
      PROVE  TypeOK'
    BY <1>3, AutoApproveSetFields, WriteType DEF ToggleAuto
<1>4. ASSUME NEW h \in Handlers, NEW p \in Plans, SubmitPlan(h, p)
      PROVE  TypeOK'
    <2>1. session \in SessionState
        BY <1>4, PresentType DEF SubmitPlan, InPlanMode
    <2>2. Len(submissions) + 1 \in Nat
        OBVIOUS
    <2>3. submissions' \in Seq(Plans) /\ queue' = queue /\ approved' = approved
        BY <1>4 DEF SubmitPlan
    <2>4. handler' \in [Handlers -> HandlerState]
        BY <1>4, <2>2, FireType DEF SubmitPlan
    <2> QED
        BY <1>4, <2>1, <2>2, <2>3, <2>4, ApprovalRequestedFields, WriteType
        DEF SubmitPlan
<1>5. ASSUME NEW h \in Handlers, NEW p \in Plans, ResubmitPlan(h, p)
      PROVE  TypeOK'
    <2>1. session.approvalId \in Nat
        BY <1>5, PresentType DEF ResubmitPlan, InPlanMode, SessionState
    <2>2. handler' \in [Handlers -> HandlerState]
        BY <1>5, <2>1, FireType DEF ResubmitPlan
    <2> QED
        BY <1>5, <2>2 DEF ResubmitPlan
<1>6. ASSUME NEW h \in Handlers, NEW op \in DecisionOps,
             NEW token \in Ids \cup {NoId},
             NEW fb \in Feedback \cup {NoFeedback},
             Check(h, op, token, fb)
      PROVE  TypeOK'
    <2>1. session.approvalId \in Nat
        BY <1>6, PresentType DEF Check, InPlanMode, SessionState
    <2>2. token \in Nat
        BY DEF Ids, NoId
    <2>3. [ pc       |-> IF op = "reject" THEN "record" ELSE "read",
            op       |-> op,
            token    |-> token,
            id       |-> session.approvalId,
            plan     |-> NoPlan,
            feedback |-> fb ] \in HandlerState
        BY <2>1, <2>2 DEF HandlerState, DecisionOps
    <2> QED
        BY <1>6, <2>3 DEF Check
<1>7. ASSUME NEW h \in Handlers, Proceed(h)
      PROVE  TypeOK'
    <2>1. CASE ReadSteps(h)
        <3>1. OrFresh(session).plan \in Plans \cup {NoPlan}
            BY OrFreshType DEF SessionState
        <3>2. [handler[h] EXCEPT !.pc = "record", !.plan = OrFresh(session).plan]
                \in HandlerState
            BY <3>1 DEF HandlerState
        <3> QED
            BY <2>1, <3>2 DEF ReadSteps
    <2>2. CASE FireAutoApprove(h)
        BY <2>2, GotoType, FinishType DEF FireAutoApprove
    <2>3. CASE Record(h)
        <3>1. /\ session \in SessionState
              /\ ActionOf(handler[h].op) \in ApprovalAction
              /\ handler[h].feedback \in Feedback \cup {NoFeedback}
            BY <2>3, PresentType, OpTypes
            DEF Record, Decidable, InPlanMode, HandlerState
        <3>2. session' \in SessionPayload /\ armed' \subseteq Nat
            BY <2>3, <3>1, ResolvedFields, WriteType DEF Record
        <3>3. approved' \subseteq Nat
            <4>1. session.approvalId \in Nat
                BY <3>1 DEF SessionState
            <4> QED
                BY <2>3, <4>1 DEF Record
        <3>4. handler' \in [Handlers -> HandlerState]
            BY <2>3, GotoType DEF Record
        <3> QED
            BY <2>3, <3>2, <3>3, <3>4 DEF Record
    <2>4. CASE RecordSkipped(h)
        BY <2>4, FinishType DEF RecordSkipped
    <2>5. CASE Enqueue(h)
        <3>1. handler' \in [Handlers -> HandlerState]
            BY <2>5, FinishType DEF Enqueue
        <3>2. queue' \in Seq(PlanDecision)
            <4>1. PICK plan \in {handler[h].plan, NoPlan} :
                     \/ queue' = queue
                     \/ queue' = Append(queue,
                           [ id       |-> handler[h].id,
                             decision |-> DecisionOf(handler[h].op),
                             plan     |-> plan,
                             feedback |-> handler[h].feedback,
                             checked  |-> handler[h].token # NoId ])
                BY <2>5 DEF Enqueue
            <4>2. [ id       |-> handler[h].id,
                    decision |-> DecisionOf(handler[h].op),
                    plan     |-> plan,
                    feedback |-> handler[h].feedback,
                    checked  |-> handler[h].token # NoId ] \in PlanDecision
                BY OpTypes DEF PlanDecision, HandlerState
            <4> QED
                BY <4>1, <4>2
        <3> QED
            BY <2>5, <3>1, <3>2 DEF Enqueue
    <2> QED
        BY <1>7, <2>1, <2>2, <2>3, <2>4, <2>5 DEF Proceed
<1>8. ASSUME NEW h \in Handlers, AwaitFails(h)
      PROVE  TypeOK'
    BY <1>8, FinishType DEF AwaitFails
<1>9. CASE Drain
    BY <1>9 DEF Drain
<1>10. CASE Restart
    BY <1>10, IdleType DEF Restart
<1>11. CASE UNCHANGED vars
    BY <1>11 DEF vars
<1> QED
    BY <1>1, <1>2, <1>3, <1>4, <1>5, <1>6, <1>7, <1>8, <1>9, <1>10, <1>11 DEF Next

(* The payload, the handlers' locals and the injections keep their types,   *)
(* whatever the handlers interleave with.                                   *)
THEOREM TypeCorrect == Spec => []TypeOK
<1>1. Init => TypeOK
    BY IdleType DEF Init, TypeOK, SessionPayload
<1> QED
    BY <1>1, NextType, PTL DEF Spec

----------------------------------------------------------------------------
(* The inductive invariant.  An open approval was never accepted, and the   *)
(* payload quotes the plan its id was minted for; a handler with a token    *)
(* announces the token's id; the steps it read fit that id unless the       *)
(* session has moved on, and then its record will be refused.               *)
SubmissionsSound ==
    /\ Len(submissions) <= MaxSubmissions
    /\ approved \subseteq Ids

SessionSound ==
    session # Absent =>
        /\ session.approvalId \in Ids \cup {NoId}
        /\ session.approvalId # NoId =>
               session.plan = submissions[session.approvalId]
        /\ OpenForDecision(session) =>
               /\ session.approvalId # NoId
               /\ session.approvalId \notin approved
        /\ PendingOn(session) => session.approvalId \in armed

TokenSound(h) ==
    handler[h].pc # "idle" /\ handler[h].token # NoId =>
        /\ handler[h].id = handler[h].token
        /\ handler[h].id \in Ids

TriggerSound(h) ==
    /\ handler[h].pc = "fire" => handler[h].op = "auto"
    /\ handler[h].pc = "read" => handler[h].op \in {"accept", "edit"}
    /\ handler[h].pc # "idle" /\ handler[h].op = "auto" =>
           /\ handler[h].token # NoId
           /\ SamePayload(handler[h].plan, handler[h].id)
    /\ handler[h].pc = "record" /\ handler[h].op = "auto" =>
           handler[h].id \in armed

StepsSound(h) ==
    /\ handler[h].token # NoId
    /\ handler[h].op \in {"accept", "edit"}
    /\ handler[h].pc = "record"
    /\ session # Absent
    /\ session.approvalId = handler[h].id
    => SamePayload(handler[h].plan, handler[h].id)

VerdictSound(h) ==
    /\ handler[h].token # NoId
    /\ handler[h].op # "reject"
    /\ handler[h].pc = "enqueue"
    => /\ handler[h].id \in approved
       /\ SamePayload(handler[h].plan, handler[h].id)

HandlerSound(h) ==
    TokenSound(h) /\ TriggerSound(h) /\ StepsSound(h) /\ VerdictSound(h)

IInv ==
    /\ SubmissionsSound
    /\ SessionSound
    /\ \A h \in Handlers : HandlerSound(h)
    /\ DecisionCarriesItsPlan

(* What every step respects: plans, acceptances and armed ids only          *)
(* accumulate, and the payload never goes back to an id minted before.      *)
Grows ==
    /\ submissions' = submissions
           \/ \E p \in Plans : submissions' = Append(submissions, p)
    /\ approved \subseteq approved'
    /\ armed \subseteq armed'
    /\ session' # Absent /\ session'.approvalId \in Ids =>
           /\ session # Absent
           /\ session'.approvalId = session.approvalId

(* The plan stored under an id stays.                                       *)
LEMMA SamePayloadStable ==
    ASSUME TypeOK, Grows, NEW p, NEW id, SamePayload(p, id)
    PROVE  /\ id \in Ids'
           /\ p \in Plans
           /\ HashOf[p] = HashOf[submissions'[id]]
<1>1. CASE submissions' = submissions
    BY <1>1 DEF SamePayload, Ids
<1>2. ASSUME NEW q \in Plans, submissions' = Append(submissions, q)
      PROVE  /\ id \in Ids'
             /\ p \in Plans
             /\ HashOf[p] = HashOf[submissions'[id]]
    <2>1. /\ Len(submissions') = Len(submissions) + 1
          /\ submissions'[id] = submissions[id]
        BY <1>2 DEF TypeOK, SamePayload, Ids
    <2> QED
        BY <2>1 DEF TypeOK, SamePayload, Ids
<1> QED
    BY <1>1, <1>2 DEF Grows

(* No id is ever forgotten.                                                 *)
LEMMA IdsStable ==
    ASSUME TypeOK, Grows
    PROVE  Ids \subseteq Ids'
<1>1. CASE submissions' = submissions
    BY <1>1 DEF Ids
<1>2. ASSUME NEW q \in Plans, submissions' = Append(submissions, q)
      PROVE  Ids \subseteq Ids'
    <2>1. Len(submissions') = Len(submissions) + 1 /\ Len(submissions) \in Nat
        BY <1>2 DEF TypeOK
    <2> QED
        BY <2>1 DEF Ids
<1> QED
    BY <1>1, <1>2 DEF Grows

(* A step that leaves a handler's locals alone leaves it sound.             *)
LEMMA HandlerFrame ==
    ASSUME TypeOK, Grows, NEW h \in Handlers, HandlerSound(h),
           handler'[h] = handler[h]
    PROVE  HandlerSound(h)'
<1>1. TokenSound(h)'
    BY IdsStable DEF HandlerSound, TokenSound
<1>2. SamePayload(handler[h].plan, handler[h].id)
        => SamePayload(handler[h].plan, handler[h].id)'
    BY SamePayloadStable DEF SamePayload
<1>3. TriggerSound(h)'
    BY <1>2 DEF HandlerSound, TriggerSound, Grows
<1>4. StepsSound(h)'
    BY <1>2 DEF HandlerSound, TokenSound, StepsSound, Grows
<1>5. VerdictSound(h)'
    BY <1>2 DEF HandlerSound, VerdictSound, Grows
<1> QED
    BY <1>1, <1>3, <1>4, <1>5 DEF HandlerSound

(* A handler that ends is sound.                                            *)
LEMMA IdleSound ==
    ASSUME NEW h \in Handlers, handler'[h] = Idle
    PROVE  HandlerSound(h)'
BY DEF Idle, HandlerSound, TokenSound, TriggerSound, StepsSound, VerdictSound

(* A step that leaves the queue alone leaves its decisions sound.           *)
LEMMA QueueFrame ==
    ASSUME TypeOK, Grows, DecisionCarriesItsPlan, queue' = queue
    PROVE  DecisionCarriesItsPlan'
<1> SUFFICES ASSUME NEW i \in 1 .. Len(queue), queue[i].checked
             PROVE  CarriesItsPlan(queue[i])'
    BY DEF DecisionCarriesItsPlan
<1>1. CarriesItsPlan(queue[i])
    BY DEF DecisionCarriesItsPlan
<1>2. SamePayload(queue[i].plan, queue[i].id)
        => SamePayload(queue[i].plan, queue[i].id)'
    BY SamePayloadStable DEF SamePayload
<1> QED
    BY <1>1, <1>2 DEF CarriesItsPlan, Grows

----------------------------------------------------------------------------
(* One lemma per kind of step: what it does to the invariant.               *)

(* A step that writes neither payload nor plans, and whose one handler      *)
(* ends up sound, keeps everything but the queue's decisions.               *)
LEMMA LocalStep ==
    ASSUME TypeOK, IInv, NEW h \in Handlers,
           UNCHANGED <<session, submissions, approved, armed>>,
           \A g \in Handlers \ {h} : handler'[g] = handler[g],
           HandlerSound(h)',
           queue' = queue
    PROVE  IInv'
<1>1. Grows
    BY DEF Grows
<1>2. SubmissionsSound'
    BY DEF IInv, SubmissionsSound, Ids
<1>3. SessionSound'
    BY DEF IInv, SessionSound, Ids
<1>4. \A g \in Handlers : HandlerSound(g)'
    BY <1>1, HandlerFrame DEF IInv
<1>5. DecisionCarriesItsPlan'
    BY <1>1, QueueFrame DEF IInv
<1> QED
    BY <1>2, <1>3, <1>4, <1>5 DEF IInv

(* enter_plan_mode, plan.cancel and plan.auto.toggle: the payload moves,    *)
(* under the same id or to none, and only closes or arms.                   *)
LEMMA SoloStep ==
    ASSUME TypeOK, IInv, NEW s \in SessionState, Write(s),
           UNCHANGED <<submissions, handler, queue, approved>>,
           s.approvalId \in {NoId, OrFresh(session).approvalId},
           s.approvalId # NoId => s.plan = OrFresh(session).plan,
           OpenForDecision(s) =>
               session # Absent /\ OpenForDecision(session)
               /\ s.approvalId = session.approvalId
    PROVE  IInv'
<1>1. session' = s /\ s # Absent
    BY DEF Write
<1>2. /\ OrFresh(session).approvalId # NoId => session # Absent
      /\ session # Absent => OrFresh(session) = session
    BY DEF OrFresh, FreshSession
<1>3. NoId \notin Ids
    BY DEF NoId, Ids
<1>4. Grows
    BY <1>1, <1>2, <1>3 DEF Grows, Write
<1>5. SubmissionsSound'
    BY DEF IInv, SubmissionsSound, Ids
<1>6. SessionSound'
    <2>1. s.approvalId \in Ids \cup {NoId}
        BY <1>2 DEF IInv, SessionSound
    <2>2. s.approvalId # NoId => s.plan = submissions[s.approvalId]
        BY <1>2 DEF IInv, SessionSound
    <2>3. OpenForDecision(s) => s.approvalId # NoId /\ s.approvalId \notin approved
        BY DEF IInv, SessionSound
    <2>4. PendingOn(s) => s.approvalId \in armed'
        BY DEF Write
    <2> QED
        BY <1>1, <2>1, <2>2, <2>3, <2>4 DEF SessionSound, Ids
<1>7. \A h \in Handlers : HandlerSound(h)'
    BY <1>4, HandlerFrame DEF IInv
<1>8. DecisionCarriesItsPlan'
    BY <1>4, QueueFrame DEF IInv
<1> QED
    BY <1>5, <1>6, <1>7, <1>8 DEF IInv

(* exit_plan_mode with a new plan: a fresh id, never accepted.              *)
LEMMA SubmitStep ==
    ASSUME TypeOK, IInv, NEW h \in Handlers, NEW p \in Plans, SubmitPlan(h, p)
    PROVE  IInv'
<1> DEFINE id == Len(submissions) + 1
           s  == ApprovalRequested(session, id, p)
<1>1. /\ id \in Nat /\ id # NoId /\ id \notin Ids
      /\ submissions' = Append(submissions, p)
      /\ Len(submissions') = id
      /\ submissions'[id] = p
      /\ id \in Ids'
    BY DEF SubmitPlan, TypeOK, Ids, NoId
<1>2. session # Absent /\ session \in SessionState
    BY PresentType DEF SubmitPlan, InPlanMode, TypeOK
<1>3. /\ s \in SessionState /\ s # Absent
      /\ s.approvalId = id /\ s.plan = p
    BY <1>1, <1>2, ApprovalRequestedFields
<1>4. session' = s /\ Write(s) /\ approved' = approved
    BY DEF SubmitPlan, Write
<1> HIDE DEF s, id
<1>5. Grows
    BY <1>1, <1>3, <1>4 DEF Grows, Write
<1>6. SubmissionsSound'
    BY <1>1, <1>4, <1>5, IdsStable
    DEF IInv, SubmissionsSound, SubmitPlan, TypeOK, id
<1>7. SessionSound'
    BY <1>1, <1>3, <1>4 DEF SessionSound, Write, IInv, SubmissionsSound
<1>8. HandlerSound(h)'
    <2>1. handler'[h] = [Idle EXCEPT !.pc = "fire", !.token = id, !.id = id,
                                     !.plan = p]
        BY DEF SubmitPlan, Fire, TypeOK, id
    <2>2. /\ handler'[h].pc = "fire" /\ handler'[h].op = "auto"
          /\ handler'[h].token = id /\ handler'[h].id = id
          /\ handler'[h].plan = p
        BY <2>1 DEF Idle
    <2>3. SamePayload(handler[h].plan, handler[h].id)'
        BY <1>1, <2>2 DEF SamePayload
    <2> QED
        BY <1>1, <2>2, <2>3
        DEF HandlerSound, TokenSound, TriggerSound, StepsSound, VerdictSound
<1>9. \A g \in Handlers : HandlerSound(g)'
    <2> SUFFICES ASSUME NEW g \in Handlers PROVE HandlerSound(g)'
        OBVIOUS
    <2>1. g # h => handler'[g] = handler[g]
        BY DEF SubmitPlan, Fire, TypeOK
    <2> QED
        BY <1>5, <1>8, <2>1, HandlerFrame DEF IInv
<1>10. DecisionCarriesItsPlan'
    BY <1>5, QueueFrame DEF IInv, SubmitPlan
<1> QED
    BY <1>6, <1>7, <1>9, <1>10 DEF IInv

(* exit_plan_mode with a duplicate: the pending id, whose plan hashes to    *)
(* the new call's.                                                          *)
LEMMA ResubmitStep ==
    ASSUME TypeOK, IInv, NEW h \in Handlers, NEW p \in Plans, ResubmitPlan(h, p)
    PROVE  IInv'
<1> DEFINE id == session.approvalId
<1>1. /\ session # Absent
      /\ id # NoId
      /\ HashOf[session.plan] = HashOf[p]
    BY DEF ResubmitPlan, ReusesApproval, InPlanMode
<1>2. id \in Ids /\ SamePayload(p, id)
    BY <1>1 DEF IInv, SessionSound, SamePayload
<1> HIDE DEF id
<1>3. handler'[h] = [Idle EXCEPT !.pc = "fire", !.token = id, !.id = id,
                                 !.plan = p]
    BY DEF ResubmitPlan, Fire, TypeOK, id
<1>4. /\ handler'[h].pc = "fire" /\ handler'[h].op = "auto"
      /\ handler'[h].token = id /\ handler'[h].id = id
      /\ handler'[h].plan = p
    BY <1>3 DEF Idle
<1>5. SamePayload(handler[h].plan, handler[h].id)' /\ handler'[h].id \in Ids'
    BY <1>2, <1>4 DEF SamePayload, ResubmitPlan, Ids
<1>6. HandlerSound(h)'
    BY <1>1, <1>4, <1>5
    DEF HandlerSound, TokenSound, TriggerSound, StepsSound, VerdictSound, id
<1>7. \A g \in Handlers \ {h} : handler'[g] = handler[g]
    BY DEF ResubmitPlan, Fire, TypeOK
<1> QED
    BY <1>6, <1>7, LocalStep DEF ResubmitPlan

(* checkApprovalId: a handler with a token takes the token's id.            *)
LEMMA CheckStep ==
    ASSUME TypeOK, IInv, NEW h \in Handlers, NEW op \in DecisionOps,
           NEW token \in Ids \cup {NoId},
           NEW fb \in Feedback \cup {NoFeedback},
           Check(h, op, token, fb)
    PROVE  IInv'
<1>1. /\ handler'[h].pc = IF op = "reject" THEN "record" ELSE "read"
      /\ handler'[h].op = op
      /\ handler'[h].token = token
      /\ handler'[h].id = session.approvalId
    BY DEF Check, TypeOK
<1>2. token # NoId => session.approvalId = token
    BY DEF Check, TokenFits
<1>3. HandlerSound(h)'
    BY <1>1, <1>2
    DEF Check, DecisionOps, HandlerSound, TokenSound, TriggerSound,
        StepsSound, VerdictSound, Ids
<1>4. \A g \in Handlers \ {h} : handler'[g] = handler[g]
    BY DEF Check, TypeOK
<1> QED
    BY <1>3, <1>4, LocalStep DEF Check

(* The second snapshot: the steps belong to the handler's id, or the        *)
(* session already has another id.                                          *)
LEMMA ReadStepsStep ==
    ASSUME TypeOK, IInv, NEW h \in Handlers, ReadSteps(h)
    PROVE  IInv'
<1>0. HandlerSound(h)
    BY DEF IInv
<1>1. handler'[h] = [handler[h] EXCEPT !.pc = "record",
                                       !.plan = OrFresh(session).plan]
    BY DEF ReadSteps, TypeOK
<1>2. /\ handler'[h].pc = "record"
      /\ handler'[h].op = handler[h].op
      /\ handler'[h].token = handler[h].token
      /\ handler'[h].id = handler[h].id
      /\ handler'[h].plan = OrFresh(session).plan
    BY <1>1 DEF TypeOK, HandlerState
<1>3. handler[h].op \in {"accept", "edit"} /\ handler[h].pc = "read"
    BY <1>0 DEF HandlerSound, TriggerSound, ReadSteps
<1>4. TokenSound(h)'
    BY <1>0, <1>2, <1>3 DEF HandlerSound, TokenSound, ReadSteps, Ids
<1>5. StepsSound(h)'
    <2> SUFFICES ASSUME handler[h].token # NoId,
                        session # Absent,
                        session.approvalId = handler[h].id
                 PROVE  SamePayload(session.plan, handler[h].id)'
        BY <1>2 DEF StepsSound, ReadSteps, OrFresh, SamePayload, Ids
    <2>1. handler[h].id \in Ids
        BY <1>0, <1>3 DEF HandlerSound, TokenSound
    <2>2. session.plan = submissions[handler[h].id]
        BY <2>1 DEF IInv, SessionSound, Ids, NoId
    <2>3. submissions[handler[h].id] \in Plans
        BY <2>1 DEF TypeOK, Ids
    <2> QED
        BY <1>2, <2>1, <2>2, <2>3 DEF SamePayload, ReadSteps, Ids
<1>6. HandlerSound(h)'
    BY <1>2, <1>3, <1>4, <1>5 DEF HandlerSound, TriggerSound, VerdictSound
<1>7. \A g \in Handlers \ {h} : handler'[g] = handler[g]
    BY DEF ReadSteps, TypeOK
<1> QED
    BY <1>6, <1>7, LocalStep DEF ReadSteps

(* fireAutoApproveIfEnabled goes on only with an armed id.                  *)
LEMMA FireStep ==
    ASSUME TypeOK, IInv, NEW h \in Handlers, FireAutoApprove(h)
    PROVE  IInv'
<1>0. HandlerSound(h) /\ handler[h].pc = "fire"
    BY DEF IInv, FireAutoApprove
<1>1. HandlerSound(h)'
    <2>1. CASE Finish(h)
        BY <2>1, IdleSound DEF Finish, TypeOK
    <2>2. CASE Goto(h, "record") /\ PendingOn(session)
                   /\ session.approvalId = handler[h].id
        <3>1. handler'[h] = [handler[h] EXCEPT !.pc = "record"]
            BY <2>2 DEF Goto, TypeOK
        <3>2. /\ handler'[h].pc = "record"
              /\ handler'[h].op = handler[h].op
              /\ handler'[h].token = handler[h].token
              /\ handler'[h].id = handler[h].id
              /\ handler'[h].plan = handler[h].plan
            BY <3>1 DEF TypeOK, HandlerState
        <3>3. handler[h].op = "auto"
            BY <1>0 DEF HandlerSound, TriggerSound
        <3>4. handler[h].id \in armed
            BY <2>2 DEF IInv, SessionSound, PendingOn
        <3>5. SamePayload(handler[h].plan, handler[h].id)'
            BY <1>0, <3>2, <3>3
            DEF HandlerSound, TriggerSound, SamePayload, FireAutoApprove, Ids
        <3> QED
            BY <1>0, <3>2, <3>3, <3>4, <3>5
            DEF HandlerSound, TokenSound, TriggerSound, StepsSound,
                VerdictSound, FireAutoApprove, Ids
    <2> QED
        BY <2>1, <2>2 DEF FireAutoApprove
<1>2. \A g \in Handlers \ {h} : handler'[g] = handler[g]
    BY DEF FireAutoApprove, Goto, Finish, TypeOK
<1> QED
    BY <1>1, <1>2, LocalStep DEF FireAutoApprove

(* What recordApproval and recordRejection find under the store's lock: an  *)
(* open approval under a minted id never accepted, and the token's if the   *)
(* handler has one.                                                         *)
LEMMA RecordGuard ==
    ASSUME TypeOK, IInv, NEW h \in Handlers, Record(h)
    PROVE  /\ session \in SessionState /\ session # Absent
           /\ ActionOf(handler[h].op) \in ApprovalAction
           /\ handler[h].feedback \in Feedback \cup {NoFeedback}
           /\ OpenForDecision(session)
           /\ session.approvalId \in Ids
           /\ session.approvalId \notin approved
           /\ handler[h].token # NoId =>
                  /\ session.approvalId = handler[h].token
                  /\ session.approvalId = handler[h].id
<1>1. /\ session # Absent
      /\ OpenForDecision(session)
      /\ handler[h].token # NoId => session.approvalId = handler[h].token
    BY DEF Record, Decidable, InPlanMode, TokenFits, ForwardedToken
<1>2. session \in SessionState
    BY <1>1, PresentType DEF TypeOK
<1>3. session.approvalId \in Ids /\ session.approvalId \notin approved
    BY <1>1 DEF IInv, SessionSound
<1>4. handler[h].token # NoId => handler[h].id = handler[h].token
    BY DEF IInv, HandlerSound, TokenSound, Record
<1> QED
    BY <1>1, <1>2, <1>3, <1>4, OpTypes DEF TypeOK, HandlerState

(* recordApproval and recordRejection: an acceptance closes the session's   *)
(* open id for good, and a handler with a token accepted its own.           *)
LEMMA RecordStep ==
    ASSUME TypeOK, IInv, NEW h \in Handlers, Record(h)
    PROVE  IInv'
<1> DEFINE action == ActionOf(handler[h].op)
           s == Resolved(session, action, handler[h].feedback)
<1>0. HandlerSound(h) /\ handler[h].pc = "record"
    BY DEF IInv, Record
<1>1. /\ s \in SessionState /\ s # Absent
      /\ s.approvalId = session.approvalId
      /\ s.plan = session.plan
      /\ action = "reject" => s.approval = "rejected"
      /\ action # "reject" => s.approval \in {"approved", "edited"}
    <2>1. action = "approve" \/ action = "edit" \/ action = "reject"
        BY DEF ActionOf, TypeOK, HandlerState, DecisionOps
    <2> QED
        BY <2>1, RecordGuard, ResolvedFields
<1>2. /\ session' = s /\ Write(s)
      /\ approved' = IF action = "reject"
                     THEN approved ELSE approved \cup {session.approvalId}
      /\ submissions' = submissions /\ queue' = queue
      /\ armed' = armed
    BY <1>1 DEF Record, Write, PendingOn
<1>3. action = "reject" <=> handler[h].op = "reject"
    BY DEF ActionOf, TypeOK, HandlerState, DecisionOps
<1> HIDE DEF s, action
<1>4. Grows
    BY <1>1, <1>2, RecordGuard DEF Grows
<1>5. SubmissionsSound'
    BY <1>2, RecordGuard DEF IInv, SubmissionsSound, Ids
<1>6. SessionSound'
    <2>1. OpenForDecision(s) => action = "reject"
        BY <1>1 DEF OpenForDecision
    <2>2. ~PendingOn(s)
        BY <1>1 DEF PendingOn
    <2>3. session.approvalId \in Ids /\ session.approvalId \notin approved
        BY RecordGuard
    <2>4. session.approvalId # NoId /\ session # Absent
        BY <2>3, RecordGuard DEF Ids, NoId
    <2>5. s.plan = submissions[s.approvalId]
        BY <1>1, <2>4 DEF IInv, SessionSound
    <2> QED
        BY <1>1, <1>2, <2>1, <2>2, <2>3, <2>4, <2>5 DEF SessionSound, Ids
<1>7. HandlerSound(h)'
    <2>1. handler'[h] = [handler[h] EXCEPT !.pc = "enqueue"]
        BY DEF Record, Goto, TypeOK
    <2>2. /\ handler'[h].pc = "enqueue"
          /\ handler'[h].op = handler[h].op
          /\ handler'[h].token = handler[h].token
          /\ handler'[h].id = handler[h].id
          /\ handler'[h].plan = handler[h].plan
        BY <2>1 DEF TypeOK, HandlerState
    <2>3. SamePayload(handler[h].plan, handler[h].id)
            => SamePayload(handler[h].plan, handler[h].id)'
        BY <1>2, <2>2 DEF SamePayload, Ids
    <2>4. handler[h].token # NoId /\ handler[h].op # "reject" =>
              /\ handler[h].id \in approved'
              /\ SamePayload(handler[h].plan, handler[h].id)
        <3> SUFFICES ASSUME handler[h].token # NoId, handler[h].op # "reject"
                     PROVE  /\ handler[h].id \in approved'
                            /\ SamePayload(handler[h].plan, handler[h].id)
            OBVIOUS
        <3>1. session.approvalId = handler[h].id /\ session # Absent
            BY RecordGuard
        <3>2. handler[h].op \in {"accept", "edit", "auto"}
            BY DEF TypeOK, HandlerState, DecisionOps
        <3>3. SamePayload(handler[h].plan, handler[h].id)
            BY <1>0, <3>1, <3>2 DEF HandlerSound, TriggerSound, StepsSound
        <3> QED
            BY <1>2, <1>3, <3>1, <3>3
    <2>5. TokenSound(h)'
        BY <1>0, <1>2, <2>2 DEF HandlerSound, TokenSound, Ids
    <2>6. TriggerSound(h)'
        BY <1>0, <2>2, <2>3 DEF HandlerSound, TriggerSound
    <2> QED
        BY <2>2, <2>3, <2>4, <2>5, <2>6
        DEF HandlerSound, StepsSound, VerdictSound
<1>8. \A g \in Handlers : HandlerSound(g)'
    <2> SUFFICES ASSUME NEW g \in Handlers PROVE HandlerSound(g)'
        OBVIOUS
    <2>1. g # h => handler'[g] = handler[g]
        BY DEF Record, Goto, TypeOK
    <2> QED
        BY <1>4, <1>7, <2>1, HandlerFrame DEF IInv
<1>9. DecisionCarriesItsPlan'
    BY <1>2, <1>4, QueueFrame DEF IInv
<1> QED
    BY <1>5, <1>6, <1>8, <1>9 DEF IInv

(* A handler that gives up or is done with its last await.                  *)
LEMMA FinishStep ==
    ASSUME TypeOK, IInv, NEW h \in Handlers, Finish(h),
           UNCHANGED <<session, submissions, queue, approved, armed>>
    PROVE  IInv'
<1>1. HandlerSound(h)'
    BY IdleSound DEF Finish, TypeOK
<1>2. \A g \in Handlers \ {h} : handler'[g] = handler[g]
    BY DEF Finish, TypeOK
<1> QED
    BY <1>1, <1>2, LocalStep

(* The injection of a handler with a token names the id its record          *)
(* accepted and quotes a plan that hashes to that id's.                     *)
LEMMA EnqueueStep ==
    ASSUME TypeOK, IInv, NEW h \in Handlers, Enqueue(h)
    PROVE  IInv'
<1>1. CASE queue' = queue
    BY <1>1, FinishStep DEF Enqueue
<1>2. ASSUME NEW plan \in {handler[h].plan, NoPlan},
             queue' = Append(queue,
                 [ id       |-> handler[h].id,
                   decision |-> DecisionOf(handler[h].op),
                   plan     |-> plan,
                   feedback |-> handler[h].feedback,
                   checked  |-> handler[h].token # NoId ])
      PROVE  IInv'
    <2> DEFINE d == [ id       |-> handler[h].id,
                      decision |-> DecisionOf(handler[h].op),
                      plan     |-> plan,
                      feedback |-> handler[h].feedback,
                      checked  |-> handler[h].token # NoId ]
    <2>0. UNCHANGED <<session, submissions, approved, armed>>
        BY DEF Enqueue
    <2>1. Grows
        BY <2>0 DEF Grows
    <2>2. SubmissionsSound' /\ SessionSound'
        BY <2>0 DEF IInv, SubmissionsSound, SessionSound, Ids
    <2>3. \A g \in Handlers : HandlerSound(g)'
        <3>1. HandlerSound(h)'
            BY IdleSound DEF Enqueue, Finish, TypeOK
        <3>2. \A g \in Handlers \ {h} : handler'[g] = handler[g]
            BY DEF Enqueue, Finish, TypeOK
        <3> QED
            BY <2>1, <3>1, <3>2, HandlerFrame DEF IInv
    <2>4. d.checked => CarriesItsPlan(d)
        <3> SUFFICES ASSUME handler[h].token # NoId,
                            DecisionOf(handler[h].op) # "rejected"
                     PROVE  /\ handler[h].id \in approved
                            /\ plan # NoPlan => SamePayload(plan, handler[h].id)
            BY DEF CarriesItsPlan
        <3>1. handler[h].op # "reject"
            BY DEF DecisionOf
        <3> QED
            BY <3>1 DEF IInv, HandlerSound, VerdictSound, Enqueue
    <2>5. DecisionCarriesItsPlan'
        <3> SUFFICES ASSUME NEW i \in 1 .. Len(queue'), queue'[i].checked
                     PROVE  CarriesItsPlan(queue[i])'
            BY DEF DecisionCarriesItsPlan
        <3> HIDE DEF d
        <3>1. CASE i = Len(queue) + 1
            <4>1. queue'[i] = d
                BY <1>2, <3>1 DEF TypeOK, d
            <4> QED
                BY <2>0, <2>4, <4>1 DEF CarriesItsPlan, SamePayload, Ids
        <3>2. CASE i # Len(queue) + 1
            <4>1. i \in 1 .. Len(queue) /\ queue'[i] = queue[i]
                BY <1>2, <3>2 DEF TypeOK
            <4>2. CarriesItsPlan(queue[i])
                BY <4>1 DEF IInv, DecisionCarriesItsPlan
            <4> QED
                BY <2>0, <4>1, <4>2 DEF CarriesItsPlan, SamePayload, Ids
        <3> QED
            BY <3>1, <3>2
    <2> QED
        BY <2>2, <2>3, <2>5 DEF IInv
<1> QED
    BY <1>1, <1>2 DEF Enqueue

(* The host's drain leaves no decision to worry about.                      *)
LEMMA DrainStep ==
    ASSUME TypeOK, IInv, Drain
    PROVE  IInv'
<1>1. Grows
    BY DEF Drain, Grows
<1>2. SubmissionsSound' /\ SessionSound'
    BY DEF IInv, SubmissionsSound, SessionSound, Ids, Drain
<1>3. \A h \in Handlers : HandlerSound(h)'
    BY <1>1, HandlerFrame DEF IInv, Drain
<1>4. DecisionCarriesItsPlan'
    BY DEF Drain, DecisionCarriesItsPlan
<1> QED
    BY <1>2, <1>3, <1>4 DEF IInv

(* A restart loses every handler and nothing else.                          *)
LEMMA RestartStep ==
    ASSUME TypeOK, IInv, Restart
    PROVE  IInv'
<1>1. Grows
    BY DEF Restart, Grows
<1>2. SubmissionsSound' /\ SessionSound'
    BY DEF IInv, SubmissionsSound, SessionSound, Ids, Restart
<1>3. \A h \in Handlers : HandlerSound(h)'
    BY IdleSound DEF Restart
<1>4. DecisionCarriesItsPlan'
    BY <1>1, QueueFrame DEF IInv, Restart
<1> QED
    BY <1>2, <1>3, <1>4 DEF IInv

----------------------------------------------------------------------------
(* Every step keeps the invariant.                                          *)
LEMMA NextSound == TypeOK /\ IInv /\ [Next]_vars => IInv'
<1> SUFFICES ASSUME TypeOK, IInv, [Next]_vars PROVE IInv'
    OBVIOUS
<1>1. CASE EnterPlanMode
    BY <1>1, EnteredFields, SoloStep
    DEF EnterPlanMode, OpenForDecision, TypeOK
<1>2. CASE CancelPlan
    <2>1. /\ FreshSession.approvalId = NoId
          /\ FreshSession.approval = "none"
        BY DEF FreshSession
    <2> QED
        BY <1>2, <2>1, FreshType, SoloStep
        DEF CancelPlan, Exited, OpenForDecision
<1>3. ASSUME NEW flag \in {"on", "off"}, ToggleAuto(flag)
      PROVE  IInv'
    <2>1. FreshSession.approval = "none"
        BY DEF FreshSession
    <2> QED
        BY <1>3, <2>1, AutoApproveSetFields, SoloStep
        DEF ToggleAuto, OpenForDecision, OrFresh, TypeOK
<1>4. ASSUME NEW h \in Handlers, NEW p \in Plans, SubmitPlan(h, p)
      PROVE  IInv'
    BY <1>4, SubmitStep
<1>5. ASSUME NEW h \in Handlers, NEW p \in Plans, ResubmitPlan(h, p)
      PROVE  IInv'
    BY <1>5, ResubmitStep
<1>6. ASSUME NEW h \in Handlers, NEW op \in DecisionOps,
             NEW token \in Ids \cup {NoId},
             NEW fb \in Feedback \cup {NoFeedback},
             Check(h, op, token, fb)
      PROVE  IInv'
    BY <1>6, CheckStep
<1>7. ASSUME NEW h \in Handlers, Proceed(h)
      PROVE  IInv'
    <2>1. CASE RecordSkipped(h)
        BY <2>1, FinishStep DEF RecordSkipped
    <2> QED
        BY <1>7, <2>1, ReadStepsStep, FireStep, RecordStep, EnqueueStep
        DEF Proceed
<1>8. ASSUME NEW h \in Handlers, AwaitFails(h)
      PROVE  IInv'
    BY <1>8, FinishStep DEF AwaitFails
<1>9. CASE Drain
    BY <1>9, DrainStep
<1>10. CASE Restart
    BY <1>10, RestartStep
<1>11. CASE UNCHANGED vars
    <2>1. Grows
        BY <1>11 DEF vars, Grows
    <2>2. \A h \in Handlers : HandlerSound(h)'
        BY <1>11, <2>1, HandlerFrame DEF vars, IInv
    <2>3. DecisionCarriesItsPlan'
        BY <1>11, <2>1, QueueFrame DEF vars, IInv
    <2> QED
        BY <1>11, <2>2, <2>3
        DEF vars, IInv, SubmissionsSound, SessionSound, Ids
<1> QED
    BY <1>1, <1>2, <1>3, <1>4, <1>5, <1>6, <1>7, <1>8, <1>9, <1>10, <1>11 DEF Next

(* The invariant holds in every state of the composition.                   *)
THEOREM Invariance == Spec => []IInv
<1>1. Init => IInv
    <2> SUFFICES ASSUME Init PROVE IInv
        OBVIOUS
    <2>1. SubmissionsSound /\ SessionSound /\ DecisionCarriesItsPlan
        BY DEF Init, SubmissionsSound, SessionSound, DecisionCarriesItsPlan
    <2>2. ASSUME NEW h \in Handlers PROVE HandlerSound(h)
        BY DEF Init, Idle, HandlerSound, TokenSound, TriggerSound, StepsSound,
               VerdictSound
    <2> QED
        BY <2>1, <2>2 DEF IInv
<1> QED
    BY <1>1, NextSound, TypeCorrect, PTL DEF Spec

(* A queued acceptance that was sent with a version token names an id the   *)
(* store accepted and quotes a plan that hashes to the one submitted under  *)
(* it: session-actions.ts' and exit-plan-mode.ts' handlers, however they    *)
(* interleave.                                                              *)
THEOREM DecisionsCarryTheirPlans == Spec => []DecisionCarriesItsPlan
<1>1. IInv => DecisionCarriesItsPlan
    BY DEF IInv
<1> QED
    BY <1>1, Invariance, PTL

(* Only a record accepts, and it accepts the session's own open id.         *)
LEMMA AcceptsByRecord ==
    ASSUME TypeOK, IInv, Next, Accepts
    PROVE  session'.approvalId \notin approved
<1>0. FreshSession.approval = "none" /\ OrFresh(session) \in SessionState
    BY OrFreshType DEF FreshSession, TypeOK
<1>1. ASSUME NEW h \in Handlers, Record(h)
      PROVE  session'.approvalId \notin approved
    BY <1>1, RecordGuard, ResolvedFields DEF Record, Write
<1>2. ~EnterPlanMode
    BY EnteredFields DEF EnterPlanMode, Write, Accepts, TypeOK
<1>3. ~CancelPlan
    BY <1>0 DEF CancelPlan, Write, Exited, Accepts
<1>4. ASSUME NEW flag \in {"on", "off"}, ToggleAuto(flag)
      PROVE  FALSE
    BY <1>0, <1>4, AutoApproveSetFields
    DEF ToggleAuto, Write, Accepts, OrFresh, TypeOK
<1>5. ASSUME NEW h \in Handlers, NEW p \in Plans, SubmitPlan(h, p)
      PROVE  FALSE
    <2>1. session \in SessionState /\ Len(submissions) + 1 \in Nat
        BY <1>5, PresentType DEF SubmitPlan, InPlanMode, TypeOK
    <2> QED
        BY <1>5, <2>1, ApprovalRequestedFields DEF SubmitPlan, Write, Accepts
<1>6. ~UNCHANGED session
    BY DEF Accepts
<1> QED
    BY <1>1, <1>2, <1>3, <1>4, <1>5, <1>6
    DEF Next, Proceed, ResubmitPlan, Check, ReadSteps, FireAutoApprove,
        RecordSkipped, Enqueue, AwaitFails, Drain, Restart

(* No approval id is approved or edited twice, for any number of handlers.  *)
THEOREM AcceptedOnce == Spec => AcceptedAtMostOnce
<1>1. TypeOK /\ IInv /\ [Next]_vars
        => [Accepts => session'.approvalId \notin approved]_vars
    BY AcceptsByRecord
<1> QED
    BY <1>1, TypeCorrect, Invariance, PTL DEF Spec, AcceptedAtMostOnce

(* The trigger's record accepts its own id, which was armed.                *)
LEMMA AutoAcceptsArmed ==
    ASSUME TypeOK, IInv, Next, NEW h \in Handlers, AutoAccepts(h)
    PROVE  session'.approvalId \in armed
<1>1. handler[h].op = "auto" /\ handler[h].pc = "record"
      /\ handler'[h].pc = "enqueue"
    BY DEF AutoAccepts
<1>2. CASE Record(h)
    <2>1. handler[h].token # NoId /\ handler[h].id \in armed
        BY <1>1 DEF IInv, HandlerSound, TriggerSound
    <2> QED
        BY <1>2, <2>1, RecordGuard, ResolvedFields DEF Record, Write
<1>3. ASSUME NEW g \in Handlers, g # h, handler'[h] = handler[h]
      PROVE  FALSE
    BY <1>1, <1>3
<1>4. ASSUME handler' = handler
      PROVE  FALSE
    BY <1>1, <1>4
<1>5. ASSUME Finish(h)
      PROVE  FALSE
    BY <1>1, <1>5 DEF Finish, Idle, TypeOK
<1>6. ASSUME NEW g \in Handlers, Proceed(g)
      PROVE  g = h /\ Record(h)
    <2>1. g = h
        BY <1>3, <1>6
        DEF Proceed, ReadSteps, FireAutoApprove, Record, RecordSkipped,
            Enqueue, Goto, Finish, TypeOK
    <2> QED
        BY <1>1, <1>5, <1>6, <2>1
        DEF Proceed, ReadSteps, FireAutoApprove, RecordSkipped, Enqueue
<1>7. ASSUME NEW g \in Handlers, handler[g].pc = "idle",
             NEW r, handler' = [handler EXCEPT ![g] = r]
      PROVE  FALSE
    BY <1>1, <1>7 DEF TypeOK
<1>8. ASSUME NEW g \in Handlers, AwaitFails(g)
      PROVE  FALSE
    BY <1>3, <1>5, <1>8 DEF AwaitFails, Finish, TypeOK
<1>9. ~Restart
    BY <1>1 DEF Restart, Idle
<1> QED
    BY <1>2, <1>4, <1>6, <1>7, <1>8, <1>9
    DEF Next, EnterPlanMode, CancelPlan, ToggleAuto, SubmitPlan, ResubmitPlan,
        Fire, Check, Drain

(* Auto-approve accepts only a cycle that was pending with the flag on.     *)
THEOREM AutoApprovesArmed == Spec => AutoOnlyArmed
<1>1. TypeOK /\ IInv /\ [Next]_vars
        => [\A h \in Handlers :
               AutoAccepts(h) => session'.approvalId \in armed]_vars
    BY AutoAcceptsArmed
<1> QED
    BY <1>1, TypeCorrect, Invariance, PTL DEF Spec, AutoOnlyArmed

(* Only another payload takes a pending id's place.                         *)
LEMMA CardStep ==
    ASSUME TypeOK, IInv, Next,
           session # Absent,
           session.approval = "pending",
           session'.approvalId \notin {session.approvalId, NoId}
    PROVE  HashOf[session'.plan] # HashOf[session.plan]
<1>0. session \in SessionState /\ OrFresh(session) = session
    BY PresentType DEF TypeOK, OrFresh
<1>1. ~EnterPlanMode
    BY <1>0, EnteredFields DEF EnterPlanMode, Write, TypeOK
<1>2. ~CancelPlan
    BY DEF CancelPlan, Write, Exited, FreshSession
<1>3. ASSUME NEW flag \in {"on", "off"}, ToggleAuto(flag)
      PROVE  FALSE
    BY <1>0, <1>3, AutoApproveSetFields DEF ToggleAuto, Write, TypeOK
<1>4. ASSUME NEW h \in Handlers, Record(h)
      PROVE  FALSE
    BY <1>4, RecordGuard, ResolvedFields DEF Record, Write
<1>5. ASSUME NEW h \in Handlers, NEW p \in Plans, SubmitPlan(h, p)
      PROVE  HashOf[session'.plan] # HashOf[session.plan]
    <2>1. session' = ApprovalRequested(session, Len(submissions) + 1, p)
        BY <1>5 DEF SubmitPlan, Write
    <2>2. session'.plan = p
        BY <1>0, <2>1, ApprovalRequestedFields DEF TypeOK
    <2>3. session.approvalId \in Ids
        BY DEF IInv, SessionSound, OpenForDecision
    <2>4. session.plan = submissions[session.approvalId]
          /\ session.approvalId # NoId
        BY <2>3 DEF IInv, SessionSound, Ids, NoId
    <2>5. session.plan \in Plans
        BY <2>3, <2>4 DEF TypeOK, Ids
    <2> QED
        BY <1>5, <2>2, <2>4, <2>5 DEF SubmitPlan, ReusesApproval
<1> QED
    BY <1>1, <1>2, <1>3, <1>4, <1>5
    DEF Next, Proceed, ResubmitPlan, Check, ReadSteps, FireAutoApprove,
        RecordSkipped, Enqueue, AwaitFails, Drain, Restart

(* A duplicate exit_plan_mode never orphans the card on screen.             *)
THEOREM CardsStayAnswerable == Spec => NoOrphanedCard
<1>1. TypeOK /\ IInv /\ [Next]_vars
        => [ /\ session # Absent
             /\ session.approval = "pending"
             /\ session'.approvalId \notin {session.approvalId, NoId}
             => HashOf[session'.plan] # HashOf[session.plan] ]_vars
    BY CardStep
<1> QED
    BY <1>1, TypeCorrect, Invariance, PTL DEF Spec, NoOrphanedCard

----------------------------------------------------------------------------
(* The composition implements the store's promise: each step that writes    *)
(* the payload is one call of one mutator.                                  *)
LEMMA SameOperators ==
    /\ \A s : Store!InPlanMode(s) = InPlanMode(s)
    /\ \A s, p : Store!ReusesApproval(s, p) = ReusesApproval(s, p)
    /\ \A s, id, p :
          Store!ApprovalRequested(s, id, p) = ApprovalRequested(s, id, p)
    /\ \A s : Store!Entered(s) = Entered(s)
    /\ \A s, token : Store!MayExit(s, token) = MayExit(s, token)
    /\ \A s : Store!Exited(s) = Exited(s)
    /\ \A s, action, token :
          Store!Decidable(s, action, token) = Decidable(s, action, token)
    /\ \A s, action, fb :
          Store!Resolved(s, action, fb) = Resolved(s, action, fb)
    /\ \A s : Store!OrFresh(s) = OrFresh(s)
    /\ \A s, flag :
          Store!AutoApproveSet(s, flag) = AutoApproveSet(s, flag)
<1> USE DEF Store!NoId, NoId, Store!NoQuestion, NoQuestion
<1>1. \A s : Store!InPlanMode(s) = InPlanMode(s)
    BY DEF Store!InPlanMode, InPlanMode
<1>2. \A s, p : Store!ReusesApproval(s, p) = ReusesApproval(s, p)
    BY DEF Store!ReusesApproval, ReusesApproval
<1>3. \A s, id, p :
          Store!ApprovalRequested(s, id, p) = ApprovalRequested(s, id, p)
    BY DEF Store!ApprovalRequested, ApprovalRequested
<1>4. Store!FreshSession = FreshSession
    BY DEF Store!FreshSession, FreshSession
<1>5. \A s : Store!OrFresh(s) = OrFresh(s)
    BY <1>4 DEF Store!OrFresh, OrFresh
<1>6. \A s : Store!Entered(s) = Entered(s)
    BY <1>5 DEF Store!Entered, Entered
<1>7. \A s, token : Store!MayExit(s, token) = MayExit(s, token)
    BY <1>1 DEF Store!MayExit, MayExit, Store!OpenForDecision, OpenForDecision,
                Store!TokenFits, TokenFits
<1>8. \A s : Store!Exited(s) = Exited(s)
    BY <1>4 DEF Store!Exited, Exited
<1>9. \A s, action, token :
          Store!Decidable(s, action, token) = Decidable(s, action, token)
    BY <1>1 DEF Store!Decidable, Decidable, Store!OpenForDecision,
                OpenForDecision, Store!TokenFits, TokenFits
<1>10. \A s, action, fb :
          Store!Resolved(s, action, fb) = Resolved(s, action, fb)
    BY DEF Store!Resolved, Resolved, Store!Accepted, Accepted,
           Store!Rejected, Rejected, Store!TimedOut, TimedOut
<1>11. \A s, flag :
          Store!AutoApproveSet(s, flag) = AutoApproveSet(s, flag)
    BY <1>5 DEF Store!AutoApproveSet, AutoApproveSet
<1> QED
    BY <1>1, <1>2, <1>3, <1>5, <1>6, <1>7, <1>8, <1>9, <1>10, <1>11

(* Every step is one store call, or leaves the payload alone.               *)
LEMMA StepsByStore ==
    TypeOK /\ IInv /\ [Next]_vars => [Store!Step]_session
<1> SUFFICES ASSUME TypeOK, IInv, [Next]_vars, ~UNCHANGED session
             PROVE  Store!Step
    OBVIOUS
<1>0. Ids \cup {NoId} \subseteq Store!Tokens
    <2>1. Len(submissions) \in Nat
        BY DEF TypeOK
    <2> QED
        BY <2>1 DEF Store!Tokens, Store!NoId, NoId, Ids, IInv, SubmissionsSound
<1>1. CASE EnterPlanMode
    BY <1>1, SameOperators DEF EnterPlanMode, Write, Store!Step, Store!EnterPlanMode
<1>2. CASE CancelPlan
    <2>1. PICK token \in Ids \cup {NoId} : MayExit(session, token)
        BY <1>2 DEF CancelPlan
    <2>2. Store!ExitPlanMode(token)
        BY <1>2, <2>1, SameOperators DEF CancelPlan, Write, Store!ExitPlanMode
    <2> QED
        BY <1>0, <2>2 DEF Store!Step
<1>3. ASSUME NEW flag \in {"on", "off"}, ToggleAuto(flag)
      PROVE  Store!Step
    BY <1>3, SameOperators DEF ToggleAuto, Write, Store!Step, Store!SetAutoApprove
<1>4. ASSUME NEW h \in Handlers, NEW p \in Plans, SubmitPlan(h, p)
      PROVE  Store!Step
    <2> DEFINE id == Len(submissions) + 1
    <2>1. id \in 1 .. MaxSubmissions
        BY <1>4 DEF SubmitPlan, TypeOK
    <2>2. Store!PersistApprovalRequest(id, p)
        BY <1>4, SameOperators DEF SubmitPlan, Write, Store!PersistApprovalRequest
    <2> QED
        BY <2>1, <2>2 DEF Store!Step
<1>5. ASSUME NEW h \in Handlers, Record(h)
      PROVE  Store!Step
    <2> DEFINE action == ActionOf(handler[h].op)
               fb == handler[h].feedback
               token == ForwardedToken(h)
    <2>1. Store!ApplyApprovalAction(action, fb, token)
        BY <1>5, SameOperators DEF Record, Write, Store!ApplyApprovalAction
    <2>2. action \in Store!ApprovalAction /\ fb \in Feedback \cup {NoFeedback}
        BY <1>5, RecordGuard DEF ApprovalAction, Store!ApprovalAction
    <2>3. token \in Store!Tokens
        <3>1. token \in Ids \cup {NoId}
            BY <1>5 DEF ForwardedToken, IInv, HandlerSound, TokenSound, Record
        <3> QED
            BY <1>0, <3>1
    <2> HIDE DEF action, fb, token
    <2> QED
        BY <2>1, <2>2, <2>3 DEF Store!Step
<1> QED
    BY <1>1, <1>2, <1>3, <1>4, <1>5
    DEF Next, vars, Proceed, ResubmitPlan, Check, ReadSteps, FireAutoApprove,
        RecordSkipped, Enqueue, AwaitFails, Drain, Restart

(* PlanApproval implements PlanModeStore.                                   *)
THEOREM ImplementsStore == Spec => StorePromise
<1>1. Init => Store!Init
    BY DEF Init, Store!Init
<1> QED
    BY <1>1, StepsByStore, TypeCorrect, Invariance, PTL
    DEF Spec, StorePromise, Store!Promise
=============================================================================
