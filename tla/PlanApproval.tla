---------------------------- MODULE PlanApproval ----------------------------
(***************************************************************************)
(* The approval cycle of one session: the agent's exit_plan_mode tool, the *)
(* auto-approve trigger it fires without awaiting, the plan.accept,        *)
(* plan.edit, plan.reject, plan.cancel and plan.auto.toggle actions users  *)
(* invoke from any surface, the persisted payload they share, and the      *)
(* host's queue of next-turn injections.  Sessions do not interact.        *)
(*                                                                         *)
(* PlanModeStore locks each mutator and each snapshot, not a whole         *)
(* handler: a handler that awaits several of them is a record whose pc     *)
(* says which it does next, and anything may run in between.  An approval  *)
(* id is the position of its plan in submissions, so ids are never reused  *)
(* (newPlanApprovalId is a fresh UUID); a candidate id that a reused or a  *)
(* refused submission throws away is not numbered, as nothing can match it *)
(* later.                                                                  *)
(***************************************************************************)
EXTENDS PlanModeState, Sequences

CONSTANTS
    Handlers,       \* bound on the handlers in flight at once
    MaxSubmissions, \* bound on the approval cycles
    MaxRejections,  \* no new rejection is sent once the count is here
    MaxQueue,       \* bound on the injections queued at once
    MayFail         \* whether awaits fail and the process restarts

ASSUME BoundsAssumption ==
    /\ MaxSubmissions \in Nat
    /\ MaxRejections \in Nat
    /\ MaxQueue \in Nat
    /\ MayFail \in BOOLEAN

VARIABLES
    session,     \* the persisted payload
    submissions, \* submissions[id] = the plan exit_plan_mode stored under id
    handler,     \* handler[h] = one handler's locals, between its awaits
    queue,       \* the host's next-turn injections, oldest first
    approved,    \* history: ids whose approval or edit was ever recorded
    armed        \* history: ids ever pending while auto-approve was on

vars == <<session, submissions, handler, queue, approved, armed>>

Ids == 1 .. Len(submissions)

DecisionOps == {"accept", "edit", "reject"}

(* What a handler carries across its awaits: the version token the caller  *)
(* supplied, the id it announces, and the plan it announces.               *)
HandlerState ==
    [ pc       : {"idle", "fire", "read", "record", "enqueue"},
      op       : DecisionOps \cup {"auto"},
      token    : Nat,
      id       : Nat,
      plan     : Plans \cup {NoPlan},
      feedback : Feedback \cup {NoFeedback} ]

Idle ==
    [ pc |-> "idle", op |-> "auto", token |-> NoId, id |-> NoId,
      plan |-> NoPlan, feedback |-> NoFeedback ]

(* A queued [PLAN_DECISION] injection.  checked: its handler had a token.  *)
PlanDecision ==
    [ id       : Nat,
      decision : {"approved", "edited", "rejected"},
      plan     : Plans \cup {NoPlan},
      feedback : Feedback \cup {NoFeedback},
      checked  : BOOLEAN ]

ActionOf(op) == IF op \in {"accept", "auto"} THEN "approve" ELSE op

DecisionOf(op) ==
    CASE op \in {"accept", "auto"} -> "approved"
      [] op = "edit"               -> "edited"
      [] op = "reject"             -> "rejected"

PendingOn(s) ==
    /\ s # Absent
    /\ s.approval = "pending"
    /\ s.autoApprove = "on"

Goto(h, pc) == handler' = [handler EXCEPT ![h].pc = pc]

Finish(h) == handler' = [handler EXCEPT ![h] = Idle]

(* armed follows every write of the payload. *)
Write(s) ==
    /\ session' = s
    /\ armed' = IF PendingOn(s) THEN armed \cup {s.approvalId} ELSE armed

----------------------------------------------------------------------------
(* The agent and the operator: one locked store call each *)

(* enter_plan_mode and /plan enter *)
EnterPlanMode ==
    /\ ~InPlanMode(session)
    /\ Write(Entered(session))
    /\ UNCHANGED <<submissions, handler, queue, approved>>

(* exit_plan_mode: persist the approval or reuse the pending one, then fire *)
(* the auto-approve trigger with the id the store returned and the steps of *)
(* this call.  The markdown write and the notification in between only      *)
(* delay the trigger.                                                       *)
(* mutant: the candidate id of this call instead of the returned one *)
FireCandidate(h, id, p) ==
    handler' = [handler EXCEPT ![h] =
                  [Idle EXCEPT !.pc = "fire", !.token = Len(submissions) + 1,
                               !.id = Len(submissions) + 1, !.plan = p]]

Fire(h, id, p) ==
    handler' = [handler EXCEPT ![h] =
                  [Idle EXCEPT !.pc = "fire", !.token = id, !.id = id,
                               !.plan = p]]

SubmitPlan(h, p) ==
    /\ handler[h].pc = "idle"
    /\ InPlanMode(session)
    /\ ~ReusesApproval(session, p)
    /\ Len(submissions) < MaxSubmissions
    /\ submissions' = Append(submissions, p)
    /\ Write(ApprovalRequested(session, Len(submissions) + 1, p))
    /\ Fire(h, Len(submissions) + 1, p)
    /\ UNCHANGED <<queue, approved>>

(* mutant: a duplicate rotates the id *)
ResubmitRotating(h, p) ==
    /\ handler[h].pc = "idle"
    /\ InPlanMode(session)
    /\ ReusesApproval(session, p)
    /\ Len(submissions) < MaxSubmissions
    /\ submissions' = Append(submissions, p)
    /\ Write(ApprovalRequested(session, Len(submissions) + 1, p))
    /\ Fire(h, Len(submissions) + 1, p)
    /\ UNCHANGED <<queue, approved>>

ResubmitPlan(h, p) ==
    /\ handler[h].pc = "idle"
    /\ InPlanMode(session)
    /\ ReusesApproval(session, p)
    /\ Fire(h, session.approvalId, p)
    /\ UNCHANGED <<session, submissions, queue, approved, armed>>

(* mutant: /plan exit leaves an unowned approval behind *)
CancelKeepingApproval ==
    /\ \E token \in Ids \cup {NoId} : MayExit(session, token)
    /\ Write([session EXCEPT !.mode = "normal"])
    /\ UNCHANGED <<submissions, handler, queue, approved>>

(* plan.cancel, with or without a token, and the sweep command *)
CancelPlan ==
    /\ \E token \in Ids \cup {NoId} : MayExit(session, token)
    /\ Write(Exited(session))
    /\ UNCHANGED <<submissions, handler, queue, approved>>

(* plan.auto.toggle *)
ToggleAuto(flag) ==
    /\ OrFresh(session).autoApprove # flag
    /\ Write(AutoApproveSet(session, flag))
    /\ UNCHANGED <<submissions, handler, queue, approved>>

----------------------------------------------------------------------------
(* The handlers of plan.accept, plan.edit and plan.reject, and the trigger *)

(* checkApprovalId: the first snapshot.  A refused call changes nothing.    *)
Check(h, op, token, fb) ==
    /\ handler[h].pc = "idle"
    /\ InPlanMode(session)
    /\ OpenForDecision(session)
    /\ session.approvalId # NoId
    /\ TokenFits(session, token)
    /\ op = "reject" => session.rejectionCount < MaxRejections
    /\ op # "reject" => fb = NoFeedback
    /\ handler' = [handler EXCEPT ![h] =
                     [ pc       |-> IF op = "reject" THEN "record" ELSE "read",
                       op       |-> op,
                       token    |-> token,
                       id       |-> session.approvalId,
                       plan     |-> NoPlan,
                       feedback |-> fb ]]
    /\ UNCHANGED <<session, submissions, queue, approved, armed>>

(* snapBefore.lastPlanSteps: the second snapshot of plan.accept, plan.edit  *)
ReadSteps(h) ==
    /\ handler[h].pc = "read"
    /\ handler' = [handler EXCEPT ![h].pc = "record",
                                  ![h].plan = OrFresh(session).plan]
    /\ UNCHANGED <<session, submissions, queue, approved, armed>>

(* fireAutoApproveIfEnabled: the snapshot behind guards 1 and 2 *)
(* mutant: the trigger does not look at the flag again *)
FireAlways(h) ==
    /\ handler[h].pc = "fire"
    /\ IF session # Absent /\ session.approvalId = handler[h].id
       THEN Goto(h, "record")
       ELSE Finish(h)
    /\ UNCHANGED <<session, submissions, queue, approved, armed>>

FireAutoApprove(h) ==
    /\ handler[h].pc = "fire"
    /\ IF PendingOn(session) /\ session.approvalId = handler[h].id
       THEN Goto(h, "record")
       ELSE Finish(h)
    /\ UNCHANGED <<session, submissions, queue, approved, armed>>

(* mutant: the token is checked by checkApprovalId only, not forwarded *)
TokenDropped(h) == NoId

(* The handlers forward the caller's token, if there was one, to the store. *)
ForwardedToken(h) == handler[h].token

(* recordApproval and recordRejection.  mutant: the check's word is taken  *)
(* for it, and the locked re-check is gone                                 *)
RecordBlindly(h) ==
    LET action == ActionOf(handler[h].op) IN
    /\ handler[h].pc = "record"
    /\ session # Absent
    /\ Write(Resolved(session, action, handler[h].feedback))
    /\ approved' = IF action = "reject"
                   THEN approved ELSE approved \cup {session.approvalId}
    /\ Goto(h, "enqueue")
    /\ UNCHANGED <<submissions, queue>>

Record(h) ==
    LET action == ActionOf(handler[h].op) IN
    /\ handler[h].pc = "record"
    /\ Decidable(session, action, ForwardedToken(h))
    /\ Write(Resolved(session, action, handler[h].feedback))
    /\ approved' = IF action = "reject"
                   THEN approved ELSE approved \cup {session.approvalId}
    /\ Goto(h, "enqueue")
    /\ UNCHANGED <<submissions, queue>>

RecordSkipped(h) ==
    /\ handler[h].pc = "record"
    /\ ~Decidable(session, ActionOf(handler[h].op), ForwardedToken(h))
    /\ Finish(h)
    /\ UNCHANGED <<session, submissions, queue, approved, armed>>

(* enqueuePlanApprovedInjection and enqueuePlanDecisionInjection: the host   *)
(* drops an injection whose idempotency key, the id and decision, is queued. *)
(* An edit with a body carries the user's text instead of the plan.          *)
(* mutant: the decision is left out of the key *)
SameApprovalId(d, id, decision) == d.id = id

SameKey(d, id, decision) == d.id = id /\ d.decision = decision

AlreadyQueued(id, decision) ==
    \E i \in 1 .. Len(queue) : SameKey(queue[i], id, decision)

Enqueue(h) ==
    LET decision == DecisionOf(handler[h].op)
        id       == handler[h].id
    IN
    /\ handler[h].pc = "enqueue"
    /\ AlreadyQueued(id, decision) \/ Len(queue) < MaxQueue
    /\ \E plan \in {handler[h].plan} \cup
                   (IF decision = "edited" THEN {NoPlan} ELSE {}) :
          queue' = IF AlreadyQueued(id, decision) THEN queue
                   ELSE Append(queue,
                          [ id       |-> id,
                            decision |-> decision,
                            plan     |-> plan,
                            feedback |-> handler[h].feedback,
                            checked  |-> handler[h].token # NoId ])
    /\ Finish(h)
    /\ UNCHANGED <<session, submissions, approved, armed>>

----------------------------------------------------------------------------
(* The host: it drains the whole queue into the agent's next turn; a store  *)
(* or enqueue call may fail, which ends the handler; the process may die.   *)

Drain ==
    /\ queue # <<>>
    /\ queue' = <<>>
    /\ UNCHANGED <<session, submissions, handler, approved, armed>>

AwaitFails(h) ==
    /\ handler[h].pc # "idle"
    /\ MayFail
    /\ Finish(h)
    /\ UNCHANGED <<session, submissions, queue, approved, armed>>

Restart ==
    /\ MayFail
    /\ handler' = [h \in Handlers |-> Idle]
    /\ UNCHANGED <<session, submissions, queue, approved, armed>>

----------------------------------------------------------------------------
Init ==
    /\ session = Absent
    /\ submissions = <<>>
    /\ handler = [h \in Handlers |-> Idle]
    /\ queue = <<>>
    /\ approved = {}
    /\ armed = {}

(* The awaits a started handler goes on with, without anyone's help.        *)
Proceed(h) ==
    \/ ReadSteps(h)
    \/ FireAutoApprove(h)
    \/ Record(h)
    \/ RecordSkipped(h)
    \/ Enqueue(h)

Next ==
    \/ EnterPlanMode
    \/ CancelPlan
    \/ \E flag \in {"on", "off"} : ToggleAuto(flag)
    \/ \E h \in Handlers, p \in Plans : SubmitPlan(h, p)
    \/ \E h \in Handlers, p \in Plans : ResubmitPlan(h, p)
    \/ \E h \in Handlers, op \in DecisionOps, token \in Ids \cup {NoId},
          fb \in Feedback \cup {NoFeedback} : Check(h, op, token, fb)
    \/ \E h \in Handlers : Proceed(h)
    \/ \E h \in Handlers : AwaitFails(h)
    \/ Drain
    \/ Restart

Spec == Init /\ [][Next]_vars

(* An async function that has started runs to its end.  Users, the agent    *)
(* and the failures are under no obligation.                                *)
FairSpec == Spec /\ \A h \in Handlers : WF_vars(Proceed(h))

----------------------------------------------------------------------------
TypeOK ==
    /\ session \in SessionPayload
    /\ submissions \in Seq(Plans)
    /\ handler \in [Handlers -> HandlerState]
    /\ queue \in Seq(PlanDecision)
    /\ approved \subseteq Nat
    /\ armed \subseteq Nat

(* A cycle is accepted at most once: whatever tokens, double clicks, stale  *)
(* cards, re-entries into plan mode and concurrent surfaces do, no          *)
(* approval id is approved or edited a second time.                         *)
Accepts ==
    /\ session' # session
    /\ session' # Absent
    /\ session'.approval \in {"approved", "edited"}
    /\ session.approval \notin {"approved", "edited"}

AcceptedAtMostOnce == [][Accepts => session'.approvalId \notin approved]_vars

(* What the agent is told to execute is what was approved.  If the decision *)
(* came with a version token, a queued approval names an id the store       *)
(* really accepted, and the steps it quotes hash to the plan submitted      *)
(* under that id, however the session moved between the handler's two       *)
(* snapshots, its record and its enqueue.                                   *)
SamePayload(p, id) == id \in Ids /\ p \in Plans /\ HashOf[p] = HashOf[submissions[id]]

CarriesItsPlan(d) ==
    d.decision # "rejected" =>
        /\ d.id \in approved
        /\ d.plan # NoPlan => SamePayload(d.plan, d.id)

DecisionCarriesItsPlan ==
    \A i \in 1 .. Len(queue) : queue[i].checked => CarriesItsPlan(queue[i])

(* Auto-approve accepts only a cycle that was pending while the operator    *)
(* had the flag on: never one submitted after /plan auto off or after an    *)
(* exit, which wipes the flag, however late the trigger runs.               *)
AutoAccepts(h) ==
    /\ handler[h].op = "auto"
    /\ handler[h].pc = "record"
    /\ handler'[h].pc = "enqueue"

AutoOnlyArmed ==
    [][\A h \in Handlers :
          AutoAccepts(h) => session'.approvalId \in armed]_vars

(* A pending card is not orphaned: while a plan is pending, its id is only  *)
(* replaced by a submission with another payload or dropped by an exit, so  *)
(* a duplicate exit_plan_mode keeps the card on screen answerable.          *)
NoOrphanedCard ==
    [][ /\ session # Absent
        /\ session.approval = "pending"
        /\ session'.approvalId \notin {session.approvalId, NoId}
        => HashOf[session'.plan] # HashOf[session.plan] ]_vars

(* The composition never does to the payload what the store does not        *)
(* promise: every step is one store call or leaves the payload alone.       *)
Store == INSTANCE PlanModeStore WITH
             ApprovalIds <- 1 .. MaxSubmissions,
             QuestionIds <- {}

StorePromise == Store!Promise

----------------------------------------------------------------------------
(* Liveness, when nothing fails                                             *)

(* A recorded decision reaches the agent: an injection with its id and its  *)
(* verdict is queued, whatever was queued before it.                        *)
Recorded(h, id, decision) ==
    /\ handler[h].pc = "enqueue"
    /\ handler[h].id = id
    /\ DecisionOf(handler[h].op) = decision

Told(id, decision) ==
    \E i \in 1 .. Len(queue) :
        queue[i].id = id /\ queue[i].decision = decision

RecordedReachesAgent ==
    \A id \in 1 .. MaxSubmissions, decision \in {"approved", "edited", "rejected"} :
        (\E h \in Handlers : Recorded(h, id, decision)) ~> Told(id, decision)

(* Auto-approve self-executes: once a submission has fired its trigger, its *)
(* cycle does not stay pending with the flag on, whether it was submitted   *)
(* again and kept its id, and whatever older cycles' triggers are still on  *)
(* their way.  Ids grow: a trigger with a smaller id than the pending one   *)
(* belongs to an older cycle and owes this one nothing.                     *)
AutoSelfExecutes ==
    \A id \in 1 .. MaxSubmissions :
        (/\ PendingOn(session)
         /\ session.approvalId = id
         /\ \E h \in Handlers : handler[h].pc = "fire" /\ handler[h].id >= id)
        ~> ~(PendingOn(session) /\ session.approvalId = id)

----------------------------------------------------------------------------
(* What comments of the source say and the code does not keep               *)

(* index.ts: the trigger passes the expected approvalId so that the         *)
(* stale-event guard fires if a racing /plan reject already landed.         *)
AutoHonoursRejection ==
    [][\A h \in Handlers :
          AutoAccepts(h) => session.approval # "rejected"]_vars

(* slash-commands.ts: /plan accept approves the pending plan verbatim.  It  *)
(* sends no token, so every decision, checked or not, would have to carry   *)
(* the plan it approved.                                                    *)
EveryDecisionCarriesItsPlan ==
    \A i \in 1 .. Len(queue) : CarriesItsPlan(queue[i])

AllIdle == \A h \in Handlers : handler[h].pc = "idle"

(* approval.ts: on rejection the agent receives, at the start of its next   *)
(* turn, an injection with the user's feedback: the one the store holds.    *)
LatestFeedbackQueued ==
    (/\ AllIdle
     /\ session # Absent
     /\ session.approval = "rejected"
     /\ session.feedback # NoFeedback
     /\ Told(session.approvalId, "rejected"))
    => \E i \in 1 .. Len(queue) :
          /\ queue[i].id = session.approvalId
          /\ queue[i].feedback = session.feedback
=============================================================================
