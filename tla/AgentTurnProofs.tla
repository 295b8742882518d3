-------------------------- MODULE AgentTurnProofs --------------------------
(***************************************************************************)
(* The mutation gate fails closed and the accept-edits gate holds, for any *)
(* set of tool calls and whatever moves the session while a hook runs; and *)
(* a turn ends, whatever the agent says last.                              *)
(*                                                                         *)
(* The invariant says what before_tool_call may rely on when it goes on    *)
(* after its await: the phase it will find is among those seen since the   *)
(* hook began, and no newer plugin's payload hides it, because the host    *)
(* projects such a payload and the hook then does not await.               *)
(***************************************************************************)
EXTENDS AgentTurn, PlanModeStateLemmas, FiniteSetTheorems, WellFoundedInduction

USE PlanAssumption, FeedbackAssumption, AbsentAssumption, IdAssumption

(* What the other actors do to the session keeps the payload's type.       *)
LEMMA StoreStepType ==
  ASSUME session \in SessionPayload, Step
  PROVE  session' \in SessionPayload
<1> USE DEF SessionPayload
<1>1. session \in SessionState \/ session = Absent
  OBVIOUS
<1>2. ASSUME NEW id \in ApprovalIds, NEW p \in Plans, PersistApprovalRequest(id, p)
      PROVE  session' \in SessionState
  BY <1>1, <1>2, ApprovalRequestedFields DEF PersistApprovalRequest, InPlanMode
<1>3. CASE EnterPlanMode
  BY <1>3, EnteredFields DEF EnterPlanMode
<1>4. CASE \E token \in Tokens : ExitPlanMode(token)
  BY <1>4, FreshType DEF ExitPlanMode, Exited
<1>5. ASSUME NEW action \in ApprovalAction, NEW token,
             NEW fb \in Feedback \cup {NoFeedback},
             ApplyApprovalAction(action, fb, token)
      PROVE  session' \in SessionState
  BY <1>1, <1>5, ResolvedFields DEF ApplyApprovalAction, Decidable, InPlanMode
<1>6. CASE \E flag \in {"on", "off"} : SetAutoApprove(flag)
  BY <1>6, AutoApproveSetFields DEF SetAutoApprove
<1>7. CASE \E q \in QuestionIds : PersistPendingQuestion(q)
  BY <1>7, QuestionAskedFields DEF PersistPendingQuestion
<1>8. CASE \E q \in QuestionIds \cup {NoQuestion} : ClearPendingQuestion(q)
  BY <1>1, <1>8, QuestionClearedFields DEF ClearPendingQuestion, HasQuestion
<1> QED
  BY <1>2, <1>3, <1>4, <1>5, <1>6, <1>7, <1>8 DEF Step

NewerIsProjected == version = "newer" => projected /\ session # Absent

WhileReading == pc = "reading" => version # "newer" /\ Phase(session) \in seen

TurnInv == NewerIsProjected /\ WhileReading /\ PlanModeFailsClosed

----------------------------------------------------------------------------
(* The rules of the gate. *)

(* The first rule that applies decides.                                    *)
LEMMA FirstRuleDecides ==
  ASSUME NEW rules, NEW n \in Nat, DOMAIN rules = 1..n,
         NEW i \in 1..n, rules[i].applies,
         \A j \in 1..(i - 1) : ~rules[j].applies
  PROVE  FirstRule(rules) = rules[i]
<1> DEFINE IsFirst(k) ==
             rules[k].applies /\ \A j \in 1..(k - 1) : ~rules[j].applies
           first == CHOOSE k \in DOMAIN rules : IsFirst(k)
<1>1. first \in 1..n /\ IsFirst(first)
  OBVIOUS
<1>2. ~(first < i) /\ ~(i < first)
  BY <1>1
<1>3. first = i
  BY <1>1, <1>2
<1> QED
  BY <1>3 DEF FirstRule

(* checkMutationGate lets only read-only calls through.                    *)
LEMMA GateIsReadOnly ==
  ASSUME NEW c, ~CheckMutationGate(c)
  PROVE  ReadOnlyCall(c)
<1> DEFINE rules == <<
             Rule(IsPlain(c, PlanModeAllowedTools), FALSE),
             Rule(HasCommand(c) /\ c.command.operators, TRUE),
             Rule(HasCommand(c) /\ c.command.flag, TRUE),
             Rule(HasCommand(c) /\ c.command.readOnly, FALSE),
             Rule(IsPlain(c, MutationToolBlocklist), TRUE),
             Rule(c.suffix \in MutationSuffixPatterns, TRUE),
             Rule(c.suffix \in ReadOnlySuffixPatterns, FALSE),
             Rule(TRUE, TRUE) >>
<1>1. DOMAIN rules = 1..8
  OBVIOUS
<1>2. rules[1].applies = IsPlain(c, PlanModeAllowedTools)
  BY DEF Rule
<1>3. rules[2].applies = (HasCommand(c) /\ c.command.operators)
  BY DEF Rule
<1>4. rules[3].applies = (HasCommand(c) /\ c.command.flag)
  BY DEF Rule
<1>5. rules[4].applies = (HasCommand(c) /\ c.command.readOnly)
  BY DEF Rule
<1>6. rules[7].applies = (c.suffix \in ReadOnlySuffixPatterns)
  BY DEF Rule
<1>7. rules[8].applies = TRUE
  BY DEF Rule
<1>8. /\ rules[2].blocks = TRUE
      /\ rules[3].blocks = TRUE
      /\ rules[5].blocks = TRUE
      /\ rules[6].blocks = TRUE
      /\ rules[8].blocks = TRUE
  BY DEF Rule
<1>9. CheckMutationGate(c) = FirstRule(rules).blocks
  BY DEF CheckMutationGate
<1> HIDE DEF rules
<1>10. ASSUME NEW i \in {2, 3, 5, 6, 8}, rules[i].applies,
              \A j \in 1..(i - 1) : ~rules[j].applies
       PROVE  FALSE
  <2>1. i \in 1..8 /\ 8 \in Nat
    OBVIOUS
  <2>2. FirstRule(rules) = rules[i]
    BY <1>1, <1>10, <2>1, FirstRuleDecides
  <2> QED
    BY <1>8, <1>9, <2>2
<1>11. CASE rules[1].applies
  BY <1>2, <1>11 DEF ReadOnlyCall
<1>12. CASE rules[7].applies
  BY <1>6, <1>12 DEF ReadOnlyCall
<1>13. CASE rules[4].applies /\ ~rules[2].applies /\ ~rules[3].applies
  BY <1>3, <1>4, <1>5, <1>13 DEF ReadOnlyCall
<1>14. CASE /\ ~rules[1].applies
            /\ rules[2].applies \/ rules[3].applies
  <2>1. CASE rules[2].applies
    <3>1. \A j \in 1..(2 - 1) : ~rules[j].applies
      BY <1>14
    <3> QED
      BY <1>10, <2>1, <3>1
  <2>2. CASE ~rules[2].applies
    <3>1. \A j \in 1..(3 - 1) : ~rules[j].applies
      BY <1>14, <2>2
    <3> QED
      BY <1>10, <1>14, <2>2, <3>1
  <2> QED
    BY <2>1, <2>2
<1>15. CASE \A j \in {1, 2, 3, 4, 7} : ~rules[j].applies
  <2>1. ~rules[5].applies
    <3>1. \A j \in 1..(5 - 1) : ~rules[j].applies
      BY <1>15
    <3> QED
      BY <1>10, <3>1
  <2>2. ~rules[6].applies
    <3>1. \A j \in 1..(6 - 1) : ~rules[j].applies
      BY <1>15, <2>1
    <3> QED
      BY <1>10, <3>1
  <2>3. \A j \in 1..(8 - 1) : ~rules[j].applies
    BY <1>15, <2>1, <2>2
  <2> QED
    BY <1>7, <1>10, <2>3
<1> QED
  BY <1>11, <1>12, <1>13, <1>14, <1>15

----------------------------------------------------------------------------
(* The type of the turn. *)

(* The counters of the host.                                               *)
Counters ==
    /\ DOMAIN attempts \subseteq Keys
    /\ \A k \in DOMAIN attempts : attempts[k] \in 1..MaxAttempts[Head(k)]

LEMMA Caps ==
  \A d \in Detectors : MaxAttempts[d] \in Nat
  BY DEF Detectors, MaxAttempts

LEMMA FinalizeKeepsCounters ==
  ASSUME Counters, NEW m \in Messages, NEW active \in BOOLEAN,
         Finalize(m, active)
  PROVE  Counters' /\ pc' \in {"running", "idle"} /\ pc = "running"
<1> DEFINE mode == IF InPlanMode(Snapshot) THEN "plan" ELSE "normal"
           isPostApproval ==
               Snapshot # Absent /\ Snapshot.approval \in {"approved", "edited"}
           detector == DecideEscalatingRetry(mode, isPostApproval, m, active)
           key == IdempotencyKey(detector, m)
<1>1. /\ pc = "running"
      /\ pc' \in {"running", "idle"}
      /\ \/ attempts' = attempts
         \/ /\ detector # NoDetector
            /\ AttemptsOf(key) < MaxAttempts[detector]
            /\ attempts' = [k \in DOMAIN attempts \cup {key} |->
                               AttemptsOf(k) + IF k = key THEN 1 ELSE 0]
  BY DEF Finalize
<1>2. detector \in Detectors \cup {NoDetector}
  BY DEF DecideEscalatingRetry, Detectors, MaxAttempts
<1> HIDE DEF detector
<1>3. CASE attempts' = attempts
  BY <1>1, <1>3 DEF Counters
<1>4. CASE attempts' # attempts
  <2>1. detector \in Detectors /\ key \in Keys /\ Head(key) = detector
    BY <1>1, <1>2, <1>4 DEF Keys, IdempotencyKey
  <2>2. MaxAttempts[detector] \in Nat
    BY <2>1, Caps
  <2>3. AttemptsOf(key) \in Nat
    BY <2>1, <2>2 DEF AttemptsOf, Counters
  <2> DEFINE n == AttemptsOf(key) + 1
  <2>4. n \in 1..MaxAttempts[Head(key)]
    BY <1>1, <1>4, <2>1, <2>2, <2>3
  <2> HIDE DEF n
  <2>5. \A k \in DOMAIN attempts : attempts[k] \in Nat
    <3> SUFFICES ASSUME NEW k \in DOMAIN attempts PROVE attempts[k] \in Nat
      OBVIOUS
    <3>1. PICK d \in Detectors : k = <<d>>
      BY DEF Counters, Keys, IdempotencyKey
    <3> QED
      BY <3>1, Caps DEF Counters
  <2> HIDE DEF key
  <2>6. attempts' = [k \in {key} \cup DOMAIN attempts |->
                       IF k = key THEN n ELSE attempts[k]]
    <3>1. attempts' = [k \in DOMAIN attempts \cup {key} |->
                          AttemptsOf(k) + IF k = key THEN 1 ELSE 0]
      BY <1>1, <1>4
    <3>2. \A k \in DOMAIN attempts \cup {key} :
             AttemptsOf(k) + (IF k = key THEN 1 ELSE 0) = IF k = key THEN n ELSE attempts[k]
      BY <2>5 DEF n, AttemptsOf
    <3> QED
      BY <3>1, <3>2
  <2> QED
    BY <1>1, <2>1, <2>4, <2>6 DEF Counters
<1> QED
  BY <1>3, <1>4

LEMMA TurnTypeStep ==
  ASSUME TurnTypeOK, [TurnNext]_vars
  PROVE  TurnTypeOK'
<1> USE TurnAssumption DEF TurnTypeOK, Turn
<1>1. CASE StartTurn
  BY <1>1 DEF StartTurn, NothingTold, NoAttempts
<1>2. CASE ResolveModel \/ BuildPrompt
  BY <1>2 DEF ResolveModel, BuildPrompt
<1>3. CASE \E c \in Calls : CallTool(c)
  BY <1>3 DEF CallTool, Decide, Phase
<1>4. CASE ReadSnapshot \/ ToolDone
  BY <1>4 DEF ReadSnapshot, Decide, ToolDone
<1>5. CASE \E m \in Messages, active \in BOOLEAN : Finalize(m, active)
  <2>1. PICK m \in Messages, active \in BOOLEAN : Finalize(m, active)
    BY <1>5
  <2>2. Counters' /\ pc' \in {"running", "idle"} /\ pc = "running"
    BY <2>1, FinalizeKeepsCounters DEF Counters
  <2>3. UNCHANGED <<session, projected, version, told, call, seen>>
    BY <2>1 DEF Finalize
  <2> QED
    BY <2>2, <2>3 DEF Counters
<1>6. CASE SessionChanges
  <2>1. session' \in SessionPayload
    BY <1>6, StoreStepType DEF SessionChanges
  <2> QED
    BY <1>6, <2>1 DEF SessionChanges, turnVars, Phase
<1>7. CASE RollBack
  BY <1>7 DEF RollBack, NothingTold, NoAttempts
<1>8. CASE UNCHANGED vars
  BY <1>8 DEF vars
<1> QED
  BY <1>1, <1>2, <1>3, <1>4, <1>5, <1>6, <1>7, <1>8 DEF TurnNext

(* Type correctness of the turn, its hooks and the host's counters.        *)
THEOREM TurnTypeCorrect == TurnSpec => []TurnTypeOK
<1>1. TurnInit => TurnTypeOK
  BY TurnAssumption
     DEF TurnInit, Init, TurnTypeOK, SessionPayload, NothingTold, Turn, NoAttempts
<1> QED
  BY <1>1, TurnTypeStep, PTL DEF TurnSpec

----------------------------------------------------------------------------
(* The gate through the turn. *)

LEMMA TurnInitInv == TurnInit => TurnInv
  BY DEF TurnInit, TurnInv, NewerIsProjected, WhileReading, PlanModeFailsClosed

(* In plan mode a call that is not blocked is read-only.                   *)
LEMMA AllowedIsReadOnly ==
  ASSUME NEW s, NEW c, Decide(s, c), pc' = "allowed", Phase(s) = "plan"
  PROVE  ReadOnlyCall(c)
<1>1. ~CheckMutationGate(c)
  BY DEF Decide, Blocks
<1> QED
  BY <1>1, GateIsReadOnly

LEMMA CallToolKeepsInv ==
  ASSUME TurnInv, NEW c \in Calls, CallTool(c)
  PROVE  TurnInv'
<1>1. /\ call' = c /\ seen' = {Phase(session)}
      /\ UNCHANGED <<session, projected, version>>
  BY DEF CallTool
<1>2. NewerIsProjected'
  BY <1>1 DEF TurnInv, NewerIsProjected
<1>3. CASE HostView # Absent
  <2>1. HostView = session /\ Decide(session, c)
    BY <1>3 DEF HostView, CallTool
  <2>2. pc' \in {"blocked", "allowed"}
    BY <2>1 DEF Decide
  <2>3. PlanModeFailsClosed'
    <3>1. ASSUME pc' = "allowed" PROVE ReadOnlyCall(call') \/ seen' # {"plan"}
      BY <1>1, <2>1, <3>1, AllowedIsReadOnly
    <3> QED
      BY <3>1 DEF PlanModeFailsClosed, ReadOnlyCall, HasCommand, IsPlain
  <2> QED
    BY <1>2, <2>2, <2>3 DEF TurnInv, WhileReading
<1>4. CASE HostView = Absent
  <2>1. pc' = "reading" /\ version # "newer"
    BY <1>4 DEF CallTool, HostView, TurnInv, NewerIsProjected
  <2> QED
    BY <1>1, <1>2, <2>1
       DEF TurnInv, WhileReading, PlanModeFailsClosed, Phase, InPlanMode
<1> QED
  BY <1>3, <1>4

LEMMA ReadSnapshotKeepsInv ==
  ASSUME TurnInv, ReadSnapshot
  PROVE  TurnInv'
<1>1. /\ pc' \in {"blocked", "allowed"}
      /\ UNCHANGED <<session, projected, version, call, seen>>
  BY DEF ReadSnapshot, Decide
<1>2. Snapshot = session /\ Phase(session) \in seen
  BY DEF ReadSnapshot, TurnInv, WhileReading, Snapshot
<1>3. ASSUME pc' = "allowed" PROVE ReadOnlyCall(call) \/ seen # {"plan"}
  <2>1. Phase(session) = "plan" => ReadOnlyCall(call)
    BY <1>2, <1>3, AllowedIsReadOnly DEF ReadSnapshot
  <2> QED
    BY <1>2, <2>1
<1>4. PlanModeFailsClosed'
  BY <1>1, <1>3 DEF PlanModeFailsClosed, ReadOnlyCall, HasCommand, IsPlain
<1> QED
  BY <1>1, <1>4 DEF TurnInv, NewerIsProjected, WhileReading

LEMMA SessionChangesKeepsInv ==
  ASSUME TurnInv, SessionChanges
  PROVE  TurnInv'
<1>1. /\ version' = "current"
      /\ seen' = IF pc = "reading" THEN seen \cup {Phase(session')} ELSE seen
      /\ UNCHANGED <<projected, pc, told, call, attempts>>
  BY DEF SessionChanges, turnVars
<1>2. NewerIsProjected'
  BY <1>1 DEF NewerIsProjected
<1>3. Phase(session)' = Phase(session')
  BY DEF Phase, InPlanMode
<1>4. WhileReading'
  BY <1>1, <1>3 DEF WhileReading
<1>5. PlanModeFailsClosed'
  BY <1>1 DEF TurnInv, PlanModeFailsClosed, ReadOnlyCall, HasCommand, IsPlain
<1> QED
  BY <1>2, <1>4, <1>5 DEF TurnInv

LEMMA TurnStepInv ==
  ASSUME TurnInv, [TurnNext]_vars
  PROVE  TurnInv'
<1> USE DEF TurnInv, NewerIsProjected, WhileReading, PlanModeFailsClosed
<1>1. ASSUME UNCHANGED <<session, projected, version>>,
             pc' \notin {"reading", "allowed"}
      PROVE  TurnInv'
  BY <1>1
<1>2. CASE StartTurn \/ ResolveModel \/ BuildPrompt \/ ToolDone
  BY <1>1, <1>2 DEF StartTurn, ResolveModel, BuildPrompt, ToolDone
<1>3. CASE \E m \in Messages, active \in BOOLEAN : Finalize(m, active)
  <2>1. /\ UNCHANGED <<session, projected, version>>
        /\ pc' \in {"running", "idle"}
    BY <1>3 DEF Finalize
  <2> QED
    BY <1>1, <2>1
<1>4. CASE RollBack
  BY <1>4 DEF RollBack
<1>5. CASE UNCHANGED vars
  BY <1>5 DEF vars, Phase, InPlanMode, ReadOnlyCall, HasCommand, IsPlain
<1> QED
  BY <1>2, <1>3, <1>4, <1>5, CallToolKeepsInv, ReadSnapshotKeepsInv,
     SessionChangesKeepsInv
     DEF TurnNext

(* No call that could change something is let through while a plan waits,  *)
(* for any tool calls, messages, plans and actors.                         *)
THEOREM GateFailsClosed == TurnSpec => []PlanModeFailsClosed
<1>1. TurnInv => PlanModeFailsClosed
  BY DEF TurnInv
<1> QED
  BY <1>1, TurnInitInv, TurnStepInv, PTL DEF TurnSpec
----------------------------------------------------------------------------
(* The accept-edits gate through the turn.                                 *)

(* A call that is let through in the phase of edits passed the gate.       *)
PassedEditsGate ==
    pc = "allowed" /\ seen = {"edits"} => ~CheckAcceptEditsConstraint(call)

LEMMA AllowedPassedGate ==
  ASSUME NEW s, NEW c, Decide(s, c), pc' = "allowed", Phase(s) = "edits"
  PROVE  ~CheckAcceptEditsConstraint(c)
  BY DEF Decide, Blocks

LEMMA EditsStep ==
  ASSUME TurnInv, PassedEditsGate, [TurnNext]_vars
  PROVE  PassedEditsGate'
<1> SUFFICES ASSUME pc' = "allowed", seen' = {"edits"}
             PROVE  ~CheckAcceptEditsConstraint(call')
  BY DEF PassedEditsGate, CheckAcceptEditsConstraint, CheckExecCommand, HasCommand,
         IsPlain, CandidatePaths, FilePaths, PathParameters
<1>1. CASE \E c \in Calls : CallTool(c)
  <2>1. PICK c \in Calls : CallTool(c)
    BY <1>1
  <2>2. HostView = session /\ Decide(session, c) /\ call' = c /\ seen' = {Phase(session)}
    BY <2>1 DEF CallTool, HostView
  <2>3. Phase(session) = "edits"
    BY <2>2
  <2> QED
    BY <2>2, <2>3, AllowedPassedGate
<1>2. CASE ReadSnapshot
  <2>1. /\ Snapshot = session
        /\ Decide(session, call)
        /\ call' = call
        /\ Phase(session) \in seen
        /\ seen' = seen
    BY <1>2 DEF ReadSnapshot, TurnInv, WhileReading, Snapshot
  <2>2. Phase(session) = "edits"
    BY <2>1
  <2> QED
    BY <2>1, <2>2, AllowedPassedGate
<1>3. CASE SessionChanges
  <2>1. pc = "allowed" /\ seen = {"edits"} /\ call' = call
    BY <1>3 DEF SessionChanges, turnVars
  <2> QED
    BY <2>1 DEF PassedEditsGate
<1>4. CASE UNCHANGED vars
  BY <1>4 DEF vars, PassedEditsGate
<1> QED
  BY <1>1, <1>2, <1>3, <1>4
  DEF TurnNext, StartTurn, ResolveModel, BuildPrompt, ToolDone, Finalize, RollBack

(* After an acceptance with edits no call runs that the accept-edits gate   *)
(* blocks, whoever moves the session.                                       *)
LEMMA EditsGateHolds == TurnSpec => []PassedEditsGate
<1>1. TurnInit => PassedEditsGate
  BY DEF TurnInit, PassedEditsGate
<1> QED
  BY <1>1, EditsStep, TurnInitInv, TurnStepInv, PTL DEF TurnSpec

(* Without links the gate finds a protected file by any rooted path.       *)
LEMMA ProtectedIsFound ==
  ASSUME NoLinks, NEW path \in DOMAIN Location, Rooted(path), Protected(path)
  PROVE  CheckProtectedPath(path)
  BY DEF NoLinks, Protected, ProtectedDirs, CheckProtectedPath

(* What a call says it writes is handed to the gate: where one of the three *)
(* parameters is the only one, it is the first that the hook finds.         *)
LEMMA WrittenIsChecked ==
  ASSUME NEW c
  PROVE  Written(c) \subseteq CandidatePaths(c)
<1> SUFFICES ASSUME NEW n \in {"file_path", "path", "target"}, DOMAIN c.params = {n}
             PROVE  c.params[n] \in FilePaths(c)
  BY DEF Written, CandidatePaths
<1>1. PICK i \in DOMAIN PathParameters : PathParameters[i] = n
  <2>1. /\ DOMAIN PathParameters = 1..3
        /\ PathParameters[1] = "file_path"
        /\ PathParameters[2] = "path"
        /\ PathParameters[3] = "target"
    BY DEF PathParameters
  <2> QED
    BY <2>1
<1>2. \A j \in DOMAIN PathParameters : PathParameters[j] = n => i <= j
  BY <1>1 DEF PathParameters
<1> QED
  BY <1>1, <1>2 DEF FilePaths

(* After an acceptance with edits no call runs that is destructive, stops   *)
(* the gateway or changes its configuration; and, where rooted paths lead   *)
(* over no links, none that says by a rooted path, in its patch or in one   *)
(* parameter that the hook reads, that it writes a protected file: for any  *)
(* tool calls, any spelling and whoever moves the session.                  *)
THEOREM EditsConstrained ==
  ASSUME NoLinks
  PROVE  TurnSpec => []EditsStayConstrained
<1>1. TurnTypeOK /\ PassedEditsGate => EditsStayConstrained
  <2> SUFFICES ASSUME TurnTypeOK, PassedEditsGate, pc = "allowed", seen = {"edits"}
               PROVE  /\ HasCommand(call) => call.command.matches = {}
                      /\ IsPlain(call, PathWriterTools) =>
                            \A path \in Written(call) : Rooted(path) => ~Protected(path)
    BY DEF EditsStayConstrained
  <2>1. call \in Calls
    BY DEF TurnTypeOK
  <2>2. \A path \in Written(call) : path \in DOMAIN Location
    BY <2>1, TurnAssumption DEF Written, Range
  <2>3. ~CheckAcceptEditsConstraint(call)
    BY DEF PassedEditsGate
  <2>4. HasCommand(call) => call.command.matches = {}
    BY <2>3 DEF CheckAcceptEditsConstraint, CheckExecCommand
  <2>5. ASSUME IsPlain(call, PathWriterTools), NEW path \in Written(call), Rooted(path)
        PROVE  ~Protected(path)
    <3>1. ~CheckProtectedPath(path)
      BY <2>3, <2>5, WrittenIsChecked DEF CheckAcceptEditsConstraint
    <3> QED
      BY <2>2, <2>5, <3>1, ProtectedIsFound
  <2> QED
    BY <2>4, <2>5
<1> QED
  BY <1>1, EditsGateHolds, TurnTypeCorrect, PTL

----------------------------------------------------------------------------
(* Sums over finite sets.  SumFunctionOnSet is recursive, so what it is    *)
(* follows from a function that satisfies the recursion: there is no       *)
(* smallest set on which the two differ.                                   *)

Pick(s) == CHOOSE x \in s : TRUE

AddsUp(W, f, S) ==
    /\ W \in [SUBSET S -> Nat]
    /\ W[{}] = 0
    /\ \A s \in SUBSET S : \A x \in s : W[s] = f[x] + W[s \ {x}]

LEMMA SumIs ==
  ASSUME NEW f, NEW S, IsFiniteSet(S), NEW W, AddsUp(W, f, S)
  PROVE  SumFunctionOnSet(f, S) = W[S]
<1> DEFINE sum == CHOOSE h : h = [s \in SUBSET S |->
                      IF s = {} THEN 0 ELSE f[Pick(s)] + h[s \ {Pick(s)}]]
<1>1. SumFunctionOnSet(f, S) = sum[S]
  BY DEF SumFunctionOnSet, FoldFunctionOnSet, MapThenFoldSet, Pick
<1>2. \A s : s # {} => Pick(s) \in s
  BY DEF Pick
<1>3. W = [s \in SUBSET S |-> IF s = {} THEN 0 ELSE f[Pick(s)] + W[s \ {Pick(s)}]]
  BY <1>2 DEF AddsUp
<1>4. sum = [s \in SUBSET S |-> IF s = {} THEN 0 ELSE f[Pick(s)] + sum[s \ {Pick(s)}]]
  BY <1>3
<1> HIDE DEF sum
<1> DEFINE Differ == {s \in SUBSET S : sum[s] # W[s]}
           R      == StrictSubsetOrdering(S)
<1>5. Differ = {}
  <2> SUFFICES ASSUME Differ # {} PROVE FALSE
    OBVIOUS
  <2>1. IsWellFoundedOn(R, SUBSET S)
    BY FS_StrictSubsetOrderingWellFounded, FS_FiniteSubsetsOfFinite
  <2>2. Differ \subseteq SUBSET S
    OBVIOUS
  <2> HIDE DEF R, Differ
  <2>3. PICK s \in Differ : \A t \in Differ : ~(<<t, s>> \in R)
    BY <2>1, <2>2, WFMin
  <2>4. s \in SUBSET S /\ sum[s] # W[s] /\ s # {}
    BY <1>3, <1>4, <2>3 DEF Differ
  <2> DEFINE t == s \ {Pick(s)}
  <2>5. t \in SUBSET S /\ t \subseteq s /\ t # s
    BY <1>2, <2>4
  <2>6. <<t, s>> \in R
    BY <2>4, <2>5 DEF R, StrictSubsetOrdering
  <2>7. sum[t] = W[t]
    BY <2>3, <2>5, <2>6 DEF Differ
  <2>8. sum[s] = f[Pick(s)] + sum[t]
    BY <1>4, <2>4
  <2>9. W[s] = f[Pick(s)] + W[t]
    BY <1>2, <2>4 DEF AddsUp
  <2> QED
    BY <2>4, <2>7, <2>8, <2>9
<1>6. S \in SUBSET S
  OBVIOUS
<1> QED
  BY <1>1, <1>5, <1>6

At(f, S, x) == IF x \in S THEN f[x] ELSE 0

LEMMA SumOfThree ==
  ASSUME NEW a, NEW b, NEW c, a # b, a # c, b # c,
         NEW f, NEW S, S \subseteq {a, b, c}, \A x \in S : f[x] \in Nat
  PROVE  SumFunctionOnSet(f, S) = At(f, S, a) + At(f, S, b) + At(f, S, c)
<1> DEFINE V(x, s) == IF x \in s THEN f[x] ELSE 0
           W == [s \in SUBSET S |-> V(a, s) + V(b, s) + V(c, s)]
<1>1. IsFiniteSet(S)
  <2>1. IsFiniteSet({a, b, c})
    <3>1. IsFiniteSet({a})
      BY FS_Singleton
    <3>2. IsFiniteSet({a} \cup {b})
      BY <3>1, FS_AddElement
    <3>3. IsFiniteSet(({a} \cup {b}) \cup {c})
      BY <3>2, FS_AddElement
    <3>4. ({a} \cup {b}) \cup {c} = {a, b, c}
      OBVIOUS
    <3> QED
      BY <3>3, <3>4
  <2> QED
    BY <2>1, FS_Subset
<1>2. \A s \in SUBSET S : \A x : V(x, s) \in Nat
  OBVIOUS
<1>3. W \in [SUBSET S -> Nat] /\ W[{}] = 0
  BY <1>2
<1>4. ASSUME NEW s \in SUBSET S, NEW x \in s
      PROVE  W[s] = f[x] + W[s \ {x}]
  <2>1. \A y : V(y, s) = IF y = x THEN f[x] ELSE V(y, s \ {x})
    BY <1>4
  <2>2. V(x, s \ {x}) = 0
    OBVIOUS
  <2>3. x \in {a, b, c} /\ f[x] \in Nat /\ s \ {x} \in SUBSET S
    OBVIOUS
  <2>4. /\ W[s] = V(a, s) + V(b, s) + V(c, s)
        /\ W[s \ {x}] = V(a, s \ {x}) + V(b, s \ {x}) + V(c, s \ {x})
    BY <2>3
  <2> HIDE DEF V, W
  <2>5. /\ V(a, s \ {x}) \in Nat
        /\ V(b, s \ {x}) \in Nat
        /\ V(c, s \ {x}) \in Nat
    BY <1>2, <2>3
  <2>6. CASE x = a
    <3>1. V(a, s) = f[x] /\ V(a, s \ {x}) = 0
      BY <2>1, <2>2, <2>6
    <3>2. V(b, s) = V(b, s \ {x}) /\ V(c, s) = V(c, s \ {x})
      BY <2>1, <2>6
    <3> QED
      BY <2>3, <2>4, <2>5, <3>1, <3>2
  <2>7. CASE x = b
    <3>1. V(b, s) = f[x] /\ V(b, s \ {x}) = 0
      BY <2>1, <2>2, <2>7
    <3>2. V(a, s) = V(a, s \ {x}) /\ V(c, s) = V(c, s \ {x})
      BY <2>1, <2>7
    <3> QED
      BY <2>3, <2>4, <2>5, <3>1, <3>2
  <2>8. CASE x = c
    <3>1. V(c, s) = f[x] /\ V(c, s \ {x}) = 0
      BY <2>1, <2>2, <2>8
    <3>2. V(a, s) = V(a, s \ {x}) /\ V(b, s) = V(b, s \ {x})
      BY <2>1, <2>8
    <3> QED
      BY <2>3, <2>4, <2>5, <3>1, <3>2
  <2> QED
    BY <2>3, <2>6, <2>7, <2>8
<1> HIDE DEF W
<1>5. SumFunctionOnSet(f, S) = W[S]
  <2>1. AddsUp(W, f, S)
    BY <1>3, <1>4 DEF AddsUp
  <2> QED
    BY <1>1, <2>1, SumIs
<1>6. W[S] = V(a, S) + V(b, S) + V(c, S)
  BY DEF W
<1> QED
  BY <1>5, <1>6 DEF At

----------------------------------------------------------------------------
(* What the three caps allow together is not exceeded.                     *)
LEMMA CapsBound ==
  ASSUME TurnTypeOK
  PROVE  RetriesBounded
<1> DEFINE a == "PLAN_YIELD"
           b == "PLAN_ACK_ONLY"
           c == "PLANNING_RETRY"
<1>1. /\ Detectors = {a, b, c}
      /\ MaxAttempts[a] = 2 /\ MaxAttempts[b] = 2 /\ MaxAttempts[c] = 3
      /\ a # b /\ a # c /\ b # c
  BY DEF Detectors, MaxAttempts
<1> HIDE DEF a, b, c
<1>2. SumFunction(MaxAttempts) = 7
  <2>1. /\ DOMAIN MaxAttempts = {a, b, c}
        /\ \A x \in {a, b, c} : MaxAttempts[x] \in Nat
    BY <1>1 DEF Detectors
  <2> DEFINE caps == MaxAttempts
             all  == {a, b, c}
  <2>2. all \subseteq {a, b, c} /\ \A x \in all : caps[x] \in Nat
    BY <2>1
  <2>3. At(caps, all, a) = 2 /\ At(caps, all, b) = 2 /\ At(caps, all, c) = 3
    BY <1>1 DEF At
  <2>4. SumFunction(caps) = SumFunctionOnSet(caps, all)
    BY <2>1 DEF SumFunction
  <2> HIDE DEF caps, all
  <2>5. SumFunctionOnSet(caps, all) = At(caps, all, a) + At(caps, all, b) + At(caps, all, c)
    BY <1>1, <2>2, SumOfThree
  <2>6. SumFunction(caps) = 7
    BY <2>3, <2>4, <2>5
  <2> QED
    BY <2>6 DEF caps
<1> DEFINE S == DOMAIN attempts
           Of(d) == At(attempts, S, <<d>>)
<1>3. /\ S \subseteq {<<a>>, <<b>>, <<c>>}
      /\ \A d \in Detectors : <<d>> \in S => attempts[<<d>>] \in 1..MaxAttempts[d]
      /\ \A k \in S : attempts[k] \in Nat
  <2>1. \A k \in S : \E d \in Detectors : k = <<d>>
    BY DEF TurnTypeOK, Keys, IdempotencyKey
  <2>2. \A d \in Detectors : <<d>> \in S => attempts[<<d>>] \in 1..MaxAttempts[Head(<<d>>)]
    BY DEF TurnTypeOK
  <2>3. \A d \in Detectors : Head(<<d>>) = d
    OBVIOUS
  <2>4. \A d \in Detectors : <<d>> \in S => attempts[<<d>>] \in 1..MaxAttempts[d]
    BY <2>2, <2>3
  <2> HIDE DEF S
  <2>5. S \subseteq {<<a>>, <<b>>, <<c>>}
    BY <1>1, <2>1
  <2>6. \A k \in S : attempts[k] \in Nat
    BY <2>1, <2>4, Caps
  <2> QED
    BY <2>4, <2>5, <2>6
<1>4. SumFunction(attempts) = Of(a) + Of(b) + Of(c)
  <2>1. <<a>> # <<b>> /\ <<a>> # <<c>> /\ <<b>> # <<c>>
    BY <1>1
  <2>2. SumFunctionOnSet(attempts, S) = Of(a) + Of(b) + Of(c)
    BY <1>3, <2>1, SumOfThree
  <2> QED
    BY <2>2 DEF SumFunction
<1>5. /\ Of(a) \in Nat /\ Of(a) <= 2
      /\ Of(b) \in Nat /\ Of(b) <= 2
      /\ Of(c) \in Nat /\ Of(c) <= 3
  BY <1>1, <1>3 DEF At
<1> HIDE DEF Of
<1>6. Of(a) + Of(b) + Of(c) <= 7
  BY <1>5
<1> QED
  BY <1>2, <1>4, <1>6 DEF RetriesBounded

(* escalating-retry.ts: for any messages and whoever moves the session from *)
(* mode to mode, a turn is sent back at most as often as the caps allow     *)
(* together, so the last message of a turn never keeps it going for ever.   *)
THEOREM RetriesEnd == TurnSpec => []RetriesBounded
  BY CapsBound, TurnTypeCorrect, PTL
=============================================================================
