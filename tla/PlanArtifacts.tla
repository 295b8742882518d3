--------------------------- MODULE PlanArtifacts ---------------------------
(***************************************************************************)
(* What one approval cycle leaves outside of the payload, and who keeps it *)
(* in step with the payload:                                               *)
(*                                                                         *)
(*   - the audit listener of index.ts, called after every committed write, *)
(*     which moves the managed task flow of the host                       *)
(*     (runtime/task-flow-visibility.ts) and the grant ledger              *)
(*     (runtime/grant-ledger.ts);                                          *)
(*   - the rest of an exit_plan_mode call, which writes the plan to a file *)
(*     (plan-mode/plan-archetype-persist.ts) and sends a card with four    *)
(*     buttons (runtime/plan-notifications.ts);                            *)
(*   - the clicks on those buttons, which come back as decisions.          *)
(*                                                                         *)
(* The payload itself is PlanModeStore's.  The emission of an event        *)
(* follows its write before any other write of the session can commit, so  *)
(* both are one step here, unless the process stops between the two.       *)
(*                                                                         *)
(* Abstractions.  All titles of the instance give one file name per day,   *)
(* the case of contention; a file's content is the approval id of the      *)
(* cycle that wrote it.  Task flows of other controllers are left out.     *)
(***************************************************************************)
EXTENDS PlanModeStore, Sequences, FiniteSets

CONSTANTS
    Submitters, \* exit_plan_mode calls that may be in flight together
    Clickers,   \* button callbacks that may be in flight together
    NoButton,   \* no button is being handled
    Free,       \* a file name that is not taken
    Taken,      \* a file of another session, or one left half written
    MaxSuffix,  \* MAX_COLLISION_SUFFIX: 99 in the code
    MaxFlows    \* bound on the host's list of task flows, for TLC

ASSUME SuffixAssumption == MaxSuffix \in Nat \ {0} /\ MaxFlows \in Nat
ASSUME FileAssumption   == {Free, Taken} \cap Nat = {} /\ Free # Taken

(* Revise and Reject differ in the feedback they send along.               *)
ButtonActions == {"accept", "reject", "cancel"}

NoFile == 0

VARIABLES
    minted,    \* approval ids minted so far: UUIDs, so none comes back
    flows,     \* the host's managed task flows of this session, in list order
    ledger,    \* GrantLedger.entries: the approval ids it knows
    files,     \* files[n]: the n-th name of the day, "<base>-n.md"
    submitter, \* exit_plan_mode calls, after the store call
    tokens,    \* module-level map of button tokens
    cards,     \* cards on the user's screen
    clicker,   \* button callbacks
    fault      \* history: the fault that has happened, at most one

hostVars == <<flows, files, cards>>
taskVars == <<submitter, tokens, clicker>>
vars == <<session, minted, flows, ledger, files, submitter, tokens, cards,
          clicker, fault>>

Ids == ApprovalIds

Idle == [pc |-> "idle", id |-> NoId, file |-> NoFile]

SubmitterState ==
    [pc : {"idle", "write", "notify", "send"}, id : Ids \cup {NoId},
     file : 0..MaxSuffix]

Button == [id : Ids, action : ButtonActions]

Flow == [id : Ids \cup {NoId}, status : {"waiting", "finished"},
         step : {"approval", "revision"}]

----------------------------------------------------------------------------
(* createPlanModeTaskFlowVisibility.recordTransition *)

(* The faults that can part the host from the payload: the process stops,  *)
(* or the host refuses or fails a task-flow call.                          *)
Fault == {"none", "restarted", "refused"}

HappensOnce(f) == fault = "none" /\ fault' = f

First(S) == CHOOSE i \in S : \A j \in S : i <= j

FlowsOf(id) == {i \in DOMAIN flows : flows[i].id = id}

ActiveFlows == {i \in DOMAIN flows : flows[i].status # "finished"}

Waiting(id, step) == [id |-> id, status |-> "waiting", step |-> step]

(* setWaiting on the first flow of a non-empty set; the host may refuse.   *)
SetWaiting(S, id, step) ==
    flows' = [flows EXCEPT ![First(S)] = Waiting(id, step)] /\ UNCHANGED fault

CreateManaged(id) ==
    /\ Len(flows) < MaxFlows
    /\ flows' = Append(flows, Waiting(id, "approval"))

HostRefuses == HappensOnce("refused") /\ UNCHANGED flows

(* mutant: a rejected plan's flow is not taken over by its revision *)
ShowPendingAnew(id) ==
    \/ FlowsOf(id) # {} /\ UNCHANGED <<flows, fault>>
    \/ FlowsOf(id) = {} /\ CreateManaged(id) /\ UNCHANGED fault

(* A pending approval: keep its flow, else take over the session's active  *)
(* flow, else (or if the host refuses that) create one.                    *)
ShowPending(id) ==
    \/ FlowsOf(id) # {} /\ UNCHANGED <<flows, fault>>
    \/ FlowsOf(id) = {} /\ ActiveFlows # {} /\ SetWaiting(ActiveFlows, id, "approval")
    \/ FlowsOf(id) = {} /\ ActiveFlows # {} /\ CreateManaged(id) /\ HappensOnce("refused")
    \/ FlowsOf(id) = {} /\ ActiveFlows = {} /\ CreateManaged(id) /\ UNCHANGED fault
    \/ FlowsOf(id) = {} /\ HostRefuses

(* mutant: leaving plan mode does not finish the flow *)
ShowDecidedOnly(id, next) ==
    \/ FlowsOf(id) = {} /\ UNCHANGED <<flows, fault>>
    \/ /\ FlowsOf(id) # {} /\ next.approval = "rejected"
       /\ SetWaiting(FlowsOf(id), next.approvalId, "revision")
    \/ /\ FlowsOf(id) # {} /\ next.approval \in {"approved", "edited"}
       /\ flows' = [flows EXCEPT ![First(FlowsOf(id))] =
                       [@ EXCEPT !.status = "finished", !.id = next.approvalId]]
       /\ UNCHANGED fault
    \/ FlowsOf(id) # {} /\ next.approval \in {"timed_out", "none"}
         /\ UNCHANGED <<flows, fault>>

(* Any other event about a cycle that has a flow.                          *)
ShowDecided(id, next) ==
    \/ FlowsOf(id) = {} /\ UNCHANGED <<flows, fault>>
    \/ FlowsOf(id) # {} /\ next.approval = "timed_out" /\ UNCHANGED <<flows, fault>>
    \/ /\ FlowsOf(id) # {} /\ next.approval = "rejected"
       /\ SetWaiting(FlowsOf(id), next.approvalId, "revision")
    \/ /\ FlowsOf(id) # {} /\ next.approval \in {"approved", "edited", "none"}
       /\ flows' = [flows EXCEPT ![First(FlowsOf(id))] =
                       [@ EXCEPT !.status = "finished", !.id = next.approvalId]]
       /\ UNCHANGED fault
    \/ FlowsOf(id) # {} /\ next.approval # "timed_out" /\ HostRefuses

IdBefore(prev) == OrFresh(prev).approvalId

RecordTransition(prev, next) ==
    LET id == IF next.approvalId # NoId THEN next.approvalId ELSE IdBefore(prev)
    IN  IF next.approval = "pending"
        THEN ShowPending(next.approvalId)
        ELSE IF id = NoId THEN UNCHANGED <<flows, fault>>
                          ELSE ShowDecided(id, next)

----------------------------------------------------------------------------
(* The listener's ledger updates: GrantLedger.record and prune.            *)

Granted(prev, next) ==
    IF next.approval = "pending" /\ next.approvalId # IdBefore(prev)
    THEN {next.approvalId} ELSE {}

(* mutant: only an approval prunes *)
PrunedAcceptedOnly(prev, next) ==
    IF next.approval = "approved" THEN {IdBefore(prev)} ELSE {}

Pruned(prev, next) ==
    IF next.approval \in {"approved", "edited", "rejected"}
    THEN {IdBefore(prev)} ELSE {}

Listen(prev, next) ==
    /\ RecordTransition(prev, next)
    /\ ledger' = (ledger \cup Granted(prev, next)) \ Pruned(prev, next)

----------------------------------------------------------------------------
(* Every write of the store, with its audit event.  The last disjunct of   *)
(* a write is the process stopping before the listener has run.            *)

RejectionsUnderBound == session' # Absent => session'.rejectionCount <= MaxRejections

(* What a restart does to the process: every call in flight and every map  *)
(* in memory is gone; the payload, the files, the host's flows and the     *)
(* user's screen stay.                                                     *)
Stopped ==
    /\ submitter' = [s \in Submitters |-> Idle]
    /\ clicker' = [c \in Clickers |-> NoButton]
    /\ tokens' = {}
    /\ ledger' = {}
    /\ HappensOnce("restarted")

Heard == Listen(session, session')

Unheard == Stopped /\ UNCHANGED flows

(* Calls of the store made elsewhere: enter_plan_mode, the sidebar, the    *)
(* slash commands, the auto-approve trigger, /plan auto.  The questions of *)
(* a session are left out: for the listener their events are like those of *)
(* /plan auto, the same approval as before.  Every rejection has feedback. *)
Elsewhere ==
    \/ EnterPlanMode
    \/ \E token \in Tokens : ExitPlanMode(token)
    \/ \E action \in ApprovalAction, token \in Tokens,
          fb \in Feedback :
          ApplyApprovalAction(action, fb, token)
    \/ \E flag \in {"on", "off"} : SetAutoApprove(flag)

StoreCall ==
    /\ Elsewhere
    /\ RejectionsUnderBound
    /\ \/ Heard /\ UNCHANGED taskVars
       \/ Unheard
    /\ UNCHANGED <<minted, files, cards>>

----------------------------------------------------------------------------
(* exit_plan_mode.  A reused or skipped request ends the call.             *)

Submit(s, p) ==
    /\ submitter[s] = Idle
    /\ minted + 1 \in Ids
    /\ PersistApprovalRequest(minted + 1, p)
    /\ minted' = minted + 1
    /\ \/ /\ Heard
          /\ submitter' = [submitter EXCEPT ![s] =
                              [pc |-> "write", id |-> minted', file |-> 1]]
          /\ UNCHANGED <<tokens, clicker>>
       \/ Unheard
    /\ UNCHANGED <<files, cards>>

AtPc(s, pc) == submitter[s].pc = pc

(* mutant: the file is opened for writing instead of exclusive creation *)
WriteFileOver(s) ==
    /\ AtPc(s, "write")
    /\ files' = [files EXCEPT ![submitter[s].file] = submitter[s].id]
    /\ submitter' = [submitter EXCEPT ![s].pc = "notify"]
    /\ UNCHANGED <<session, minted, flows, ledger, tokens, cards, clicker, fault>>

(* mutant: the cap is compared before the suffix is incremented *)
WriteFileBeyondCap(s) ==
    LET n == submitter[s].file IN
    /\ AtPc(s, "write")
    /\ n <= MaxSuffix
    /\ \/ /\ files[n] = Free
          /\ files' = [files EXCEPT ![n] = submitter[s].id]
          /\ submitter' = [submitter EXCEPT ![s].pc = "notify"]
       \/ /\ files[n] # Free
          /\ submitter' = [submitter EXCEPT ![s].file = n + 1]
          /\ UNCHANGED files
    /\ UNCHANGED <<session, minted, flows, ledger, tokens, cards, clicker, fault>>

(* One turn of the loop of persistPlanArchetypeMarkdown: the exclusive     *)
(* create succeeds, or the name is taken and the next one is tried, up to  *)
(* the cap, where the error is swallowed by persistPlanArchetypeIfConfigured. *)
WriteFile(s) ==
    LET n == submitter[s].file IN
    /\ AtPc(s, "write")
    /\ \/ /\ files[n] = Free
          /\ files' = [files EXCEPT ![n] = submitter[s].id]
          /\ submitter' = [submitter EXCEPT ![s].pc = "notify"]
       \/ /\ files[n] # Free /\ n < MaxSuffix
          /\ submitter' = [submitter EXCEPT ![s].file = n + 1]
          /\ UNCHANGED files
       \/ /\ files[n] # Free /\ n = MaxSuffix
          /\ submitter' = [submitter EXCEPT ![s].pc = "notify", ![s].file = NoFile]
          /\ UNCHANGED files
    /\ UNCHANGED <<session, minted, flows, ledger, tokens, cards, clicker, fault>>

(* The disk is full, a directory cannot be made, is a symlink or leaves    *)
(* baseDir.  A write that fails half way leaves its file behind.           *)
WriteFails(s) ==
    LET n == submitter[s].file IN
    /\ AtPc(s, "write")
    /\ files' \in {files, [files EXCEPT ![n] = IF @ = Free THEN Taken ELSE @]}
    /\ submitter' = [submitter EXCEPT ![s].pc = "notify", ![s].file = NoFile]
    /\ UNCHANGED <<session, minted, flows, ledger, tokens, cards, clicker, fault>>

ButtonsOf(id) == {[id |-> id, action |-> a] : a \in ButtonActions}

(* The snapshot says whether a card is wanted; its tokens are minted       *)
(* before it is sent.                                                      *)
Notify(s) ==
    /\ AtPc(s, "notify")
    /\ \/ /\ OrFresh(session).autoApprove = "on"
          /\ submitter' = [submitter EXCEPT ![s] = Idle]
          /\ UNCHANGED tokens
       \/ /\ OrFresh(session).autoApprove # "on"
          /\ submitter' = [submitter EXCEPT ![s].pc = "send"]
          /\ tokens' = tokens \cup ButtonsOf(submitter[s].id)
    /\ UNCHANGED <<session, minted, hostVars, ledger, clicker, fault>>

Delivered(s) ==
    /\ AtPc(s, "send")
    /\ cards' = cards \cup {[id |-> submitter[s].id, file |-> submitter[s].file,
                             buttons |-> TRUE]}
    /\ submitter' = [submitter EXCEPT ![s] = Idle]
    /\ UNCHANGED <<session, minted, flows, ledger, files, tokens, clicker, fault>>

(* mutant: a card that could not be sent keeps its tokens *)
UndeliveredKeepingTokens(s) ==
    /\ AtPc(s, "send")
    /\ submitter' = [submitter EXCEPT ![s] = Idle]
    /\ UNCHANGED <<session, minted, hostVars, ledger, tokens, clicker, fault>>

(* The host refuses the card or sending throws: discardTokens.             *)
Undelivered(s) ==
    /\ AtPc(s, "send")
    /\ tokens' = tokens \ ButtonsOf(submitter[s].id)
    /\ submitter' = [submitter EXCEPT ![s] = Idle]
    /\ UNCHANGED <<session, minted, hostVars, ledger, clicker, fault>>

----------------------------------------------------------------------------
(* A button of a card.                                                     *)

OnScreen(b) == \E card \in cards : card.id = b.id

(* clearButtons: every branch of the handler ends with it.                 *)
ClearButtons(b) ==
    cards' = {[card EXCEPT !.buttons = @ /\ card.id # b.id] : card \in cards}

StaleButton(b) ==
    session = Absent \/ session.approvalId # b.id \/ ~OpenForDecision(session)

(* consumeToken, and handleApprovalCallback's check: a stale button is     *)
(* answered, not dispatched.                                               *)
Click(c, b) ==
    /\ clicker[c] = NoButton
    /\ \E card \in cards : card.id = b.id /\ card.buttons
    /\ b \in tokens
    /\ tokens' = tokens \ {b}
    /\ \/ ~StaleButton(b) /\ clicker' = [clicker EXCEPT ![c] = b] /\ UNCHANGED cards
       \/ StaleButton(b) /\ ClearButtons(b) /\ UNCHANGED clicker
    /\ UNCHANGED <<session, minted, flows, ledger, files, submitter, fault>>

(* A token that expired, or died with the process.                         *)
ClickDead(c, b) ==
    /\ clicker[c] = NoButton
    /\ \E card \in cards : card.id = b.id /\ card.buttons
    /\ b \notin tokens
    /\ ClearButtons(b)
    /\ UNCHANGED <<session, minted, flows, ledger, files, taskVars, fault>>

(* mutant: the action is dispatched without the card's approval id *)
NoToken(b) == NoId

TokenOf(b) == b.id

(* What the dispatched session action does to the payload: plan.accept,    *)
(* plan.reject or plan.cancel with the card's id as version token.         *)
ActionOf(b) ==
    \/ b.action = "accept" /\ ApplyApprovalAction("approve", NoFeedback, TokenOf(b))
    \/ /\ b.action = "reject"
       /\ \E fb \in Feedback : ApplyApprovalAction("reject", fb, TokenOf(b))
    \/ b.action = "cancel" /\ ExitPlanMode(TokenOf(b))

DispatchClick(c) ==
    /\ clicker[c] # NoButton
    /\ ActionOf(clicker[c])
    /\ RejectionsUnderBound
    /\ \/ /\ Heard
          /\ ClearButtons(clicker[c])
          /\ clicker' = [clicker EXCEPT ![c] = NoButton]
          /\ UNCHANGED <<submitter, tokens>>
       \/ Unheard /\ UNCHANGED cards
    /\ UNCHANGED <<minted, files>>

(* The action was refused or failed: the user is told.                     *)
DispatchFails(c) ==
    /\ clicker[c] # NoButton
    /\ ClearButtons(clicker[c])
    /\ clicker' = [clicker EXCEPT ![c] = NoButton]
    /\ UNCHANGED <<session, minted, flows, ledger, files, submitter, tokens, fault>>

Restart ==
    /\ Stopped
    /\ UNCHANGED <<session, minted, hostVars>>

----------------------------------------------------------------------------
ArtifactsInit ==
    /\ Init
    /\ minted = 0
    /\ flows = <<>>
    /\ ledger = {}
    /\ \E content \in {Free, Taken} : files = [n \in 1..MaxSuffix |-> content]
    /\ submitter = [s \in Submitters |-> Idle]
    /\ tokens = {}
    /\ cards = {}
    /\ clicker = [c \in Clickers |-> NoButton]
    /\ fault = "none"

ArtifactsNext ==
    \/ StoreCall
    \/ \E s \in Submitters :
          \/ \E p \in Plans : Submit(s, p)
          \/ WriteFile(s)
          \/ WriteFails(s)
          \/ Notify(s)
          \/ Delivered(s)
          \/ Undelivered(s)
    \/ \E c \in Clickers :
          \/ \E b \in Button : Click(c, b) \/ ClickDead(c, b)
          \/ DispatchClick(c)
          \/ DispatchFails(c)
    \/ Restart

ArtifactsSpec == ArtifactsInit /\ [][ArtifactsNext]_vars

----------------------------------------------------------------------------
ArtifactsTypeOK ==
    /\ minted \in Nat
    /\ flows \in Seq(Flow)
    /\ ledger \subseteq Ids
    /\ files \in [1..MaxSuffix -> Ids \cup {Free, Taken}]
    /\ submitter \in [Submitters -> SubmitterState]
    /\ tokens \subseteq Button
    /\ cards \subseteq [id : Ids, file : 0..MaxSuffix, buttons : BOOLEAN]
    /\ clicker \in [Clickers -> Button \cup {NoButton}]
    /\ fault \in Fault

(* The host's task flow says what the payload says: an open approval has   *)
(* exactly one unfinished flow, under its id and at its step, and a cycle  *)
(* that was accepted or left has none.  (A cycle that timed out keeps its  *)
(* waiting flow: recordTransition has no branch for it.)  It can only fail *)
(* when an event was lost with the process or the host refused a call.     *)
FlowFollowsCycle ==
    (fault = "none" /\ session # Absent) =>
        \/ /\ session.approval \in {"pending", "rejected", "timed_out"}
           /\ \E i \in ActiveFlows :
                 /\ ActiveFlows = {i}
                 /\ flows[i].id = session.approvalId
                 /\ flows[i].step = "revision" <=> session.approval = "rejected"
        \/ /\ session.approval \in {"none", "approved", "edited"}
           /\ ActiveFlows = {}

(* task-flow-visibility.ts takes an unfinished flow of the session over    *)
(* for a new cycle.  So events lost in crashes never pile flows up: while  *)
(* the host accepts its calls a session has at most one unfinished flow.   *)
OneLiveFlow == fault # "refused" => \A i, j \in ActiveFlows : i = j

(* grant-ledger.ts: entries are added when a cycle is submitted and pruned *)
(* when it resolves.  The ledger knows the pending cycle unless the        *)
(* process was restarted, and never one that was given a verdict.          *)
LedgerTracksPending ==
    session # Absent =>
        /\ session.approval \in {"approved", "edited", "rejected"}
             => session.approvalId \notin ledger
        /\ fault # "restarted" /\ session.approval = "pending"
             => session.approvalId \in ledger

(* plan-archetype-persist.ts creates files exclusively: whatever other     *)
(* calls and processes write into the directory, no plan is overwritten.   *)
PlansNeverOverwritten ==
    [][\A n \in 1..MaxSuffix : files[n] # Free => files'[n] = files[n]]_files

(* A card with an attachment attaches the plan it asks about, and keeps    *)
(* showing it, however submissions and foreign writers interleave.         *)
CardsShowTheirPlan ==
    \A card \in cards : card.file # NoFile => files[card.file] = card.id

(* A click decides the cycle of its card or nothing, however much time     *)
(* passes between the check of the button and the dispatch.                *)
ClickDecidesItsCycle ==
    [][\A c \in Clickers :
          DispatchClick(c) => session.approvalId = clicker[c].id]_vars

(* No token outlives its card: one that can be redeemed belongs to a card  *)
(* on the screen or on its way there, so failed notifications leak none.   *)
TokensHaveCards ==
    \A b \in tokens :
        \/ OnScreen(b)
        \/ \E s \in Submitters : AtPc(s, "send") /\ submitter[s].id = b.id
=============================================================================
