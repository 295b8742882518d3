----------------------------- MODULE AgentTurn -----------------------------
(***************************************************************************)
(* One agent turn of a session, seen by the hooks of index.ts:             *)
(* before_model_resolve, before_prompt_build, before_tool_call for every   *)
(* tool call, and before_agent_finalize, which may send the agent back for *)
(* another pass.  Buttons, commands, other turns and timers change the     *)
(* session at any point in between (PlanModeStore!Step), so what one hook  *)
(* read is not what the next one finds.                                    *)
(*                                                                         *)
(* With SessionStoreGateway the host projects the payload to the tool hook *)
(* (projected); with InMemoryGateway it knows nothing of it, and the hook  *)
(* reads the store, behind an await.  A payload a newer plugin wrote       *)
(* before a roll-back is hidden by readSnapshot, not by the projection.    *)
(*                                                                         *)
(* The host counts the revisions of a turn per idempotency key and stops   *)
(* at maxAttempts; it may keep its counters from turn to turn.             *)
(***************************************************************************)
EXTENDS PlanModeStore, ToolGates, TLC

CONSTANTS
    Calls,     \* tool calls the agent may make
    Messages,  \* last messages a pass may end with
    Location,  \* Location[path]: where the file system finds the file
    NoCall

ASSUME TurnAssumption ==
    /\ NoCall \notin Calls
    /\ Messages \subseteq Message
    /\ \A path \in DOMAIN Location : path # <<>>
    /\ \A call \in Calls :
          Range(call.params) \cup call.patchTargets \subseteq DOMAIN Location

VARIABLES
    projected, \* the host projects the payload: SessionStoreGateway
    version,   \* "newer": a later schema version than the plugin reads
    pc,        \* where the turn is
    told,      \* the model and the system context of this turn
    call,      \* the call under before_tool_call
    seen,      \* the phases the session has been in since that hook began
    attempts   \* host: revisions so far, per idempotency key

vars == <<session, projected, version, pc, told, call, seen, attempts>>

turnVars == <<projected, pc, told, call, attempts>>

Turn == [model : {"default", "planTier"}, context : {"none", "active", "available"}]

NothingTold == [model |-> "default", context |-> "none"]

Keys == {IdempotencyKey(d, m) : d \in Detectors, m \in Messages}

NoAttempts == [k \in {} |-> 0]

AttemptsOf(k) == IF k \in DOMAIN attempts THEN attempts[k] ELSE 0

----------------------------------------------------------------------------
(* What a hook sees of the session *)

(* ctx.getSessionExtension *)
HostView == IF projected THEN session ELSE Absent

(* PlanModeStore.readSnapshot *)
Snapshot == IF version = "newer" THEN Absent ELSE session

(* The phase the gates tell apart: planning, an accepted plan with edits   *)
(* allowed, or neither.                                                    *)
Phase(s) ==
    CASE InPlanMode(s) -> "plan"
      [] s # Absent /\ s.mode = "normal" /\ s.approval = "edited" -> "edits"
      [] OTHER -> "free"

----------------------------------------------------------------------------
TurnInit ==
    /\ Init
    /\ projected \in BOOLEAN
    /\ version = "current"
    /\ pc = "idle"
    /\ told = NothingTold
    /\ call = NoCall
    /\ seen = {}
    /\ attempts = NoAttempts

(* The host runs another turn.                                             *)
StartTurn ==
    /\ pc = "idle"
    /\ pc' = "resolving"
    /\ told' = NothingTold
    /\ attempts' \in {attempts, NoAttempts}
    /\ UNCHANGED <<session, projected, version, call, seen>>

(* before_model_resolve: decidePlanTierModel *)
ResolveModel ==
    /\ pc = "resolving"
    /\ pc' = "prompting"
    /\ told' = [told EXCEPT !.model =
                   IF InPlanMode(Snapshot) THEN "planTier" ELSE "default"]
    /\ UNCHANGED <<session, projected, version, call, seen, attempts>>

(* before_prompt_build *)
BuildPrompt ==
    /\ pc = "prompting"
    /\ pc' = "running"
    /\ told' = [told EXCEPT !.context =
                   IF InPlanMode(Snapshot) THEN "active" ELSE "available"]
    /\ UNCHANGED <<session, projected, version, call, seen, attempts>>

(* Layer 1 in plan mode, layer 2 after an acceptance with edits.           *)
Blocks(phase, c) ==
    CASE phase = "plan"  -> CheckMutationGate(c)
      [] phase = "edits" -> CheckAcceptEditsConstraint(c)
      [] phase = "free"  -> FALSE

Decide(s, c) == pc' = IF Blocks(Phase(s), c) THEN "blocked" ELSE "allowed"

(* before_tool_call: the projection decides at once; without one the hook  *)
(* awaits the store's snapshot.                                            *)
CallTool(c) ==
    /\ pc = "running"
    /\ call' = c
    /\ seen' = {Phase(session)}
    /\ IF HostView # Absent THEN Decide(HostView, c) ELSE pc' = "reading"
    /\ UNCHANGED <<session, projected, version, told, attempts>>

(* ... and goes on when the snapshot is there.                             *)
ReadSnapshot ==
    /\ pc = "reading"
    /\ Decide(Snapshot, call)
    /\ UNCHANGED <<session, projected, version, told, call, seen, attempts>>

(* The tool ran, or its block reason went back to the agent.               *)
ToolDone ==
    /\ pc \in {"allowed", "blocked"}
    /\ pc' = "running"
    /\ call' = NoCall
    /\ seen' = {}
    /\ UNCHANGED <<session, projected, version, told, attempts>>

(* before_agent_finalize: stopHookActive stands in for madeToolCall, and   *)
(* any approved session is taken for a post-approval turn.  The pass is    *)
(* repeated until the host has counted maxAttempts for the key.            *)
Finalize(m, stopHookActive) ==
    LET mode == IF InPlanMode(Snapshot) THEN "plan" ELSE "normal"
        isPostApproval ==
            Snapshot # Absent /\ Snapshot.approval \in {"approved", "edited"}
        detector == DecideEscalatingRetry(mode, isPostApproval, m, stopHookActive)
        key == IdempotencyKey(detector, m)
        revise == detector # NoDetector /\ AttemptsOf(key) < MaxAttempts[detector]
        counted == [k \in DOMAIN attempts \cup {key} |->
                       AttemptsOf(k) + IF k = key THEN 1 ELSE 0]
    IN  /\ pc = "running"
        /\ pc' = IF revise THEN "running" ELSE "idle"
        /\ attempts' = IF revise THEN counted ELSE attempts
        /\ UNCHANGED <<session, projected, version, told, call, seen>>

(* Another actor calls a mutator of the store, which stamps the payload.   *)
SessionChanges ==
    /\ Step
    /\ RejectionsBounded'
    /\ version' = "current"
    /\ seen' = IF pc = "reading" THEN seen \cup {Phase(session')} ELSE seen
    /\ UNCHANGED turnVars

(* A newer plugin ran, wrote the payload and was rolled back: the gateway  *)
(* restarted, so the turn is gone, and the host's counters with it.        *)
RollBack ==
    /\ projected
    /\ session # Absent
    /\ version' = "newer"
    /\ pc' = "idle"
    /\ told' = NothingTold
    /\ call' = NoCall
    /\ seen' = {}
    /\ attempts' = NoAttempts
    /\ UNCHANGED <<session, projected>>

TurnNext ==
    \/ StartTurn
    \/ ResolveModel
    \/ BuildPrompt
    \/ \E c \in Calls : CallTool(c)
    \/ ReadSnapshot
    \/ ToolDone
    \/ \E m \in Messages, active \in BOOLEAN : Finalize(m, active)
    \/ SessionChanges
    \/ RollBack

TurnSpec == TurnInit /\ [][TurnNext]_vars

----------------------------------------------------------------------------
TurnTypeOK ==
    /\ session \in SessionPayload
    /\ projected \in BOOLEAN
    /\ version \in {"current", "newer"}
    /\ pc \in {"idle", "resolving", "prompting", "running", "reading",
               "allowed", "blocked"}
    /\ told \in Turn
    /\ call \in Calls \cup {NoCall}
    /\ call = NoCall <=> pc \notin {"reading", "allowed", "blocked"}
    /\ seen \subseteq {"plan", "edits", "free"}
    /\ DOMAIN attempts \subseteq Keys
    /\ \A k \in DOMAIN attempts : attempts[k] \in 1..MaxAttempts[Head(k)]

(* What may run while a plan waits for its approval: the header of         *)
(* mutation-gate.ts and the reference runner of the parity harness.        *)
ReadOnlyCall(c) ==
    \/ IsPlain(c, PlanModeAllowedTools)
    \/ c.suffix \in ReadOnlySuffixPatterns
    \/ /\ HasCommand(c)
       /\ c.command.readOnly
       /\ ~c.command.operators
       /\ ~c.command.flag

(* The mutation gate fails closed: a call that is not read-only is let     *)
(* through only when the session was out of plan mode at some moment       *)
(* between the call and the decision, whatever the agent was told at the   *)
(* start of the turn, whoever moved the session while the hook awaited the *)
(* store, and whichever plugin version wrote the payload.                  *)
PlanModeFailsClosed ==
    pc = "allowed" => ReadOnlyCall(call) \/ seen # {"plan"}

(* A protected configuration directory, where the file system puts it.     *)
ProtectedDirs ==
    {Home \o Tail(p) : p \in ProtectedHomePrefixes} \cup ProtectedRootPrefixes

Protected(path) == \E dir \in ProtectedDirs : IsStrictPrefix(dir, Location[path])

(* A path that says where its file is without the working directory.       *)
Rooted(path) == Head(path) \in {"", "~"}

(* No symbolic links: the file system finds the file of a rooted path where *)
(* the path, with its tilde expanded and its dots collapsed, says.          *)
NoLinks ==
    \A path \in DOMAIN Location : Rooted(path) => Location[path] = AbsoluteForm(path)

(* The files a call says it writes: the targets of its patch, and the path  *)
(* of its parameter, if it has one only and it is one of these three.       *)
Written(c) ==
    c.patchTargets
    \cup {c.params[n] : n \in {n \in {"file_path", "path", "target"} : DOMAIN c.params = {n}}}

(* After an acceptance with edits, no call runs that is destructive, stops *)
(* the gateway or changes its configuration, and none that says in one of   *)
(* these ways, by a rooted path of any spelling, that it writes a file of a *)
(* protected directory -- unless the phase changed under the hook.  Of      *)
(* relative paths, of filePath and of calls with several parameters the     *)
(* gate promises nothing.                                                   *)
EditsStayConstrained ==
    pc = "allowed" /\ seen = {"edits"} =>
        /\ HasCommand(call) => call.command.matches = {}
        /\ IsPlain(call, PathWriterTools) =>
               \A path \in Written(call) : Rooted(path) => ~Protected(path)

(* A turn ends: however the agent words its last message, and however the  *)
(* session moves between the detectors' modes, the host never counts more  *)
(* revisions than the detectors' caps allow together.                      *)
RetriesBounded == SumFunction(attempts) <= SumFunction(MaxAttempts)
=============================================================================
