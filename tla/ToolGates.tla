----------------------------- MODULE ToolGates -----------------------------
(***************************************************************************)
(* The two gates of before_tool_call and the retry detectors of            *)
(* before_agent_finalize: pure functions of a tool call, or of the last    *)
(* message of a turn.                                                      *)
(*                                                                         *)
(* Abstractions.  Tool names are lower case and trimmed.  A regular        *)
(* expression is the set of commands or messages it matches: a command is  *)
(* a record that says which of them match.  A path is the sequence of its  *)
(* segments, "" before a leading slash.                                    *)
(***************************************************************************)
EXTENDS Naturals, Sequences, SequencesExt

CONSTANTS
    Home,     \* the segments of $HOME
    NoCommand \* a call without a command

----------------------------------------------------------------------------
(* Tool calls *)

Category == {"destructive", "self_restart", "config_change"}

Command ==
    [ operators : BOOLEAN,         \* shell operators, redirects or newlines
      flag      : BOOLEAN,         \* one of DANGEROUS_FLAGS
      readOnly  : BOOLEAN,         \* starts with one of READ_ONLY_EXEC_PREFIXES
      matches   : SUBSET Category ] \* categories with a pattern that matches

(* A call: a tool, a suffix ("" for a plain tool), its command, params (the *)
(* path that each of its parameters carries) and the targets of its patch.  *)

IsPlain(call, names) == call.suffix = "" /\ call.tool \in names

ShellTools == {"exec", "bash"}

HasCommand(call) == IsPlain(call, ShellTools) /\ call.command # NoCommand

----------------------------------------------------------------------------
(* gates/mutation-gate.ts *)

MutationToolBlocklist ==
    {"apply_patch", "bash", "edit", "exec", "gateway", "message", "nodes",
     "process", "sessions_send", "subagents", "write"}

MutationSuffixPatterns == {".write", ".edit", ".delete"}

ReadOnlySuffixPatterns == {".read", ".search", ".list", ".get", ".view"}

PlanModeAllowedTools ==
    {"read", "web_search", "web_fetch", "memory_search", "memory_get",
     "update_plan", "exit_plan_mode", "session_status", "ask_user_question",
     "enter_plan_mode", "sessions_spawn", "plan_mode_status", "sessions_list",
     "sessions_history", "sessions_yield", "lcm_grep", "lcm_expand_query"}

Rule(applies, blocks) == [applies |-> applies, blocks |-> blocks]

FirstRule(rules) ==
    rules[CHOOSE i \in DOMAIN rules :
             rules[i].applies /\ \A j \in 1..(i - 1) : ~rules[j].applies]

(* mutant: the read-only prefix is looked at before the operators *)
CheckMutationGatePrefixFirst(call) ==
    FirstRule(<<
        Rule(IsPlain(call, PlanModeAllowedTools), FALSE),
        Rule(HasCommand(call) /\ call.command.readOnly, FALSE),
        Rule(IsPlain(call, MutationToolBlocklist), TRUE),
        Rule(call.suffix \in ReadOnlySuffixPatterns, FALSE),
        Rule(TRUE, TRUE) >>).blocks

(* The rules of checkMutationGate in plan mode, in their order.            *)
CheckMutationGate(call) ==
    FirstRule(<<
        Rule(IsPlain(call, PlanModeAllowedTools), FALSE),
        Rule(HasCommand(call) /\ call.command.operators, TRUE),
        Rule(HasCommand(call) /\ call.command.flag, TRUE),
        Rule(HasCommand(call) /\ call.command.readOnly, FALSE),
        Rule(IsPlain(call, MutationToolBlocklist), TRUE),
        Rule(call.suffix \in MutationSuffixPatterns, TRUE),
        Rule(call.suffix \in ReadOnlySuffixPatterns, FALSE),
        Rule(TRUE, TRUE) >>).blocks

----------------------------------------------------------------------------
(* Paths: normalizeCandidatePath and checkProtectedPath                    *)

PushSegment(stack, seg) ==
    CASE seg = "" /\ stack = <<>> -> <<"">>
      [] seg = "" /\ stack # <<>> -> stack
      [] seg = "." -> stack
      [] seg = ".." /\ stack \in {<<>>, <<"">>} -> stack
      [] seg = ".." /\ stack \notin {<<>>, <<"">>} -> Front(stack)
      [] OTHER -> Append(stack, seg)

Collapse(path) == FoldLeft(PushSegment, <<>>, path)

FromTilde(path) == Head(path) = "~"

InHome(path) == IsStrictPrefix(Home, path)

TildeForm(path) ==
    Collapse(IF ~FromTilde(path) /\ InHome(path)
             THEN <<"~">> \o SubSeq(path, Len(Home) + 1, Len(path)) ELSE path)

AbsoluteForm(path) == Collapse(IF FromTilde(path) THEN Home \o Tail(path) ELSE path)

ProtectedHomePrefixes ==
    {<<"~", ".openclaw">>, <<"~", ".claude">>, <<"~", ".config", "openclaw">>}

ProtectedRootPrefixes ==
    {<<"", "etc", "openclaw">>, <<"", "usr", "local", "etc", "openclaw">>}

CheckProtectedPath(path) ==
    \/ \E p \in ProtectedHomePrefixes :
          \/ IsStrictPrefix(p, TildeForm(path))
          \/ IsStrictPrefix(Home \o Tail(p), AbsoluteForm(path))
    \/ \E p \in ProtectedRootPrefixes : IsStrictPrefix(p, AbsoluteForm(path))

----------------------------------------------------------------------------
(* gates/accept-edits-gate.ts *)

PathWriterTools == {"write", "edit", "apply_patch", "create", "delete"}

(* The parameters the hook looks at, in this order.  There is no filePath. *)
PathParameters == <<"file_path", "path", "target">>

(* The hook hands the gate one path: that of the first parameter it finds. *)
FilePaths(call) ==
    LET given == {i \in DOMAIN PathParameters : PathParameters[i] \in DOMAIN call.params}
        first == {i \in given : \A j \in given : i <= j}
    IN  {call.params[PathParameters[i]] : i \in first}

(* mutant: only the path of the parameters, not those of the patch *)
CandidatePathsOfParams(call) == FilePaths(call)

(* ... and, by extractApplyPatchTargetPaths, the targets of a patch.        *)
CandidatePaths(call) == FilePaths(call) \cup call.patchTargets

(* checkDestructive, checkSelfRestart and checkConfigChange                *)
CheckExecCommand(call) == HasCommand(call) /\ call.command.matches # {}

CheckAcceptEditsConstraint(call) ==
    \/ CheckExecCommand(call)
    \/ /\ IsPlain(call, PathWriterTools)
       /\ \E path \in CandidatePaths(call) : CheckProtectedPath(path)

----------------------------------------------------------------------------
(* runtime/escalating-retry.ts and its constants.  A message is a record   *)
(* that says which of the regular expressions match its text.              *)

Message ==
    [ blank      : BOOLEAN,
      long       : BOOLEAN, \* over PLANNING_ONLY_MAX_VISIBLE_TEXT
      code       : BOOLEAN, \* has a code block
      structured : BOOLEAN, \* hasStructuredPlanningOnlyFormat
      promise    : BOOLEAN, \* PLANNING_ONLY_PROMISE_RE
      verb       : BOOLEAN, \* PLANNING_ONLY_ACTION_VERB_RE
      completion : BOOLEAN ] \* PLANNING_ONLY_COMPLETION_RE

IsPlanningOnlyNarration(m) ==
    /\ ~m.blank /\ ~m.long /\ ~m.code
    /\ m.promise \/ m.structured
    /\ m.structured \/ m.verb
    /\ ~m.completion

NoDetector == "none"

MaxAttempts == [PLAN_YIELD |-> 2, PLAN_ACK_ONLY |-> 2, PLANNING_RETRY |-> 3]

Detectors == DOMAIN MaxAttempts

(* decideEscalatingRetry: the first detector that fires.                   *)
DecideEscalatingRetry(mode, isPostApproval, m, madeToolCall) ==
    CASE madeToolCall -> NoDetector
      [] ~madeToolCall /\ isPostApproval /\ m.blank -> "PLAN_YIELD"
      [] ~madeToolCall /\ mode = "plan" /\ ~m.blank /\ ~m.completion
            -> "PLAN_ACK_ONLY"
      [] ~madeToolCall /\ mode = "normal" /\ IsPlanningOnlyNarration(m)
            -> "PLANNING_RETRY"
      [] OTHER -> NoDetector

(* mutant: the key tells one message from another *)
IdempotencyKeyOfMessage(detector, m) == <<detector, m>>

IdempotencyKey(detector, m) == <<detector>>
=============================================================================
