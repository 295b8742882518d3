# Smarter-Claw in TLA+

Smarter-Claw is a plan-mode plugin for the OpenClaw host. In plan mode an agent
may not mutate anything: it proposes a plan (`exit_plan_mode`), users approve,
edit or reject it from a sidebar, a slash command or a Telegram button, and the
host injects the decision at the start of the agent's next turn. The plugin is
TypeScript on one event loop: nothing runs in parallel, but handlers are
asynchronous functions with several awaits and interleave at each of them. The
only lock is the one around each call of the persisted store.

This directory specifies that behaviour, model-checks it with TLC on small
instances and proves the central properties with TLAPS for every instance.
Paths below are relative to the repository's `src/`.

## The system

| Component | State | Operations | What makes it correct |
|---|---|---|---|
| `state/store.ts`, `types.ts`, `plan-mode/approval.ts` | the payload of a session: mode, approval, approvalId, plan, feedback, rejectionCount, autoApprove, pendingQuestion | eight locked read-modify-write mutators, `readSnapshot` | fields agree after any sequence; a settled cycle stays settled; stale tokens are refused |
| `state/in-memory-gateway.ts` | promise chain per session, payload map | `withLock` | mutual exclusion, fresh read, first come first served, release on throw |
| `state/session-store-gateway.ts` | cached SDK import; the host's session entry | `withLock` | the same contract, on the host's lock, across restarts and beside other writers |
| the host's loader (vendored under `patches/`): session entry | pluginExtensions, queue of next-turn injections | enqueue, drain, another plugin's patch | no writer undoes another; an accepted injection reaches one turn |
| `tools/exit-plan-mode.ts`, `enter-plan-mode.ts` | none of its own | submit or reuse a plan, write the markdown, notify, fire the auto-approve trigger without awaiting | a duplicate keeps the card; auto-approve only what is armed |
| `ui/session-actions.ts` | none of its own | `plan.accept`, `.edit`, `.reject`, `.cancel`, `.answer`, `.auto.toggle` | at most one acceptance per cycle; what the agent is told is what was approved |
| `ui/slash-commands.ts`, `ui/sweep-command.ts` | none | `/plan ...` dispatches the same actions, without a version token; `plan-clear` exits | as above |
| `runtime/injection-writer.ts` | none | enqueue with an idempotency key | every decision arrives, once |
| `tools/ask-user-question.ts`, `runtime/plan-notifications.ts` | the question slot; module-level map of button tokens | ask, mint, discard, consume, answer, clear | answers fit their question, no question lost, no token leaked, a click decides its own cycle |
| `index.ts` audit listener, `runtime/task-flow-visibility.ts`, `runtime/grant-ledger.ts` | task flows, grants | on every transition, after the lock is released | mirrors follow the payload |
| `gates/mutation-gate.ts`, `gates/accept-edits-gate.ts`, `index.ts` hooks | none | classify a tool call | fail closed in plan mode; after an edit, only the listed hazards are blocked |
| `plan-mode/plan-archetype-persist.ts` | files under the agent's plans directory | exclusive create with a suffix | never overwrite a plan |
| `runtime/escalating-retry*.ts` | none (the host counts) | choose a retry instruction | a turn ends |
| `state/schema-version.ts` | a version in the payload | readSnapshot hides a newer one | the gate still blocks |
| `index.ts` register(), the host's loader | registry, process-wide tables, cache | load, register, roll back, reuse | the tables are those of the active registry |
| `scripts/{install,verify,uninstall}-chat-stream-seam.mjs` | an installed host's files, backups, a sentinel | patch, verify, unpatch | the originals can be had back; what is reported is true |
| `prompt/*`, `plan-mode/plan-render.ts`, `helpers/*`, `ui/sidebar-descriptor.ts`, `runtime/debug-log.ts` | none (a log file) | text, hashes, ids, logging | formatting |

What is hard here: handlers that read a snapshot, await, and act in another
store call; the trigger that nobody awaits; two surfaces acting on one cycle or
one question; the decision that is recorded and then not enqueued; idempotency
keys that drop too much or too little; long legal sequences of enter, submit,
reject, exit and re-enter; hooks that read one thing and decide on another; a
host that writes the same entry; scripts that stop half way; and plugins that
fail in the middle of their registration. `PROJECT.json` lists the hazards at their
lines with the properties that cover them.

## The modules

```
PlanModeState          the payload and pure functions on it
  `- PlanModeStore     what the store promises: one atomic action per mutator
       |- PlanApproval   (INSTANCE) the approval cycle, handlers interleaved at their awaits
       |- PlanQuestions  (INSTANCE) the question slot, buttons, three answering surfaces
       |- PlanArtifacts  (EXTENDS) files, cards, buttons, task flows, grants of a cycle
       `- AgentTurn      (EXTENDS) the hooks of one agent turn, with ToolGates
ToolGates              the two gates and the retry detectors, as operators
StateGateway           what a gateway promises: withLock takes effect at once
  |- InMemoryGateway   the promise-chain lock that implements it
  `- HostSession       SessionStoreGateway and the host's session entry, which implement it
SeamPatcher            the scripts that patch the host and take the patch back
PluginLoader           registries, tables and cache of the host's loader
  `- HostBoot          both together: the gateway process boots on what the scripts left
```

`XProofs` holds the theorems about `X` (`PlanArtifactsProofs` also those about
`PlanModeStore`, `HostBootProofs` those about its two parts); `MCX` gives `X` a small
instance.

*PlanModeState* translates each mutator into a guard and a function from payload
to payload (`MayExit` and `Exited`, `Decidable` and `Resolved`, ...). A plan is
one value standing for the title, steps and payload hash that
`persistApprovalRequest` writes together; the constant function `HashOf` says
which plans the payload hash cannot tell apart. Ids are numbers, 0 for an absent
field. Timestamps, the schema version and `approvalRunId`, which nothing writes,
are left out.

*PlanModeStore* is the abstract specification. A call that skips, reuses or
fails leaves the payload alone and is a stutter.

*PlanApproval* is the core. A handler in flight is a record whose `pc` names the
await it is about to run; `Check`, `ReadSteps`, `Record`, `RecordSkipped` and
`Enqueue` are the awaits of `plan.accept`, `plan.edit` and `plan.reject`;
`Fire`, `FireAutoApprove`, `Record`, `Enqueue` those of the trigger.
`plan.cancel`, `plan.auto.toggle` and `enter_plan_mode` are one store call each.
An approval id is the position of its plan in `submissions`, as ids are UUIDs and
never come back. `approved` and `armed` are history. With `MayFail` any await
of a handler may fail, and the process may restart, which loses the handlers and
keeps the payload and the host's queue. `Drain` is the host's start of a turn.

*PlanQuestions* does the same for `ask_user_question` (`Ask`, `MintTokens`,
`Delivered` / `Undelivered`), the Telegram buttons (`Click`, `CheckClick`), the
command (`Command`) and the sidebar (`Sidebar`), which join in `Enqueue` and, for
the first two, `Clear`. Of the approval cycle it keeps entering and leaving plan
mode, the two operations that touch the slot.

*PlanArtifacts* takes the payload from `PlanModeStore` and adds what each write
leaves outside of it. The listener of `index.ts` runs after the lock is released
but before any other write of the session can commit, so a write and its effect
on `flows` (the host's task flows) and `ledger` (the grants) are one step, unless
the process stops between the two or the host refuses: `fault`, at most once. The
rest of an `exit_plan_mode` call is a record in `submitter`: `write` (the
exclusive-create loop over `files`), `notify` (four tokens), `send`. A click
consumes a token, compares its id with a snapshot and dispatches with that id.

*ToolGates* writes `checkMutationGate` and `checkAcceptEditsConstraint` as ordered
rules, `normalizeCandidatePath` on sequences of path segments, and
`decideEscalatingRetry`. A regular expression is the set of commands or messages it
matches, so a command is a record that says which expressions match it. *AgentTurn*
runs the four hooks of a turn around it (`ResolveModel`, `BuildPrompt`, `CallTool` and
`ReadSnapshot`, `Finalize`), while `SessionChanges`, any mutator of the store, happens in
between. `projected` says whether the host shows the hook the payload;
`RollBack` is a plugin downgrade that leaves a payload with a newer schema version.

*StateGateway* and *InMemoryGateway* justify taking a store call as one step: in
`InMemoryGateway` the callback is open between `Enter` and `Settle` while other
calls run, and the chain of promises is explicit. *HostSession* is the production
side: `Make`, `Import`, `Loaded`, `Lock`, `Settle` are the steps of
`SessionStoreGateway.withLock` around the host's `updateSessionStoreEntry`;
`StartEnqueue` / `Enqueue` and `StartTurn` / `Drain` are the host's queue, each with its
look at the entry before the lock; `PatchOther` is another plugin; `Open`, `Delete` and
`Restart` are the host.

*SeamPatcher* has one action per file operation of the scripts: `Backup`, `Overlay`,
`Seal`; `Restore`, `Forget`, `Unseal`. `Stop` ends a script between two of them or in the
middle of one. *PluginLoader* is one load, candidate by candidate: `Begin`, then
`Overridden`, `Disable`, `Reject`, `Register` or `FailRegister`, then `Finish`; `Reuse` takes a
registry from the cache. `Registered` says what each registration method does, and
`GivenBack`, `Restored` and `RolledBack` what a failed `register()` undoes. *HostBoot*
runs scripts while the gateway is down and loads plugins while it is up; with the
last call of `register()` the plugin reports the sentinel.

## The runs

| Run | Instance | Shows |
|---|---|---|
| `artifacts` | 2 cycles of one plan, 2 submissions and 1 click in flight, 2 file names, 2 task flows, 1 fault | `Coherent`, `SettledStaysSettled`; files are never overwritten and cards show their plan; a click decides the cycle on its card; flows and grants follow the payload |
| `core` | 2 handlers, 2 plans with different hashes, 2 cycles, 1 rejection at a time, queue of 1, failures and restarts; symmetric in handlers and plans | `DecisionCarriesItsPlan`, `AcceptedAtMostOnce`, `AutoOnlyArmed`, `NoOrphanedCard`; every step is a step of `PlanModeStore` |
| `core_live` | 2 handlers, 2 cycles, 2 plans with different hashes, queue of 4, no failures; states that differ in nothing the properties read are one | `RecordedReachesAgent`, `AutoSelfExecutes` |
| `questions` | 2 handlers, 2 questions with 2 answers of their own or the same 2, failures and restarts; symmetric in handlers, answers and questions | `NoQuestionLost`, `AnswersFitTheirQuestion`, `OneAnswerPerTurn`, `TokensHaveButtons`, `AnswerReleasesQuestion`; every step is a step of `PlanModeStore` |
| `gateway` | 3 calls, 2 sessions, callbacks that count, initialise and throw | `InOrder`, `EveryCallReturns`; implements `StateGateway` |
| `turn` | 23 tool calls, one for each rule, each spelling of a path and each way to carry one; 8 messages; 1 plan; both kinds of gateway, a roll-back of the plugin | `PlanModeFailsClosed`, `EditsStayConstrained`, `RetriesBounded` |
| `host` | 2 store calls, 4 injections under 3 keys, 2 turns, another plugin, queue of 2, 1 restart or deletion | `EntryKept`; implements `StateGateway` as long as the session is not deleted |
| `boot` | 2 files, 2 host versions, 2 plugins that want the same names, one found twice, 2 registries | `OriginalsRecoverable`, `HostAsAdvised`, `TablesMatchActive` |

Four more runs end in a violation, each a sentence of the source that the code does not keep:

- `auto_honours_rejection`: `rejected` is open for decision and a rejection keeps
  the approval id, so the token the trigger sends does not protect a rejection
  that lands between its snapshot and its record (`index.ts:400-410`).
- `tokenless_decision`: without a token the handlers of `plan.accept` and
  `plan.edit` may check one cycle and approve another, and tell the agent of the
  wrong one (`ui/session-actions.ts:262-302`).
- `latest_feedback`: the second feedback on one plan is dropped as a duplicate
  while the first is queued (`runtime/injection-writer.ts:170`).
- `answered_twice`: `plan.answer` from the sidebar neither checks nor clears the
  question, so after a drain it can be answered again (`ui/session-actions.ts:520`).

Smaller disagreements met on the way, without a run:

- `/plan auto off` between the trigger's re-read and its record is not honoured
  (`state/store.ts:695-696` says it is); `exit_plan_mode` does not clear the pending
  question (`types.ts:134`); a rejection does not clear the approval id
  (`index.ts:315` says it does); setting the flag to its value writes nothing
  (`state/store.ts:698` says it does).
- The record and the enqueue of a decision are separate awaits, so the queue may
  order two decisions the other way round (`runtime/injection-writer.ts:28-30`).
- The retry instructions never escalate, because the hook passes no attempt
  number; every later turn of an approved session counts as post-approval; and
  `index.ts:699` speaks of 3 retries per detector where two of them have 2.
- For a payload of a newer schema version the prompt says that plan mode is
  available while the gate, which sees the projection, blocks as in plan mode.
- The grant ledger is pruned on approve, edit and reject only and never swept: an
  exit or a time-out leaks its entry, and a rejection prunes an open one. A
  time-out leaves its task flow waiting. `LedgerTracksPending` and
  `FlowFollowsCycle` state what does hold.
- The hook hands the accept-edits gate the first of `file_path`, `path` and
  `target` (`index.ts:630-637`), so a second one is not checked and `filePath` is never
  seen; a comment of the gate speaks of every candidate and of `filePath`
  (`gates/accept-edits-gate.ts:489-492`). The gate does not resolve relative paths
  against the working directory. Calls of all three kinds are in `turn` and run;
  `EditsStayConstrained` speaks of the others.
- A rejected import of the SDK is kept: every later store call fails until the
  process restarts. For a deleted session the host does not call the callback,
  and the store method then returns no outcome.
- An install that cannot write leaves the files it has patched and perhaps half
  of one; the header says it restores them
  (`scripts/install-chat-stream-seam.mjs:42`). A second install then refuses,
  uninstall finds nothing to do, and with `--force` the backups of the originals
  are overwritten; only a new `npm install` helps.
- The plugin ignores `enqueued: false`; a turn that crashes after the drain has
  lost its injections; a drain deletes the records of a plugin that is switched off.
- A failed `register()` leaves its session extensions and Control UI descriptors,
  which are not in the snapshot; a load that does not activate leaves interactive
  handlers; a strict load that throws leaves its tables beside the old registry.

**Bounds.** Every race of the core is between two handlers and the operations
that take one step, which are not bounded by `Handlers`; a third handler could
only repeat what one of the two does, and the theorems cover any number. Two
cycles are the least in which a stale id exists, one rejection the least in which
a cycle is open again. `MaxSubmissions`, `MaxRejections`, `MaxQueue` and
`MaxQuestions` are the bounds on counters and the queue; a queue of one is enough for the
properties of a single injection. A bound on the queue disables `Enqueue` until
the host drains, which delays a handler as a slow host would; the live run has
room for every injection two cycles can leave (a queue of five or six has no more
states). Symmetry is used only where a run has no liveness property. The live run has
a view instead, `Control`, that leaves out what neither a guard nor the two
properties read: the history, what a queued injection quotes, and which of the two
plans is stored. States with the same view have successors with the same views, so
nothing the properties can tell is lost. Two cycles are needed there, too: the
trigger of the older one is still on its way while the newer one is pending.
The two questions of `questions` have no answer in common, so that an answer
which met the question that replaced its own would not fit.

In `artifacts` two submissions and two names with `MaxSuffix` 2 are the least in
which the loop meets a taken name, another writer and its cap; two task flows are
the least in which a wrong one can be chosen, and the bound on their number
holds back a step that needs a third. One fault at a time keeps apart what a fault
excuses from what it does not. In `turn` the sets of calls, paths and messages have
one member per rule; `RejectionsBounded` bounds the payload as in `core`. In `host`
two calls, two turns and a queue of two are the least with contention on each;
`MaxFaults` 1 gives a restart or a deletion at any moment, and the theorems drop
all of these bounds. In `boot` two files are the manifest of the repository, and
two registries are the least in which one can be stale; the second candidate of
one id is the case of an overridden plugin.

**Fairness.** `PlanApproval!FairSpec` assumes weak fairness of `Proceed(h)`: an
async function that has started runs to its end, as its awaits settle. Nothing is
assumed of users, the agent, the host's drain or the operator, nor of failures,
which the live run excludes because the code does not retry: a failed enqueue is
lost. In `InMemoryGateway` fairness says that a resolved promise wakes its awaiter
and that callbacks settle. A call that throws is not excluded.

**Deadlock** is checked except in `gateway`, where a finite number of calls have
all returned in the end.

## The proofs

`PlanModeStateLemmas` says what each payload function returns and which fields it
touches; the other proofs cite it.

`PlanArtifactsProofs` begins with the store: `Coherent` is inductive;
`SettledStaysSettled` follows from the guards of `Decidable` step by step. It goes on
to prove every property of `artifacts` for any number of submissions, clicks, flows,
files and foreign names. The invariant `ArtifactsInv` has a part for each place a
cycle leaves something in. `PayloadInv` says that the payload names only minted ids.
`FlowFollowsCycle` and `OneLiveFlow` need that a cycle has one flow at most, that the
flow of the payload's cycle is finished only once the cycle is over
(`FinishedIsOver`, or a late event could bring it back to life), and that
there is no active flow before the first payload (`NoFlowYet`).
`CardsShowTheirPlan` needs the submissions in flight: a plan that was written is still
in its file when its card goes out (`PlansWritten`). The payload moves in four ways
only, whichever mutator moves it (`Moves`: `Requested`, `Returned`, `Kept`, `Judged`),
and the flows and the ledger are followed through these four.
`ArtifactsImplementStore` shows that with all of this around it the payload still
makes only steps of the abstract store.

`PlanApprovalProofs` proves every safety property of `core` for any number of
handlers, plans, cycles and injections and for any `HashOf`. `DecisionCarriesItsPlan` is
not inductive: a decision is queued from a handler's locals, so the invariant
`IInv` says what locals are worth at each `pc`: a token names an id that was
submitted and is what the handler announces (`TokenSound`), the trigger's id is
armed once it has read the payload and its plan hashes like the submission (`TriggerSound`),
the steps read by `plan.accept` belong to its id if the token still fits when the
record goes through (`StepsSound`), and after the record the id is in `approved`
(`VerdictSound`). `SessionSound` ties the payload to `submissions`: an open
approval has an id, and its plan is the one stored under it. `AcceptedAtMostOnce`
follows because an open id is not in `approved`, `AutoOnlyArmed` from
`TriggerSound`, `NoOrphanedCard` from `SessionSound` and the reuse test, and
`StorePromise` by exhibiting a store call for every step.

`PlanQuestionsProofs` proves every safety property of `questions` for any number of
handlers, questions and answers, free text included. Its `IInv` says that a
handler works on a question that was asked, that what a button or a command is
about to queue fits it, and that its answer is dispatched before it clears
(`LocalsSound`); that a token offers one of its question's options
(`TokensSound`), so that discarding a notification's tokens leaves none; that the
slot and the answers only name asked questions; and that an answered question
which is still pending has a handler on its way to clear it (`Released`), which
makes `AnswerReleasesQuestion` inductive.

`InMemoryGatewayProofs` proves the lock. Its invariant says that tickets are
distinct and grow along a chain (`Tickets`), the chain's end is the last call made
on the session (`EndOfChain`), every call's prior is the one made immediately
before it (`PriorIsPrevious`) and a released call has settled; mutual exclusion
and the fresh read follow, and with them that `Settle` is the moment `TakeEffect`
of the abstract gateway happens.

`HostSessionProofs` proves everything `host` checks. Between `Lock` and `Settle`
nobody else writes the entry (`HoldersView`), so that what the callback found is
what it overwrites; a turn that is not prepared was given nothing
(`GivenWhenReady`), and the host throws away only what it had accepted
(`DroppedAccepted`). With these `EntryKept` is inductive; each clause of
`InjectionsKept` for one injection is its `Fate`, and the steps that move one are
`Enqueue`, `Drain` and `Delete`. `GatewayPromise` follows because only `Settle` writes the
slot and settles a call.

`AgentTurnProofs` proves everything `turn` checks. That the mutation gate fails closed
for any set of calls goes through the ordered rules (`GateIsReadOnly`); the invariant
`WhileReading` says that the phase the hook will find after its await is one it has
seen, which needs that a newer payload is always projected (`NewerIsProjected`). In
the phase of edits a call that runs has passed the accept-edits gate
(`EditsGateHolds`), and the gate was handed what the call says it writes, in its patch or
in a single parameter (`WrittenIsChecked`). That it then writes no protected file by a
rooted path, one that starts with a slash or a tilde (`EditsConstrained`), has the
hypothesis `NoLinks`: the gate compares spellings and does not ask the file system,
so it is right about a rooted path only where the file system finds the file the
normalised path names. Of a path that leads over a link the theorem says nothing,
nor does the run, whose instance satisfies the hypothesis (`MCLinkAssumption`); of
relative paths neither speaks. `RetriesEnd` follows from the type invariant, by which
each counter stays within its own detector's cap and nothing but the
three keys is counted, so that the sum is one of three terms (`SumOfThree`).

`HostBootProofs` proves everything `boot` checks, for a manifest of any length and for
any plugins, registrations and configurations. Of the scripts the invariant says how
far the running one has come (`InstallProgress`, `UninstallProgress`), that in an
interrupted uninstall a file without a backup is the original (`Undoable`), that a
sentinel without an uninstall means a complete patch (`Sealed`), and that a running
gateway still has the files that are on disk (`Booted`). A manifest that lists a file
twice would break it: the second backup would be of the patched file. This is the
assumption `SeamAssumption`, and the repository's manifest satisfies it.

Of the plugins, `TablesMatchActive` speaks of the time between two loads. The invariant
`LoaderInv` says of tables and a registry that they are `Made` for each other: the
commands and harnesses are the registry's, compaction providers belong to
loaded plugins, and whatever a loaded plugin asked for is taken. This holds of the
registry that an activating load is building, of every one such a load left in the
cache, with the tables kept beside it, and of the active one until an activating
load begins. It also takes that the
active and the cached registries are never the one under construction, and that in
an activating load interactive handlers too belong to loaded plugins, or the rollback
of a failed one would give back the wrong names. One call of the registration API is
characterised by `Makes`; `RunGrew` carries it through a whole `register()`, by
induction on the calls. `FailedGivesBack` is the rollback: in an activating load it
restores the tables exactly. In a load that does not activate it does not, and
`AddsHandlers` says what stays behind.

Three proofs need induction over data. They get it from a least element, which the
library gives without operator parameters: `LeastNatural` and `NatSetInduction` from
the well-foundedness of `<` on the naturals, for the first flow that matches and for
the calls of `register()`; `SumIs` from that of the strict subsets of a finite set,
for the recursive sum of the community module.

The proofs assume only that `NoPlan`, `NoFeedback`, `Absent`, `NoCall`, `Missing`,
`NoRequest`, `Null`, `Nobody`, `Free`, `Taken` and `Throws` are not ordinary values,
that ids are positive, that bounds are numbers, and what is said above of the
manifest and of links.

Only model-checked: the three liveness properties (`RecordedReachesAgent`,
`AutoSelfExecutes`, `EveryCallReturns`), since fairness is stated with ENABLED, which
this prover does not handle, and the four violations. Every other property of a run
is a theorem.

## What is taken from the host

The loader and the protocol under `patches/` are the overlay the scripts install;
`HostSession` and `PluginLoader` translate the loader's functions. Modelled from how
the code uses them, and marked external in `PROJECT.json`: `updateSessionStoreEntry`
holds the lock across its callback and gives it a fresh entry; the host counts
revisions per idempotency key and stops at `maxAttempts`; task-flow calls may be
refused; the first plugin that registers an interactive handler keeps it; npm
replaces the whole directory.

An injection is enqueued long after `register()` has returned. From then on the
loader makes an API call a no-op unless it is one the host allows late; which ones
those are is decided in a file this repository does not hold. `PlanApproval.Enqueue`,
`PlanQuestions.Enqueue` and `HostSession` assume that a late
`enqueueNextTurnInjection` reaches the host, so every property about what reaches the
agent, `AutoSelfExecutes` among them, rests on that. For the registering calls the
loader does show the no-op: `PluginLoader.CallRegistrationLate` is one, and nothing
is checked about it beyond that.

## What is not modelled

- `protocol-BBwaRnfZ.js`: generated validation schemas.
- Of the loader: channels, providers and their setup entries, bundles, the memory
  slot, attachments, scheduled turns, the load of CLI metadata, validation loads,
  nested loads, and what a definition registers beside `register()`. The loader
  drops conversation hooks of plugins without `allowConversationAccess`; the
  plugin's hooks are taken to be admitted.
- Patches to the plugin's own namespace through the host's session-extension API:
  the plugin does not make any, and a host that did would write beside the store.
- An install under a running gateway: the scripts run while it is down.
- Rendering, prompt text, slugs of file names, logging, the sidebar descriptor,
  the debug log and auto-enable, which keep no state the others read.
- The release, capture and parity scripts, which are test tooling. The reference
  runners of the two gates are the source of what `PlanModeFailsClosed` and
  `EditsStayConstrained` demand.
