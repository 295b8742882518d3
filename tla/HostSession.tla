---------------------------- MODULE HostSession ----------------------------
(***************************************************************************)
(* The entry of one session in the host's session store, and everybody who *)
(* writes it: SessionStoreGateway, whose asynchronous callback runs inside *)
(* the host's store lock; the queue of next-turn injections, which plugins *)
(* fill and a turn drains; and another plugin's session extension.         *)
(*                                                                         *)
(* A host mutator is synchronous inside the lock, but looks at the store   *)
(* once before it asks for the lock.  The plugin never sets ttlMs, so its  *)
(* records do not expire.  updateSessionStoreEntry, which is not in the    *)
(* repository, holds the lock across its callback, gives it a fresh entry, *)
(* merges what it returns and does not call it for a missing entry.        *)
(***************************************************************************)
EXTENDS Naturals, Sequences

CONSTANTS
    Calls, Payloads, NoPayload, Callbacks, Null, Throws, NoRequest,
    Injections, \* enqueueNextTurnInjection calls
    KeyOf,      \* KeyOf[i] = the idempotency key of injection i
    Turns,      \* turns that prepare their context
    OtherState, \* what another plugin may keep in the entry
    NoOther,    \* it keeps nothing there
    Cap,        \* MAX_PLUGIN_NEXT_TURN_INJECTIONS_PER_SESSION
    MaxFaults,  \* bound on deletions and restarts, for TLC
    Session, Missing, Nobody

Extensions ==
    [slot : Payloads \cup {NoPayload}, other : OtherState \cup {NoOther}]

NoExtensions == [slot |-> NoPayload, other |-> NoOther]

Entry ==
    [ slot  : Payloads \cup {NoPayload},
      other : OtherState \cup {NoOther},
      queue : Seq(Injections) ]

ASSUME HostAssumption ==
    /\ Nobody \notin Calls
    /\ Missing \notin Entry
    /\ NoRequest \notin [key : {Session}, update : Callbacks]
    /\ Null \notin Payloads /\ Throws \notin Payloads
    /\ NoPayload \notin Payloads
    /\ Callbacks \subseteq
           [Payloads \cup {NoPayload} -> Payloads \cup {Null, Throws}]
    /\ NoOther \notin OtherState
    /\ Cap \in Nat \ {0}
    /\ MaxFaults \in Nat

VARIABLES
    sdk,     \* SessionStoreGateway.sdkPromise
    entry,   \* the session's entry
    holder,  \* the call that holds the lock of the session store
    request, \* request[c] = the arguments of withLock call c
    pc,      \* where call c is
    current, \* current[c] = pluginExtensions as the callback of c found it
    job,     \* job[i] = where enqueue call i is
    turn,    \* turn[t] = where the preparation of turn t is
    context, \* context[t] = the injections turn t was given
    enabled, \* the plugin is loaded and its allowPromptInjection is not false
    faults,  \* deletions and restarts so far
    patched, \* history: what the other plugin wrote last
    dropped  \* history: accepted injections the host threw away on purpose

vars ==
    <<sdk, entry, holder, request, pc, current, job, turn, context, enabled,
      faults, patched, dropped>>

callVars == <<request, pc, current>>

queueVars == <<job, turn, context, dropped, faults>>

Slot == [k \in {Session} |-> IF entry = Missing THEN NoPayload ELSE entry.slot]

Settled == {c \in Calls : pc[c] = "settled"}

Gateway == INSTANCE StateGateway WITH
    Keys <- {Session}, state <- Slot, settled <- Settled

----------------------------------------------------------------------------
(* SessionStoreGateway *)

(* withLock: loadSdk imports the SDK for the first call and keeps the      *)
(* promise.                                                                *)
Make(c, r) ==
    /\ pc[c] = "idle"
    /\ request' = [request EXCEPT ![c] = r]
    /\ pc' = [pc EXCEPT ![c] = "loading"]
    /\ sdk' = IF sdk = "none" THEN "importing" ELSE sdk
    /\ UNCHANGED <<entry, holder, current, enabled, patched>>
    /\ UNCHANGED queueVars

(* The imports settle.  A rejected promise is kept like any other.         *)
Import ==
    /\ sdk = "importing"
    /\ sdk' \in {"loaded", "broken"}
    /\ UNCHANGED <<entry, holder, enabled, patched>>
    /\ UNCHANGED callVars
    /\ UNCHANGED queueVars

Loaded(c) ==
    /\ pc[c] = "loading"
    /\ sdk \in {"loaded", "broken"}
    /\ pc' = [pc EXCEPT ![c] = IF sdk = "loaded" THEN "waiting" ELSE "failed"]
    /\ UNCHANGED <<sdk, entry, holder, request, current, enabled, patched>>
    /\ UNCHANGED queueVars

(* The host takes the lock and reads the entry again.  Without an entry    *)
(* the callback is not called, and the store method returns no outcome.    *)
Lock(c) ==
    /\ pc[c] = "waiting"
    /\ holder = Nobody
    /\ \/ /\ entry = Missing
          /\ pc' = [pc EXCEPT ![c] = "noEntry"]
          /\ UNCHANGED <<holder, current>>
       \/ /\ entry # Missing
          /\ pc' = [pc EXCEPT ![c] = "updating"]
          /\ holder' = c
          /\ current' = [current EXCEPT ![c] =
                            [slot |-> entry.slot, other |-> entry.other]]
    /\ UNCHANGED <<sdk, entry, request, enabled, patched>>
    /\ UNCHANGED queueVars

(* mutant: next: null is written like any other state *)
MergedWithNull(c, next) ==
    IF next = Throws THEN entry
    ELSE [entry EXCEPT !.slot = next, !.other = current[c].other]

(* The partial update of the entry: both plugins' extensions, one replaced. *)
Merged(c, next) ==
    IF next \in {Null, Throws} THEN entry
    ELSE [entry EXCEPT !.slot = next, !.other = current[c].other]

(* The callback has settled: write and unlock.                             *)
Settle(c) ==
    /\ pc[c] = "updating"
    /\ entry' = Merged(c, request[c].update[current[c].slot])
    /\ holder' = Nobody
    /\ pc' = [pc EXCEPT ![c] = "settled"]
    /\ current' = [current EXCEPT ![c] = NoExtensions]
    /\ UNCHANGED <<sdk, request, enabled, patched>>
    /\ UNCHANGED queueVars

----------------------------------------------------------------------------
(* The host's queue of next-turn injections *)

(* enqueuePluginNextTurnInjection, before the lock *)
StartEnqueue(i) ==
    /\ job[i] = "idle"
    /\ job' = [job EXCEPT ![i] =
                  IF enabled /\ entry # Missing THEN "read" ELSE "refused"]
    /\ UNCHANGED <<sdk, entry, holder, turn, context, enabled, faults, patched,
                   dropped>>
    /\ UNCHANGED callVars

(* mutant: the record itself is looked for, not its key *)
DuplicateRecord(i) == \E n \in DOMAIN entry.queue : entry.queue[n] = i

Duplicate(i) == \E n \in DOMAIN entry.queue : KeyOf[entry.queue[n]] = KeyOf[i]

(* ... and inside the lock                                                 *)
Enqueue(i) ==
    LET accepted == /\ entry # Missing
                    /\ ~Duplicate(i)
                    /\ Len(entry.queue) < Cap
    IN  /\ job[i] = "read"
        /\ holder = Nobody
        /\ job' = [job EXCEPT ![i] = IF accepted THEN "accepted" ELSE "refused"]
        /\ entry' = IF accepted THEN [entry EXCEPT !.queue = Append(@, i)]
                    ELSE entry
        /\ UNCHANGED <<sdk, holder, turn, context, enabled, faults, patched,
                       dropped>>
        /\ UNCHANGED callVars

(* drainPluginNextTurnInjections, before the lock *)
StartTurn(t) ==
    /\ turn[t] = "idle"
    /\ turn' = [turn EXCEPT ![t] =
                   IF entry # Missing /\ entry.queue # <<>> THEN "read" ELSE "ready"]
    /\ UNCHANGED <<sdk, entry, holder, job, context, enabled, faults, patched,
                   dropped>>
    /\ UNCHANGED callVars

Queued == IF entry = Missing THEN <<>> ELSE entry.queue

InQueue == {Queued[n] : n \in DOMAIN Queued}

(* ... and inside the lock: the whole queue is deleted, but only a loaded  *)
(* plugin's records reach the turn.                                        *)
Drain(t) ==
    /\ turn[t] = "read"
    /\ holder = Nobody
    /\ turn' = [turn EXCEPT ![t] = "ready"]
    /\ context' = [context EXCEPT ![t] = IF enabled THEN Queued ELSE <<>>]
    /\ dropped' = IF enabled THEN dropped ELSE dropped \cup InQueue
    /\ entry' = IF entry = Missing THEN Missing ELSE [entry EXCEPT !.queue = <<>>]
    /\ UNCHANGED <<sdk, holder, job, enabled, faults, patched>>
    /\ UNCHANGED callVars

----------------------------------------------------------------------------
(* The rest of the host *)

(* patchPluginSessionExtension, for another plugin *)
PatchOther(v) ==
    /\ holder = Nobody
    /\ entry # Missing
    /\ entry' = [entry EXCEPT !.other = v]
    /\ patched' = v
    /\ UNCHANGED <<sdk, holder, enabled>>
    /\ UNCHANGED callVars
    /\ UNCHANGED queueVars

(* A session is opened ...                                                 *)
Open ==
    /\ holder = Nobody
    /\ entry = Missing
    /\ entry' = [slot |-> NoPayload, other |-> NoOther, queue |-> <<>>]
    /\ patched' = NoOther
    /\ UNCHANGED <<sdk, holder, enabled>>
    /\ UNCHANGED callVars
    /\ UNCHANGED queueVars

(* ... or deleted.                                                         *)
Delete ==
    /\ holder = Nobody
    /\ entry # Missing
    /\ faults < MaxFaults
    /\ faults' = faults + 1
    /\ entry' = Missing
    /\ dropped' = dropped \cup InQueue
    /\ UNCHANGED <<sdk, holder, job, turn, context, enabled, patched>>
    /\ UNCHANGED callVars

(* The gateway process restarts: what ran is gone, the file stays, and the *)
(* operator may have switched the plugin off or on.                        *)
Restart ==
    LET Stopped(where, open) == IF where \in open THEN "stopped" ELSE where
    IN  /\ faults < MaxFaults
        /\ faults' = faults + 1
        /\ sdk' = "none"
        /\ holder' = Nobody
        /\ pc' = [c \in Calls |-> Stopped(pc[c], {"loading", "waiting", "updating"})]
        /\ job' = [i \in Injections |-> Stopped(job[i], {"read"})]
        /\ turn' = [t \in Turns |-> Stopped(turn[t], {"read"})]
        /\ current' = [c \in Calls |-> NoExtensions]
        /\ enabled' \in BOOLEAN
        /\ UNCHANGED <<entry, request, context, patched, dropped>>

----------------------------------------------------------------------------
Init ==
    /\ sdk = "none"
    /\ entry = Missing
    /\ holder = Nobody
    /\ request = [c \in Calls |-> NoRequest]
    /\ pc = [c \in Calls |-> "idle"]
    /\ current = [c \in Calls |-> NoExtensions]
    /\ job = [i \in Injections |-> "idle"]
    /\ turn = [t \in Turns |-> "idle"]
    /\ context = [t \in Turns |-> <<>>]
    /\ enabled = TRUE
    /\ faults = 0
    /\ patched = NoOther
    /\ dropped = {}

Next ==
    \/ \E c \in Calls, r \in Gateway!Request : Make(c, r)
    \/ Import
    \/ \E c \in Calls : Loaded(c)
    \/ \E c \in Calls : Lock(c)
    \/ \E c \in Calls : Settle(c)
    \/ \E i \in Injections : StartEnqueue(i)
    \/ \E i \in Injections : Enqueue(i)
    \/ \E t \in Turns : StartTurn(t)
    \/ \E t \in Turns : Drain(t)
    \/ \E v \in OtherState : PatchOther(v)
    \/ Open
    \/ Delete
    \/ Restart

Spec == Init /\ [][Next]_vars

----------------------------------------------------------------------------
HostTypeOK ==
    /\ sdk \in {"none", "importing", "loaded", "broken"}
    /\ entry \in Entry \cup {Missing}
    /\ holder \in Calls \cup {Nobody}
    /\ request \in [Calls -> Gateway!Request \cup {NoRequest}]
    /\ pc \in [Calls -> {"idle", "loading", "failed", "waiting", "noEntry",
                        "updating", "settled", "stopped"}]
    /\ current \in [Calls -> Extensions]
    /\ job \in [Injections -> {"idle", "read", "accepted", "refused", "stopped"}]
    /\ turn \in [Turns -> {"idle", "read", "ready", "stopped"}]
    /\ context \in [Turns -> Seq(Injections)]
    /\ enabled \in BOOLEAN
    /\ faults \in 0..MaxFaults
    /\ patched \in OtherState \cup {NoOther}
    /\ dropped \subseteq Injections

(* SessionStoreGateway keeps the promise of PlanModeStateGateway: as long  *)
(* as the host does not delete the session, callbacks take effect one at a *)
(* time on the current payload, also across restarts.  A call that is not  *)
(* settled had no effect.                                                  *)
GatewayPromise ==
    Gateway!Init /\ [][Gateway!Next \/ entry' = Missing]_<<Slot, request, Settled>>

Given(t) == {context[t][n] : n \in DOMAIN context[t]}

NoRepetition(s) == \A m, n \in DOMAIN s : KeyOf[s[m]] = KeyOf[s[n]] => m = n

(* An injection the host accepted waits in the queue, or one turn was      *)
(* given it, once; nothing else waits or was given.  It is lost only with  *)
(* the session, or to a turn that ran while the plugin was switched off.   *)
InjectionsKept ==
    /\ \A i \in Injections :
          LET given == {t \in Turns : i \in Given(t)}
          IN  IF job[i] # "accepted" THEN i \notin InQueue /\ given = {}
              ELSE \/ i \in InQueue /\ given = {} /\ i \notin dropped
                   \/ i \notin InQueue /\ \E t \in Turns : given = {t}
                   \/ i \notin InQueue /\ given = {} /\ i \in dropped
    /\ Len(Queued) <= Cap
    /\ NoRepetition(Queued)
    /\ \A t \in Turns : NoRepetition(context[t])

(* No writer of the entry undoes what another one wrote: the callback of   *)
(* withLock is asynchronous and writes a whole pluginExtensions, the queue *)
(* is filled and drained around it, and another plugin patches its state.  *)
EntryKept ==
    /\ InjectionsKept
    /\ entry # Missing => entry.other = patched
=============================================================================
