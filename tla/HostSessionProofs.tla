------------------------- MODULE HostSessionProofs -------------------------
(***************************************************************************)
(* The production gateway keeps the promise of the store, no writer of the *)
(* session entry undoes what another one wrote, and an injection that was  *)
(* accepted reaches one turn, for any number of calls, injections, turns,  *)
(* deletions and restarts.                                                 *)
(*                                                                         *)
(* EntryKept is inductive once two things are known: between the locking   *)
(* and the write of a call nobody else writes, so that what its callback   *)
(* found is still there; and a turn that is not prepared was given nothing.*)
(***************************************************************************)
EXTENDS HostSession, TLAPS

(* A call has arguments from the moment it is made.                        *)
Requested == \A c \in Calls : pc[c] = "idle" <=> request[c] = NoRequest

(* The call that holds the lock still has the entry it found.              *)
HoldersView ==
    /\ \A c \in Calls : holder = c <=> pc[c] = "updating"
    /\ holder \in Calls =>
          /\ entry # Missing
          /\ current[holder].slot = entry.slot
          /\ current[holder].other = entry.other

GivenWhenReady == \A t \in Turns : turn[t] # "ready" => context[t] = <<>>

OtherKept == entry # Missing => entry.other = patched

LockInv == HostTypeOK /\ Requested /\ HoldersView /\ OtherKept

(* The host throws away only what it had accepted.                         *)
DroppedAccepted == \A i \in dropped : job[i] = "accepted"

QueueInv == GivenWhenReady /\ DroppedAccepted /\ InjectionsKept

----------------------------------------------------------------------------
(* Facts about the constants and about single values. *)

LEMMA EntryFacts ==
  ASSUME NEW e \in Entry
  PROVE  /\ e # Missing
         /\ e.slot \in Payloads \cup {NoPayload}
         /\ e.other \in OtherState \cup {NoOther}
         /\ e.queue \in Seq(Injections)
  BY HostAssumption DEF Entry

(* What a callback returns is written only when it is a payload.           *)
LEMMA RequestFacts ==
  ASSUME NEW r \in Gateway!Request, NEW s \in Payloads \cup {NoPayload}
  PROVE  /\ r # NoRequest
         /\ r.key = Session
         /\ r.update \in Callbacks
         /\ r.update[s] \in Payloads \cup {Null, Throws}
  BY HostAssumption DEF Gateway!Request

LEMMA InitInv == Init => LockInv /\ QueueInv
<1> SUFFICES ASSUME Init PROVE LockInv /\ QueueInv
  OBVIOUS
<1> USE HostAssumption DEF Init
<1>1. HostTypeOK
  BY DEF HostTypeOK, NoExtensions, Extensions
<1>2. /\ Requested /\ HoldersView /\ OtherKept
      /\ GivenWhenReady /\ DroppedAccepted
  BY DEF Requested, HoldersView, OtherKept, GivenWhenReady, DroppedAccepted
<1>3. Queued = <<>> /\ InQueue = {}
  BY DEF Queued, InQueue
<1>4. \A t \in Turns : Given(t) = {}
  BY DEF Given
<1>5. InjectionsKept
  BY <1>3, <1>4 DEF InjectionsKept, NoRepetition
<1> QED
  BY <1>1, <1>2, <1>5 DEF LockInv, QueueInv

----------------------------------------------------------------------------
(* The lock of the session store. *)

LEMMA MakeKeepsLock ==
  ASSUME LockInv, NEW c \in Calls, NEW r \in Gateway!Request, Make(c, r)
  PROVE  LockInv'
<1> USE DEF LockInv, Make, callVars, queueVars
<1>1. HostTypeOK'
  BY DEF HostTypeOK
<1>2. r # NoRequest
  BY HostAssumption DEF Gateway!Request
<1>3. Requested'
  BY <1>2 DEF Requested, HostTypeOK
<1>4. HoldersView' /\ OtherKept'
  BY DEF HoldersView, OtherKept, HostTypeOK
<1> QED
  BY <1>1, <1>3, <1>4

LEMMA LoadedKeepsLock ==
  ASSUME LockInv, NEW c \in Calls, Loaded(c)
  PROVE  LockInv'
<1> USE DEF LockInv, Loaded, callVars, queueVars
<1>1. HostTypeOK'
  BY DEF HostTypeOK
<1>2. Requested' /\ HoldersView' /\ OtherKept'
  BY DEF Requested, HoldersView, OtherKept, HostTypeOK
<1> QED
  BY <1>1, <1>2

LEMMA LockKeepsLock ==
  ASSUME LockInv, NEW c \in Calls, Lock(c)
  PROVE  LockInv'
<1> USE HostAssumption DEF LockInv, Lock, callVars, queueVars
<1>1. HostTypeOK'
  <2>1. CASE entry = Missing
    BY <2>1 DEF HostTypeOK
  <2>2. CASE entry # Missing
    <3>1. [slot |-> entry.slot, other |-> entry.other] \in Extensions
      BY <2>2, EntryFacts DEF HostTypeOK, Extensions
    <3>2. /\ pc' = [pc EXCEPT ![c] = "updating"]
          /\ holder' = c
          /\ current' = [current EXCEPT ![c] =
                            [slot |-> entry.slot, other |-> entry.other]]
          /\ UNCHANGED <<sdk, entry, request, enabled, patched>>
          /\ UNCHANGED queueVars
      BY <2>2
    <3> QED
      BY <3>1, <3>2 DEF HostTypeOK
  <2> QED
    BY <2>1, <2>2
<1>2. Requested' /\ OtherKept'
  BY DEF Requested, OtherKept, HostTypeOK
<1>3. HoldersView'
  BY DEF HoldersView, HostTypeOK
<1> QED
  BY <1>1, <1>2, <1>3

(* What the callback of the call that holds the lock leads to.             *)
LEMMA SettledEntry ==
  ASSUME LockInv, NEW c \in Calls, pc[c] = "updating"
  PROVE  /\ holder = c
         /\ entry \in Entry
         /\ request[c] \in Gateway!Request
         /\ current[c].slot = entry.slot
         /\ request[c].update[entry.slot] \in Payloads \cup {Null, Throws}
         /\ Merged(c, request[c].update[entry.slot]) =
               [entry EXCEPT !.slot =
                   Gateway!After(request[c].update, entry.slot)]
<1>1. holder = c /\ entry \in Entry
  BY DEF LockInv, HoldersView, HostTypeOK
<1>2. request[c] \in Gateway!Request
  BY DEF LockInv, Requested, HostTypeOK
<1>3. current[c].slot = entry.slot /\ current[c].other = entry.other
  BY <1>1 DEF LockInv, HoldersView
<1>4. request[c].update[entry.slot] \in Payloads \cup {Null, Throws}
  BY <1>1, <1>2, EntryFacts, RequestFacts
<1>5. Merged(c, request[c].update[entry.slot]) =
         [entry EXCEPT !.slot = Gateway!After(request[c].update, entry.slot)]
  BY <1>1, <1>3 DEF Merged, Gateway!After, Entry
<1> QED
  BY <1>1, <1>2, <1>3, <1>4, <1>5

LEMMA SettleFacts ==
  ASSUME LockInv, NEW c \in Calls, Settle(c)
  PROVE  /\ entry' = [entry EXCEPT !.slot =
                         Gateway!After(request[c].update, entry.slot)]
         /\ entry' \in Entry
         /\ entry'.other = entry.other
         /\ entry'.queue = entry.queue
<1>1. /\ pc[c] = "updating"
      /\ entry' = Merged(c, request[c].update[current[c].slot])
  BY DEF Settle
<1>2. /\ entry \in Entry
      /\ entry' = [entry EXCEPT !.slot =
                      Gateway!After(request[c].update, entry.slot)]
      /\ request[c].update[entry.slot] \in Payloads \cup {Null, Throws}
  BY <1>1, SettledEntry
<1>3. Gateway!After(request[c].update, entry.slot) \in Payloads \cup {NoPayload}
  BY <1>2, EntryFacts DEF Gateway!After
<1> QED
  BY <1>2, <1>3 DEF Entry

LEMMA SettleKeepsLock ==
  ASSUME LockInv, NEW c \in Calls, Settle(c)
  PROVE  LockInv'
<1> USE HostAssumption DEF LockInv
<1>1. HostTypeOK'
  BY SettleFacts DEF HostTypeOK, Settle, NoExtensions, Extensions, queueVars
<1>2. holder = c
  BY SettledEntry DEF Settle
<1>3. Requested'
  BY DEF Requested, HostTypeOK, Settle
<1>4. HoldersView'
  BY <1>2 DEF HoldersView, HostTypeOK, Settle
<1>5. OtherKept'
  BY SettleFacts, EntryFacts DEF OtherKept, HostTypeOK, Settle, HoldersView
<1> QED
  BY <1>1, <1>3, <1>4, <1>5

(* The other writers of the entry.                                         *)
LEMMA EnqueueKeepsLock ==
  ASSUME LockInv, NEW i \in Injections, Enqueue(i)
  PROVE  LockInv'
<1> USE HostAssumption DEF LockInv, callVars
<1>1. holder = Nobody /\ UNCHANGED <<holder, request, pc, current, patched>>
  BY DEF Enqueue
<1>2. \/ entry' = entry
      \/ entry # Missing /\ entry' = [entry EXCEPT !.queue = Append(@, i)]
  BY DEF Enqueue
<1>3. \/ entry' = entry
      \/ /\ entry \in Entry /\ entry' \in Entry
         /\ entry'.other = entry.other
  <2>1. SUFFICES ASSUME entry \in Entry,
                        entry' = [entry EXCEPT !.queue = Append(@, i)]
                 PROVE  entry' \in Entry /\ entry'.other = entry.other
    BY <1>2 DEF HostTypeOK
  <2>2. Append(entry.queue, i) \in Seq(Injections)
    BY <2>1, EntryFacts
  <2> QED
    BY <2>1, <2>2 DEF Entry
<1>4. HostTypeOK'
  BY <1>3 DEF HostTypeOK, Enqueue
<1> QED
  BY <1>1, <1>3, <1>4 DEF Requested, HoldersView, OtherKept, HostTypeOK

LEMMA DrainKeepsLock ==
  ASSUME LockInv, NEW t \in Turns, Drain(t)
  PROVE  LockInv'
<1> USE HostAssumption DEF LockInv, callVars
<1>1. holder = Nobody /\ UNCHANGED <<holder, request, pc, current, patched>>
  BY DEF Drain
<1>2. \/ entry = Missing /\ entry' = Missing
      \/ /\ entry \in Entry /\ entry' \in Entry
         /\ entry'.other = entry.other
  <2>1. SUFFICES ASSUME entry \in Entry,
                        entry' = [entry EXCEPT !.queue = <<>>]
                 PROVE  entry' \in Entry /\ entry'.other = entry.other
    BY DEF HostTypeOK, Drain
  <2>2. <<>> \in Seq(Injections)
    OBVIOUS
  <2> QED
    BY <2>1, <2>2 DEF Entry
<1>3. Queued \in Seq(Injections)
  BY EntryFacts DEF HostTypeOK, Queued
<1>4. InQueue \subseteq Injections
  BY <1>3 DEF InQueue
<1>5. HostTypeOK'
  BY <1>2, <1>3, <1>4 DEF HostTypeOK, Drain
<1> QED
  BY <1>1, <1>2, <1>5 DEF Requested, HoldersView, OtherKept, HostTypeOK

LEMMA PatchOtherKeepsLock ==
  ASSUME LockInv, NEW v \in OtherState, PatchOther(v)
  PROVE  LockInv'
<1> USE HostAssumption DEF LockInv, callVars, queueVars
<1>1. holder = Nobody /\ UNCHANGED <<holder, request, pc, current>>
  BY DEF PatchOther
<1>2. /\ entry' \in Entry
      /\ entry'.other = v
      /\ patched' = v
  BY DEF PatchOther, HostTypeOK, Entry
<1>3. HostTypeOK'
  BY <1>2 DEF HostTypeOK, PatchOther
<1> QED
  BY <1>1, <1>2, <1>3 DEF Requested, HoldersView, OtherKept, HostTypeOK

LEMMA OpenKeepsLock ==
  ASSUME LockInv, Open
  PROVE  LockInv'
<1> USE HostAssumption DEF LockInv, callVars, queueVars
<1>1. holder = Nobody /\ UNCHANGED <<holder, request, pc, current>>
  BY DEF Open
<1>2. /\ entry' \in Entry
      /\ entry'.other = NoOther
      /\ patched' = NoOther
  BY DEF Open, Entry
<1>3. HostTypeOK'
  BY <1>2 DEF HostTypeOK, Open
<1> QED
  BY <1>1, <1>2, <1>3 DEF Requested, HoldersView, OtherKept, HostTypeOK

LEMMA DeleteKeepsLock ==
  ASSUME LockInv, Delete
  PROVE  LockInv'
<1> USE HostAssumption DEF LockInv, callVars
<1>1. InQueue \subseteq Injections
  BY EntryFacts DEF HostTypeOK, Queued, InQueue
<1>2. HostTypeOK'
  BY <1>1 DEF HostTypeOK, Delete
<1> QED
  BY <1>2 DEF Requested, HoldersView, OtherKept, HostTypeOK, Delete

LEMMA RestartKeepsLock ==
  ASSUME LockInv, Restart
  PROVE  LockInv'
<1> USE HostAssumption DEF LockInv, Restart
<1>1. HostTypeOK'
  BY DEF HostTypeOK, NoExtensions, Extensions
<1>2. Requested'
  BY DEF Requested, HostTypeOK
<1>3. HoldersView' /\ OtherKept'
  BY DEF HoldersView, OtherKept, HostTypeOK
<1> QED
  BY <1>1, <1>2, <1>3

LEMMA LockInvariance ==
  ASSUME LockInv, [Next]_vars
  PROVE  LockInv'
<1>1. CASE Import
  BY <1>1 DEF Import, LockInv, HostTypeOK, Requested, HoldersView, OtherKept,
              callVars, queueVars
<1>2. CASE \E i \in Injections : StartEnqueue(i)
  BY <1>2 DEF StartEnqueue, LockInv, HostTypeOK, Requested, HoldersView,
              OtherKept, callVars
<1>3. CASE \E t \in Turns : StartTurn(t)
  BY <1>3 DEF StartTurn, LockInv, HostTypeOK, Requested, HoldersView,
              OtherKept, callVars
<1>4. CASE UNCHANGED vars
  BY <1>4 DEF vars, LockInv, HostTypeOK, Requested, HoldersView, OtherKept
<1> QED
  BY <1>1, <1>2, <1>3, <1>4, MakeKeepsLock, LoadedKeepsLock, LockKeepsLock,
     SettleKeepsLock, EnqueueKeepsLock, DrainKeepsLock, PatchOtherKeepsLock,
     OpenKeepsLock, DeleteKeepsLock, RestartKeepsLock
     DEF Next

----------------------------------------------------------------------------
(* The queue of injections. *)

LEMMA QueuedFacts ==
  ASSUME HostTypeOK
  PROVE  /\ Queued \in Seq(Injections)
         /\ InQueue \subseteq Injections
<1>1. Queued \in Seq(Injections)
  BY EntryFacts DEF HostTypeOK, Queued
<1> QED
  BY <1>1 DEF InQueue

(* A step that moves no injection.                                         *)
LEMMA NoInjectionMoves ==
  ASSUME QueueInv, dropped \subseteq Injections,
         Queued' = Queued, context' = context, dropped' = dropped,
         \A i \in Injections : job'[i] = "accepted" <=> job[i] = "accepted",
         \A t \in Turns : turn'[t] # "ready" => turn[t] # "ready"
  PROVE  QueueInv'
<1>1. InQueue' = InQueue
  BY DEF InQueue
<1>2. \A t \in Turns : Given(t)' = Given(t)
  BY DEF Given
<1>3. \A i \in Injections :
         {t \in Turns : i \in Given(t)}' = {t \in Turns : i \in Given(t)}
  BY <1>2
<1>4. InjectionsKept'
  BY <1>1, <1>2, <1>3 DEF QueueInv, InjectionsKept, NoRepetition
<1>5. GivenWhenReady' /\ DroppedAccepted'
  BY DEF QueueInv, GivenWhenReady, DroppedAccepted
<1> QED
  BY <1>4, <1>5 DEF QueueInv

(* The fate of one injection.                                              *)
GivenTo(i) == {t \in Turns : i \in Given(t)}

Fate(i) ==
    IF job[i] # "accepted" THEN i \notin InQueue /\ GivenTo(i) = {}
    ELSE \/ i \in InQueue /\ GivenTo(i) = {} /\ i \notin dropped
         \/ i \notin InQueue /\ \E t \in Turns : GivenTo(i) = {t}
         \/ i \notin InQueue /\ GivenTo(i) = {} /\ i \in dropped

LEMMA KeptIsFate ==
  InjectionsKept <=>
      /\ \A i \in Injections : Fate(i)
      /\ Len(Queued) <= Cap
      /\ NoRepetition(Queued)
      /\ \A t \in Turns : NoRepetition(context[t])
  BY DEF InjectionsKept, Fate, GivenTo

LEMMA EnqueueKeepsQueue ==
  ASSUME HostTypeOK, QueueInv, NEW i \in Injections, Enqueue(i)
  PROVE  QueueInv'
<1>1. /\ job \in [Injections -> {"idle", "read", "accepted", "refused", "stopped"}]
      /\ job[i] = "read"
      /\ UNCHANGED <<turn, context, dropped>>
  BY DEF Enqueue, HostTypeOK
<1>2. CASE job'[i] # "accepted"
  <2>1. entry' = entry /\ job' = [job EXCEPT ![i] = "refused"]
    BY <1>1, <1>2 DEF Enqueue
  <2> QED
    BY <1>1, <2>1, NoInjectionMoves DEF Queued, HostTypeOK
<1>3. CASE job'[i] = "accepted"
  <2>1. /\ entry # Missing
        /\ ~Duplicate(i)
        /\ Len(entry.queue) < Cap
        /\ entry' = [entry EXCEPT !.queue = Append(@, i)]
        /\ job' = [job EXCEPT ![i] = "accepted"]
    BY <1>1, <1>3 DEF Enqueue
  <2>2. /\ entry' \in Entry
        /\ Queued = entry.queue
        /\ Queued' = Append(Queued, i)
        /\ Queued \in Seq(Injections)
    <3>1. entry \in Entry /\ entry.queue \in Seq(Injections)
      BY <2>1, EntryFacts DEF HostTypeOK
    <3>2. Append(entry.queue, i) \in Seq(Injections)
      BY <3>1
    <3>3. entry' \in Entry /\ entry'.queue = Append(entry.queue, i)
      BY <2>1, <3>1, <3>2 DEF Entry
    <3>4. entry' # Missing
      BY <3>3, HostAssumption
    <3> QED
      BY <2>1, <3>1, <3>3, <3>4 DEF Queued
  <2>3. InQueue' = InQueue \cup {i}
    BY <2>2 DEF InQueue
  <2>4. \A t \in Turns : Given(t)' = Given(t)
    BY <1>1 DEF Given
  <2>5. \A j \in Injections : GivenTo(j)' = GivenTo(j)
    BY <2>4 DEF GivenTo
  <2>6. i \notin InQueue /\ GivenTo(i) = {}
    BY <1>1, KeptIsFate DEF QueueInv, Fate
  <2>7. i \notin dropped
    BY <1>1 DEF QueueInv, DroppedAccepted
  <2>8. \A j \in Injections : Fate(j)'
    <3>1. Fate(i)'
      BY <1>1, <1>3, <2>3, <2>5, <2>6, <2>7 DEF Fate
    <3>2. ASSUME NEW j \in Injections, j # i PROVE Fate(j)'
      <4>1. Fate(j)
        BY KeptIsFate DEF QueueInv
      <4>2. job'[j] = job[j] /\ (j \in InQueue' <=> j \in InQueue)
        BY <1>1, <2>1, <2>3, <3>2
      <4> QED
        BY <1>1, <2>5, <4>1, <4>2 DEF Fate
    <3> QED
      BY <3>1, <3>2
  <2>9. Len(Queued') <= Cap /\ NoRepetition(Queued')
    <3>1. \A n \in DOMAIN Queued : KeyOf[Queued[n]] # KeyOf[i]
      BY <2>1, <2>2 DEF Duplicate
    <3>2. Len(Queued') <= Cap
      BY <2>1, <2>2, HostAssumption
    <3> QED
      BY <2>2, <3>1, <3>2 DEF QueueInv, InjectionsKept, NoRepetition
  <2>10. InjectionsKept'
    BY <1>1, <2>8, <2>9 DEF QueueInv, InjectionsKept, Fate, GivenTo, NoRepetition
  <2> QED
    BY <1>1, <2>1, <2>10 DEF QueueInv, GivenWhenReady, DroppedAccepted, HostTypeOK
<1> QED
  BY <1>2, <1>3

LEMMA DrainKeepsQueue ==
  ASSUME HostTypeOK, QueueInv, NEW t \in Turns, Drain(t)
  PROVE  QueueInv'
<1>1. /\ turn \in [Turns -> {"idle", "read", "ready", "stopped"}]
      /\ context \in [Turns -> Seq(Injections)]
      /\ turn[t] = "read"
      /\ turn' = [turn EXCEPT ![t] = "ready"]
      /\ context' = [context EXCEPT ![t] = IF enabled THEN Queued ELSE <<>>]
      /\ dropped' = IF enabled THEN dropped ELSE dropped \cup InQueue
      /\ job' = job
  BY DEF Drain, HostTypeOK
<1>2. context[t] = <<>> /\ Given(t) = {}
  BY <1>1 DEF QueueInv, GivenWhenReady, Given
<1>3. Queued' = <<>> /\ InQueue' = {}
  <2>1. CASE entry = Missing
    BY <2>1 DEF Drain, Queued, InQueue
  <2>2. CASE entry # Missing
    <3>1. entry \in Entry /\ entry' = [entry EXCEPT !.queue = <<>>]
      BY <2>2 DEF Drain, HostTypeOK
    <3>2. <<>> \in Seq(Injections)
      OBVIOUS
    <3>3. entry' \in Entry /\ entry'.queue = <<>>
      BY <3>1, <3>2 DEF Entry
    <3> QED
      BY <3>3, HostAssumption DEF Queued, InQueue
  <2> QED
    BY <2>1, <2>2
<1>4. GivenWhenReady' /\ DroppedAccepted'
  <2>1. \A i \in InQueue : job[i] = "accepted"
    BY QueuedFacts DEF QueueInv, InjectionsKept
  <2> QED
    BY <1>1, <2>1 DEF QueueInv, GivenWhenReady, DroppedAccepted
<1>5. Len(Queued') <= Cap /\ NoRepetition(Queued')
  BY <1>3, HostAssumption DEF NoRepetition
<1>6. \A u \in Turns : u # t => Given(u)' = Given(u)
  BY <1>1 DEF Given
<1>7. Given(t)' = IF enabled THEN InQueue ELSE {}
  BY <1>1 DEF Given, InQueue
<1>8. \A u \in Turns : NoRepetition(context'[u])
  <2>1. \A u \in Turns : context'[u] \in {context[u], Queued, <<>>}
    BY <1>1
  <2>2. NoRepetition(<<>>)
    BY DEF NoRepetition
  <2> QED
    BY <2>1, <2>2 DEF QueueInv, InjectionsKept
<1>9. ASSUME NEW i \in Injections PROVE Fate(i)'
  <2>1. Fate(i)
    BY KeptIsFate DEF QueueInv
  <2>2. CASE i \in InQueue /\ enabled
    <3>1. GivenTo(i)' = {t}
      BY <1>6, <1>7, <2>1, <2>2 DEF Fate, GivenTo
    <3> QED
      BY <1>1, <1>3, <2>1, <2>2, <3>1 DEF Fate
  <2>3. CASE ~(i \in InQueue /\ enabled)
    <3>1. GivenTo(i)' = GivenTo(i)
      BY <1>2, <1>6, <1>7, <2>3 DEF GivenTo
    <3> QED
      BY <1>1, <1>3, <2>1, <2>3, <3>1 DEF Fate
  <2> QED
    BY <2>2, <2>3
<1>10. InjectionsKept'
  BY <1>5, <1>8, <1>9 DEF InjectionsKept, Fate, GivenTo
<1> QED
  BY <1>4, <1>10 DEF QueueInv

LEMMA DeleteKeepsQueue ==
  ASSUME HostTypeOK, QueueInv, Delete
  PROVE  QueueInv'
<1>1. /\ dropped' = dropped \cup InQueue
      /\ UNCHANGED <<job, turn, context>>
      /\ Queued' = <<>> /\ InQueue' = {}
  BY DEF Delete, Queued, InQueue
<1>2. \A t \in Turns : Given(t)' = Given(t)
  BY <1>1 DEF Given
<1>3. \A i \in Injections : GivenTo(i)' = GivenTo(i)
  BY <1>2 DEF GivenTo
<1>4. \A i \in Injections : Fate(i)'
  BY <1>1, <1>3, KeptIsFate DEF QueueInv, Fate
<1>5. Len(Queued') <= Cap /\ NoRepetition(Queued')
  BY <1>1, HostAssumption DEF NoRepetition
<1>6. InjectionsKept'
  BY <1>1, <1>4, <1>5 DEF QueueInv, InjectionsKept, Fate, GivenTo, NoRepetition
<1> QED
  <2>1. \A i \in InQueue : job[i] = "accepted"
    BY QueuedFacts DEF QueueInv, InjectionsKept
  <2> QED
    BY <1>1, <1>6, <2>1 DEF QueueInv, GivenWhenReady, DroppedAccepted

LEMMA QueueInvariance ==
  ASSUME LockInv, QueueInv, [Next]_vars
  PROVE  QueueInv'
<1> USE DEF LockInv
<1>1. HostTypeOK
  OBVIOUS
<1>2. ASSUME Queued' = Queued, UNCHANGED queueVars PROVE QueueInv'
  BY <1>1, <1>2, NoInjectionMoves DEF queueVars, HostTypeOK
<1>3. CASE \E c \in Calls, r \in Gateway!Request : Make(c, r)
  BY <1>2, <1>3 DEF Make, Queued
<1>4. CASE Import
  BY <1>2, <1>4 DEF Import, Queued
<1>5. CASE \E c \in Calls : Loaded(c) \/ Lock(c)
  BY <1>2, <1>5 DEF Loaded, Lock, Queued
<1>6. CASE \E c \in Calls : Settle(c)
  <2>1. PICK c \in Calls : Settle(c)
    BY <1>6
  <2>2. /\ entry' \in Entry /\ entry \in Entry
        /\ entry'.queue = entry.queue
    BY <2>1, SettleFacts, SettledEntry DEF Settle
  <2> QED
    BY <1>2, <2>1, <2>2, HostAssumption DEF Settle, Queued
<1>7. CASE \E i \in Injections : StartEnqueue(i)
  <2>1. PICK i \in Injections : StartEnqueue(i)
    BY <1>7
  <2>2. \A j \in Injections : job'[j] = "accepted" <=> job[j] = "accepted"
    BY <1>1, <2>1 DEF StartEnqueue, HostTypeOK
  <2> QED
    BY <1>1, <2>1, <2>2, NoInjectionMoves DEF StartEnqueue, Queued, HostTypeOK
<1>8. CASE \E t \in Turns : StartTurn(t)
  <2>1. PICK t \in Turns : StartTurn(t)
    BY <1>8
  <2>2. \A u \in Turns : turn'[u] # "ready" => turn[u] # "ready"
    BY <1>1, <2>1 DEF StartTurn, HostTypeOK
  <2> QED
    BY <1>1, <2>1, <2>2, NoInjectionMoves DEF StartTurn, Queued, HostTypeOK
<1>9. CASE \E v \in OtherState : PatchOther(v)
  <2>1. PICK v \in OtherState : PatchOther(v)
    BY <1>9
  <2>2. /\ entry \in Entry /\ entry' \in Entry
        /\ entry'.queue = entry.queue
    BY <1>1, <2>1 DEF PatchOther, HostTypeOK, Entry
  <2> QED
    BY <1>2, <2>1, <2>2, HostAssumption DEF PatchOther, Queued
<1>10. CASE Open
  <2>1. entry' \in Entry /\ entry'.queue = <<>> /\ entry = Missing
    BY <1>10 DEF Open, Entry
  <2> QED
    BY <1>2, <1>10, <2>1, HostAssumption DEF Open, Queued
<1>11. CASE Restart
  <2>1. /\ \A i \in Injections : job'[i] = "accepted" <=> job[i] = "accepted"
        /\ \A t \in Turns : turn'[t] # "ready" => turn[t] # "ready"
    BY <1>1, <1>11 DEF Restart, HostTypeOK
  <2> QED
    BY <1>1, <1>11, <2>1, NoInjectionMoves DEF Restart, Queued, HostTypeOK
<1>12. CASE UNCHANGED vars
  BY <1>2, <1>12 DEF vars, queueVars, Queued
<1> QED
  BY <1>1, <1>3, <1>4, <1>5, <1>6, <1>7, <1>8, <1>9, <1>10, <1>11, <1>12,
     EnqueueKeepsQueue, DrainKeepsQueue, DeleteKeepsQueue
     DEF Next

----------------------------------------------------------------------------
LEMMA Invariance == Spec => [](LockInv /\ QueueInv)
  BY InitInv, LockInvariance, QueueInvariance, PTL DEF Spec

(* Type correctness of the session entry, its lock and its queue.          *)
THEOREM HostTypeCorrect == Spec => []HostTypeOK
<1>1. LockInv /\ QueueInv => HostTypeOK
  BY DEF LockInv
<1> QED
  BY <1>1, Invariance, PTL

(* No writer undoes another one's write, and an accepted injection reaches *)
(* one turn unless the host threw it away.                                 *)
THEOREM EntryIsKept == Spec => []EntryKept
<1>1. LockInv /\ QueueInv => EntryKept
  BY DEF LockInv, QueueInv, OtherKept, EntryKept
<1> QED
  BY <1>1, Invariance, PTL

----------------------------------------------------------------------------
(* The steps of the host, seen through StateGateway. *)

LEMMA OnlySettleSettles ==
  ASSUME LockInv, Next, \A c \in Calls : ~Settle(c)
  PROVE  Settled' = Settled
<1> USE DEF LockInv, HostTypeOK, Settled
<1>1. CASE \E c \in Calls, r \in Gateway!Request : Make(c, r)
  BY <1>1 DEF Make
<1>2. CASE \E c \in Calls : Loaded(c)
  BY <1>2 DEF Loaded
<1>3. CASE \E c \in Calls : Lock(c)
  BY <1>3 DEF Lock
<1>4. CASE Restart
  BY <1>4 DEF Restart
<1>5. CASE UNCHANGED pc
  BY <1>5
<1> QED
  BY <1>1, <1>2, <1>3, <1>4, <1>5
     DEF Next, callVars, Import, StartEnqueue, Enqueue, StartTurn, Drain,
         PatchOther, Open, Delete

(* Every other step leaves the payload alone, or deletes the session.      *)
LEMMA OnlySettleWrites ==
  ASSUME LockInv, Next, \A c \in Calls : ~Settle(c)
  PROVE  Slot' = Slot \/ entry' = Missing
<1> USE DEF LockInv, HostTypeOK
<1>1. CASE entry' = entry
  BY <1>1 DEF Slot
<1>2. CASE \E i \in Injections : Enqueue(i)
  <2>1. PICK i \in Injections : Enqueue(i)
    BY <1>2
  <2>2. SUFFICES ASSUME entry \in Entry,
                        entry' = [entry EXCEPT !.queue = Append(@, i)]
                 PROVE  Slot' = Slot
    BY <1>1, <2>1 DEF Enqueue
  <2>3. Append(entry.queue, i) \in Seq(Injections)
    BY <2>2, EntryFacts
  <2>4. entry' \in Entry /\ entry'.slot = entry.slot
    BY <2>2, <2>3 DEF Entry
  <2> QED
    BY <2>2, <2>4, HostAssumption DEF Slot
<1>3. CASE \E t \in Turns : Drain(t)
  <2>1. SUFFICES ASSUME entry \in Entry,
                        entry' = [entry EXCEPT !.queue = <<>>]
                 PROVE  Slot' = Slot
    BY <1>1, <1>3 DEF Drain
  <2>2. <<>> \in Seq(Injections)
    OBVIOUS
  <2>3. entry' \in Entry /\ entry'.slot = entry.slot
    BY <2>1, <2>2 DEF Entry
  <2> QED
    BY <2>1, <2>3, HostAssumption DEF Slot
<1>4. CASE \E v \in OtherState : PatchOther(v)
  <2>1. /\ entry \in Entry /\ entry' \in Entry
        /\ entry'.slot = entry.slot
    BY <1>4 DEF PatchOther, Entry
  <2> QED
    BY <2>1, HostAssumption DEF Slot
<1>5. CASE Open
  <2>1. entry' \in Entry /\ entry'.slot = NoPayload /\ entry = Missing
    BY <1>5 DEF Open, Entry
  <2> QED
    BY <2>1, HostAssumption DEF Slot
<1>6. CASE Delete
  BY <1>6 DEF Delete
<1> QED
  BY <1>1, <1>2, <1>3, <1>4, <1>5, <1>6
     DEF Next, Make, Import, Loaded, Lock, StartEnqueue, StartTurn, Restart

LEMMA RequestsOnlyMade ==
  ASSUME LockInv, Next,
         \A c \in Calls, r \in Gateway!Request : ~Make(c, r)
  PROVE  request' = request
  BY DEF Next, callVars, Import, Loaded, Lock, Settle, StartEnqueue, Enqueue,
         StartTurn, Drain, PatchOther, Open, Delete, Restart

(* The production gateway implements the interface the store relies on.    *)
THEOREM HostGatewayImplements == Spec => GatewayPromise
<1>1. Init => Gateway!Init
  BY DEF Init, Gateway!Init, Settled, Slot
<1>2. LockInv /\ [Next]_vars
        => [Gateway!Next \/ entry' = Missing]_<<Slot, request, Settled>>
  <2>1. SUFFICES ASSUME LockInv, [Next]_vars
                 PROVE  [Gateway!Next \/ entry' = Missing]_<<Slot, request, Settled>>
    OBVIOUS
  <2>2. CASE UNCHANGED vars
    BY <2>2 DEF vars, Slot, Settled
  <2>3. CASE \E c \in Calls, r \in Gateway!Request : Make(c, r)
    <3>1. PICK c \in Calls, r \in Gateway!Request : Make(c, r)
      BY <2>3
    <3>2. request[c] = NoRequest
      BY <2>1, <3>1 DEF LockInv, Requested, Make
    <3>3. Slot' = Slot
      BY <3>1 DEF Make, Slot
    <3>4. Settled' = Settled
      BY <2>1, <3>1 DEF Make, Settled, LockInv, HostTypeOK
    <3>5. Gateway!Make(c, r)
      BY <3>1, <3>2, <3>3, <3>4 DEF Make, Gateway!Make
    <3> QED
      BY <3>5 DEF Gateway!Next
  <2>4. CASE \E c \in Calls : Settle(c)
    <3>1. PICK c \in Calls : Settle(c)
      BY <2>4
    <3>2. /\ request[c] \in Gateway!Request
          /\ request[c] # NoRequest
          /\ request[c].key = Session
          /\ entry \in Entry
      BY <2>1, <3>1, SettledEntry, HostAssumption DEF Settle, Gateway!Request
    <3>3. c \notin Settled /\ Settled' = Settled \cup {c}
      BY <2>1, <3>1 DEF Settle, Settled, LockInv, HostTypeOK
    <3>4. /\ Slot = [k \in {Session} |-> entry.slot]
          /\ Slot' = [k \in {Session} |->
                         Gateway!After(request[c].update, entry.slot)]
      BY <2>1, <3>1, <3>2, SettleFacts, HostAssumption DEF Slot, Entry
    <3>5. Slot' = [Slot EXCEPT ![request[c].key] =
                      Gateway!After(request[c].update, @)]
      BY <3>2, <3>4
    <3>6. request' = request
      BY <3>1 DEF Settle
    <3>7. Gateway!TakeEffect(c)
      BY <3>2, <3>3, <3>5, <3>6 DEF Gateway!TakeEffect
    <3> QED
      BY <3>7 DEF Gateway!Next
  <2>5. CASE /\ Next
             /\ \A c \in Calls, r \in Gateway!Request : ~Make(c, r)
             /\ \A c \in Calls : ~Settle(c)
    BY <2>1, <2>5, OnlySettleSettles, OnlySettleWrites, RequestsOnlyMade
  <2> QED
    BY <2>1, <2>2, <2>3, <2>4, <2>5
<1> QED
  BY <1>1, <1>2, Invariance, PTL DEF Spec, GatewayPromise
=============================================================================
