-------------------------- MODULE InMemoryGateway --------------------------
(***************************************************************************)
(* InMemoryGateway: a lock per session made of a chain of promises.  Each  *)
(* call takes the promise at the end of the chain as its prior, puts its   *)
(* own there, awaits the prior, and resolves its own in a finally.  The    *)
(* callback is asynchronous, so other calls run while one is inside it.    *)
(*                                                                         *)
(* A promise is the call that resolves it.  The chain holds prior.then(()  *)
(* => next), which resolves with next, as a call resolves next only after  *)
(* its prior has.                                                          *)
(***************************************************************************)
EXTENDS Naturals

CONSTANTS Calls, Keys, Payloads, NoPayload, Callbacks, Null, Throws, NoRequest,
    NoCall \* the session has no lock yet: Promise.resolve()

ASSUME GatewayAssumption ==
    /\ NoCall \notin Calls
    /\ NoRequest \notin [key : Keys, update : Callbacks]
    /\ Null \notin Payloads /\ Throws \notin Payloads
    /\ Callbacks \subseteq
           [Payloads \cup {NoPayload} -> Payloads \cup {Null, Throws}]

VARIABLES
    state,    \* the map of payloads
    locks,    \* locks[k] = the call at the end of the chain of session k
    request,  \* request[c] = the arguments of call c
    pc,       \* where call c is
    prior,    \* prior[c] = the call before c in its chain
    current,  \* current[c] = the copy of the state c gave to its callback
    released, \* the calls that resolved their promise
    issued,   \* history: how many calls were made
    ticket    \* history: ticket[c] = the position of c among them

vars == <<state, locks, request, pc, prior, current, released, issued, ticket>>

Settled == {c \in Calls : pc[c] = "settled"}

Gateway == INSTANCE StateGateway WITH settled <- Settled

----------------------------------------------------------------------------
(* The synchronous part of withLock, up to await prior                      *)
(* mutant: the call does not put itself at the end of the chain *)
MakeUnchained(c, r) ==
    /\ pc[c] = "idle"
    /\ request' = [request EXCEPT ![c] = r]
    /\ prior' = [prior EXCEPT ![c] = locks[r.key]]
    /\ pc' = [pc EXCEPT ![c] = "waiting"]
    /\ issued' = issued + 1
    /\ ticket' = [ticket EXCEPT ![c] = issued + 1]
    /\ UNCHANGED <<state, locks, current, released>>

Make(c, r) ==
    /\ pc[c] = "idle"
    /\ request' = [request EXCEPT ![c] = r]
    /\ prior' = [prior EXCEPT ![c] = locks[r.key]]
    /\ locks' = [locks EXCEPT ![r.key] = c]
    /\ pc' = [pc EXCEPT ![c] = "waiting"]
    /\ issued' = issued + 1
    /\ ticket' = [ticket EXCEPT ![c] = issued + 1]
    /\ UNCHANGED <<state, current, released>>

(* mutant: the call does not await its prior *)
EnterAtOnce(c) ==
    /\ pc[c] = "waiting"
    /\ current' = [current EXCEPT ![c] = state[request[c].key]]
    /\ pc' = [pc EXCEPT ![c] = "updating"]
    /\ UNCHANGED <<state, locks, request, prior, released, issued, ticket>>

(* The prior has resolved: fresh read, clone, and into the callback.        *)
Enter(c) ==
    /\ pc[c] = "waiting"
    /\ prior[c] = NoCall \/ prior[c] \in released
    /\ current' = [current EXCEPT ![c] = state[request[c].key]]
    /\ pc' = [pc EXCEPT ![c] = "updating"]
    /\ UNCHANGED <<state, locks, request, prior, released, issued, ticket>>

(* mutant: no finally, so a callback that throws keeps the lock *)
ReleasedOnSuccess(c) ==
    IF request[c].update[current[c]] = Throws THEN {} ELSE {c}

ReleasedBy(c) == {c}

(* mutant: next: null is written like any other state *)
SettleWritingNull(c) ==
    /\ pc[c] = "updating"
    /\ LET next == request[c].update[current[c]]
           k    == request[c].key
       IN  state' = IF next = Throws THEN state
                    ELSE [state EXCEPT ![k] = next]
    /\ released' = released \cup {c}
    /\ pc' = [pc EXCEPT ![c] = "settled"]
    /\ UNCHANGED <<locks, request, prior, current, issued, ticket>>

(* The callback has settled: write what it returned, then release.          *)
Settle(c) ==
    /\ pc[c] = "updating"
    /\ LET next == request[c].update[current[c]]
           k    == request[c].key
       IN  state' = IF next \in {Null, Throws} THEN state
                    ELSE [state EXCEPT ![k] = next]
    /\ released' = released \cup ReleasedBy(c)
    /\ pc' = [pc EXCEPT ![c] = "settled"]
    /\ UNCHANGED <<locks, request, prior, current, issued, ticket>>

----------------------------------------------------------------------------
Init ==
    /\ state = [k \in Keys |-> NoPayload]
    /\ locks = [k \in Keys |-> NoCall]
    /\ request = [c \in Calls |-> NoRequest]
    /\ pc = [c \in Calls |-> "idle"]
    /\ prior = [c \in Calls |-> NoCall]
    /\ current = [c \in Calls |-> NoPayload]
    /\ released = {}
    /\ issued = 0
    /\ ticket = [c \in Calls |-> 0]

Next ==
    \/ \E c \in Calls, r \in Gateway!Request : Make(c, r)
    \/ \E c \in Calls : Enter(c)
    \/ \E c \in Calls : Settle(c)

(* A promise that has resolved wakes its awaiter, and callbacks settle.     *)
Spec == Init /\ [][Next]_vars /\ \A c \in Calls : WF_vars(Enter(c) \/ Settle(c))

----------------------------------------------------------------------------
TypeOK ==
    /\ state \in [Keys -> Payloads \cup {NoPayload}]
    /\ locks \in [Keys -> Calls \cup {NoCall}]
    /\ request \in [Calls -> Gateway!Request \cup {NoRequest}]
    /\ pc \in [Calls -> {"idle", "waiting", "updating", "settled"}]
    /\ prior \in [Calls -> Calls \cup {NoCall}]
    /\ current \in [Calls -> Payloads \cup {NoPayload}]
    /\ released \subseteq Calls
    /\ issued \in Nat
    /\ ticket \in [Calls -> Nat]

(* d waits or runs before c on the same session.                            *)
Before(d, c) ==
    /\ pc[d] # "idle"
    /\ pc[c] # "idle"
    /\ request[d].key = request[c].key
    /\ ticket[d] < ticket[c]

(* First come, first served: a call is in its callback only after every     *)
(* call made before it on that session has settled.  Two callbacks of one   *)
(* session are never open at once.                                          *)
InOrder ==
    \A c, d \in Calls :
        (Before(d, c) /\ pc[c] \in {"updating", "settled"}) => pc[d] = "settled"

(* No lost update: a callback still works on the state of its session       *)
(* however long it takes.                                                   *)
FreshWhileUpdating ==
    \A c \in Calls : pc[c] = "updating" => current[c] = state[request[c].key]

(* The promise of the interface: the callbacks take effect one at a time.   *)
GatewayPromise == Gateway!Spec

(* Every call returns, also behind callbacks that throw.                    *)
EveryCallReturns == \A c \in Calls : pc[c] = "waiting" ~> pc[c] = "settled"
=============================================================================
