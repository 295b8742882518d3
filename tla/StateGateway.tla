---------------------------- MODULE StateGateway ----------------------------
(***************************************************************************)
(* What the interface PlanModeStateGateway promises PlanModeStore: each    *)
(* withLock call takes effect at one moment, when its callback sees the    *)
(* current state of the session and what it returns is written, unless it  *)
(* returns null or throws.  The other modules of this project take a store *)
(* call to be one atomic step on the strength of this.                     *)
(***************************************************************************)
CONSTANTS
    Calls,     \* the withLock calls
    Keys,      \* session keys
    Payloads,  \* states a callback may write
    NoPayload, \* the session has none yet
    Callbacks, \* what callbacks compute, as functions of the current state,
               \* to Payloads, Null or Throws
    Null,      \* the callback returns next: null
    Throws,    \* the callback rejects
    NoRequest  \* the call has not been made

States == Payloads \cup {NoPayload}

Request == [key : Keys, update : Callbacks]

VARIABLES
    state,   \* state[k] = the payload of session k
    request, \* request[c] = the session and the callback of call c
    settled  \* the calls that have returned or thrown

(* The state after a callback has run on s.                                *)
After(update, s) == IF update[s] \in {Null, Throws} THEN s ELSE update[s]

Make(c, r) ==
    /\ request[c] = NoRequest
    /\ request' = [request EXCEPT ![c] = r]
    /\ UNCHANGED <<state, settled>>

TakeEffect(c) ==
    /\ request[c] # NoRequest
    /\ c \notin settled
    /\ settled' = settled \cup {c}
    /\ state' = [state EXCEPT ![request[c].key] = After(request[c].update, @)]
    /\ UNCHANGED request

Init ==
    /\ state = [k \in Keys |-> NoPayload]
    /\ request = [c \in Calls |-> NoRequest]
    /\ settled = {}

Next ==
    \/ \E c \in Calls, r \in Request : Make(c, r)
    \/ \E c \in Calls : TakeEffect(c)

Spec == Init /\ [][Next]_<<state, request, settled>>
=============================================================================
