----------------------- MODULE InMemoryGatewayProofs -----------------------
(***************************************************************************)
(* The promise-chain lock serialises the calls of a session, for any       *)
(* number of calls, sessions and callbacks: first come, first served, and  *)
(* without a lost update.                                                  *)
(*                                                                         *)
(* The chain is what makes it inductive: each call's prior is the call     *)
(* made just before it on its session, so that the settled calls of a      *)
(* session are always the oldest ones and at most the next one is in its   *)
(* callback.                                                               *)
(***************************************************************************)
EXTENDS InMemoryGateway, TLAPS

Made(c) == pc[c] # "idle"

(* Tickets number the calls that were made.                                *)
Tickets ==
    /\ \A c \in Calls : request[c] = NoRequest <=> ~Made(c)
    /\ \A c \in Calls : Made(c) => ticket[c] <= issued
    /\ \A c, d \in Calls : (Made(c) /\ Made(d) /\ ticket[c] = ticket[d]) => c = d

(* The chain of a session ends with the last call made on it.              *)
EndOfChain ==
    \A k \in Keys, d \in Calls :
        (Made(d) /\ request[d].key = k) =>
            /\ locks[k] \in Calls
            /\ ticket[d] <= ticket[locks[k]]

LockHolders ==
    \A k \in Keys : locks[k] \in Calls =>
        /\ Made(locks[k])
        /\ request[locks[k]].key = k

(* A call's prior is the call just before it in the chain.                 *)
PriorIsPrevious ==
    \A c, d \in Calls :
        Before(d, c) =>
            /\ prior[c] \in Calls
            /\ Made(prior[c])
            /\ request[prior[c]].key = request[c].key
            /\ ticket[d] <= ticket[prior[c]]

ReleasedSettled == released = Settled

IInv ==
    /\ TypeOK
    /\ Tickets
    /\ EndOfChain
    /\ LockHolders
    /\ PriorIsPrevious
    /\ ReleasedSettled
    /\ InOrder
    /\ FreshWhileUpdating

----------------------------------------------------------------------------
(* The invariant holds in the initial state. *)
LEMMA InitIInv == Init => IInv
  BY GatewayAssumption
     DEF Init, IInv, TypeOK, Tickets, EndOfChain, LockHolders, PriorIsPrevious,
         ReleasedSettled, InOrder, FreshWhileUpdating, Made, Before, Settled

(* What a call asks for is a request, never the mark of no request. *)
LEMMA NoRequestFresh ==
  ASSUME NEW r \in Gateway!Request
  PROVE  r # NoRequest
  BY GatewayAssumption DEF Gateway!Request

(* A call that enters the chain becomes its end and has the old end as prior. *)
LEMMA MakePreserves ==
  ASSUME IInv, NEW c \in Calls, NEW r \in Gateway!Request, Make(c, r)
  PROVE  IInv'
<1> USE DEF IInv
<1>1. /\ r.key \in Keys
      /\ r # NoRequest
      /\ c \notin {NoCall}
  BY NoRequestFresh, GatewayAssumption DEF Gateway!Request
<1>2. /\ request' = [request EXCEPT ![c] = r]
      /\ prior' = [prior EXCEPT ![c] = locks[r.key]]
      /\ locks' = [locks EXCEPT ![r.key] = c]
      /\ pc[c] = "idle"
      /\ pc' = [pc EXCEPT ![c] = "waiting"]
      /\ issued' = issued + 1
      /\ ticket' = [ticket EXCEPT ![c] = issued + 1]
      /\ UNCHANGED <<state, current, released>>
  BY DEF Make
<1>3. TypeOK'
  BY <1>1, <1>2 DEF TypeOK
<1>4. /\ request'[c] = r
      /\ prior'[c] = locks[r.key]
      /\ locks'[r.key] = c
      /\ pc'[c] = "waiting"
      /\ ticket'[c] = issued + 1
      /\ \A d \in Calls \ {c} : /\ request'[d] = request[d]
                               /\ prior'[d] = prior[d]
                               /\ pc'[d] = pc[d]
                               /\ ticket'[d] = ticket[d]
      /\ \A k \in Keys \ {r.key} : locks'[k] = locks[k]
  BY <1>1, <1>2 DEF TypeOK
<1>5. /\ issued \in Nat
      /\ \A d \in Calls : ticket[d] \in Nat
  BY DEF TypeOK
<1>6. Tickets'
  BY <1>1, <1>2, <1>4, <1>5 DEF Tickets, Made
<1>7. EndOfChain'
  BY <1>1, <1>2, <1>4, <1>5 DEF EndOfChain, Tickets, LockHolders, Made
<1>8. LockHolders'
  BY <1>1, <1>2, <1>4, <1>5 DEF LockHolders, Made
<1>9. PriorIsPrevious'
  <2> SUFFICES ASSUME NEW x \in Calls, NEW d \in Calls, Before(d, x)'
               PROVE  /\ prior'[x] \in Calls
                      /\ pc'[prior'[x]] # "idle"
                      /\ request'[prior'[x]].key = request'[x].key
                      /\ ticket'[d] <= ticket'[prior'[x]]
    BY DEF PriorIsPrevious, Made
  <2>1. CASE x = c
    <3>1. d # c /\ pc[d] # "idle" /\ request[d].key = r.key
      BY <2>1, <1>4, <1>5 DEF Before
    <3>2. /\ locks[r.key] \in Calls
          /\ ticket[d] <= ticket[locks[r.key]]
          /\ pc[locks[r.key]] # "idle"
          /\ request[locks[r.key]].key = r.key
      BY <3>1, <1>1 DEF EndOfChain, LockHolders, Made
    <3> QED
      BY <2>1, <3>1, <3>2, <1>2, <1>4
  <2>2. CASE x # c
    <3>1. d # c
      BY <2>2, <1>4, <1>5 DEF Before, Tickets, Made
    <3>2. Before(d, x)
      BY <2>2, <3>1, <1>4 DEF Before
    <3>3. /\ prior[x] \in Calls
          /\ pc[prior[x]] # "idle"
          /\ request[prior[x]].key = request[x].key
          /\ ticket[d] <= ticket[prior[x]]
      BY <3>2 DEF PriorIsPrevious, Made
    <3> QED
      BY <2>2, <3>1, <3>3, <1>2, <1>4
  <2> QED
    BY <2>1, <2>2
<1>10. ReleasedSettled'
  BY <1>2, <1>4 DEF ReleasedSettled, Settled
<1>11. InOrder'
  BY <1>2, <1>4, <1>5 DEF InOrder, Before, Tickets, Made
<1>12. FreshWhileUpdating'
  BY <1>2, <1>4 DEF FreshWhileUpdating
<1> QED
  BY <1>3, <1>6, <1>7, <1>8, <1>9, <1>10, <1>11, <1>12

(* A call enters its callback when its prior, and so everything before it, *)
(* has settled.                                                            *)
LEMMA EnterPreserves ==
  ASSUME IInv, NEW c \in Calls, Enter(c)
  PROVE  IInv'
<1> USE DEF IInv
<1>1. /\ pc[c] = "waiting"
      /\ prior[c] = NoCall \/ prior[c] \in released
      /\ current' = [current EXCEPT ![c] = state[request[c].key]]
      /\ pc' = [pc EXCEPT ![c] = "updating"]
      /\ UNCHANGED <<state, locks, request, prior, released, issued, ticket>>
  BY DEF Enter
<1>2. request[c] \in Gateway!Request /\ request[c].key \in Keys
  BY <1>1 DEF TypeOK, Tickets, Made, Gateway!Request
<1>3. TypeOK'
  BY <1>1, <1>2 DEF TypeOK
<1>4. /\ pc'[c] = "updating"
      /\ current'[c] = state[request[c].key]
      /\ \A d \in Calls \ {c} : pc'[d] = pc[d] /\ current'[d] = current[d]
  BY <1>1 DEF TypeOK
<1>5. \A d \in Calls : Made(d)' <=> Made(d)
  BY <1>1, <1>4 DEF Made
<1>6. \A x, d \in Calls : Before(d, x)' <=> Before(d, x)
  BY <1>1, <1>4 DEF Before
<1>7. Tickets' /\ EndOfChain' /\ LockHolders'
  BY <1>1, <1>5 DEF Tickets, EndOfChain, LockHolders, Made
<1>8. PriorIsPrevious'
  BY <1>1, <1>4, <1>6 DEF PriorIsPrevious, Made
<1>9. ReleasedSettled'
  BY <1>1, <1>4 DEF ReleasedSettled, Settled
<1>10. ASSUME NEW d \in Calls, Before(d, c)
       PROVE  pc[d] = "settled"
  <2> DEFINE p == prior[c]
  <2>1. /\ p \in Calls
        /\ pc[p] # "idle"
        /\ request[p].key = request[c].key
        /\ ticket[d] <= ticket[p]
    BY <1>10 DEF PriorIsPrevious, Made
  <2>2. pc[p] = "settled"
    BY <1>1, <2>1, GatewayAssumption DEF ReleasedSettled, Settled
  <2>3. CASE ticket[d] = ticket[p]
    BY <2>1, <2>2, <2>3, <1>10 DEF Tickets, Before, Made
  <2>4. CASE ticket[d] < ticket[p]
    <3>1. Before(d, p)
      BY <2>1, <2>4, <1>10 DEF Before
    <3> QED
      BY <3>1, <2>1, <2>2 DEF InOrder
  <2> QED
    BY <2>1, <2>3, <2>4 DEF TypeOK
<1>11. InOrder'
  BY <1>4, <1>6, <1>10, <1>1 DEF InOrder
<1>12. FreshWhileUpdating'
  BY <1>1, <1>4 DEF FreshWhileUpdating
<1> QED
  BY <1>3, <1>7, <1>8, <1>9, <1>11, <1>12

(* Two calls are never in a callback of the same session. *)
LEMMA Exclusive ==
  ASSUME IInv, NEW c \in Calls, NEW d \in Calls, c # d,
         pc[c] = "updating", pc[d] = "updating"
  PROVE  request[c].key # request[d].key
<1> SUFFICES ASSUME request[c].key = request[d].key
             PROVE  FALSE
  OBVIOUS
<1>1. ticket[c] # ticket[d]
  BY DEF IInv, Tickets, Made
<1>2. Before(c, d) \/ Before(d, c)
  BY <1>1 DEF Before, IInv, TypeOK
<1> QED
  BY <1>2 DEF IInv, InOrder

(* A call that settles writes over the state it read, and hands the lock on. *)
LEMMA SettlePreserves ==
  ASSUME IInv, NEW c \in Calls, Settle(c)
  PROVE  /\ IInv'
         /\ Settled' = Settled \cup {c}
         /\ state' = [state EXCEPT ![request[c].key] =
                         Gateway!After(request[c].update, @)]
<1> USE DEF IInv
<1> DEFINE next == request[c].update[current[c]]
           k    == request[c].key
<1>1. /\ pc[c] = "updating"
      /\ state' = IF next \in {Null, Throws} THEN state
                  ELSE [state EXCEPT ![k] = next]
      /\ released' = released \cup {c}
      /\ pc' = [pc EXCEPT ![c] = "settled"]
      /\ UNCHANGED <<locks, request, prior, current, issued, ticket>>
  BY DEF Settle, ReleasedBy
<1>2. /\ request[c] \in Gateway!Request
      /\ k \in Keys
      /\ request[c].update \in
           [Payloads \cup {NoPayload} -> Payloads \cup {Null, Throws}]
  BY <1>1, GatewayAssumption DEF TypeOK, Tickets, Made, Gateway!Request
<1>3. next \in Payloads \cup {Null, Throws}
  BY <1>2 DEF TypeOK
<1>4. TypeOK'
  BY <1>1, <1>2, <1>3 DEF TypeOK
<1>5. /\ pc'[c] = "settled"
      /\ \A d \in Calls \ {c} : pc'[d] = pc[d]
  BY <1>1 DEF TypeOK
<1>6. \A d \in Calls : Made(d)' <=> Made(d)
  BY <1>1, <1>5 DEF Made
<1>7. \A x, d \in Calls : Before(d, x)' <=> Before(d, x)
  BY <1>1, <1>5 DEF Before
<1>8. Tickets' /\ EndOfChain' /\ LockHolders'
  BY <1>1, <1>6 DEF Tickets, EndOfChain, LockHolders, Made
<1>9. PriorIsPrevious'
  BY <1>1, <1>5, <1>7 DEF PriorIsPrevious, Made
<1>10. Settled' = Settled \cup {c}
  BY <1>5 DEF Settled
<1>11. ReleasedSettled'
  BY <1>1, <1>10 DEF ReleasedSettled
<1>12. InOrder'
  BY <1>1, <1>5, <1>7 DEF InOrder
<1>13. FreshWhileUpdating'
  <2> SUFFICES ASSUME NEW d \in Calls, pc'[d] = "updating"
               PROVE  current'[d] = state'[request'[d].key]
    BY DEF FreshWhileUpdating
  <2>1. d # c /\ pc[d] = "updating"
    BY <1>5
  <2>2. request[d].key # k
    BY <2>1, <1>1, Exclusive
  <2>3. current[d] = state[request[d].key]
    BY <2>1 DEF FreshWhileUpdating
  <2> QED
    BY <2>2, <2>3, <1>1 DEF TypeOK
<1>14. state' = [state EXCEPT ![k] = Gateway!After(request[c].update, @)]
  <2>1. current[c] = state[k]
    BY <1>1 DEF FreshWhileUpdating
  <2>2. Gateway!After(request[c].update, state[k]) =
          IF next \in {Null, Throws} THEN state[k] ELSE next
    BY <2>1 DEF Gateway!After
  <2>3. state \in [Keys -> Payloads \cup {NoPayload}]
    BY DEF TypeOK
  <2>4. CASE next \in {Null, Throws}
    BY <2>2, <2>3, <2>4, <1>1, <1>2
  <2>5. CASE next \notin {Null, Throws}
    BY <2>2, <2>3, <2>5, <1>1, <1>2
  <2> QED
    BY <2>4, <2>5
<1> QED
  BY <1>4, <1>8, <1>9, <1>10, <1>11, <1>12, <1>13, <1>14

(* Nothing the invariant reads changes in a stuttering step. *)
LEMMA StutterPreserves ==
  ASSUME IInv, UNCHANGED vars
  PROVE  IInv' /\ Settled' = Settled
  BY DEF IInv, vars, TypeOK, Tickets, EndOfChain, LockHolders, PriorIsPrevious,
         ReleasedSettled, InOrder, FreshWhileUpdating, Made, Before, Settled

----------------------------------------------------------------------------
(* Every reachable state satisfies the inductive invariant. *)
THEOREM Invariance == Spec => []IInv
<1>1. Init => IInv
  BY InitIInv
<1>2. IInv /\ [Next]_vars => IInv'
  BY MakePreserves, EnterPreserves, SettlePreserves, StutterPreserves DEF Next
<1> QED
  BY <1>1, <1>2, PTL DEF Spec

(* Every variable keeps its type, for all calls, sessions and callbacks. *)
THEOREM TypeCorrect == Spec => []TypeOK
  BY Invariance, PTL DEF IInv

(* withLock serves the calls of a session in the order they were made, and *)
(* never opens two callbacks of a session at once.                         *)
THEOREM FirstComeFirstServed == Spec => []InOrder
  BY Invariance, PTL DEF IInv

(* While a callback of withLock runs nobody else writes its session. *)
THEOREM NoLostUpdate == Spec => []FreshWhileUpdating
  BY Invariance, PTL DEF IInv

(* InMemoryGateway keeps the promise of PlanModeStateGateway: each call     *)
(* takes effect at one moment, on the state of that moment.                 *)
THEOREM ImplementsGateway == Spec => GatewayPromise
<1>1. Init => Gateway!Init
  BY DEF Init, Gateway!Init, Settled
<1>2. IInv /\ [Next]_vars
        => [Gateway!Next]_<<state, request, Settled>>
  <2> SUFFICES ASSUME IInv, [Next]_vars
               PROVE  [Gateway!Next]_<<state, request, Settled>>
    OBVIOUS
  <2>1. CASE \E c \in Calls, r \in Gateway!Request : Make(c, r)
    <3>1. PICK c \in Calls, r \in Gateway!Request : Make(c, r)
      BY <2>1
    <3>2. request[c] = NoRequest
      BY <3>1 DEF Make, IInv, Tickets, Made
    <3>3. Settled' = Settled
      BY <3>1 DEF Make, IInv, TypeOK, Settled
    <3>4. Gateway!Make(c, r)
      BY <3>1, <3>2, <3>3 DEF Make, Gateway!Make
    <3> QED
      BY <3>4 DEF Gateway!Next
  <2>2. CASE \E c \in Calls : Enter(c)
    <3>1. PICK c \in Calls : Enter(c)
      BY <2>2
    <3>2. Settled' = Settled
      BY <3>1 DEF Enter, IInv, TypeOK, Settled
    <3> QED
      BY <3>1, <3>2 DEF Enter
  <2>3. CASE \E c \in Calls : Settle(c)
    <3>1. PICK c \in Calls : Settle(c)
      BY <2>3
    <3>2. /\ Settled' = Settled \cup {c}
          /\ state' = [state EXCEPT ![request[c].key] =
                          Gateway!After(request[c].update, @)]
      BY <3>1, SettlePreserves
    <3>3. /\ c \notin Settled
          /\ request[c] # NoRequest
          /\ request' = request
      BY <3>1 DEF Settle, Settled, IInv, Tickets, Made
    <3>4. Gateway!TakeEffect(c)
      BY <3>2, <3>3 DEF Gateway!TakeEffect
    <3> QED
      BY <3>4 DEF Gateway!Next
  <2>4. CASE UNCHANGED vars
    BY <2>4, StutterPreserves DEF vars
  <2> QED
    BY <2>1, <2>2, <2>3, <2>4 DEF Next
<1> QED
  BY <1>1, <1>2, Invariance, PTL DEF Spec, GatewayPromise, Gateway!Spec
=============================================================================
