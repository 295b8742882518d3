------------------------- MODULE MCInMemoryGateway -------------------------
(* InMemoryGateway with callbacks that update, that skip and that throw. *)
EXTENDS InMemoryGateway

CONSTANTS c1, c2, c3

MCCalls == {c1, c2, c3}

(* A counter stands for the payload, so that every update shows.           *)
MCPayloads == 1 .. 3

MCStates == MCPayloads \cup {NoPayload}

Count == [s \in MCStates |-> IF s = NoPayload THEN 1
                             ELSE IF s = 3 THEN Null ELSE s + 1]

LazyInit == [s \in MCStates |-> IF s = NoPayload THEN 2 ELSE Null]

Fail == [s \in MCStates |-> Throws]

MCCallbacks == {Count, LazyInit, Fail}
=============================================================================
