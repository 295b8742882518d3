--------------------------- MODULE MCHostSession ---------------------------
(* HostSession: two store calls, four injections under three keys, two turns. *)
EXTENDS HostSession, TLC

CONSTANTS c1, c2, i1, i2, i3, i4, t1, t2, v1, v2, k1, u1

MCCalls == {c1, c2}

MCPayloads == {v1, v2}

(* Every outcome comes up: a write, a write over it, null, and a throw.    *)
MCCallbacks ==
    { NoPayload :> v1     @@ v1 :> Null @@ v2 :> v1,
      NoPayload :> Throws @@ v1 :> v2   @@ v2 :> Null }

(* Two injections share a key, and the other two have their own.           *)
MCInjections == {i1, i2, i3, i4}

MCKeyOf == i1 :> k1 @@ i2 :> k1 @@ i3 :> i3 @@ i4 :> i4

MCTurns == {t1, t2}

MCOtherState == {u1}

Symmetry ==
    Permutations(MCCalls) \cup Permutations(MCTurns)
    \cup Permutations({i1, i2}) \cup Permutations({i3, i4})
=============================================================================
