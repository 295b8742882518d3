\* Three calls on two sessions.
CONSTANTS
    c1 = c1
    c2 = c2
    c3 = c3
    Calls <- MCCalls
    Keys = {k1, k2}
    Payloads <- MCPayloads
    NoPayload = NoPayload
    Callbacks <- MCCallbacks
    Null = Null
    Throws = Throws
    NoRequest = NoRequest
    NoCall = NoCall
SPECIFICATION Spec
CHECK_DEADLOCK FALSE
INVARIANT TypeOK
INVARIANT InOrder
PROPERTY GatewayPromise
PROPERTY EveryCallReturns
