\* One session entry, with restarts and with the session deleted and reopened.
CONSTANTS
    c1 = c1
    c2 = c2
    i1 = i1
    i2 = i2
    i3 = i3
    i4 = i4
    t1 = t1
    t2 = t2
    v1 = v1
    v2 = v2
    k1 = k1
    u1 = u1
    Calls <- MCCalls
    Payloads <- MCPayloads
    Callbacks <- MCCallbacks
    Injections <- MCInjections
    KeyOf <- MCKeyOf
    Turns <- MCTurns
    OtherState <- MCOtherState
    NoOther = NoOther
    NoPayload = NoPayload
    Null = Null
    Throws = Throws
    NoRequest = NoRequest
    Cap = 2
    MaxFaults = 1
    Session = Session
    Missing = Missing
    Nobody = Nobody
SYMMETRY Symmetry
SPECIFICATION Spec
INVARIANT HostTypeOK
INVARIANT EntryKept
PROPERTY GatewayPromise
