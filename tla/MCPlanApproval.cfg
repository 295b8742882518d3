\* Two concurrent handlers over two approval cycles, with failing awaits and restarts.
CONSTANTS
    p1 = p1
    p2 = p2
    Plans <- MCPlans
    HashOf <- MCHashOf
    NoPlan = NoPlan
    Feedback = {}
    NoFeedback = NoFeedback
    Absent = Absent
    Handlers = {h1, h2}
    MaxSubmissions = 2
    MaxRejections = 1
    MaxQueue = 1
    MayFail = TRUE
SPECIFICATION Spec
SYMMETRY Symmetry
INVARIANT TypeOK
INVARIANT DecisionCarriesItsPlan
PROPERTY AcceptedAtMostOnce
PROPERTY AutoOnlyArmed
PROPERTY NoOrphanedCard
PROPERTY StorePromise
