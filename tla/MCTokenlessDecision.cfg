\* Decisions without a version token, over two approval cycles.
CONSTANTS
    p1 = p1
    p2 = p2
    Plans <- MCPlans
    HashOf <- MCHashOf
    NoPlan = NoPlan
    Feedback = {}
    NoFeedback = NoFeedback
    Absent = Absent
    Handlers = {h1, h2}
    MaxSubmissions = 2
    MaxRejections = 1
    MaxQueue = 1
    MayFail = FALSE
SPECIFICATION Spec
INVARIANT EveryDecisionCarriesItsPlan
