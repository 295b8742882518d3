\* Liveness: two handlers, two approval cycles, two plans, nothing fails.
CONSTANTS
    p1 = p1
    p2 = p2
    Plans <- MCPlans
    HashOf <- MCHashOf
    NoPlan = NoPlan
    Feedback = {}
    NoFeedback = NoFeedback
    Absent = Absent
    Handlers = {h1, h2}
    MaxSubmissions = 2
    MaxRejections = 1
    MaxQueue = 4
    MayFail = FALSE
SPECIFICATION FairSpec
VIEW Control
PROPERTY RecordedReachesAgent
PROPERTY AutoSelfExecutes
