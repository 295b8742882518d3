\* A rejection that lands between the trigger and its record.
CONSTANTS
    p1 = p1
    p2 = p2
    Plans <- MCPlans
    HashOf <- MCHashOf
    NoPlan = NoPlan
    Feedback = {}
    NoFeedback = NoFeedback
    Absent = Absent
    Handlers = {h1, h2}
    MaxSubmissions = 1
    MaxRejections = 1
    MaxQueue = 3
    MayFail = FALSE
SPECIFICATION Spec
PROPERTY AutoHonoursRejection
