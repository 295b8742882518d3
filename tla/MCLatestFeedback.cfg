\* Two rejections of one cycle with different feedback.
CONSTANTS
    p1 = p1
    p2 = p2
    Plans <- MCPlans
    HashOf <- MCHashOf
    NoPlan = NoPlan
    Feedback = {f1, f2}
    NoFeedback = NoFeedback
    Absent = Absent
    Handlers = {h1, h2}
    MaxSubmissions = 1
    MaxRejections = 2
    MaxQueue = 1
    MayFail = FALSE
SPECIFICATION Spec
INVARIANT LatestFeedbackQueued
