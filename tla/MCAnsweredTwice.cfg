\* One question, answered from two surfaces.
CONSTANTS
    p1 = p1
    a1 = a1
    a2 = a2
    a3 = a3
    a4 = a4
    Plans <- MCPlans
    HashOf <- MCHashOf
    NoPlan = NoPlan
    Feedback = {}
    NoFeedback = NoFeedback
    Absent = Absent
    Answers <- MCAnswers
    Questions <- MCQuestions
    Handlers = {h1, h2}
    MaxQuestions = 1
    MayFail = FALSE
SPECIFICATION Spec
PROPERTY AnsweredAtMostOnce
