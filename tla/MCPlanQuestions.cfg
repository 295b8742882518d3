\* Two handlers over two questions, with failing awaits, lost messages and restarts.
CONSTANTS
    p1 = p1
    a1 = a1
    a2 = a2
    a3 = a3
    a4 = a4
    Plans <- MCPlans
    HashOf <- MCHashOf
    NoPlan = NoPlan
    Feedback = {}
    NoFeedback = NoFeedback
    Absent = Absent
    Answers <- MCAnswers
    Questions <- MCLocked
    Handlers = {h1, h2}
    MaxQuestions = 2
    MayFail = TRUE
SPECIFICATION Spec
SYMMETRY Symmetry
INVARIANT TypeOK
INVARIANT AnswersFitTheirQuestion
INVARIANT OneAnswerPerTurn
INVARIANT TokensHaveButtons
PROPERTY NoQuestionLost
INVARIANT AnswerReleasesQuestion
PROPERTY StorePromise
