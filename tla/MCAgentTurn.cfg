\* One turn of one session whose mode other actors change.
SPECIFICATION TurnSpec
CONSTANTS
    Plans = {p1}
    NoPlan = NoPlan
    HashOf <- MCHashOf
    Feedback = {}
    NoFeedback = NoFeedback
    Absent = Absent
    ApprovalIds = {1}
    QuestionIds = {1}
    MaxRejections = 1
    Home <- MCHome
    NoCommand = NoCommand
    Calls <- MCCalls
    Messages <- MCMessages
    Location <- MCLocation
    NoCall = NoCall
INVARIANT TurnTypeOK
INVARIANT PlanModeFailsClosed
INVARIANT EditsStayConstrained
INVARIANT RetriesBounded
