\* Two cycles with everything they leave outside of the payload.
CONSTANTS
    p1 = p1
    f1 = f1
    s1 = s1
    s2 = s2
    c1 = c1
    Plans <- MCPlans
    Feedback <- MCFeedback
    HashOf <- MCHashOf
    NoPlan = NoPlan
    NoFeedback = NoFeedback
    Absent = Absent
    ApprovalIds = {1, 2}
    QuestionIds = {1}
    MaxRejections = 1
    Submitters <- MCSubmitters
    Clickers <- MCClickers
    NoButton = NoButton
    Free = Free
    Taken = Taken
    MaxSuffix = 2
    MaxFlows = 2
SYMMETRY Symmetry
SPECIFICATION ArtifactsSpec
INVARIANT Coherent
INVARIANT ArtifactsTypeOK
INVARIANT FlowFollowsCycle
INVARIANT OneLiveFlow
INVARIANT LedgerTracksPending
INVARIANT CardsShowTheirPlan
INVARIANT TokensHaveCards
PROPERTY SettledStaysSettled
PROPERTY PlansNeverOverwritten
PROPERTY ClickDecidesItsCycle
