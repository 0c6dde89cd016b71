SPECIFICATION FairSpec
CONSTANTS
    MaxRevisions = 2
    RecursionLimit = 20
    Failing <- AnyAgent
    MaxFailures = 5
INVARIANTS
    RevisionsWithinBudget
    NeverAborted
    VerifiedIsAnswered
    MarkersMatchSources
    CriticHasTheLastWord
PROPERTIES
    AnswerArrives
CHECK_DEADLOCK FALSE
