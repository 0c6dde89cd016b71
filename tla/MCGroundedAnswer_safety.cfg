SPECIFICATION FairSpec
CONSTANTS
    MaxRetries = 3
    Chunk <- MCChunk
    Length <- MCLength
    Sentences <- MCSentences
    Budget = 100
    MinExcerpt = 40
    Limit = 2
    Markers <- MCMarkers
    Stated <- MCStated
    MaxTokens = 2
INVARIANTS
    NoEarlyRaise
    PromptIsGrounded
    ConfidenceIsEarned
    UsageIsComplete
PROPERTY
    QuestionEnds
CHECK_DEADLOCK FALSE
