SPECIFICATION Spec
CONSTANTS
    p1 = p1
    p2 = p2
    p3 = p3
    p4 = p4
    c1 = c1
    c2 = c2
    c3 = c3
    c4 = c4
    c5 = c5
    Input <- Inputs
    MaxChars = 7
    OverlapChars = 2
    MinChunkChars = 2
    MaxReferences = 2
    RrfK = 0
    Chunk <- Chunks
    PaperOf <- PaperOfChunk
    KindOf <- KindOfChunk
    Text <- ChunkTexts
    Stopword <- Stopwords
    Query <- Queries
    Filter <- Filters
    Rows <- RowSets
    Ratings <- RatingFunctions
    Limit = {1, 2}
    Similarity <- Similarities
    OverFetch = 2
    Multiplier = 2
    MaxCandidates = 3
    Faiss = TRUE
    Persisted = TRUE
    NoAnswer = NoAnswer
    NoDataset = NoDataset
    KeyOf <- Keys
    LowerIsBetter = {"loss"}
    YearOf <- Years
    NoYear = NoYear
    TitleOf <- Titles
    ClaimsOf <- PaperClaims
    Related <- RelatedClaims
    MaxPairs = 1
    Library <- Papers
    OwnedBy <- Owners
    Extraction <- ExtractionSets
    MaxTasks = 2
    MaxAttempts = 2
    MaxDeletions = 1
    Asked <- Asks
    Kinds = {"comparison", "consistency", "gaps", "trends"}
    MinPapers = {2}
    Filtered <- Picks
    Mention <- Mentions
    Nothing = Nothing
    Shelf <- ReviewPapers
    PublishedIn <- ReviewYears
    MaxPapers = 2
    DefaultSections = 2
    Outlines <- OutlineReplies
    Malformed = Malformed
    MaxItems = 3
    MaxSections = {1, 2}
    MaxRetrieved = 2
    MaxOutages = 1
    Corpus <- Papers
    HeldBy <- Owners
    Heading <- Titled
    Untitled = Untitled
    Byline <- Bylines
    Bibliography <- Bibliographies
    Mirrored <- Builds
    NamedIn <- Spellings
    Questions = {{"squad", "bert"}, {"bert"}}
    Exclusions <- Excludable
    LabelFilters = {{}, {"Dataset"}}
    MinShared = {1, 2}
    MaxSeeds = 2
    MaxRelated = 2
    MaxNodes = 2
    MaxChanges = 1
    Cases <- DataSets
    Answers <- Replies
    Threshold <- Gate
    StricterBy = 1
CONSTRAINTS
    OneDisturbance
    FarthestFirst
INVARIANTS
    IndexesAnswerExactly
    RankingIsFair
    StoredAsWritten
    ReportIsSound
    ReviewIsSound
    NetworksAreSound
    GateIsHonest
CHECK_DEADLOCK FALSE
