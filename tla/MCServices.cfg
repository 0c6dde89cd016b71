SPECIFICATION ServicesSpec
CONSTANTS
    Paper <- Papers
    Process = {w1, w2}
    NoPaper = NoPaper
    NoStore = NoStore
    WorkspaceOf <- Workspaces
    MaxVersion = 2
    Found <- Texts
    Metadata <- People
    TitleOf <- Titles
    References <- Cites
    Queued = {"p1", "p2"}
    MaxRetries = 1
    MaxEvents = 2
    Uid <- Uids
    Address = {a0, a1}
    OldAddress = a0
    Request = {r1, r2, r3}
    OldUser = u0
    OldKey = k0
    None = None
    Lifetime = 1
    MaxTime = 1
    MaxFaults = 1
    MaxSteps = 3
    MaxQuestions = 2
    FrameLength = 2
    Call = {k1, k2}
    Batches <- Texts2
    QueryText = "q"
    MaxTries = 3
    MaxTroubles = 4
SYMMETRY ServiceSymmetry
CONSTRAINT
    OneAtATimeAtTheEnd
INVARIANTS
    GraphIsSound
    BuildsAreKept
    AccountsAreSound
    StreamIsWhole
    EmbeddingsFitTheirUse
PROPERTIES
    OnlyThePaperGoes
    KeysChangeByOwner
CHECK_DEADLOCK FALSE
