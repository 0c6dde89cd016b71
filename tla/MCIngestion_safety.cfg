SPECIFICATION Spec
CONSTANTS
    p1 = p1
    w1 = w1
    w2 = w2
    Paper <- OnePaper
    Worker <- TwoWorkers
    Batch <- TwoBatches
    MaxRetries <- OneRetry
    GraphEnabled = TRUE
    Faults = {"unexpected", "provider", "broker", "visibility", "crash", "child"}
    MaxFaults = 1
SYMMETRY WorkerSymmetry
INVARIANTS
    RowsFollowPaper
    FlagsBackedByStores
    ReadyIsWhole
    NoStrandedPaper
    NoLostEmbedding
PROPERTIES
    ImplementsLifecycle
CHECK_DEADLOCK FALSE
