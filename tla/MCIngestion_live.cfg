SPECIFICATION FairSpec
CONSTANTS
    p1 = p1
    w1 = w1
    w2 = w2
    Paper <- OnePaper
    Worker <- TwoWorkers
    Batch <- OneBatch
    MaxRetries <- OneRetry
    GraphEnabled = TRUE
    Faults = {"provider", "crash", "visibility"}
    MaxFaults = 1
PROPERTIES
    StatusSettles
    ChunksGetEmbedded
CHECK_DEADLOCK FALSE
