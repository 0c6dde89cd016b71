SPECIFICATION FairSpec
CONSTANTS
    p1 = p1
    w1 = w1
    w2 = w2
    Paper <- OnePaper
    Worker <- OneWorker
    Batch <- OneBatch
    MaxRetries <- OneRetry
    GraphEnabled = TRUE
    Faults = {"unexpected"}
    MaxFaults = 0
PROPERTIES
    StatusSettles
CHECK_DEADLOCK FALSE
