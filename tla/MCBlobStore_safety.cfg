SPECIFICATION Spec
CONSTANTS
    r1 = r1
    r2 = r2
    r3 = r3
    r4 = r4
    x1 = x1
    x2 = x2
    a = a
    b = b
    one = one
    Request <- FourRequests
    Workspace <- TwoWorkspaces
    Content <- OneContent
    Suffix <- TwoSuffixes
    Replica <- TwoReplicas
    Kinds = {"upload", "delete"}
    Faults = {"crash", "database", "storage"}
    MaxFaults = 2
SYMMETRY BlobSymmetry
INVARIANTS
    BlobsAccountedFor
    PapersKeepTheirBlob
    IncompleteOnlyWhenCut
CHECK_DEADLOCK FALSE
