SPECIFICATION Spec
CONSTANTS
    r1 = r1
    r2 = r2
    r3 = r3
    r4 = r4
    x1 = x1
    x2 = x2
    a = a
    b = b
    one = one
    Request <- ThreeRequests
    Workspace <- TwoWorkspaces
    Content <- OneContent
    Suffix <- OneSuffix
    Replica <- OneReplica
    Kinds = {"upload", "delete"}
    Faults = {}
    MaxFaults = 0
PROPERTIES
    RemovesOnlyUnreferenced
CHECK_DEADLOCK FALSE
