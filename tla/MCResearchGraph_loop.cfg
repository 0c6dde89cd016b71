SPECIFICATION Spec
CONSTANTS
    MaxRevisions = 2
    RecursionLimit = 25
    Failing = {"critic", "reflector"}
    MaxFailures = 4
INVARIANTS
    LoopIsBounded
CHECK_DEADLOCK FALSE
