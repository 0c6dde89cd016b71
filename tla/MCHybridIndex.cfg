SPECIFICATION Spec
CONSTANTS
    p1 = p1
    p2 = p2
    u1 = u1
    u2 = u2
    x1 = x1
    w1 = w1
    i1 = i1
    i2 = i2
    i3 = i3
    s1 = s1
    User <- TwoUsers
    OwnerOf <- Owners
    Worker = {w1}
    Paper <- TwoPapers
    Server = {x1}
    Rebuild = {i1, i2, i3}
    Search = {s1}
    MaxParses = 3
    Candidates = 7
    MayFail = TRUE
CONSTRAINT SearchOrRebuild
INVARIANTS
    SearchIsAuthorized
    NoMixedParses
    WarmIndexIsComplete
PROPERTIES
    EmbeddedIsFindable
CHECK_DEADLOCK FALSE
