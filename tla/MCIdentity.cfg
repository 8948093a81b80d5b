SPECIFICATION MCSpec
CONSTANTS
    Processes = {p1, p2, p3, p4}
    NoKey = NoKey
    Absent = Absent
    Empty = Empty
    Keys = {k1, k2}
    FirstKey = k1
    AppRoles = {operator}
    Checks = {c1, c2}
    NoToken = NoToken
    NoSet = NoSet
    Never = Never
    Lifetime = 1
    Leeway = 1
    Skew = 1
    Lifespan = 1
    FetchTimeout = 1
    Capacity = 1
    MaxTime = 3
SYMMETRY Symmetric
INVARIANTS
    KeyFileInv
    AgreeUnlessRaced
    VerifierInv
PROPERTIES
    SettledForGood
    FailedStartsExplained
    RemovedRolesLapse
    RolloverIsTransparent
    NoNewTrustInOldKeys
CHECK_DEADLOCK FALSE
