SPECIFICATION MCSpec
CONSTANTS
    Keys = {k1, k2, k3}
    k1 = k1
    FirstKey = k1
    Malformed = Malformed
    TTL = 2
    Replicas = {r1, r2, r3}
    RollbackFrom = {1, 2}
    Roles = {operator}
    Tools = {"raise_shipment_incident"}
    Uris = {}
    NoState = NoState
    NoAnswers = NoAnswers
    OtherAnswers = OtherAnswers
    Callers = {c1}
    Arguments = {a1}
    Nonces = {q1, q2}
    HumanAnswers <- YesOrNo
    Down = Down
    NoQuestion = NoQuestion
    Shipped <- GatedTool
    MaxTime = 6
    MaxRequests = 2
SYMMETRY Symmetric
INVARIANTS
    RotationInv
    LiveStatesUnsealEverywhere
    SealersAreUnderstood
    ApprovedRetriesRun
PROPERTIES
    RotationKeepsPromise
