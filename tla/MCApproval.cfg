SPECIFICATION MCSpec
CONSTANTS
    Roles = {"tlo.operator"}
    Tools = {"raise_shipment_incident"}
    Uris = {}
    Keys = {k1}
    k1 = k1
    Malformed = Malformed
    TTL = 2
    NoState = NoState
    NoAnswers = NoAnswers
    OtherAnswers = OtherAnswers
    Replicas = {r1, r2}
    Callers = {c1, c2}
    Arguments = {a1, a2}
    Nonces = {q1, q2}
    Configs <- KeyConfigs
    HumanAnswers <- TwoAnswers
    Down = Down
    NoQuestion = NoQuestion
    MaxLocalKeys = 1
    MaxTime = 2
    MaxRequests = 4
SYMMETRY Symmetric
INVARIANTS
    TypeOK
    EnforcedRunsAreJustified
PROPERTIES
    KeepsPromise
