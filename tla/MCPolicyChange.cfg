SPECIFICATION MCSpec
CONSTANTS
    Roles = {"tlo.operator"}
    Tools = {"raise_shipment_incident", "search_incidents"}
    Uris = {"shipment://SHP-1001"}
    Keys = {k1}
    k1 = k1
    Malformed = Malformed
    TTL = 2
    NoState = NoState
    NoAnswers = NoAnswers
    OtherAnswers = OtherAnswers
    Replicas = {r1}
    Callers = {c1}
    Arguments = {a1}
    Nonces = {q1}
    Configs <- PolicyConfigs
    HumanAnswers <- AllAnswers
    Down = Down
    NoQuestion = NoQuestion
    MaxLocalKeys = 0
    MaxTime = 1
    MaxRequests = 3
SYMMETRY Symmetric
INVARIANTS
    EnforcedRunsAreJustified
    AuditBalances
    ListedIffAdmitted
    GrantsAreDeclared
