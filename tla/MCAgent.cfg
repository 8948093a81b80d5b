SPECIFICATION MCAgentSpec
CONSTANTS
    Calls = {c1, c2, c3, c4}
    Stores = {instance}
    Shipments = {s1, s2}
    s1 = s1
    s2 = s2
    wms = wms
    tms = tms
    Unknown = Unknown
    Delayed = {s1, s2}
    CIs = {wms}
    CiOf <- OneItem
    NoCI = NoCI
    NoCall = NoCall
    Agents = {a1, a2}
    LiveStores = {instance}
    MaxTickets = 4
    MaxChanges = 1
SYMMETRY Symmetric
INVARIANTS
    NoDuplicateUnawares
CHECK_DEADLOCK FALSE
