SPECIFICATION MCSpec
CONSTANTS
    Calls = {c1, c2}
    Stores = {instance}
    Shipments = {s1, s2}
    s1 = s1
    s2 = s2
    wms = wms
    tms = tms
    Unknown = Unknown
    Delayed = {s1}
    CIs = {wms, tms}
    CiOf <- TwoItems
    NoCI = NoCI
    NoCall = NoCall
    Agents = {}
    LiveStores = {instance}
    MaxTickets = 4
    MaxChanges = 2
INVARIANTS
    EveryIncidentRoutes
CHECK_DEADLOCK FALSE
