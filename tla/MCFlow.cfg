SPECIFICATION MCFairSpec
CONSTANTS
    Calls = {c1, c2}
    Stores = {instance, mock}
    Shipments = {s1, s2}
    s1 = s1
    s2 = s2
    wms = wms
    tms = tms
    Unknown = Unknown
    Delayed = {s1}
    CIs = {wms, tms}
    CiOf <- TwoItems
    NoCI = NoCI
    NoCall = NoCall
    Agents = {}
    LiveStores = {instance}
    MaxTickets = 4
    MaxChanges = 2
INVARIANTS
    FlowInv
    OneIncidentPerCall
    RepliesAreTrue
PROPERTIES
    CallsEnd
    RaisesAsPromised
CHECK_DEADLOCK FALSE
