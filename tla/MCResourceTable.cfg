SPECIFICATION MCSpec
CONSTANTS
    Roles = {"tlo.reader"}
    Tools = {}
    Uris <- SmallUris
    Patterns <- SmallPatterns
    Rules <- OpenAndShut
    Characters = {a, b}
    Star = Star
    One = One
    a = a
    b = b
    MaxEntries = 3
INVARIANTS
    DeepestPathDecides
    OrderBreaksTiesOnly
PROPERTIES
    EditsAreLocal
