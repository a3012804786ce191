SPECIFICATION FairSpec
CONSTANTS
    Calls = {c1, c2, c3, c4}
    FailureThreshold = 3
    HalfOpenMaxCalls = 2
INVARIANTS
    TypeOK
    OpenIffThreshold
    ProbeLimit
    HalfOpenHasProbe
PROPERTIES
    HalfOpenDecided
    OutageEnds
