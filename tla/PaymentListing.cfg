SPECIFICATION Spec
CONSTANTS
    Docs = {d1, d2, d3, d4, d5}
    Limit = 3
    DefaultLimit = 1
    MaxLimit = 2
    MaxTime = 4
SYMMETRY Symmetry
INVARIANTS
    TypeOK
    ShortPageEndsWalk
    TotalEndsWalk
