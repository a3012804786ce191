SPECIFICATION Spec
CONSTANTS
    Keys = {k1, k2}
    Requests = {r1, r2, r3}
    MaxCreated = 3
    NoKey = NoKey
SYMMETRY Symmetry
INVARIANTS
    TypeOK
    RecordHoldsCreation
    RecordedNeverCreates
PROPERTIES
    RecordIsStable
