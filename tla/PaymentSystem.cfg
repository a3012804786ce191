SPECIFICATION SystemSpec
CONSTANTS
    Payments = {p1, p2}
    Jobs = {j1, j2, j3}
    Hooks = {}
    MaxAttempts = 2
    Faults = {"crash", "shutdown"}
    FailureThreshold = 2
    HalfOpenMaxCalls = 1
    NoPayment = NoPayment
    NoHook = NoHook
SYMMETRY Symmetry
INVARIANTS
    SystemTypeOK
    AtMostOneProcessing
    HalfOpenIsCharging
    QueueMatchesStore
    KeptCapturesRecorded
    AskedWithinBudget
PROPERTIES
    CaptureWhileProcessing
    CapturedAgainOnlyIfLost
    ImplementsAttempts
