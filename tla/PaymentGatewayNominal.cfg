SPECIFICATION Spec
CONSTANTS
    Payments = {p1}
    Jobs = {j1, j2, j3}
    Hooks = {h1, h2}
    MaxAttempts = 2
    Faults = {}
    NoPayment = NoPayment
    NoHook = NoHook
SYMMETRY Symmetry
INVARIANTS
    NoLostPending
    ChargeRecorded
CHECK_DEADLOCK FALSE
