SPECIFICATION Spec
CONSTANTS
    Payments = {p1}
    Jobs = {j1, j2}
    Hooks = {}
    MaxAttempts = 2
    Faults = {"crash"}
    NoPayment = NoPayment
    NoHook = NoHook
INVARIANTS
    RecoveredAreReprocessed
