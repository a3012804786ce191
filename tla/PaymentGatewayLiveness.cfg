SPECIFICATION FairSpec
CONSTANTS
    Payments = {p1}
    Jobs = {j1, j2, j3}
    Hooks = {h1}
    MaxAttempts = 2
    Faults = {}
    NoPayment = NoPayment
    NoHook = NoHook
PROPERTIES
    EventuallySettled
CHECK_DEADLOCK FALSE
