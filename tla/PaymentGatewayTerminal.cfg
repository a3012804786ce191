SPECIFICATION Spec
CONSTANTS
    Payments = {p1}
    Jobs = {j1, j2}
    Hooks = {h1}
    MaxAttempts = 2
    Faults = {}
    NoPayment = NoPayment
    NoHook = NoHook
PROPERTIES
    TerminalNotOverwritten
CHECK_DEADLOCK FALSE
