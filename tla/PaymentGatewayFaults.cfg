SPECIFICATION Spec
CONSTANTS
    Payments = {p1}
    Jobs = {j1, j2, j3}
    Hooks = {h1}
    MaxAttempts = 2
    Faults = {"crash", "shutdown", "dbError"}
    NoPayment = NoPayment
    NoHook = NoHook
SYMMETRY Symmetry
INVARIANTS
    TypeOK
    RetryBudget
    NoStrandedProcessing
    NoBlockedPayment
    GatewayIdMeansCaptured
PROPERTIES
    SuccessIsFinal
    ForgottenOnlyByFaults
    CrowdedOnlyByRetry
    ImplementsLifecycle
