SPECIFICATION Spec
CONSTANTS
    Jobs = {j1}
    Executions = {e1, e2, e3}
    MaxFaults = 1
    PostRunHomeZ = FALSE
    ReopenAllowed = TRUE
    None = None
INVARIANTS
    StreamAtMostOnce
    RecoverySound
