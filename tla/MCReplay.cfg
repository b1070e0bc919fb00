SPECIFICATION Spec
CONSTANTS
    Jobs = {j1}
    Executions = {e1, e2}
    MaxFaults = 0
    PostRunHomeZ = TRUE
    ReopenAllowed = FALSE
    None = None
INVARIANTS
    ReplayNotRedriven
