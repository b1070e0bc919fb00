SPECIFICATION OuterSpec
CONSTANTS
    Jobs = {j1}
    Executions = {e1, e2}
    MaxFaults = 1
    PostRunHomeZ = TRUE
    ReopenAllowed = FALSE
    None = None
    Threads = {t1, t2}
    RequestIds = {r1, r2, r3}
    MaxPrepared = 2
    MaxLive = 1
    MaxObjects = 2
    MaxServerFaults = 1
    NumFiles = 2
    InstallRequests = {ri, rj}
    MaxRegistryEdits = 2
    MaxInstallCrashes = 1
    MaxInstallFaults = 2
INVARIANTS
    OwnershipSafe
    InstallSafe
PROPERTIES
    InitialSettles
CHECK_DEADLOCK FALSE
