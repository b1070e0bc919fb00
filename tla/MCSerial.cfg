SPECIFICATION Spec
CONSTANTS
    Jobs = {j1, j2}
    Executions = {e1, e2}
    MaxFaults = 2
    PostRunHomeZ = TRUE
    ReopenAllowed = TRUE
    None = None
INVARIANTS
    TypeOK
    OneOwner
    MotionApproved
    PortSafe
    RestingState
    JobAgreement
PROPERTIES
    DispatchUnderDurablePhase
    EvidenceFrozen
    ImplementsLatch
