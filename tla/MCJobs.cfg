SPECIFICATION ScopedSpec
CONSTANTS
  ja = ja
  jb = jb
  Jobs <- TwoJobs
  Mode <- TwoModes
  Requests <- TwoJobRequests
  MaxCancels = 1
  MaxClaims = 1
  MaxRestarts = 1
  MaxFaults = 1
  MaxHandlerFaults = 1
INVARIANTS
  TypeOK
  AnswersHonest
  NoOrphan
  StagesEarned
  MachineAgreement
PROPERTIES
  NoWorkWhileStopping
  StatusMonotone
  JobsSettle
CHECK_DEADLOCK FALSE
