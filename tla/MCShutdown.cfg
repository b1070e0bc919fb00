SPECIFICATION PartsSpec
CONSTANTS
  Parts = {"service"}
  Commands = {c1, c2}
  StopItem = stop
  Lines = 2
  CalSteps = 1
  MaxEvidence = 4
  MaxLineFaults = 2
  Input = input
  WorkerAttempts = {w1, w2}
  MaxStoreCrashes = 2
  MaxStoreFaults = 1
  Processes = {p1, p2, p3}
  Clients = {client1}
  Awaits = {p1}
  MaxServiceFaults = 2
  Requests = {ra}
  Args = {1, 2}
  MaxSends = 2
  MaxMishaps = 1
INVARIANT ShutdownStopsMachine
CHECK_DEADLOCK FALSE
