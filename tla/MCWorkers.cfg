SPECIFICATION FairSpec
CONSTANTS
  Attempts = {1, 2}
  MaxFaults = 1
INVARIANTS
  TypeOK
  ChildrenHeld
PROPERTIES
  OutcomeHonest
  CallsReturn
CHECK_DEADLOCK FALSE
