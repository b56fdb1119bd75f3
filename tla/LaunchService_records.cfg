SPECIFICATION Spec
CONSTANTS
  Clients = {c1, c2, c3}
  Limit = 1
  MaxCrashes = 0
INVARIANTS LaunchesAreRecorded
CHECK_DEADLOCK FALSE
