SPECIFICATION PyFairSpec
CONSTANTS
  Profiles = {"performance", "balanced"}
  Knobs = {"governor", "turbo"}
  Values = {"performance", "powersave"}
  Perf = "performance"
  Restorable = {"performance", "powersave"}
  Writable = {"governor"}
  Durations = {1, 2}
  MinPoll = 1
  MaxPoll = 2
  MaxQueue = 2
  Budget = 3
  Faults = {"crash", "write", "restore"}
  None = None
INVARIANTS ErrorsStrandNothing
PROPERTIES RollbackHappens
