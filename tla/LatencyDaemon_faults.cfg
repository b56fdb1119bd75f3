SPECIFICATION Spec
CONSTANTS
  Profiles = {"performance", "balanced"}
  Knobs = {"governor", "turbo"}
  Values = {"performance", "powersave"}
  Perf = "performance"
  Restorable = {"performance", "powersave"}
  Writable = {"governor"}
  Durations = {1, 3}
  MinPoll = 1
  MaxPoll = 2
  MaxQueue = 2
  Budget = 3
  Faults = {"crash", "user", "profileRead", "helperTimeout", "restore"}
  None = None
INVARIANTS RollbackReady
PROPERTIES KeepsContract EndsOnTime
