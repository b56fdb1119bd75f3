SPECIFICATION Spec
CONSTANTS
  Profiles = {"performance", "balanced"}
  Knobs = {"governor", "turbo"}
  Values = {"performance", "powersave"}
  Perf = "performance"
  Restorable = {"performance", "powersave"}
  Writable = {"governor"}
  Durations = {1}
  MinPoll = 1
  MaxPoll = 2
  MaxQueue = 2
  Budget = 2
  Faults = {"crash"}
  None = None
INVARIANT CrashRecoverable
