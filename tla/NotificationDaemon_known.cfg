SPECIFICATION Spec
CONSTANTS
  Events = {e1, e2}
  Keys = {k1}
  NoEvent = NoEvent
  NoKey = NoKey
  MaxHistory = 2
  MaxDelivered = 2
  MaxId = 3
  Budget = 5
  Replaceable = "known"

INVARIANTS MemoryIsSound OthersKnow
PROPERTIES EventsHaveOneBanner
\* A banner that never expires stays up when no one calls any more.
CHECK_DEADLOCK FALSE
