SPECIFICATION FairOverlaySpec
CONSTANTS
  Events = {e1, e2}
  Keys = {}
  NoEvent = NoEvent
  NoKey = NoKey
  MaxHistory = 2
  MaxDelivered = 2
  MaxId = 3
  Budget = 3
  Replaceable = "known"
  MaxCards = 2
  Overlap = TRUE
  Crashes = FALSE
  Updates = FALSE
PROPERTIES DismissalsClose
CHECK_DEADLOCK FALSE
