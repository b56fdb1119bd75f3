SPECIFICATION Spec
CONSTANTS
  Events = {e1}
  Levels = {low, high}
  Radios = {on, off}
  On = {on}
  Links = {eth, wifi}
  Wifi = wifi
  Ssids = {home}
  Workers = {w1, w2}
  None = None
  Off = Off
  Started = Started
  Unknown = Unknown
INVARIANTS RefreshServed ScannerHoldsLock
PROPERTIES FilesFollow StaleIsRefreshed ChangesAreShown  DismissalsClose
\* A status daemon that was stopped stays stopped, and a banner may stay for ever.
CHECK_DEADLOCK FALSE
