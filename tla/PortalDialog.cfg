SPECIFICATION FairPortalSpec
CONSTANTS
  Callers = {a, b}
  Timeout = 3
  LastPolls = 2
  MaxErrors = 2
INVARIANTS DialogsAreOwn
PROPERTIES AnswersTheChoice EveryCallEnds
\* Calls end.
CHECK_DEADLOCK FALSE
