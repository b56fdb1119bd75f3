SPECIFICATION FairSpec
CONSTANTS
  Clients = {c1, c2}
  Limit = 1
  MaxCrashes = 1
 
PROPERTIES EveryClientIsAnswered
\* Every invocation ends.
CHECK_DEADLOCK FALSE
