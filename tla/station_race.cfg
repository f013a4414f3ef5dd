\* A consumer that follows the documented protocol; no command, no failure.
\* The starts end.
SPECIFICATION Spec
SYMMETRY Symmetric
CONSTANTS
  k1 = k1  k2 = k2  e1 = e1  e2 = e2  c1 = c1
  None = None
  Keys <- TwoKeys
  Endpoints <- OneEndpoint
  Valid <- OneEndpoint
  Consumers <- OneConsumer
  MaxCommands = 0
  MaxWrites = 4
  MaxFailures = 0
  MaxStarts = 2
  MaxInbox = 2
INVARIANT FollowersVerify
CHECK_DEADLOCK FALSE
