\* Three starts of the daemon with any configuration, one of the two endpoints no URL, a
\* command the operator runs at any time, a call to the PDS that fails, and a consumer.
\* The starts end.
SPECIFICATION Spec
SYMMETRY Symmetric
CONSTANTS
  k1 = k1  k2 = k2  e1 = e1  e2 = e2  c1 = c1
  None = None
  Keys <- TwoKeys
  Endpoints <- TwoEndpoints
  Valid <- OneEndpoint
  Consumers <- OneConsumer
  MaxCommands = 1
  MaxWrites = 5
  MaxFailures = 1
  MaxStarts = 3
  MaxInbox = 2
INVARIANTS
  RefIsCurrent
  FreshFollowersVerify
PROPERTY RotationAnnounced
CHECK_DEADLOCK FALSE
