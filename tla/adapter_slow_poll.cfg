\* A poll that outlasts its connection. The adapter is stopped at the end.
SPECIFICATION FeedSpec
CONSTANTS
  p1 = p1  p2 = p2
  Unset = Unset
  Polls <- OnePoll
  BaseDelay = 1
  MaxDelay = 4
  MaxWindow = 1
  MaxTries = 3
  MaxOutages = 2
  MaxSlow = 1
  Overrides <- UatOrNone
  OddPolls <- OnePoll
INVARIANT HandshakeFirst
CHECK_DEADLOCK FALSE
