\* A daemon that is not there yet. The adapter is stopped at the end.
SPECIFICATION FeedSpec
CONSTANTS
  p1 = p1  p2 = p2
  Unset = Unset
  Polls <- OnePoll
  BaseDelay = 1
  MaxDelay = 60
  MaxWindow = 1
  MaxTries = 3
  MaxOutages = 2
  MaxSlow = 0
  Overrides <- UatOrNone
  OddPolls <- OnePoll
INVARIANT DocumentedBackoff
CHECK_DEADLOCK FALSE
