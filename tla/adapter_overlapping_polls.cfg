\* Two polls whose answers overtake each other. The adapter is stopped at the end.
SPECIFICATION FeedSpec
CONSTANTS
  p1 = p1  p2 = p2
  Unset = Unset
  Polls <- TwoPolls
  BaseDelay = 1
  MaxDelay = 4
  MaxWindow = 2
  MaxTries = 3
  MaxOutages = 2
  MaxSlow = 0
  Overrides <- UatOrNone
  OddPolls <- OnePoll
INVARIANT WindowReportedOnce
CHECK_DEADLOCK FALSE
