\* Two polls, whose answers may overtake each other; one of them or a file write may
\* outlast the wait for a reconnect; the daemon stops twice.  readsb answers with the
\* least and up to two fields of an aircraft more, or otherwise than declared.  The
\* adapter is stopped at the end.
SPECIFICATION FeedSpec
CONSTANTS
  p1 = p1  p2 = p2
  Unset = Unset
  Polls <- TwoPolls
  BaseDelay = 1
  MaxDelay = 4
  MaxWindow = 2
  MaxTries = 3
  MaxOutages = 2
  MaxSlow = 1
  Overrides <- UatOrNone
  OddPolls <- OnePoll
INVARIANTS
  RepeatedOnlyOvertaken
  SpoiledBySlowOnly
  HeardAsSaid
PROPERTY Reconnects
CHECK_DEADLOCK FALSE
