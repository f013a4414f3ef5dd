\* Two drains overlap, calls fail before and after the PDS stored the record,
\* Retry-After may be a date, the process dies once; the interval timer keeps
\* starting drains.  The run ends when every record is delivered and nothing
\* more is enqueued.
SPECIFICATION FairSpec
CONSTANTS
  d1 = d1
  d2 = d2
  Drains <- TwoDrains
  BaseDelay = 1
  MaxDelay = 3
  RetryAfters = {0, 1}
  HttpDates = TRUE
  LostResponses = TRUE
  MaxEnqueued = 2
  MaxFailures = 2
  MaxCrashes = 1
INVARIANTS
  TypeOK
  NoLoss
  RepeatsExplained
PROPERTIES
  KeepsPromise
  EventuallyDrained
CHECK_DEADLOCK FALSE
