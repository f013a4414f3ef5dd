\* An aircraft that comes and goes twice, a stats window, a record of the timer and a final
\* one, and a handler that sleeps over the flush; two drains that overlap, calls that
\* fail before or after the PDS stored the record, shutdown or a crash, and a second life.
SPECIFICATION FairSpec
CONSTANTS
  a1 = a1  h1 = h1  d1 = d1  d2 = d2
  Aircraft <- OneAircraft
  Handlers <- OneHandler
  MaxWindows = 1
  MaxTransits = 2
  MaxFlushes = 1
  Drains <- TwoDrains
  BaseDelay = 1
  MaxDelay = 2
  RetryAfters = {0, 1}
  HttpDates = TRUE
  LostResponses = TRUE
  MaxEnqueued = 1
  MaxFailures = 2
  MaxCrashes = 1
INVARIANTS
  StatsAccounted
  RepeatedForCause
PROPERTIES
  StatsArrive
CHECK_DEADLOCK FALSE
