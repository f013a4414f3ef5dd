\* A second drain holds a snapshot from before the failure.
CONSTANTS
  d1 = d1
  d2 = d2
  Drains <- TwoDrains
  BaseDelay = 1
  MaxDelay = 3
  RetryAfters = {0, 1}
  HttpDates = FALSE
  LostResponses = FALSE
  MaxEnqueued = 2
  MaxFailures = 2
  MaxCrashes = 0
SPECIFICATION Spec
PROPERTY HonoursRetryTime
\* The run ends when every record is delivered and nothing more is enqueued.
CHECK_DEADLOCK FALSE
