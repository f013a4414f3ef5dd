\* A 429 whose Retry-After is an HTTP date.
CONSTANTS
  d1 = d1
  d2 = d2
  Drains <- OneDrain
  BaseDelay = 1
  MaxDelay = 3
  RetryAfters = {1}
  HttpDates = TRUE
  LostResponses = TRUE
  MaxEnqueued = 2
  MaxFailures = 2
  MaxCrashes = 1
SPECIFICATION Spec
PROPERTY FailedSendBacksOff
\* The run ends when every record is delivered and nothing more is enqueued.
CHECK_DEADLOCK FALSE
