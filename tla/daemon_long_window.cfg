\* A window longer than the 60 s after which an aircraft departs; no call fails.
CONSTANTS
  a1 = a1
  a2 = a2
  h1 = h1
  h2 = h2
  f1 = f1
  f2 = f2
  Hexes <- OneAircraft
  Categories <- NoCategories
  Handlers <- OneHandler
  Flushers <- OneFlusher
  Captures <- NoCaptures
  RawCaptureEnabled = FALSE
  MinFlushes = 0
  LostResponses = TRUE
  MaxTransits = 2
  MaxWindows = 2
  MaxFailures = 0
  MaxRestarts = 0
SPECIFICATION Spec
INVARIANT FlightForEveryDeparture
