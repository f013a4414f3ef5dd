\* One aircraft comes back while its first departure is still handled, two windows
\* are published at the same time, departures may come within a window, a call
\* fails, and the process is shut down or dies at any point and starts again.
SPECIFICATION FairSpec
CONSTANTS
  a1 = a1
  a2 = a2
  h1 = h1
  h2 = h2
  f1 = f1
  f2 = f2
  Hexes <- OneAircraft
  Categories <- NoCategories
  Handlers <- TwoHandlers
  Flushers <- TwoFlushers
  Captures <- NoCaptures
  RawCaptureEnabled = FALSE
  MinFlushes = 0
  LostResponses = TRUE
  MaxTransits = 2
  MaxWindows = 2
  MaxFailures = 1
  MaxRestarts = 1
INVARIANTS
  TypeOK
  ChainWalkable
  RefUsedOnce
  TelemetryAccounted
PROPERTIES
  FlightPublished
  DeparturesHandled
