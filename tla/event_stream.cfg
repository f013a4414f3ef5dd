\* Two messages, one info frame, signed or not, two clients that come and go at
\* any time, signatures that fail, and a stop.  The stream may stop for good.
SPECIFICATION Spec
CONSTANTS
  c1 = c1  c2 = c2
  Clients <- TwoClients
  MaxMessages = 2
  MaxInfos = 1
  InOrderSigning = TRUE
INVARIANT SeqTellsGaps
PROPERTIES
  ReadsTheLog
  ListenerReleased
  FramesArrive
  StopEnds
CHECK_DEADLOCK FALSE
