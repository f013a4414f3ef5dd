\* Three connections that may name further sources after their handshake.  The
\* server stops at the end.
SPECIFICATION FairSpec
CONSTANTS
  c1 = c1  c2 = c2  c3 = c3
  s1 = s1  s2 = s2
  None = None
  Conns <- Conns3
  Sources <- Sources2
  Rehandshake = TRUE
INVARIANTS
  TypeOK
  OwnsItsSource
  Supervised
PROPERTIES
  HandshakeOrClosed
  StopCompletes
CHECK_DEADLOCK FALSE
