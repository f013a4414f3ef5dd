\* One connection that shakes hands for two sources.
SPECIFICATION Spec
CONSTANTS
  c1 = c1  c2 = c2  c3 = c3
  s1 = s1  s2 = s2
  None = None
  Conns <- Conns3
  Sources <- Sources2
  Rehandshake = TRUE
SYMMETRY Symmetric
INVARIANT NoStaleSource
CHECK_DEADLOCK FALSE
