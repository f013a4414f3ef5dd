\* A reader that takes nothing while three messages come. The stream may stop.
SPECIFICATION Spec
CONSTANTS
  c1 = c1  c2 = c2
  Clients <- TwoClients
  MaxMessages = 3
  MaxInfos = 1
  InOrderSigning = TRUE
INVARIANT BacklogBounded
CHECK_DEADLOCK FALSE
