CONSTANTS
  Hosts = {h1}
  SigCap = 1
  MaxOffers = 2
SPECIFICATION Spec
INVARIANT NotifiedHostIsRegistered
CHECK_DEADLOCK FALSE
