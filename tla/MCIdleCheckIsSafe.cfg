CONSTANTS
  Hosts = {h1}
  SigCap = 1
  MaxOffers = 2
SPECIFICATION Spec
INVARIANT IdleCheckIsSafe
CHECK_DEADLOCK FALSE
