\* Three offers: one fills the waiting channel, one blocks the router, one waits
\* in SendOffer.  Answers play no part.
CONSTANTS
  Hosts = {h1}
  Sessions = {s1, s2, s3}
  Agents = {a1}
  Answering = {}
  IceSenders = {}
  IceReceivers = {}
  MaxIce = 0
  ChanCap = 1
  None = None
SPECIFICATION OfferFairSpec
PROPERTIES SendOfferReturns SessionForgotten
CHECK_DEADLOCK FALSE
