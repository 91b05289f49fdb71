CONSTANTS
  Hosts = {h1}
  Sessions = {s1, s2}
  Agents = {a1}
  Answering = {}
  IceSenders = {}
  IceReceivers = {}
  MaxIce = 0
  ChanCap = 1
  None = None
SPECIFICATION OfferFairSpec
PROPERTY AcceptedOfferIsTaken
CHECK_DEADLOCK FALSE
