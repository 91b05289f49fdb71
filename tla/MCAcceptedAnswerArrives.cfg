CONSTANTS
  Hosts = {h1}
  Sessions = {s1, s2}
  Agents = {a1, a2}
  Answering = {s1, s2, a1, a2}
  IceSenders = {}
  IceReceivers = {}
  MaxIce = 0
  ChanCap = 1
  None = None
SPECIFICATION OfferFairSpec
PROPERTY AcceptedAnswerArrives
CHECK_DEADLOCK FALSE
