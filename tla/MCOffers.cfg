\* The exchange of offers and answers without candidates.
CONSTANTS
  Hosts = {h1, h2}
  Sessions = {s1, s2}
  Agents = {a1, a2}
  Answering = {s1, s2, a1, a2}
  IceSenders = {}
  IceReceivers = {}
  MaxIce = 0
  ChanCap = 1
  None = None
SPECIFICATION Spec
SYMMETRY NameSymmetry
INVARIANTS TypeOK OfferTakenOnce OfferReachesItsHost AnswerFromTaker
PROPERTIES ImplementsOfferExchange
CHECK_DEADLOCK FALSE
