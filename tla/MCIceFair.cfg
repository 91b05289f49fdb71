\* As many candidates as a buffer holds: the routers are never stuck on one.
CONSTANTS
  Hosts = {h1}
  Sessions = {s1}
  Agents = {a1}
  Answering = {}
  IceSenders = {s1, a1}
  IceReceivers = {s1, a1}
  MaxIce = 1
  ChanCap = 1
  None = None
SPECIFICATION IceFairSpec
PROPERTIES AnswererIceForgotten IceStreamsEnd
CHECK_DEADLOCK FALSE
