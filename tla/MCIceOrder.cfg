\* One session, two candidates each way through channels that hold two, expire
\* and are made again.
CONSTANTS
  Hosts = {h1}
  Sessions = {s1}
  Agents = {a1}
  Answering = {}
  IceSenders = {s1, a1}
  IceReceivers = {s1, a1}
  MaxIce = 2
  ChanCap = 2
  None = None
SPECIFICATION Spec
INVARIANTS AgentIceInOrder ListenerIceInOrder
CHECK_DEADLOCK FALSE
