\* The agent gathers two candidates, so remoteIceCh of capacity one can be full;
\* the listener gathers one.  One client connection.  Without the dummy channel,
\* which shares nothing with a connection but the link.
CONSTANTS
  Users = {"neo"}
  Tokens = {"token"}
  HostIds = {"host"}
  AnswererIds = {"session"}
  MaxIce <- MCMaxIce
  IceChCap = 1
  Conns = {c1}
  Dummies = {}
SPECIFICATION FairSpec
INVARIANTS TypeOK PanicOnlyAfterCancel
PROPERTIES KeepsToOfferExchange AnsweredListenerReturns
           SetupGoroutinesEnd AgentSetupSettles NoSpuriousDisconnect
           ServiceClosedWithClient ClientClosedWithService
\* Calls of the servers may wait for ever.
CHECK_DEADLOCK FALSE
