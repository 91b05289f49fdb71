\* Two messages through a buffer of one: the buffer is full while a Write blocks,
\* and after a timeout two Writes are in flight.
CONSTANTS
  MaxMessages = 2
  MaxUnread = 1
  BufCap = 1
SPECIFICATION FairSpec
INVARIANTS TypeOK CloseCalledOnce WrittenInOrder EndReleasesAll NoEndWithoutCause
PROPERTIES ImplementsProxiedConnection EitherEndTearsDown MessagesMoveOn
\* Once the proxy has ended nothing is left to do.
CHECK_DEADLOCK FALSE
