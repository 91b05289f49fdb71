\* One host: two signals fit in offerSig, so the third and the fourth offer
\* can meet a full channel, and two of them can time out.
CONSTANTS
  Hosts = {h1}
  SigCap = 2
  MaxOffers = 4
SPECIFICATION FairSpec
INVARIANTS TypeOK NoSpuriousNotification NotFoundOnlyAfterTimeout
PROPERTIES ImplementsHostNotifications ActiveRemovedOnlyWhenStuck IdleHostCollected NotificationsDrain
\* The host and the offerers may stop calling, and a panic ends the process.
CHECK_DEADLOCK FALSE
