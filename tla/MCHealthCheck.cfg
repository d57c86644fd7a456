CONSTANTS
  Waiters = {w1, w2}
  MaxTries = 2
SPECIFICATION FairSpec
INVARIANTS TypeOK ReadyAfterNotify
PROPERTIES ConnectionsSettle AcceptorStops WaitReturns
CHECK_DEADLOCK FALSE
