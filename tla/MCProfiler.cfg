CONSTANTS
  Cookies = {f, g}
  Threads = {t1}
  ZeroCookie = zero
  NoThread = nobody
  SeenCap = 2
  RingCap = 1
  EventsCap = 1
  FeedCap = 2
  Waiters = {w1}
  MaxTries = 1
SPECIFICATION ProfilerFairSpec
INVARIANT TestsRecorded
PROPERTIES ImplementsHealthCheck GetsReady SignalEnds
CHECK_DEADLOCK FALSE
