CONSTANTS
  Cookies = {f, g}
  Threads = {t1, t2}
  ZeroCookie = zero
  NoThread = nobody
  SeenCap = 1
  RingCap = 2
  EventsCap = 1
  FeedCap = 1
SPECIFICATION Spec
INVARIANT SeenReported
CHECK_DEADLOCK FALSE
