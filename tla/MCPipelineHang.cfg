CONSTANTS
  Cookies = {f, g}
  Threads = {t1, t2}
  ZeroCookie = zero
  NoThread = nobody
  SeenCap = 2
  RingCap = 2
  EventsCap = 1
  FeedCap = 1
SPECIFICATION FairSpec

PROPERTIES StopTerminates
CHECK_DEADLOCK FALSE
