CONSTANTS
  Cookies = {f, g}
  Threads = {t1, t2}
  ZeroCookie = zero
  NoThread = nobody
  SeenCap = 2
  RingCap <- RoomForAll
  EventsCap = 1
  FeedCap <- RoomForAll
SPECIFICATION FairSpec
INVARIANTS NoLoss SendHasRoom
PROPERTIES StopTerminates EventuallyAcked
CHECK_DEADLOCK FALSE
