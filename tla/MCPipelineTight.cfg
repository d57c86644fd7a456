CONSTANTS
  Cookies = {f, g}
  Threads = {t1, t2}
  ZeroCookie = zero
  NoThread = nobody
  SeenCap = 1
  RingCap = 2
  EventsCap = 1
  FeedCap = 1
SPECIFICATION Spec
INVARIANTS TypeOK Accounted PrintedOnce PercentMatchesList ReportComplete BarFits
PROPERTY ImplementsCoverage
CHECK_DEADLOCK FALSE
