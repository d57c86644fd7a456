CONSTANTS
  s1 = s1
  s2 = s2
  Sessions = {s1, s2}
  Roles <- OneRunner
  Pids = {p0, p1, p2}
  Left = {p0}
  NoPid = nopid
  Empty = empty
  MaxPolls = 2
SPECIFICATION FairSpec
INVARIANTS TypeOK AtMostOneDaemon StoppedMeansDone ReadyIsTarget NoStalePid
PROPERTIES SignalledEnds
CHECK_DEADLOCK FALSE
