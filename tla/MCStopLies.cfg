CONSTANTS
  s1 = s1
  s2 = s2
  Sessions = {s1, s2}
  Roles <- OneFree
  Pids = {p1, p2}
  Left = {}
  NoPid = nopid
  Empty = empty
  MaxPolls = 2
SPECIFICATION Spec
CHECK_DEADLOCK FALSE
INVARIANT StoppedMeansDone
