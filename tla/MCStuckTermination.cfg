CONSTANTS
  Peers = {p1, p2}
  Addrs = {a1, a2}
  Fds = {f1, f2}
  Armings = {"armed"}
  MaxStarts = 3
  NULL = null
SPECIFICATION FairSpec
PROPERTY TerminationReturns
CHECK_DEADLOCK FALSE
