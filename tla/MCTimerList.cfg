CONSTANTS
  Peers = {p1, p2}
  Addrs = {a1, a2, a3}
  Fds = {f1, f2, f3}
  Armings = {"armed", "disarmed"}
  MaxStarts = 4
  NULL = null
SPECIFICATION Spec
INVARIANTS TypeOK ListIsTimers WalkEnds WalkCoversTimers NothingLeaks
SYMMETRY Symmetry
CHECK_DEADLOCK FALSE
