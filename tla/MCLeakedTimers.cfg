CONSTANTS
  Self = self
  Peers = {p1}
  Addrs = {a1, a2, a3}
  Fds = {f1, f2, f3}
  Intervals = {"positive"}
  Commands = {FALSE}
  MAX_TIMER_COUNT = 2
  MaxRestarts = 1
  NULL = null
SPECIFICATION Spec
INVARIANT PollArrayFits
CHECK_DEADLOCK FALSE
