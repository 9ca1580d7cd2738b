CONSTANTS
  Self = self
  Peers = {p1, p2}
  Addrs = {a1, a2}
  Fds = {f1, f2}
  Intervals = {"positive"}
  Commands = {FALSE}
  MAX_TIMER_COUNT = 2
  MaxRestarts = 1
  NULL = null
SPECIFICATION FairSpec
PROPERTY SilentPeerDetected
CHECK_DEADLOCK FALSE
