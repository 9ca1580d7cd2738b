CONSTANTS
  Self = self
  Peers = {p1, p2}
  Addrs = {a1, a2}
  Fds = {f1, f2, f3}
  Intervals = {"positive", "zero"}
  Commands = {TRUE, FALSE}
  MAX_TIMER_COUNT = 2
  MaxRestarts = 1
  NULL = null
SPECIFICATION Spec
SYMMETRY Symmetry
INVARIANTS TypeOK SelfStays MainOwnsNode OwnTimer OwnDescriptor
PROPERTY MembershipSpec
CHECK_DEADLOCK FALSE
