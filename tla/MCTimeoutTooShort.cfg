CONSTANTS
  W1_WINDOW_SIZE = 10
  W2_WINDOW_SIZE = 10000
  HEARTBEAT_INTERVAL = 50
  Gaps = {1, 50, 1000}
  Garbage = {"number"}
  MaxBeats = 6
  Unit = 60
SPECIFICATION Spec
INVARIANT TimeoutStartsTimer
CHECK_DEADLOCK FALSE
