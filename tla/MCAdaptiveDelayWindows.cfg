CONSTANTS
  W1_WINDOW_SIZE = 2
  W2_WINDOW_SIZE = 3
  HEARTBEAT_INTERVAL = 50
  Gaps = {0, 1, 50, 99, 400}
  Garbage = {"number", "NaN"}
  MaxBeats = 7
  Unit = 6
SPECIFICATION Spec
INVARIANTS TypeOK AverageIsMean SumsAreWindows SteadyNotSuspected
CHECK_DEADLOCK FALSE
