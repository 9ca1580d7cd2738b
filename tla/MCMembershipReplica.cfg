CONSTANTS
  Replicas = {r1, r2, r3}
  MaxRuns = 2
  MaxInstances = 2
  MaxRestarts = 1
  MaxLockFailures = 1
  NULL = null
SPECIFICATION FairSpec
INVARIANTS TypeOK StateIsLastForeign Agreement InstanceNamesState RunsPending
PROPERTY EveryReplicaCatchesUp
CHECK_DEADLOCK FALSE
