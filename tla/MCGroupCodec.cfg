CONSTANTS
  Elements <- Addresses
  Self = 3
  Uuid = uuid
  NULL = null
  InitialBuckets = 1
  CapacityThresh = 1
  MaxBuckets = 16
  Hashes <- SomeHashes
SPECIFICATION Spec
INVARIANTS TypeOK Intact FindsMembers TailIsLast ChainsBounded
INVARIANTS DumpFillsBuffer RoundTrip DamagedRejected ListIsGroup
CHECK_DEADLOCK FALSE
