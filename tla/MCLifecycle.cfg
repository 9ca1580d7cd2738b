SPECIFICATION FairSpec
INVARIANTS TypeOK HandshakeOver SubmitsToReady DestroyedUnheld HashmapLockLive NoneWaitsForGone
PROPERTIES HandshakeEnds ShutsDown
CHECK_DEADLOCK FALSE
