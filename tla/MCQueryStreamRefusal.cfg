SPECIFICATION FairSpec
CONSTANT MaxText = 3
INVARIANT RefusalIsDelivered
CHECK_DEADLOCK FALSE
