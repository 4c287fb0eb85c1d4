SPECIFICATION RemoteSpec
CONSTANTS
  Jobs = {j1}
  Waiters = {j1}
  None = None
  LeaseTicks = 1
  LimitTicks = 1
  MaxLog = 2
  MaxFailures = 0
CHECK_DEADLOCK FALSE
INVARIANTS RemoteTypeOK ExitTold NoCloneLeft LogWhole
PROPERTIES CallerTold ServesAgain
