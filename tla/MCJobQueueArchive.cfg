SPECIFICATION Spec
CONSTANTS
  Jobs = {j1, j2}
  Callers = {alice}
  None = None
  Slots = {s1, s2}
  Timeouts = {1}
  LeaseFor = 0
  UploadTTL = 0
  QueueTTL = 0
  Overhead = 0
  KeepFor = 1
  MaxQueued = 1
  MaxIndexJobs = 1
  MaxAttempts = 1
  MaxHold = 1
  MaxClock = 3
SYMMETRY Symmetry
CHECK_DEADLOCK FALSE
INVARIANTS TypeOK GrantedOnce WithinLimits
PROPERTIES LeavesArchived KeepsLifecycle
