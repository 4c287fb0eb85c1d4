SPECIFICATION Spec
CONSTANTS
  Jobs = {j1}
  Callers = {alice}
  None = None
  Slots = {s1, s2}
  Timeouts = {1}
  LeaseFor = 1
  UploadTTL = 1
  QueueTTL = 1
  Overhead = 1
  KeepFor = 1
  MaxQueued = 1
  MaxIndexJobs = 1
  MaxAttempts = 2
  MaxHold = 1
  MaxClock = 5
SYMMETRY Symmetry
CHECK_DEADLOCK FALSE
INVARIANTS AlwaysShown
