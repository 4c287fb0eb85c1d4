SPECIFICATION DetachedSpec
CONSTANTS
  Requests = {r1}
  Askers = {c1}
  KeepFinished = 1
  MaxChildren = 1
  MaxSeconds = 1
CHECK_DEADLOCK FALSE
PROPERTIES DeathReported
