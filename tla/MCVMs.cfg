SPECIFICATION VMsSpec
CONSTANTS
  VMs = {v1, v2}
  Procs = {p1, p2, p3}
  v1 = v1
  None = None
  Dead = Dead
  Commands = {"create", "delete", "use", "keep", "unkeep", "screen", "reap"}
  Room = 1
  AppRuns = {r1, r2}
  Guests = {g1, g2}
  Addresses = {a1, a2}
  OnDesktop = {r2}
  LeftRunning = {r2}
  NoAddress = NoAddress
  MaxBoots = 2
  Requests = {q1, q2}
  Askers = {s1, s2}
  KeepFinished = 0
  MaxChildren = 2
  MaxSeconds = 1
SYMMETRY Alike
CHECK_DEADLOCK FALSE
INVARIANTS TypeOK RoomKept Owned MarkStays RunsWhatWasGiven RunningAnswerable
PROPERTIES UsedStays
