SPECIFICATION MacSpec
CONSTANTS
  VMs = {v1}
  Commands = {p1}
  Warden = keeperd
  v1 = v1
  p1 = p1
  ChunkSize = 2
  Chunks = 2
  StageAge = 1
  MaxAge = 2
CHECK_DEADLOCK FALSE
INVARIANTS StagedWhole
PROPERTIES KeeperKeeps
