SPECIFICATION Spec
CONSTANTS
  VMs = {v1}
  Procs = {p1, p2}
  None = None
  Dead = Dead
  Commands = {"create", "keep", "reap"}
  Room = 1
SYMMETRY Symmetry
PROPERTIES ReapSparesMarked
