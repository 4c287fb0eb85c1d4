SPECIFICATION LedgerSpec
CONSTANTS
  Ops = {p1, p2}
  Nobody = Nobody
  Odd = {}
  MaxSpool = 2
  MaxBatch = 1
  Rounds = 1
CHECK_DEADLOCK FALSE
INVARIANTS EachOnceInOrder ViewTrue
PROPERTY Arrives
