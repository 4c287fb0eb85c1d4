SPECIFICATION PullSpec
CONSTANTS
  Pushers = {m1}
  Images = {i1}
  Chunks = {a, b}
  ChunksOf <- AllChunks
  NoImage = NoImage
  MaxPushes = 1
  MaxRemovals = 0
  Par = 2
CHECK_DEADLOCK FALSE
PROPERTIES PullEnds
