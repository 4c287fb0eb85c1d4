SPECIFICATION ImagesSpec
CONSTANTS
  Pushers = {m1, m2}
  Images = {i1, i2}
  Chunks = {a, b, c}
  i1 = i1
  i2 = i2
  a = a
  b = b
  c = c
  ChunksOf <- OverlappingChunks
  NoImage = NoImage
  MaxPushes = 2
  MaxRemovals = 1
  Par = 2
  Creators = {c1, c2}
  SealSteps = 1
  MaxImages = 2
  Releases = {r1, r2}
  NoRelease = NoRelease
  MaxBuilds = 1
  MaxTyped = 1
  Makers = {l1, l2}
  Size = 2
  MaxFiles = 2
  MaxLength = 4
  CheckRuns = {k1, k2}
  Targets = {t1, t2}
  Native = {t2}
  MaxEdits = 1
  NoCheck = NoCheck
  VMs = {v1, v2}
  Commands = {p1, p2}
  Warden = nobody
CHECK_DEADLOCK FALSE
INVARIANTS CacheWhole OneImage ClonesProved InstalledFromWhole KeysBeforeWindows InstalledFinished BundlesPinned VerdictEarned CurrentTrue PicturesBelong QuitStopsOnlyRushed
PROPERTIES StaysAnswering
