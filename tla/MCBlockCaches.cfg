SPECIFICATION FairSpec
CONSTANTS
  r1 = r1  r2 = r2  p = p  k1 = k1  k2 = k2  k3 = k3  k4 = k4
  Kinds = {"buffered", "audio"}
  Readers = {r1, r2}
  Prefetcher = p
  NBlocks <- Lengths
  MaxBlocks = 1
  Ahead = 1
  MaxAttempts = 2
  Conns = {k1, k2, k3, k4}
  None = None
INVARIANTS
  DownloadedOnce
  NoLeakedConnection
  BitmapIsTrue
  QueuedHasTask
PROPERTIES
  WaitersWake
