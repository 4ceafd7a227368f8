SPECIFICATION Spec
CONSTANTS
  CPU = {c0, c1, c2}
  boss = c0
  NoCPU = NoCPU
  TLBSHOOTDOWN_MAX = 2
  MaxPosts = 0
  Shutdown = TRUE
PROPERTY
  OfflineHalts
CHECK_DEADLOCK FALSE
