SPECIFICATION Spec
CONSTANTS
  CPU = {c0, c1}
  boss = c0
  NoCPU = NoCPU
  TLBSHOOTDOWN_MAX = 2
  MaxPosts = 4
  Shutdown = FALSE
INVARIANT
  NoShootdownLost
CHECK_DEADLOCK FALSE
