SPECIFICATION ThreadsSpec
CONSTANTS
  NCPU = 2
  t0 = t0
  t1 = t1
  watched = t2
  Thread = {t0, t1, t2}
  Chan = {w1, w2}
  NoCPU = NoCPU
  boot <- MCBoot
  sleepsOn <- AnyChan
  alone = alone
  View = {"locks"}
  Core = {w1, w2}
  Spinlock = {1}
  MaxHeld = 1
  None = None
  List = {x1, x2}
INVARIANT LocksFollowThreads
SYMMETRY Symmetry
CHECK_DEADLOCK FALSE
