SPECIFICATION FairSpec
CONSTANTS
  NCPU = 2
  t0 = t0
  t1 = t1
  watched = t2
  Thread = {t0, t1, t2}
  Chan = {w1, w2}
  NoCPU = NoCPU
  boot <- MCBoot
  sleepsOn <- FewChan
  alone = w2
PROPERTY
  ReadyThreadsRun
