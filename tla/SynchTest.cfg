SPECIFICATION MenuSpec
CONSTANTS
  Command = {"sy1", "sy3", "sp2", "tt1", "tt3", "sy2", "uw1", "uw2", "p"}
  NTHREADS = 3
  User = {0, 1, 2}
  NoUser = NoUser
  NCVLOOPS = 2
  Rounds = 2
  NumBowls = 2
  NumCats = 2
  NumMice = 1
  NumLoops = 2
  TestThreads = 2
  Loops = 4
  NWaitchans = 2
  Thread = {t1, t2, t3}
  Proc = {x1, x2, x3}
  menu = menu
  NoProc = NoProc
  MaxPid = 4
  Fails = {"memory", "thread_fork", "load"}
  main = main
  testsem = testsem
  donesem = donesem
  NoThread = NoThread
  NoSem = NoSem
INVARIANTS
  OnePrintsAtATime
  OnlyLiveSemaphores
  ReverseOrder
  DestroyIsSafe
  BowlIsFree
  TestsSucceed
  MenuWaits
PROPERTY
  SemTestFinishes
  SimulationFeedsMice
  MenuResumes
CHECK_DEADLOCK FALSE
