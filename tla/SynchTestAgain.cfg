SPECIFICATION MenuSpec
CONSTANTS
  Command = {"sy1"}
  NTHREADS = 2
  User = {0, 1}
  NoUser = NoUser
  NCVLOOPS = 1
  Rounds = 2
  NumBowls = 2
  NumCats = 2
  NumMice = 1
  NumLoops = 2
  TestThreads = 2
  Loops = 4
  NWaitchans = 2
  Thread = {t1, t2, t3}
  Proc = {x1, x2, x3}
  menu = menu
  NoProc = NoProc
  MaxPid = 4
  Fails = {"memory", "thread_fork", "load"}
  main = main
  testsem = testsem
  donesem = donesem
  NoThread = NoThread
  NoSem = NoSem
INVARIANT
  RepeatedTestIsSafe
CHECK_DEADLOCK FALSE
