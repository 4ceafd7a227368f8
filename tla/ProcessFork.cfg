SPECIFICATION Spec
CONSTANTS
  Thread = {t1, t2, t3}
  Proc = {x1, x2, x3}
  menu = menu
  NoProc = NoProc
  MaxPid = 4
  Fails = {}
INVARIANT ForkReturnsItsChild
CHECK_DEADLOCK FALSE
