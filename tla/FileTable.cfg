SPECIFICATION Spec
CONSTANTS
  Thread = {t1, t2}
  Entry = {e1, e2}
  File = {f1}
  con = con
  NULL = NULL
  OPEN_MAX = 4
  MaxForks = 1
INVARIANT DescriptorsUsable
CHECK_DEADLOCK FALSE
