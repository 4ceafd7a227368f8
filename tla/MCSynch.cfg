SPECIFICATION SynchSpec
CONSTANTS
  Part = {"sem", "cv"}
  Thread = {a, b, c, h}
  Handler = {h}
  Sem = {s1, s2}
  NoThread = NoThread
  NoUser = NoUser
  NoSem = NoSem
  MaxCount = 2
  InitialCount <- OneEach
  User = {e1, e2, e3, e4}
INVARIANTS
  TypeOK
  NoLostWakeup
  WokenOnce
  WaitersInOnePlace
  NoLostRelease
PROPERTIES
  AtomicSpec
  LockIsAtomic
SYMMETRY Symmetry
