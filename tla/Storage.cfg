SPECIFICATION StorageSpec
CONSTANTS
  Layer = {"vfs", "sfs"}
  User = {u1}
  menu = menu
  UserPath = {"", "lhd0", "con"}
  Path = {"a"}
  NFiles = 1
  MaxStuck = 1
  None = None
  Name = {a, b}
  Value = {1}
  Zeros = Zeros
  NBLOCKS = 8
  BLOCKSIZE = 2
  NDIRECT = 1
  DBPERIDB = 2
  Offsets = {1, 4}
  Lengths = {3}
  MaxHeld = 2
  MaxOps = 3
  MaxFaults = 1
INVARIANTS
  RefsCounted
  NothingDangles
  BlocksOwnedOnce
  NothingLost
PROPERTY
  ImplementsFlatFs
SYMMETRY NameSymmetry
CHECK_DEADLOCK FALSE
