SPECIFICATION MachineSpec
CONSTANTS
  Device = {"lhd"}
  None = None
  NSlots = 3
  Machines <- Slots3
  MaxDuds = 1
  MaxFaults = 1
  Writer = {w1}
  Reader = {r1}
  Poller = {p1}
  SIZE = 3
  Newline = {2}
  MaxTraffic = 3
  CPU = {c0, c1}
  boss = c0
  NoCPU = NoCPU
  TLBSHOOTDOWN_MAX = 2
  MaxPosts = 3
  Shutdown = TRUE
  Thread = {t1, t2}
  NoData = NoData
  NSECT = 2
  MaxLen = 2
  MaxTries = 1
  MaxErrors = 2
  NHANDLES = 3
  Retries = 1
  MaxChunks = 2
  MaxOom = 1
  NPages = 4
  HeapPage = 12
  Blocks <- TwoSizes
  LARGEST = 6
  NPAGEREFS = 2
  Requests = {4, 5, 13}
  MaxHeld = 2
  Core = {k0, k1}
  Proc = {x1, x2}
  NFrames = 6
  PAGE_SIZE = 2
  USERSPACETOP = 8
  Width = 16
  NUM_TLB = 2
  Programs <- SomePrograms
  Pointers = {1, 5, 7, 15}
  Lengths = {2}
  MaxAccesses = 1
  MaxSwitches = 2
INVARIANT WritesHappen
SYMMETRY Symmetry
CHECK_DEADLOCK FALSE
