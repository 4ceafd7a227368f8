------------------------------ MODULE Machine ------------------------------
(***************************************************************************)
(* The drivers and the memory of the kernel side by side: the bus and the  *)
(* console (Console on Lamebus), interprocessor interrupts (Ipi), the disk *)
(* driver (Lhd), the emulator's file system (Emu), the kernel's heap       *)
(* (Kmalloc) and the memory of user processes (UserMem).  They are checked *)
(* in one run: which one moves is chosen at the start, and the state of    *)
(* the others never changes.                                               *)
(***************************************************************************)
EXTENDS Console, Lhd, TLC

CONSTANTS
  Device,  \* what to choose from: "console", "ipi", "lhd", "emu", "heap", "user"
  CPU, boss, NoCPU, TLBSHOOTDOWN_MAX, MaxPosts, Shutdown,
  NHANDLES, Retries, MaxChunks, MaxOom,
  NPages, HeapPage, Blocks, LARGEST, NPAGEREFS, Requests, MaxHeld,
  Core, Proc, NFrames, PAGE_SIZE, USERSPACETOP, Width, NUM_TLB, Programs,
  Pointers, Lengths, MaxAccesses, MaxSwitches

VARIABLES
  device,
  pc, to, left, rqlock, ipilock, isidle, pending, i_line, shootdown, numshootdown, posted,
  big, elock, esem, e_result, dev, opened, vnodes, has, th, lost, oom, confused,
  firstpaddr, word, pr, sizebases, allbase, heap, held,
  ram, first, as, tlb, on, st, view, accesses, switches, m_dead

ipivars == <<pc, to, left, rqlock, ipilock, isidle, pending, i_line, shootdown, numshootdown, posted>>
emuvars == <<big, elock, esem, e_result, dev, opened, vnodes, has, th, lost, oom, confused>>
heapvars == <<firstpaddr, word, pr, sizebases, allbase, heap, held>>
memvars == <<ram, first, as, tlb, on, st, view, accesses, switches, m_dead>>

IPI == INSTANCE Ipi WITH line <- i_line
EMU == INSTANCE Emu
HEAP == INSTANCE Kmalloc WITH PAGE_SIZE <- HeapPage, sizes <- Blocks, NULL <- None
USER == INSTANCE UserMem WITH Cpu <- Core, dead <- m_dead

(* The machines to boot on, the block sizes of the heap, the programs. *)
Slots3 == {[s \in 0..2 |-> m[s + 1]] :
             m \in {<<"old", "lser", "lser">>, <<"lhd", "emu", "lhd">>,
                    <<"lrandom", "ltimer", "lrandom">>, <<"lhd", "ltrace", "net">>}}
TwoSizes == <<4, 6>>
Segment(v, m, f) == [vaddr |-> v, memsz |-> m, filesz |-> f]
TextAndBss == <<Segment(3, 1, 1), Segment(5, 1, 0)>>
ThreeSegments == <<Segment(2, 1, 1), Segment(4, 1, 1), Segment(6, 1, 1)>>
SomePrograms == {TextAndBss, ThreeSegments}

(* The state of what was not chosen is left out. *)
MachineInit ==
  /\ device \in Device
  /\ ConsoleInit /\ LhdInit
  /\ device # "console" => machine = CHOOSE m \in Machines : TRUE
  /\ \/ device = "ipi" /\ IPI!Init
     \/ /\ device # "ipi"
        /\ pc = None /\ to = None /\ left = None /\ rqlock = None /\ ipilock = None /\ isidle = None
        /\ pending = None /\ i_line = None /\ shootdown = None /\ numshootdown = None /\ posted = None
  /\ \/ device = "emu" /\ EMU!EmuInit
     \/ /\ device # "emu"
        /\ big = None /\ elock = None /\ esem = None /\ e_result = None /\ dev = None /\ opened = None
        /\ vnodes = None /\ has = None /\ th = None /\ lost = None /\ oom = None
        /\ confused = None
  /\ \/ device = "heap" /\ HEAP!HeapInit
     \/ /\ device # "heap"
        /\ firstpaddr = None /\ word = None /\ pr = None /\ sizebases = None /\ allbase = None
        /\ heap = None /\ held = None
  /\ \/ device = "user" /\ USER!MemInit
     \/ /\ device # "user"
        /\ ram = None /\ first = None /\ as = None /\ tlb = None /\ on = None /\ st = None /\ view = None
        /\ accesses = None /\ switches = None /\ m_dead = None

MachineNext ==
  \/ /\ device = "console" /\ ConsoleNext
     /\ UNCHANGED <<device, ipivars, lhdvars, emuvars, heapvars, memvars>>
  \/ /\ device = "ipi" /\ IPI!Next
     /\ UNCHANGED <<device, busvars, convars, lhdvars, emuvars, heapvars, memvars>>
  \/ /\ device = "lhd" /\ LhdNext
     /\ UNCHANGED <<device, busvars, convars, ipivars, emuvars, heapvars, memvars>>
  \/ /\ device = "emu" /\ EMU!EmuNext
     /\ UNCHANGED <<device, busvars, convars, ipivars, lhdvars, heapvars, memvars>>
  \/ /\ device = "heap" /\ HEAP!HeapNext
     /\ UNCHANGED <<device, busvars, convars, ipivars, lhdvars, emuvars, memvars>>
  \/ /\ device = "user" /\ USER!MemNext
     /\ UNCHANGED <<device, busvars, convars, ipivars, lhdvars, emuvars, heapvars>>

MachineSpec ==
  MachineInit /\ [][MachineNext]_<<device, busvars, convars, ipivars, lhdvars, emuvars, heapvars, memvars>>

(* Threads, processes and the processors they run on are not told apart.   *)
Symmetry ==
  UNION {Permutations(S) : S \in {Thread, Proc, Core, Writer, Reader}}

-----------------------------------------------------------------------------
(* What was posted to a processor and not handled yet, its next handling   *)
(* will invalidate, up to TLBSHOOTDOWN_MAX + 1 posts: the post after them  *)
(* wipes the mark TLBSHOOTDOWN_ALL and is lost with those before it, and   *)
(* the posts that follow it are covered again (ipi_tlbshootdown).          *)
ShootdownsCovered == device = "ipi" => IPI!ShootdownsCovered

(* A thread gets the emulator's answer to its own request, one that        *)
(* translate_err knows (emu_waitdone, e_lock).                             *)
AnswersMatch == device = "emu" => EMU!AnswersMatch

(* When no thread is at it, the handles open at the device are those of    *)
(* the vnodes in memory, and the locks are released but for vfs_biglock    *)
(* after a kmalloc that failed (emufs_loadvnode, emufs_reclaim).           *)
NothingLeaks == device = "emu" => EMU!NothingLeaks

(* The pages, pagerefs and free lists of the heap agree, and no block is   *)
(* handed out twice (subpage_kmalloc, subpage_kfree).                      *)
HeapIsSound == device = "heap" => HEAP!HeapIsSound

(* A process has its memory to itself, wherever it runs (as_activate,      *)
(* vm_fault, as_copy, as_prepare_load).                                    *)
OwnMemory == device = "user" => USER!OwnMemory

(* The kernel's copies stay in user memory or return EFAULT (copycheck,    *)
(* copyfail, mips_trap).                                                   *)
CopiesAreSafe == device = "user" => USER!CopiesAreSafe

=============================================================================
