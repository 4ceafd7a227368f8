------------------------------ MODULE UserMem ------------------------------
(***************************************************************************)
(* The memory of user processes: address spaces and page faults            *)
(* (arch/mips/vm/dumbvm.c), the loading of programs (syscall/loadelf.c,    *)
(* runprogram.c), as_copy for fork, traps (arch/mips/locore/trap.c) and    *)
(* the kernel's copies from and to user memory (vm/copyinout.c).           *)
(*                                                                         *)
(* A processor translates with its own TLB; the scheduler moves processes  *)
(* between processors at any point but while the TLB is being written.     *)
(***************************************************************************)
EXTENDS Integers, Sequences, FiniteSets

CONSTANTS
  Cpu, Proc,
  NFrames,        \* frames of RAM; frame 0 is never handed out
  PAGE_SIZE, USERSPACETOP,
  Width,          \* addresses are modulo Width
  NUM_TLB,
  Programs,       \* sequences of segments [vaddr, memsz, filesz]
  Pointers, Lengths,  \* what system calls are passed
  MaxAccesses,    \* bound: stores and copies by programs
  MaxSwitches,    \* bound: changes of the process on a processor
  None

USERSTACK == USERSPACETOP
Stackbase == USERSTACK - PAGE_SIZE  \* DUMBVM_STACKPAGES is 1
Page(a) == a \div PAGE_SIZE

VARIABLES
  ram,      \* ram[f][o]
  first,    \* the first free frame
  as,       \* as[p]: the address space of p, or None
  tlb,      \* tlb[c]: the valid entries [v, f]
  on,       \* on[c]: the process running there, None: a kernel thread
  st,       \* st[p]: what p is doing, see Idle
  view,     \* history: view[p][a], what p or the kernel for it last stored at a
  accesses, switches,  \* how many there were
  dead      \* why the kernel stopped, or None

memvars == <<ram, first, as, tlb, on, st, view, accesses, switches, dead>>

NoAs == [vbase1 |-> 0, pbase1 |-> 0, npages1 |-> 0, vbase2 |-> 0, pbase2 |-> 0, npages2 |-> 0,
         stackpbase |-> 0]

(* pc; the address space under construction; the program and its segment;  *)
(* the access to user memory under way: n bytes from addr, stored as val   *)
(* (None: loaded), and where to go on; the frame vm_fault has found; the   *)
(* mode of the processor; whether tm_badfaultfunc is set.                  *)
Idle == [pc |-> "none", new |-> NoAs, prog |-> <<>>, seg |-> 0,
         addr |-> 0, n |-> 0, val |-> None, then |-> "none", frame |-> 0, kern |-> FALSE, bad |-> FALSE]
User == [Idle EXCEPT !.pc = "user"]
Failed == [Idle EXCEPT !.pc = "failed"]  \* runprogram has returned an error

MemInit ==
  /\ ram = [f \in 1..NFrames |-> [o \in 0..(PAGE_SIZE - 1) |-> "junk"]] /\ first = 1
  /\ as = [p \in Proc |-> None] /\ tlb = [c \in Cpu |-> {}] /\ on = [c \in Cpu |-> None]
  /\ st = [p \in Proc |-> Idle] /\ view = [p \in Proc |-> <<>>] /\ accesses = 0 /\ switches = 0 /\ dead = None

Runs(c, p, pc) == dead = None /\ on[c] = p /\ st[p].pc = pc
Go(p, s) == st' = [st EXCEPT ![p] = s]

-----------------------------------------------------------------------------
(* Address spaces *)

as_define_region(a, vaddr, sz) ==
  LET base == vaddr - (vaddr % PAGE_SIZE)
      np == (sz + (vaddr % PAGE_SIZE) + PAGE_SIZE - 1) \div PAGE_SIZE
  IN CASE a.vbase1 = 0 -> [a EXCEPT !.vbase1 = base, !.npages1 = np]
       [] a.vbase1 # 0 /\ a.vbase2 = 0 -> [a EXCEPT !.vbase2 = base, !.npages2 = np]
       [] OTHER -> None  \* EUNIMP

Defined(prog) ==
  LET upto[i \in 0..Len(prog)] ==
        IF i = 0 THEN NoAs ELSE IF upto[i - 1] = None THEN None
        ELSE as_define_region(upto[i - 1], prog[i].vaddr, prog[i].memsz)
  IN upto[Len(prog)]

(* The frame of a page by the regions of an address space, 0: EFAULT. *)
Translate(a, v) ==
  LET x == v * PAGE_SIZE
  IN CASE x >= a.vbase1 /\ x < a.vbase1 + a.npages1 * PAGE_SIZE -> a.pbase1 + v - Page(a.vbase1)
       [] x >= a.vbase2 /\ x < a.vbase2 + a.npages2 * PAGE_SIZE -> a.pbase2 + v - Page(a.vbase2)
       [] x >= Stackbase /\ x < USERSTACK -> a.stackpbase + v - Page(Stackbase)
       [] OTHER -> 0

Mapped(a) == {x \in 0..(USERSPACETOP - 1) : Translate(a, Page(x)) # 0}
Frames(a) == {Translate(a, v) : v \in {Page(x) : x \in Mapped(a)}}

-----------------------------------------------------------------------------
(* Starting a program *)

(* runprogram: as_create, curproc_setas, as_activate; load_elf reads the   *)
(* headers, which may be no good, and defines the regions.                 *)
runprogram(c, p) ==
  /\ dead = None /\ on[c] = None /\ st[p].pc = "none" /\ first <= NFrames
  /\ tlb' = [tlb EXCEPT ![c] = {}]
  /\ \E prog \in Programs :
       IF Defined(prog) = None
       THEN as' = [as EXCEPT ![p] = NoAs] /\ Go(p, Failed) /\ UNCHANGED on
       ELSE /\ as' = [as EXCEPT ![p] = Defined(prog)] /\ on' = [on EXCEPT ![c] = p]
            /\ Go(p, [Idle EXCEPT !.pc = "prepare1", !.new = Defined(prog), !.prog = prog])
  /\ UNCHANGED <<ram, first, view, dead, accesses, switches>>

(* load_segment stores filesz bytes through the new mappings; after the    *)
(* last segment come the arguments, at the top of the stack, and user mode.*)
KernelCopy(s, addr, n, val, then) ==
  [s EXCEPT !.pc = "access", !.addr = addr, !.n = n, !.val = val, !.then = then,
            !.frame = 0, !.kern = TRUE, !.bad = TRUE]

LoadFrom(s, p) ==
  LET filled == {i \in DOMAIN s.prog : i > s.seg /\ s.prog[i].filesz > 0}
      i == CHOOSE j \in filled : \A k \in filled : j <= k
      size == IF s.prog[i].filesz > s.prog[i].memsz THEN s.prog[i].memsz ELSE s.prog[i].filesz
  IN IF filled = {} THEN KernelCopy(Idle, USERSTACK - 1, 1, p, "user")
     ELSE KernelCopy([s EXCEPT !.seg = i], s.prog[i].vaddr, size, "file", "load")

(* as_prepare_load: three times getppages, then the pages are zeroed.      *)
(* load_elf goes on to the segments; as_copy copies the parent's pages,    *)
(* and the child q can run.                                                *)
getppages(n) == IF first + n > NFrames + 1 THEN 0 ELSE first

OutOfMemory(c, p) ==
  /\ IF st[p].prog = <<>> THEN Go(p, User) /\ UNCHANGED on
     ELSE Go(p, Failed) /\ on' = [on EXCEPT ![c] = None]
  /\ UNCHANGED first

prepare1(c, p) ==
  /\ Runs(c, p, "prepare1")
  /\ LET f == getppages(st[p].new.npages1)
     IN IF f = 0 THEN OutOfMemory(c, p)
        ELSE /\ Go(p, [st[p] EXCEPT !.pc = "prepare2", !.new.pbase1 = f])
             /\ first' = first + st[p].new.npages1 /\ UNCHANGED on
  /\ UNCHANGED <<ram, as, tlb, view, dead, accesses, switches>>

prepare2(c, p) ==
  /\ Runs(c, p, "prepare2")
  /\ LET f == getppages(st[p].new.npages2)
     IN IF f = 0 THEN OutOfMemory(c, p)
        ELSE /\ Go(p, [st[p] EXCEPT !.pc = "prepare3", !.new.pbase2 = f])
             /\ first' = first + st[p].new.npages2 /\ UNCHANGED on
  /\ UNCHANGED <<ram, as, tlb, view, dead, accesses, switches>>

as_zero_region(a, r) ==
  [f \in DOMAIN r |-> IF f \in Frames(a) THEN [o \in DOMAIN r[f] |-> "zero"] ELSE r[f]]

as_prepare_load(c, p) ==
  /\ Runs(c, p, "prepare3") /\ st[p].prog # <<>>
  /\ LET new == [st[p].new EXCEPT !.stackpbase = first]
     IN IF getppages(1) = 0 THEN OutOfMemory(c, p) /\ UNCHANGED <<ram, as, view>>
        ELSE /\ first' = first + 1 /\ UNCHANGED on
             /\ ram' = as_zero_region(new, ram)
             /\ as' = [as EXCEPT ![p] = new]
             /\ view' = [view EXCEPT ![p] = [x \in Mapped(new) |-> "zero"]]
             /\ Go(p, LoadFrom([st[p] EXCEPT !.new = NoAs], p))
  /\ UNCHANGED <<tlb, dead, accesses, switches>>

as_copy(c, p, q) ==
  /\ Runs(c, p, "prepare3") /\ st[p].prog = <<>> /\ st[q].pc = "none"
  /\ LET new == [st[p].new EXCEPT !.stackpbase = first]
         from(f) == Translate(as[p], CHOOSE v \in 0..Page(USERSPACETOP - 1) : Translate(new, v) = f)
         zeroed == as_zero_region(new, ram)
     IN IF getppages(1) = 0 THEN OutOfMemory(c, p) /\ UNCHANGED <<ram, as, view>>
        ELSE /\ first' = first + 1 /\ UNCHANGED on
             /\ ram' = [f \in DOMAIN ram |-> IF f \in Frames(new) THEN zeroed[from(f)] ELSE ram[f]]
             /\ as' = [as EXCEPT ![q] = new] /\ view' = [view EXCEPT ![q] = view[p]]
             /\ st' = [st EXCEPT ![p] = User, ![q] = User]
  /\ UNCHANGED <<tlb, dead, accesses, switches>>

-----------------------------------------------------------------------------
(* fork and exit *)

fork(c, p) ==
  /\ Runs(c, p, "user") /\ first <= NFrames
  /\ Go(p, [Idle EXCEPT !.pc = "prepare1", !.new = [as[p] EXCEPT !.pbase1 = 0, !.pbase2 = 0, !.stackpbase = 0]])
  /\ UNCHANGED <<ram, first, as, tlb, on, view, dead, accesses, switches>>

exit(c, p) ==
  /\ Runs(c, p, "user")
  /\ as' = [as EXCEPT ![p] = None] /\ view' = [view EXCEPT ![p] = <<>>]
  /\ Go(p, Idle) /\ on' = [on EXCEPT ![c] = None]
  /\ UNCHANGED <<ram, first, tlb, dead, accesses, switches>>

-----------------------------------------------------------------------------
(* Scheduling *)

(* Faulty variant: the TLB survives a switch. *)
as_activate_keeps(c, p) == tlb' = tlb

as_activate(c, p) == tlb' = [tlb EXCEPT ![c] = {}]

thread_switch(c) ==
  /\ dead = None /\ switches < MaxSwitches /\ switches' = switches + 1
  /\ \/ on[c] # None /\ on' = [on EXCEPT ![c] = None] /\ UNCHANGED tlb
     \/ \E p \in Proc : /\ st[p].pc \notin {"none", "failed"} /\ \A d \in Cpu : on[d] # p
                        /\ on' = [on EXCEPT ![c] = p] /\ as_activate(c, p)
  /\ UNCHANGED <<ram, first, as, st, view, dead, accesses>>

-----------------------------------------------------------------------------
(* Access to user memory *)

(* A store by the program. *)
user_store(c, p) ==
  /\ Runs(c, p, "user") /\ accesses < MaxAccesses /\ accesses' = accesses + 1
  /\ \E x \in Pointers : /\ x < USERSPACETOP
                         /\ Go(p, [Idle EXCEPT !.pc = "access", !.addr = x, !.n = 1, !.val = p, !.then = "user"])
  /\ UNCHANGED <<ram, first, as, tlb, on, view, switches, dead>>

(* How many bytes may be copied, 0: EFAULT. *)
copycheck(bot, len) ==
  LET top == (bot + len - 1) % Width
  IN IF top < bot \/ bot >= USERSPACETOP THEN 0
     ELSE IF top >= USERSPACETOP THEN USERSPACETOP - bot ELSE len

(* Faulty variant: the top of the region is not looked at. *)
copyin_unchecked(stoplen, len) == stoplen > 0

Whole(stoplen, len) == stoplen > 0 /\ stoplen = len

(* copyin, copyout, copyinstr, copyoutstr in a system call.  A block is    *)
(* copied whole or not at all, a string up to its end.                     *)
copy(c, p) ==
  /\ Runs(c, p, "user") /\ accesses < MaxAccesses /\ accesses' = accesses + 1
  /\ \E bot \in Pointers, len \in Lengths, out \in BOOLEAN, str \in BOOLEAN :
       LET stoplen == copycheck(bot, len)
           begin(n) == KernelCopy(Idle, bot, n, IF out THEN p ELSE None, "user")
       IN \/ ~str /\ Whole(stoplen, len) /\ Go(p, begin(len))
          \/ str /\ \E n \in 1..stoplen : Go(p, begin(n))
  /\ UNCHANGED <<ram, first, as, tlb, on, view, switches, dead>>

(* An access that does not fault.  Above USERSPACETOP it would reach the   *)
(* kernel itself.                                                          *)
Onward(s, p) == IF s.n > 1 THEN [s EXCEPT !.addr = @ + 1, !.n = @ - 1]
                ELSE IF s.then = "user" THEN User ELSE LoadFrom(s, p)

access(c, p) ==
  /\ Runs(c, p, "access") /\ st[p].frame = 0
  /\ IF st[p].addr >= USERSPACETOP
     THEN dead' = "kernel memory" /\ UNCHANGED <<ram, view, st>>
     ELSE \E e \in tlb[c] :
            /\ e.v = Page(st[p].addr)
            /\ IF st[p].val = None THEN UNCHANGED <<ram, view>>
               ELSE /\ ram' = [ram EXCEPT ![e.f][st[p].addr % PAGE_SIZE] = st[p].val]
                    /\ view' = [view EXCEPT ![p] = [x \in DOMAIN @ |->
                                  IF x = st[p].addr THEN st[p].val ELSE @[x]]]
            /\ Go(p, Onward(st[p], p)) /\ UNCHANGED dead
  /\ UNCHANGED <<first, as, tlb, on, accesses, switches>>

(* mips_trap after vm_fault has returned EFAULT: kill_curthread panics; a  *)
(* copy of the kernel's is sent to copyfail.                               *)
Fatal(c, p) ==
  IF st[p].kern /\ st[p].bad
  THEN /\ Go(p, IF st[p].then = "user" THEN User ELSE Failed)
       /\ on' = [on EXCEPT ![c] = IF st[p].then = "user" THEN p ELSE None] /\ UNCHANGED dead
  ELSE dead' = (IF st[p].kern THEN "kernel fault" ELSE "user fault") /\ UNCHANGED <<st, on>>

(* vm_fault, with interrupts on: it asserts that there are two regions.    *)
vm_fault(c, p) ==
  /\ Runs(c, p, "access") /\ st[p].frame = 0 /\ st[p].addr < USERSPACETOP
  /\ \A e \in tlb[c] : e.v # Page(st[p].addr)
  /\ LET f == Translate(as[p], Page(st[p].addr))
     IN IF as[p].vbase2 = 0 THEN dead' = "assertion" /\ UNCHANGED <<st, on>>
        ELSE IF f = 0 THEN Fatal(c, p)
        ELSE Go(p, [st[p] EXCEPT !.frame = f]) /\ UNCHANGED <<dead, on>>
  /\ UNCHANGED <<ram, first, as, tlb, view, accesses, switches>>

(* With interrupts off: a free entry of the TLB, if there is one. *)
vm_fault_tlb(c, p) ==
  /\ Runs(c, p, "access") /\ st[p].frame # 0
  /\ IF Cardinality(tlb[c]) < NUM_TLB
     THEN /\ tlb' = [tlb EXCEPT ![c] = @ \cup {[v |-> Page(st[p].addr), f |-> st[p].frame]}]
          /\ Go(p, [st[p] EXCEPT !.frame = 0]) /\ UNCHANGED <<dead, on>>
     ELSE Fatal(c, p) /\ UNCHANGED tlb
  /\ UNCHANGED <<ram, first, as, view, accesses, switches>>

MemStep(c, p) ==
  \/ runprogram(c, p) \/ prepare1(c, p) \/ prepare2(c, p) \/ as_prepare_load(c, p)
  \/ fork(c, p) \/ \E q \in Proc : as_copy(c, p, q)
  \/ exit(c, p) \/ user_store(c, p) \/ copy(c, p) \/ access(c, p) \/ vm_fault(c, p) \/ vm_fault_tlb(c, p)

MemNext == \E c \in Cpu : thread_switch(c) \/ \E p \in Proc : MemStep(c, p)

-----------------------------------------------------------------------------
Complete(p) == as[p] # None /\ as[p].stackpbase # 0

(* A process has its memory to itself, whatever runs in between and        *)
(* wherever (as_activate, vm_fault, as_copy): each byte is what was last   *)
(* stored there for this process, or for its parent before the fork, or    *)
(* zero; a frame belongs to one process; and the TLB of the processor it   *)
(* runs on translates as its address space does.                           *)
OwnMemory ==
  /\ \A p \in Proc : Complete(p) =>
       \A x \in Mapped(as[p]) : ram[Translate(as[p], Page(x))][x % PAGE_SIZE] = view[p][x]
  /\ \A p, q \in Proc : p # q /\ Complete(p) /\ Complete(q) => Frames(as[p]) \cap Frames(as[q]) = {}
  /\ \A c \in Cpu : on[c] # None => \A e \in tlb[c] :
       Complete(on[c]) /\ Translate(as[on[c]], e.v) = e.f

(* Whatever address and length a system call passes, the copy of the       *)
(* kernel's (copyin and the others of copyinout.c) ends in EFAULT or stays *)
(* in user memory, and a fault in it, also when it resumes on another      *)
(* processor, does not bring the kernel down.                              *)
CopiesAreSafe == dead \notin {"kernel memory", "kernel fault"}
=============================================================================
