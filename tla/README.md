# The OS/161 kernel in TLA+

This project models the OS/161 kernel kept in `src/` (the teaching kernel of
CS161/CS350 with the coursework of assignments A1 and A2 filled in: locks,
condition variables, the cat/mouse problem, processes and file system calls).
It is written from the C code. The preprocessor symbol `UW` is taken as
defined, and the configuration is that of `conf/ASST1` and `conf/ASST2`
(`OPT_A1`, `OPT_A2`, `synchprobs`). Of `compile/`, build output, only the
generated `ASST2/autoconf.c` is modelled; the files ending in `_old`,
`_backup` and `~` are stale copies and are not.

## The system and its parts

| Part | Source | What it keeps | Who calls it | Modelled by |
|---|---|---|---|---|
| spinlocks, interrupt levels | `thread/spinlock.c`, `thread/spl.c`, `arch/mips/thread/cpu.c` | holder; level and count of each thread | everything | `Spl`; elsewhere a variable holding the owner |
| thread lists | `thread/threadlist.c` | linked nodes, a count | thread system, channels | `ThreadList` |
| wait channels | `thread/thread.c` 977-1110 | list of sleepers, spinlock | semaphores, locks, cvs, clock | `Sched`, and inside `Semaphore`, `SleepLock`, `CondVar` |
| thread system, migration | `thread/thread.c` | run queue, current thread, idle flag and zombies of each processor | everything | `Sched` |
| interprocessor interrupts | `thread/thread.c` 1121-1212, `lamebus_machdep.c` | pending bits, shootdown table, interrupt line | thread system, shutdown | `Ipi`, the wakeup part in `Sched` |
| clock | `thread/clock.c` | tick counters, `lbolt` | timer interrupt | `Sched` (`Hardclock`) |
| semaphores | `thread/synch.c` 49-146 | count, spinlock, channel | drivers, tests, processes | `Semaphore`, `AtomicSemaphore` |
| sleep locks | `thread/synch.c` 152-245 | holder, spinlock, channel | VFS, tests, cat/mouse | `SleepLock`, `AtomicLock` |
| condition variables | `thread/synch.c` 252-317 | channel | tests, cat/mouse | `CondVar` |
| thread and synchronisation tests | `test/synchtest.c`, `threadtest.c`, `tt3.c`, `uw-tests.c` | test variables | menu | `SemTest`, `CvTest`, `KernelTests` |
| cat and mouse | `synchprobs/catmouse*.c` | bowls, locks, cvs, semaphore | menu | `CatMouse` |
| processes, menu | `proc/proc.c`, `syscall/proc_syscalls.c`, `syscall/runprogram.c`, `startup/menu.c` | process count, pids, threads of a process | traps, menu | `Process` |
| file tables | `syscall/file*.c` | open files, counts | traps | `FileTable` |
| traps, system calls | `arch/mips/locore/trap.c`, `arch/mips/syscall/syscall.c` | trap frame | hardware | interrupts in `Spl`, faults in `UserMem`, the end of `syscall()` in `Process` |
| VFS, vnodes | `vfs/*.c` | device list, boot file system, big lock, reference counts | file calls, menu | `Vfs` |
| SFS | `fs/sfs/*.c` | free map, inodes, loaded vnodes | VFS | `Sfs`, `FlatFs` |
| emufs | `dev/lamebus/emu.c` | one request, vnode table | VFS | `Emu` |
| disk | `dev/lamebus/lhd.c`, `fs/sfs/sfs_io.c` | one request, its semaphores | interrupts, SFS | `Lhd` |
| kernel heap | `vm/kmalloc.c` | page lists, free lists | everything | `Kmalloc` |
| address spaces, program loading | `arch/mips/vm/*.c`, `vm/copyinout.c`, `syscall/loadelf.c` | regions, TLB | traps, processes | `UserMem` |
| console, serial | `dev/generic/console.c`, `dev/lamebus/lser.c`, `lib/kprintf.c`, `lib/kgets.c` | ring buffer, semaphores | interrupts, VFS, `kprintf`, menu | `Console` |
| system bus, configuration | `dev/lamebus/lamebus.c`, `*_att.c`, `autoconf.c` | slot table, interrupt masks | boot, interrupts | `Lamebus` |

The processors are the actors at the bottom. A processor runs a thread until it
yields, sleeps or exits, or an interrupt arrives; interrupts are off while it
holds a spinlock. Threads meet only in the structures above, each guarded by a
spinlock or, above the primitives, by a sleep lock, and they block only on wait
channels. `P`, `lock_acquire` and `cv_wait` test a condition under one spinlock
and go to sleep under another, which is where wakeups can be lost. Wakeups put
a thread on the run queue of its processor and interrupt that processor if it
is idle. Drivers start a device, wait on a semaphore and are woken by an
interrupt handler, which may run between any two steps of a thread with
interrupts on.

## Modules

Each variable has the name of the field it models. Program counters name the
place in the C function; a step is what one actor does between two points at
which another actor can see or change the same state, so a step never holds
more than what the code does under one lock. In the modules about
synchronisation primitives the owner of a spinlock is a thread: with interrupts
off it cannot lose its processor. In `Sched`, `Spl` and `Ipi` the owner is the
processor, as in the code. A definition whose comment says "faulty variant" is
a plausible mistake in the definition that follows it; the properties are
tested against these.

Threads:

- `Semaphore`: `P` and `V`, any number of threads, interrupt handlers and
  semaphores. `PBridge` is the point where `P` takes the channel's lock before
  it gives up the semaphore's. `AtomicSemaphore` is what `synch.h` promises;
  the mapping sends a thread anywhere before the decrement to "in P", anywhere
  before the increment to "in V", and afterwards to "V has taken effect".
- `SleepLock`: `lock_acquire` and `lock_release`, with releases by threads that
  do not hold the lock, which the code ignores. `AtomicLock` is the promise.
- `CondVar` extends `SleepLock` by `cv_wait`, `cv_signal` and `cv_broadcast`.
  `cv_wait` runs the steps of `lock_release` and `lock_acquire` themselves, and
  nothing is held between the release and the channel's lock.
- `Sched`: run queues, `thread_switch` with all its cases, idling, wait
  channels, `thread_fork`, `thread_exit`, zombies, the timer, wakeup IPIs, and
  `thread_consider_migration` step by step, each run queue lock taken where the
  code takes it. An idle processor stays on the stack of the thread that left
  it, also when that thread is a zombie or is queued again.
- `Spl`: the interrupt level and `t_iplhigh_count` of every thread. A thread is
  a stack of frames: its code, a handler that interrupted it, and the
  `thread_switch` that either is in, with the value that `splhigh` returned
  there. Spinlocks belong to processors, counts to threads, and the lock of the
  run queue passes from the thread that leaves to the one that comes.
  Interrupts arrive whenever they are on, without a bound. A thread may go to
  sleep with another spinlock held, as `sys_write` does; `slept` records it.
- `ThreadList`: the nodes and pointers of `threadlist.c`, beside the sequence
  that each list stands for.
- `Ipi`: the senders and the handler with both locks they use, the shootdown
  table with its overflow mark, the interrupt line and when it is lowered, and
  shutdown. A post that finds the overflow mark uses it as an index, and what it
  writes before the table goes where `struct cpu` has it: over the pending bits
  and the holder of the run queue's lock (`BeforeTable`). Nothing in the kernel
  posts a shootdown, and dumbvm's answer to one is a panic: the invalidation in
  the handler is what a virtual memory system would do.

Programs and tests:

- `SemTest`, `CvTest`: the tests of `test/synchtest.c` as programs that call the
  modules above; `sy1` may be run twice, in which case the second run meets what
  the first left behind. `KernelTests`: the other tests that start threads. `CatMouse`:
  the simulation and the synchronisation given to it. These two use atomic
  locks and semaphores, which `synch` justifies, and take every load and store
  of a shared variable as a step.
- `Process`: the menu's `common_prog`, `proc_create_runprogram`, `sys_fork`,
  `sys__exit` and `proc_destroy`, over atomic semaphores. `proc_count` and
  `next_pid` are read and written in separate steps, because only the first is
  guarded. Threads and `struct proc`s are told apart, since a structure is
  freed, and can be allocated again, before its thread is done. Out of memory, a
  failed `thread_fork` and a failed load are steps of their own, with the
  assertions they run into; `faults` records that one has happened.
- `SynchTest` is the menu: it runs one of these commands. It extends `Process`,
  `CatMouse` and `CvTest` and instantiates the other tests.
- `FileTable`: the table of each thread, the entries the tables point to, and
  the copy that `sys_fork` makes. The spinlock of a table is copied with it and
  guards nothing once entries are shared, so `filetable_count--` is a load, a
  store and a test.

Storage:

- `Vfs`: the list of devices, mounting, the boot file system, current
  directories, and the operations on paths, by processes and the menu at the
  same time. Each call a `vfs_*` function makes is a step under `vfs_biglock`,
  which is released in between. A vnode is a device and a number; a path is
  where it starts and a name. `VOP_RECLAIM` of a vnode whose last reference goes
  may fail, and `stuck` records the vnodes whose count then stays at one.
- `Sfs`: every operation of sfs on a disk of blocks, with the caches it keeps.
  All of it runs under `vfs_biglock`, so an operation is one action, in which at
  most one read or allocation fails, at any place. `FlatFs` is the promise: a
  directory of names, files with contents, references that keep files alive.
- `Storage` joins the two in one specification.

Machine:

- `Lamebus`: probing and claiming slots, the generated configuration in its
  order, drivers that fail, and the dispatch of interrupts during all that.
  `Console` extends it by the serial port and the console on it. Threads come to
  the port by `con_userlock_write`, by `kprintf_lock` or, in `kgets`, by no lock;
  code with interrupts off polls it, with the port's interrupt masked in
  `kprintf` and not masked in `con_io` under `sys_write`'s spinlock.
- `Lhd`: the disk driver with its card, and the two ways to it, `sfs_rwblock`
  with its retries and the raw device. `Emu`: emufs with its device,
  and the three ways in which loading a vnode fails; `oom` counts the one that
  keeps `vfs_biglock`.
- `Kmalloc`: the heap down to the words of the free lists, which lie in memory
  that threads write to. `UserMem`: frames, address spaces, TLBs, program
  loading, fork's copy, and the kernel's copies from and to user memory.
- `Machine` joins these with `Ipi`: which part moves is chosen at the start, and
  the others stay as they are. `Threads` does the same for `Sched`, `Spl` and
  `ThreadList`, `MCSynch` for `Semaphore` and `CondVar`.

`CondVarProofs` and `SynchProofs` hold the proofs about synchronisation and the
condition variable test, `SchedPlaces`, `SchedControl` and `SchedProofs` those about
the thread system, `ProcessProofs` those about processes and the menu,
`ClientProofs` those about the disk driver and the cats and mice, which both use
semaphores and locks, `ConsoleProofs` those about the console; `MCSched` and `MCIpi`
give constants for TLC.

Simplifications, by name:

- A wakeup or fork called with interrupts on can be preempted between taking a
  thread off a channel and queueing it. `Sched` runs the call to its end on the
  processor that made it.
- `Spl` joins what a processor does with interrupts off and nobody else can see
  to one step with what follows: `splraise` with taking a free lock, and
  `thread_make_runnable`'s taking and releasing of a run queue.
- `kmalloc` fails in `Process`, `Sfs`, `Emu` and `Lamebus`, one allocation at a
  time, and in `Kmalloc` and `UserMem` when memory is used up; elsewhere it does
  not fail. Panics, the stack guard, `IPI_PANIC` and the field `held` of a lock,
  which nothing reads, are left out.
- After a call on a freed semaphore `SemTest` does not follow the thread.
- `Process` has no address spaces, and none of the deliberate panics of
  `sys_fork` and `proc_create_runprogram`. `FileTable` has no file positions, as
  no property tells them apart, stops at an access to a freed entry, and keeps
  the table of a forked child intact although it lies in the frame of
  `enter_forked_process`, which later traps of that thread overwrite.
- `Spl` takes spinlocks in ascending order: threads that wait for each other's
  spinlocks are not its subject.
- `kgets` reads only while no `con_io` does: the menu, which alone calls it, waits
  until no process is left (`MenuWaits` of `Process`). Its echo is a writer of its
  own, and may also come when nothing was typed.
- `Sfs` writes succeed: what becomes of a failed write is the subject of `Lhd`.
  A directory entry takes one unit of a block, and a block holds a few units,
  so that the root directory and the files share `sfs_io` as they do in the
  code. `sfs_stat` and the calls that only refuse are left out.
- A program of `UserMem` is a list of segments, without the fields of the ELF
  headers that `load_elf` only compares. Stores of the user are chosen freely.

Bounds: `MaxCount` (V is not called on a count that high), `Rounds` (how often a
test is started), `NTHREADS`, `NCVLOOPS`, `TestThreads`, `Loops`, `NWaitchans`,
`NumBowls`, `NumCats`, `NumMice`, `NumLoops` (the tests' own parameters, made
small), `MaxPosts` (shootdowns between two handlings), `MaxOom` (failures of `kmalloc` in
`emufs_loadvnode`), `MaxStuck` (vnodes whose reclaim fails), `MaxPid` and the sets of
threads and structures of `Process` (tested before a creation begins, in
`Room`), `MaxForks`, `OPEN_MAX` and `Entry` of `FileTable`, `MaxHeld` (locks,
blocks or references held at a time), `MaxOps` (changes made to the file
system), `MaxFaults`, `MaxErrors` (what fails), `MaxSteps` (the place where it
fails, larger than any operation's number of places), `MaxTries` (requests of a
thread to the disk), `MaxTraffic` (characters typed and writes begun),
`MaxDuds` (drivers that fail), `MaxChunks`, `Retries` (requests to the
emulator), `MaxAccesses`, `MaxSwitches` (accesses by and switches between
processes), `sleepsOn` (the channels each thread of `Sched` goes to sleep on).

## Model checking

| Run | Module | Instance | What it shows |
|---|---|---|---|
| `synch` | `MCSynch` | 3 threads, 1 interrupt handler and 2 semaphores with counts up to 2; or 4 threads with a lock and a cv, used in any order, held or not | `TypeOK`; `NoLostWakeup`: while a thread waits, every unit of the count has a thread on its way to it; `WokenOnce`; `AtomicSpec`: P and V are atomic; `NoLostRelease` and `LockIsAtomic` for the lock, also inside `cv_wait`; `WaitersInOnePlace`: racing signals and broadcasts wake each waiter once. |
| `menu` | `SynchTest` | each command once, `sy1` twice: 3 workers (`sy1`), 3 threads and 2 rounds (`sy3`), 2 cats, a mouse and 2 bowls with 2 meals each (`sp2`), 2 or more threads (`tt1`, `tt3`, `sy2`, `uw1`, `uw2`), a program with up to 3 processes and every failure (`p`) | `OnePrintsAtATime`, `OnlyLiveSemaphores` (of the first `sy1`; the second is the subject of `RepeatedTestIsSafe` below), `SemTestFinishes`; `ReverseOrder`, `DestroyIsSafe`; `BowlIsFree`, `SimulationFeedsMice`; `TestsSucceed`; `MenuWaits`: `proc_count` is exact and the menu comes back when no process is left, until a `thread_fork` fails; `MenuResumes`. |
| `sched` | `Threads` | 2 processors, 3 threads, 2 channels; the same with 1 spinlock and any interrupts; 2 threads with 2 spinlocks, held at the same time and during sleep; 3 threads on 2 lists | `InOnePlace`, `StacksApart`, `BelongsToCpu`, `IdleIsInterrupted`, `MigrationHasThreads`; `LevelsKept`: level, count and interrupt flag agree for every thread and processor, nothing panics, and a processor's spinlocks are those of its threads, until one has slept with a spinlock held: from then on only the first is claimed; `ListsAreSequences`. |
| `sched_live` | `MCSched` | 2 processors, 3 threads of which one never sleeps, 2 channels | `ReadyThreadsRun`: a queued thread gets to run. |
| `machine` | `Machine` | a bus of 3 slots with four sets of cards, 2 writers, 2 readers, 1 polling writer and a ring of 3; 2 processors, a shootdown table of 2 and 5 posts; 2 threads on a disk of 2 sectors; 2 threads on emufs with 3 handles; 2 threads on a heap of 4 pages and 2 block sizes; 2 processes on 2 processors with 6 frames | `DevicesAttached`, `OutputGoesOn`, `InputInOrder`; `ShootdownsCovered`: every shootdown posted is in the table or under the overflow mark, but for those before a post that undid the mark; `RequestsApart`; `AnswersMatch`, `NothingLeaks`: on every path, failing ones included, locks, handles and counts are given back, except one level of `vfs_biglock` for each failure of `kmalloc`; `HeapIsSound`; `OwnMemory`, `CopiesAreSafe`. |
| `storage` | `Storage` | a disk of 8 blocks, which fills up, files of 1 direct and 2 indirect blocks, 2 names, 3 changes, 1 failure; a user and the menu on two devices and a file system with 1 file | `BlocksOwnedOnce`, `NothingLost`, `ImplementsFlatFs`; `RefsCounted`: a vnode's count is its holders, plus one for a vnode whose reclaim has failed; `NothingDangles`. |
| `synchtest_hang` | `SynchTest` | `sy3`, 2 threads, 1 round | violated, see below |
| `catmouse` | `SynchTest` | `sp2`, 2 bowls | violated, see below |
| `process_fork` | `Process` | 3 processes, no failures | violated, see below |
| `filetable` | `FileTable` | 2 threads, 4 descriptors, 1 fork | violated, see below |
| `lhd_retry` | `Machine` | the disk of `machine` | violated, see below |
| `ipi_deadlock` | `MCIpi` | 3 processors, shutdown | violated, see below |

Why the bounds are enough. Four threads allow a holder, two sleepers and a
thread that calls without holding; a lost or double wakeup needs two threads and
a waker. Two semaphores show that wakeups do not cross channels. Three threads
on two processors with two channels are the least for which a woken thread is
migrated while its processor idles on another stack: with one channel sleepers
are woken in the order in which they slept, the last one is always the one
whose stack is in use, and it is the one `thread_consider_migration` keeps. For
the interrupt levels they give a thread that is forked and started where another
one left the lock, and a processor that idles under a zombie. Two spinlocks are
one that is kept across a sleep and one taken above it. A table of two with five
posts fills up, overflows, is written before its beginning, and fills up again. Three processors are needed for
shutdown to meet a wakeup: the one shutting down, the one told to stop, and the
one waking a thread there. Three processes are a parent, a child that exits and
a creation that takes over the child's structure or races with its count. Three
changes are a creation, a write or link, and a removal or rename on top of it,
with unmounting and mounting free in between; files of three blocks cross from
direct to indirect blocks and back, and writes at offsets 1 and 4 of length 3
have leading, whole and trailing blocks. A ring buffer of 3 holds two characters,
so that their order shows; with three typed it wraps and overflows. Two writers
contend for `cs_wsem` by two locks while a third comes by polling. Block sizes 4 and 6 in pages of 12 make pages
that fill up and empty again with two blocks held; 13 is a whole page or more.
Pointers 1, 5, 7 and 15 with 16 addresses of which 8 are the user's are below
the program, inside it, across the end of user memory, and across the end of the
address space.

Deadlock is checked in `synch`, `sched` and `sched_live`. It is not checked
where the system may stop: the tests end, processors halt, and the bounds on
pids, changes and requests are used up. All the users of a cv may wait for one
another, and a list may be left alone; the joint specifications have a step for
that.

Fairness. In `SynchTest` each thread has weak fairness: its processor keeps
executing it, and it can poll a spinlock only finitely often in vain because the
tests make finitely many calls. The same holds for the cats and mice, whose
locks are atomic: a blocked animal is passed over by at most the finitely many
meals of the others. In `Process`, weak fairness of the menu and each thread; a
process that the bounds let fork no more can then only exit. In `Ipi`, weak
fairness of the steps a processor takes with interrupts off, and of taking an
interrupt whose line is up. `FairSpec` of `Sched` asks more: strong fairness of
the steps with interrupts off, that is, a processor polling a spinlock that is
free again and again gets it (without that a spinlock can starve a processor, in
the model and on the machine; the code relies on locks being held for
microseconds and ticks being 10 ms apart), and strong fairness of the timer,
whose request stays up until it is served. `sched_live` watches one forked
thread; one of the others never sleeps, and the watched one sleeps on one channel
only, which still lets it be woken out of order, passed over and migrated.

Symmetry is used over threads, semaphores, channels, processes, processors and
names where nothing tells them apart, in runs without liveness properties. In
`Threads` the processors of `Spl` and the lists take the same values as the
channels of `Sched`, so that one group of permutations serves all three.

## Where the code disagrees with itself

- `synchtest_hang`: `cv_wait` (`thread/synch.c:298`) releases the lock before it
  locks the channel. A thread that takes the lock in between, passes the turn on
  and broadcasts wakes nobody; the waiter sleeps for ever and `cvtest` hangs.
  `synch.h:138` asks for an atomic operation.
- `catmouse`: `cat_before_eating` and `mouse_before_eating`
  (`synchprobs/catmouse_synch.c:99`) guard each bowl by itself, so with two bowls
  a cat eats while a mouse eats at the other one, which `cat_eat` panics about
  (`catmouse.c:277`).
- `process_fork`: `sys_fork` (`syscall/proc_syscalls.c:114`) reads the pid from
  the child's structure after it has started the child, which may have exited
  and freed it; `proc_destroy` relies on having "the only reference".
- `filetable`: `sys_fork` (`proc_syscalls.c:104`) copies the table and leaves
  `filetable_count` alone; the first close of a file by parent or child frees
  the entry under the other.
- `lhd_retry`: `lhd_io` moves a write's data out of the `uio` before the card has
  tried; `sfs_rwblock` repeats the call after an error with the same `uio`, whose
  residue is then 0. The second call transfers nothing and returns 0, so the
  write is reported as done.
- `ipi_deadlock`: the offline handler (`thread/thread.c:1183`) takes the run
  queue lock under the IPI lock; `thread_make_runnable` sends an IPI under the
  run queue lock. The processor told to stop and the one waking a thread on it
  wait for each other.

More that the same modules show, with a configuration but no run in
`PROJECT.json`:

- `MCIpiLost.cfg` violates `RequestsAreSeen`: `mainbus_interrupt`
  (`lamebus_machdep.c:268`) lowers the line after the handler, so a request sent
  in between is not delivered. For `IPI_UNIDLE` this is harmless, because the
  processor looks at its queue again (`IdleIsInterrupted` in `sched`); an offline
  request is lost.
- `MCIpiOverflow.cfg` violates `NoShootdownLost`: `ipi_tlbshootdown`
  (`thread/thread.c:1153`) does not expect the overflow mark it sets, and a post
  that meets it undoes it. Nothing calls the function yet.
- `SynchTestAgain.cfg` violates `RepeatedTestIsSafe`: `cleanitems`
  (`test/synchtest.c:67`) destroys the semaphores and keeps the pointers, so a
  second `sy1` works on freed memory, although `semtest` restores `testsem` "so we
  can run it again" (`synchtest.c:158`).
- `MachineStray.cfg` violates `StraysSurvived`: `lamebus_interrupt` says of an
  interrupt nobody wants "We could just return now, but instead we'll continue
  ahead." (`dev/lamebus/lamebus.c:451`), and what it continues to asserts.
- `ThreadsSpl.cfg` violates `LocksFollowThreads`: `sys_write` sleeps with a
  spinlock held. The lock stays with the processor, whose next thread runs with
  interrupts on and may wait for it for ever.
- With `MenuAlwaysWaits` in place of `MenuWaits`: when `thread_fork` fails,
  `common_prog` (`startup/menu.c:151`) destroys the process, which raises
  `no_proc_sem`, and returns without waiting, so the next program is not waited
  for.

Met while reading, and modelled as the code has it:

- `sys_fork` returns with interrupts off when memory runs out
  (`proc_syscalls.c:67`, `76`), which the end of `syscall()` asserts against, and
  a program that cannot be loaded ends in the assertion of `thread_exit`
  (`thread/thread.c:793`): the actions `AllocateFails` and `LoadFails`.
- `emufs_loadvnode` out of memory (`dev/lamebus/emu.c:1178`) returns with `vfs_biglock` held: the action `loadvnode_oom`.
- `vfs_getcurdir` (`vfs/vfscwd.c:53`) takes the sleeping `vfs_biglock` under the
  spinlock `p_lock`.
- `copycheck` refuses a length of 0, and `vm_fault` asserts that a program has
  two segments.
- `con_attach`'s and `random`'s global pointers stay set when the attachment
  fails afterwards.
- `catmouse_sync_init` (`synchprobs/catmouse_synch.c:47`) allocates room for as
  many locks as there are bowls and stores one more.

## Proofs

The theorems hold for every value of the constants: any number of threads,
processors, wait channels, semaphores, processes, sectors and bowls, any counts.
The lemmas they rest on are in the same modules.

`SynchProofs`, about `Semaphore`, from `SemAssumption` (finitely many threads, distinct markers,
counts are naturals):

- `TypeCorrect`: `Spec => []TypeOK`, so no count goes below zero;
- `SleepersWokenOnce`: `Spec => []WokenOnce`;
- `NoWakeupLost`: `Spec => []NoLostWakeup`;
- `ImplementsAtomic`: `Spec => AtomicSpec`.

The inductive invariant is `SemInv`: `TypeOK`, `WokenOnce`, `NoLostWakeup` and
`Control`, which says which program points hold which spinlock, that a thread in
P or V has a semaphore as its argument, and that a waker at "V.ready" has a
target that is asleep on the same semaphore. None of the others is inductive
without `Control`: `PTake` keeps the count natural only because its test and its
decrement are under one lock, and `PBridge` loses no wakeup only because a V
cannot get past the channel's lock before the sleeper is queued. `NoLostWakeup`
compares a count with a cardinality; its proof follows each action's effect on
the two sets `Blocked` and `Active`. `ImplementsAtomic` uses `TypeOK` and
`Control` to show that every step is a step of `AtomicSemaphore` or leaves its
variables alone.

`CondVarProofs`, from `LockAssumption` (the marker of a free lock is not a
thread):

- `WaitersWokenOnce`: `CvSpec => []WaitersInOnePlace`;
- `NoReleaseLost`: `CvSpec => []NoLostRelease`;
- `LockExcludes`: `CvSpec => []MutualExclusion`, a thread between `lock_acquire`
  and `lock_release` is the holder;
- `LockImplementsAtomic`: `CvSpec => LockIsAtomic`.

Here `IInv` joins the types, `CvControl`, `WaitersInOnePlace`, `NoLostRelease`,
`MutualExclusion` and its converse `HolderKnown`. `CvControl` is what makes them inductive: a thread is at
certain points exactly when it holds `lk_lock`, or the channel's spinlock; one
about to sleep has seen the lock held; the target of a wakeup is asleep; a call
returns to where it may; and only a waker has woken threads in its hands. A
sleeper on either channel is found by its queue alone, so `NoLostRelease` needs
`WaitersInOnePlace` where `lock_release` finds the channel empty.

`SynchProofs`, about `CvTest`, from `CvTestAssumption` (the threads are numbered from
0, as `thread_fork` is given their numbers):

- `TurnsInReverse`: `TestSpec => []ReverseOrder`;
- `CvTestCleansUp`: `TestSpec => []DestroyIsSafe`.

`TestInv` adds to `IInv` the types and `ExitsCounted`: the units of `donesem` that
are there or that `cvtest` has taken are as many as the threads that are gone, and
those are in no function of `synch.c`. `ReverseOrder` is inductive with
`MutualExclusion`: between its test of `testval1` and its store a thread has the
lock. `DestroyIsSafe` counts: when `cvtest` has taken `NTHREADS` units, all the
threads are gone (a subset of a finite set with as many elements is the set), so
the lock has no holder (`HolderKnown`) and both queues are empty, as who is queued is
asleep. That the test finishes is not true (run `synchtest_hang`).

`SchedProofs`, from `SchedAssumption` (at least one processor, a marker of a free
spinlock that is not a processor, a boot thread of its own for each processor,
and any choice of the channels that a thread sleeps on):

- `ThreadsInOnePlace`: `Spec => []InOnePlace`;
- `StacksNotShared`: `Spec => []StacksApart`;
- `ThreadsBelong`: `Spec => []BelongsToCpu`;
- `IdleNotMissed`: `Spec => []IdleIsInterrupted`;
- `MigrationFindsThreads`: `Spec => []MigrationHasThreads`.

Their invariant `IInv` (in `SchedPlaces`) adds to these:

- `SchedTypeOK`, the types;
- `Control`: what a processor's label says of its own variables, such as that the
  private list is empty outside the loops that use it. Without it a thread on
  that list would be lost when the list is assigned, and `WakeOne` could add to
  one that is in use;
- `Owned`: `BelongsToCpu` for zombies and for the victims of a migration too.
  `StacksApart` follows from it, as `t_cpu` of a current thread names its
  processor; and it is inductive only because migration passes over the current
  thread, which may be on the run queue while its processor idles;
- `StacksExist`: `exorcise` frees no stack that a processor is on. It needs
  `Owned`, as the zombies of `c` belong to `c`, and `Control`, as `c` is not idle
  when it runs `exorcise`, so that it has left the stack of its zombie;
- `Counted`: `MigrationHasThreads` from the moment a processor has counted its
  own queue. It holds without a lock because the others only add to that queue.

`SchedPlaces` shows that each action moves threads from one place to another
(lemma `Moved`) or moves none; `SchedControl` the types and `Control`, where a
step of one processor leaves what is private to the others (`Others`).

`ProcessProofs`, from `ProcAssumption` (finitely many threads and structures, the
menu's thread is not one of a process); `Room` and the other bounds are not used:

- `MenuWaitsForAll`: `Spec => []MenuWaits`;
- `ProcessesDestroyedOnce`: `Spec => []DestroyedOnce`, what `proc_destroy` needs of
  its caller.

`IInv` there has the types and four parts. `Owned`: a structure that is being
created or destroyed, or that a thread runs in, is allocated and has one such
owner; so `proc_create` hands out no structure in use and the sets that
`CountIsExact` counts are disjoint. `Mutex`: between the read and the write of
`proc_count` nobody else changes it. `CountIsExact` itself, by the effect of each
action on the two sets. `Waits`, until a `thread_fork` fails: no structure is
without an owner, no thread exists until the menu waits, and while it waits
`no_proc_sem` is 1 when the count is 0, and else 0. The last makes
`MenuAlwaysWaits` inductive: a fork cannot raise a count that has reached zero, as
the thread that forks is counted (lemma `Counted`), so `no_proc_sem` is raised
once.

`ClientProofs`, about `Lhd`, from `LhdAssumption` (the disk has a sector, the
bounds are naturals, the marker of no data is not a thread):

- `RequestsKeptApart`: `LhdSpec => []RequestsApart`;
- `RequestsOnDisk`: `LhdSpec => []SectorsExist`.

Their invariant `DiskInv` says that nobody is between `lh_clear` and its V and the
disk is idle, or that one thread alone is, and then its request is not yet
started, is with the disk, or has its result waiting (`OneInside`); in the last
two the card's registers, `lh_result` and the buffer are those of that thread.
`RequestsApart` alone is not inductive: it does not say that the disk is idle when
a thread starts it, nor which sector it is reading. `OnDisk` bounds the offset of
a uio, through its retries, by the check made once before the loop.

`ClientProofs`, about `CatMouse`, from `CatMouseAssumption` (the numbers are
naturals, and there is a bowl): `BowlsAreFree`, `CatMouseSpec => []BowlIsFree`.
`BowlInv` adds that a creature holds the lock of its bowl from `lock_acquire`, or
the end of `cv_wait`, to `lock_release`, and that a bowl is marked only while a
creature is eating there. `CatsAndMiceApart` is not true (run `catmouse`).

`ConsoleProofs`, from `ConsoleAssumption` (finitely many writers, the ring has a
place, the marker of no thread is not one):

- `WritersAlternate`: `ConsoleSpec => []OutputGoesOn`;
- `ReadersGetWhatWasTyped`: `ConsoleSpec => []InputInOrder`.

`ConInv` has a part for each piece of the driver. `PortInv`: while its lock is free
the port is busy exactly when a character is on its way or its interrupt is pending;
a poller that has the lock has put aside in `irqpending` whether it was busy, so that
the interrupt of the polled character takes the place of the one it displaces.
`PermitInv`: the count of `cs_wsem`, the threads between their P and `lser_write`, the
busy port and the interrupt that `lser_irq` has seen add up to one. `ReadInv`: the
thread that is reading has the lock, or is the menu in `kgets`, and the character at the tail of the ring.
The ring is read as a sequence (`RingOf`), to which `con_input` appends (`Put`) and
from which `getch_intr` takes the first (`TakeFirst`), without the operator `%` that
the provers do not reason about well (`Around`, `RingIs`). The bus's own steps touch
none of this (`BusSteps`).

Only model-checked: the other modules, among them the other tests, the file systems,
the heap and the user memory; the configuration of the bus (`DevicesAttached`); `LevelsKept` and `ListsAreSequences` of the run `sched`;
all liveness (fairness and `ENABLED` are out of the prover's reach); and what
recursive definitions compute, as induction over data is too.

## Not modelled

- `whalemating.c`: its functions only print.
- The assembly of the context switch, of exceptions and of startup. Its effect is
  a step of `Sched` and of `Spl`, and the variable `tlb` of `UserMem`.
- `lnet` and `lscreen`: not in the configuration that is built.
- `sys___time`: no state.
- `timerclock` and `clocksleep`: a counter and a wait channel, as in `Sched`.
- The file system tests and the memory tests: sequences of calls that `Vfs`,
  `Sfs` and `Kmalloc` make in every order.
- Arrays, queues, the editing of a line, formatting and byte order: sequential handling of
  data without shared state. The bitmap is the free map of `Sfs`.
- Parsing of commands and arguments in the menu.
- `sys_getpid` reads `p_pid` and `sys_waitpid` is a stub that reports status 0
  without waiting (`syscall/proc_syscalls.c:124`, `141`); neither changes state.
  There is no `execv`.
