------------------------------ MODULE Process ------------------------------
(***************************************************************************)
(* Processes: the menu's common_prog, proc_create_runprogram and           *)
(* proc_destroy of proc/proc.c, sys_fork, sys__exit, and the start of a    *)
(* new process in runprogram or enter_forked_process.                      *)
(*                                                                         *)
(* A process has one thread.  A struct proc is freed before its thread is  *)
(* done, and can be allocated again meanwhile, so threads and structures   *)
(* are told apart.  Semaphores are atomic (see AtomicSemaphore).  Memory   *)
(* can be exhausted, and thread_fork or the loading of a program can fail, *)
(* where Fails says so.  After a failed assertion nothing happens.         *)
(***************************************************************************)
EXTENDS Integers, FiniteSets

CONSTANTS
  Thread,   \* threads of user processes
  Proc,     \* memory for struct proc
  menu,     \* the kernel menu's thread
  NoProc,
  MaxPid,   \* bound: pids are below MaxPid
  Fails     \* what can fail: "memory", "thread_fork", "load"

ASSUME ProcAssumption ==
  /\ IsFiniteSet(Thread) /\ IsFiniteSet(Proc)
  /\ menu \notin Thread /\ NoProc \notin Proc

Actor == Thread \cup {menu}

VARIABLES
  pc,           \* pc[a]: where thread a is; "none" for a thread that does not exist
  t_proc,       \* t_proc[t]: the process of t, or NoProc once it is detached
  forked,       \* forked[t]: t was started by sys_fork, not by the menu
  child,        \* child[a]: the process a is creating or destroying
  tmp,          \* tmp[a]: the register of a read-modify-write
  alloc,        \* the struct procs that are allocated
  p_pid,        \* p_pid[x]
  next_pid,
  proc_count,
  count_mutex,  \* count of proc_count_mutex
  no_proc_sem,  \* count of no_proc_sem
  failed,       \* the assertion that has failed, or "none"
  faults        \* history: the members of Fails that have happened

faulty == <<failed, faults>>
sems == <<proc_count, count_mutex, no_proc_sem>>
pids == <<p_pid, next_pid>>
thr == <<t_proc, forked>>
vars == <<pc, thr, child, tmp, alloc, pids, sems, faulty>>

Init ==
  /\ pc = [a \in Actor |-> IF a = menu THEN "prompt" ELSE "none"]
  /\ t_proc = [t \in Thread |-> NoProc]
  /\ forked = [t \in Thread |-> FALSE]
  /\ child = [a \in Actor |-> NoProc]
  /\ tmp = [a \in Actor |-> 0]
  /\ alloc = {}
  /\ p_pid = [x \in Proc |-> 0]
  /\ next_pid = 1   \* 0 is kproc's
  /\ proc_count = 0 /\ count_mutex = 1 /\ no_proc_sem = 0
  /\ failed = "none" /\ faults = {}

(* Bounds: room for one more process and its pid. *)
Creating == {a \in Actor : pc[a] = "create"}
Room ==
  /\ Cardinality(alloc) + Cardinality(Creating) < Cardinality(Proc)
  /\ next_pid + Cardinality({a \in Actor : pc[a] \in {"create", "pid"}}) < MaxPid

Goto(a, from, to) ==
  /\ failed = "none"
  /\ pc[a] = from
  /\ pc' = [pc EXCEPT ![a] = to]

Set(f, a, v) == [f EXCEPT ![a] = v]

-----------------------------------------------------------------------------
(* Creating a process: common_prog and sys_fork.                           *)

common_prog ==
  /\ Room
  /\ Goto(menu, "prompt", "create")
  /\ UNCHANGED <<thr, child, tmp, alloc, pids, sems, faulty>>

(* sys_fork, with interrupts off on this processor. *)
ForkCall(t) ==
  /\ Room
  /\ Goto(t, "user", "create")
  /\ UNCHANGED <<thr, child, tmp, alloc, pids, sems, faulty>>

(* proc_create: get_next_pid reads next_pid... *)
Allocate(a) ==
  /\ Goto(a, "create", "pid")
  /\ \E x \in Proc \ alloc : alloc' = alloc \cup {x} /\ child' = Set(child, a, x)
  /\ tmp' = Set(tmp, a, next_pid)
  /\ UNCHANGED <<thr, pids, sems, faulty>>

(* ... and stores it, incremented; nothing guards it. *)
SetPid(a) ==
  /\ Goto(a, "pid", "inc.P")
  /\ p_pid' = Set(p_pid, child[a], tmp[a])
  /\ next_pid' = tmp[a] + 1
  /\ tmp' = Set(tmp, a, 0)
  /\ UNCHANGED <<thr, child, alloc, sems, faulty>>

(* Out of memory.  sys_fork returns without lowering the interrupt level,  *)
(* and the end of syscall() asserts that it was lowered.                   *)
AllocateFails(a) ==
  /\ "memory" \in Fails
  /\ Goto(a, "create", IF a = menu THEN "prompt" ELSE "user")
  /\ failed' = IF a = menu THEN "none" ELSE "spl"
  /\ faults' = faults \cup {"memory"}
  /\ UNCHANGED <<thr, child, tmp, alloc, pids, sems>>

IncP(a) ==
  /\ Goto(a, "inc.P", "inc.read")
  /\ count_mutex > 0
  /\ count_mutex' = count_mutex - 1
  /\ UNCHANGED <<thr, child, tmp, alloc, pids, proc_count, no_proc_sem, faulty>>

IncRead(a) ==
  /\ Goto(a, "inc.read", "inc.write")
  /\ tmp' = Set(tmp, a, proc_count)
  /\ UNCHANGED <<thr, child, alloc, pids, sems, faulty>>

(* Faulty variant: sys_fork does not count its children. *)
IncWriteMenuOnly(a) ==
  /\ Goto(a, "inc.write", "thread_fork")
  /\ proc_count' = IF a = menu THEN tmp[a] + 1 ELSE tmp[a]
  /\ count_mutex' = count_mutex + 1
  /\ tmp' = Set(tmp, a, 0)
  /\ UNCHANGED <<thr, child, alloc, pids, no_proc_sem, faulty>>

IncWrite(a) ==
  /\ Goto(a, "inc.write", "thread_fork")
  /\ proc_count' = tmp[a] + 1
  /\ count_mutex' = count_mutex + 1
  /\ tmp' = Set(tmp, a, 0)
  /\ UNCHANGED <<thr, child, alloc, pids, no_proc_sem, faulty>>

(* thread_fork: the child can run at once.  The menu goes on to wait,      *)
(* sys_fork to look up the child's pid.                                    *)
StartThread(a, u) ==
  /\ failed = "none"
  /\ pc[a] = "thread_fork" /\ u \in Thread /\ pc[u] = "none"
  /\ pc' = [pc EXCEPT ![a] = IF a = menu THEN "wait" ELSE "retval", ![u] = "start"]
  /\ t_proc' = Set(t_proc, u, child[a])
  /\ forked' = Set(forked, u, a # menu)
  /\ child' = IF a = menu THEN Set(child, a, NoProc) ELSE child
  /\ UNCHANGED <<tmp, alloc, pids, sems, faulty>>

(* The menu destroys the process it created; sys_fork just returns. *)
StartThreadFails(a) ==
  /\ "thread_fork" \in Fails
  /\ Goto(a, "thread_fork", IF a = menu THEN "destroy" ELSE "user")
  /\ child' = IF a = menu THEN child ELSE Set(child, a, NoProc)
  /\ faults' = faults \cup {"thread_fork"}
  /\ UNCHANGED <<thr, tmp, alloc, pids, sems, failed>>

(* *retval = child_proc->p_pid, with interrupts on again. *)
ReturnPid(t) ==
  /\ Goto(t, "retval", "user")
  /\ child' = Set(child, t, NoProc)
  /\ UNCHANGED <<thr, tmp, alloc, pids, sems, faulty>>

(* P(no_proc_sem) *)
Wait ==
  /\ Goto(menu, "wait", "prompt")
  /\ no_proc_sem > 0
  /\ no_proc_sem' = no_proc_sem - 1
  /\ UNCHANGED <<thr, child, tmp, alloc, pids, proc_count, count_mutex, faulty>>

-----------------------------------------------------------------------------
(* The life of a process.                                                  *)

(* runprogram or enter_forked_process reaches user mode. *)
Begin(t) ==
  /\ Goto(t, "start", "user")
  /\ UNCHANGED <<thr, child, tmp, alloc, pids, sems, faulty>>

(* runprogram returns an error: cmd_progthread returns to thread_startup,  *)
(* which calls thread_exit, which asserts that the thread has no process.  *)
LoadFails(t) ==
  /\ "load" \in Fails /\ ~forked[t]
  /\ Goto(t, "start", "start")
  /\ failed' = "thread_exit"
  /\ faults' = faults \cup {"load"}
  /\ UNCHANGED <<thr, child, tmp, alloc, pids, sems>>

(* sys__exit: the address space goes, the thread is detached. *)
Exit(t) ==
  /\ Goto(t, "user", "destroy")
  /\ child' = Set(child, t, t_proc[t])
  /\ t_proc' = Set(t_proc, t, NoProc)
  /\ UNCHANGED <<forked, tmp, alloc, pids, sems, faulty>>

(* proc_destroy frees the structure before it counts down. *)
Free(a) ==
  /\ Goto(a, "destroy", "dec.P")
  /\ alloc' = alloc \ {child[a]}
  /\ p_pid' = Set(p_pid, child[a], 0)
  /\ child' = Set(child, a, NoProc)
  /\ UNCHANGED <<thr, tmp, next_pid, sems, faulty>>

DecP(a) ==
  /\ Goto(a, "dec.P", "dec.read")
  /\ count_mutex > 0
  /\ count_mutex' = count_mutex - 1
  /\ UNCHANGED <<thr, child, tmp, alloc, pids, proc_count, no_proc_sem, faulty>>

DecRead(a) ==
  /\ Goto(a, "dec.read", "dec.write")
  /\ tmp' = Set(tmp, a, proc_count)
  /\ UNCHANGED <<thr, child, alloc, pids, sems, faulty>>

(* The count is stored, the menu woken on a condition, the mutex released, *)
(* and thread_exit ends the thread.                                        *)
CountDown(a, n, wake) ==
  /\ Goto(a, "dec.write", IF a = menu THEN "prompt" ELSE "none")
  /\ proc_count' = tmp[a] - n
  /\ no_proc_sem' = IF wake THEN no_proc_sem + 1 ELSE no_proc_sem
  /\ count_mutex' = count_mutex + 1
  /\ tmp' = Set(tmp, a, 0)
  /\ forked' = IF a = menu THEN forked ELSE Set(forked, a, FALSE)
  /\ UNCHANGED <<t_proc, child, alloc, pids, faulty>>

(* Faulty variant: every exit wakes the menu. *)
DecWriteAlwaysWakes(a) == CountDown(a, 1, TRUE)

(* Faulty variant: the count is tested before it is decremented. *)
DecWriteTestsFirst(a) == CountDown(a, 1, tmp[a] = 0)

(* The last process wakes the menu. *)
DecWrite(a) == CountDown(a, 1, tmp[a] - 1 = 0)

-----------------------------------------------------------------------------
Create(a) ==
  \/ Allocate(a) \/ SetPid(a) \/ AllocateFails(a)
  \/ IncP(a) \/ IncRead(a) \/ IncWrite(a)
  \/ StartThreadFails(a) \/ \E u \in Thread : StartThread(a, u)

Destroy(a) == Free(a) \/ DecP(a) \/ DecRead(a) \/ DecWrite(a)

MenuStep == Create(menu) \/ Destroy(menu) \/ Wait

ThreadStep(t) ==
  \/ Create(t) \/ Destroy(t)
  \/ ForkCall(t) \/ ReturnPid(t) \/ Begin(t) \/ LoadFails(t) \/ Exit(t)

Next == common_prog \/ MenuStep \/ \E t \in Thread : ThreadStep(t)

(* Every thread keeps executing, as the scheduler guarantees; a process    *)
(* that the bounds let fork no more can then only exit.                    *)
Spec ==
  /\ Init /\ [][Next]_vars
  /\ WF_vars(MenuStep)
  /\ \A t \in Thread : WF_vars(ThreadStep(t))

-----------------------------------------------------------------------------
(* The processes that are counted: created and counted, or freed and not   *)
(* yet counted down.                                                       *)
Uncounted == {child[a] : a \in {b \in Actor : pc[b] \in {"pid", "inc.P", "inc.read", "inc.write"}}}
Leaving == {a \in Actor : pc[a] \in {"dec.P", "dec.read", "dec.write"}}

(* proc_count counts the processes between proc_create_runprogram and the  *)
(* end of proc_destroy, however creations and exits on several processors  *)
(* interleave.                                                             *)
CountIsExact == proc_count = Cardinality(alloc \ Uncounted) + Cardinality(Leaving)

(* The menu waits "until the process we have just launched - and any       *)
(* others that it may fork - is finished before proceeding" (common_prog): *)
(* at its prompt there is no process, and no stale unit of no_proc_sem     *)
(* that would let the next command through.                                *)
MenuAlwaysWaits == pc[menu] = "prompt" => alloc = {} /\ proc_count = 0 /\ no_proc_sem = 0

(* The count that the menu's wait rests on is always exact, and the menu   *)
(* is never early until a thread_fork fails, out of memory or not.         *)
MenuWaits == CountIsExact /\ ("thread_fork" \notin faults => MenuAlwaysWaits)

(* A command comes back to the prompt once its processes have exited,      *)
(* unless something fails on the way.                                      *)
MenuResumes == pc[menu] = "wait" ~> pc[menu] = "prompt" \/ faults # {}

(* proc_destroy takes no lock "because we must have the only reference to  *)
(* this structure": the struct proc that sys_fork reads the child's pid    *)
(* from, after it has started the child, is still the child's.             *)
ForkReturnsItsChild ==
  \A t \in Thread : pc[t] = "retval" => child[t] \in alloc /\ child[t] \notin Uncounted
=============================================================================
