------------------------------ MODULE Threads ------------------------------
(***************************************************************************)
(* The thread system in three views: processors, run queues and wait       *)
(* channels (Sched, as MCSched instantiates it), interrupt levels and      *)
(* spinlocks (Spl, with many threads or with many locks) and the linked    *)
(* lists of threads (ThreadList).  They are checked in one run: which one  *)
(* moves is chosen at the start, and the state of the others never         *)
(* changes.                                                                *)
(***************************************************************************)
EXTENDS MCSched

CONSTANTS
  View,  \* what to choose from: "sched", "spl", "locks", "list"
  Core,  \* the processors of Spl
  Spinlock, MaxHeld, None,
  List

VARIABLES
  view,
  irq, cur, s_idle, queue, curspl, count, cpu, holder, stack, asleep, slept, dead,
  next, prev, tl_count, lists, given, wanted

splvars == <<irq, cur, s_idle, queue, curspl, count, cpu, holder, stack, asleep, slept, dead>>
listvars == <<next, prev, tl_count, lists, given, wanted>>

SPL == INSTANCE Spl WITH Cpu <- Core, isidle <- s_idle
(* Two threads, one for each processor, and two locks. *)
LOCKS == INSTANCE Spl WITH Cpu <- Core, isidle <- s_idle, Thread <- {t0, t1}, Spinlock <- 1..2,
                           MaxHeld <- 2
LIST == INSTANCE ThreadList

(* Sched starts in one state; the state of the others is left out if they  *)
(* were not chosen.                                                        *)
ThreadsInit ==
  /\ view \in View /\ Init
  /\ \/ view = "spl" /\ SPL!SplInit
     \/ view = "locks" /\ LOCKS!SplInit
     \/ /\ view \notin {"spl", "locks"}
        /\ irq = None /\ cur = None /\ s_idle = None /\ queue = None /\ curspl = None /\ count = None
        /\ cpu = None /\ holder = None /\ stack = None /\ asleep = None /\ slept = None
        /\ dead = None
  /\ \/ view = "list" /\ LIST!ListInit
     \/ /\ view # "list"
        /\ next = None /\ prev = None /\ tl_count = None /\ lists = None /\ given = None /\ wanted = None

ThreadsNext ==
  \/ view = "sched" /\ Next /\ UNCHANGED <<view, splvars, listvars>>
  \/ view = "spl" /\ SPL!SplNext /\ UNCHANGED <<view, vars, listvars>>
  \/ view = "locks" /\ LOCKS!SplNext /\ UNCHANGED <<view, vars, listvars>>
  \* The kernel can stop once a thread has slept with a lock held.
  \/ view = "locks" /\ slept /\ UNCHANGED <<view, vars, splvars, listvars>>
  \/ view = "list" /\ LIST!ListNext /\ UNCHANGED <<view, vars, splvars>>
  \* A list can be at rest.
  \/ view = "list" /\ UNCHANGED <<view, vars, splvars, listvars>>

ThreadsSpec == ThreadsInit /\ [][ThreadsNext]_<<view, vars, splvars, listvars>>

-----------------------------------------------------------------------------
(* Interrupt levels are kept across locks, context switches and interrupts *)
(* (splraise, spllower, thread_switch, mips_trap), and so are the holders  *)
(* of spinlocks, unless a thread sleeps with one held as sys_write does.   *)
LevelsKept ==
  /\ view = "spl" => SPL!LevelsKept
  /\ view = "locks" => LOCKS!LevelsKept

(* A spinlock is held where the thread runs that took it, and no assertion *)
(* about holders fails, although a thread may sleep with one held.         *)
LocksFollowThreads == view = "locks" => LOCKS!LocksFollowThreads

(* The linked lists of threads are the sequences they stand for            *)
(* (threadlist.c).                                                         *)
ListsAreSequences == view = "list" => LIST!ListsAreSequences
=============================================================================
