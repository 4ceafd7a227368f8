-------------------------------- MODULE Spl --------------------------------
(***************************************************************************)
(* Interrupt levels: thread/spl.c, thread/spinlock.c, the interrupt part   *)
(* of mips_trap and what thread_switch, thread_startup and cpu_idle do to  *)
(* the level.                                                              *)
(*                                                                         *)
(* t_iplhigh_count belongs to a thread, a spinlock to a processor.  Both   *)
(* change hands in thread_switch, which takes the run queue's lock in one  *)
(* thread and releases it in another, perhaps inside a handler, perhaps    *)
(* in a thread that never took it.  What is done with interrupts off and   *)
(* seen by no other processor is one step with what follows it.            *)
(*                                                                         *)
(* A thread is a stack of frames: its own code or a handler's ("run"), and *)
(* the thread_switch that one is in.                                       *)
(***************************************************************************)
EXTENDS Integers, Sequences, FiniteSets, Functions

CONSTANTS
  Cpu, Thread,
  Spinlock,  \* spinlocks, those of wait channels among them, as numbers
  MaxHeld,   \* bound: the locks a piece of code holds
  None

VARIABLES
  irq,      \* irq[c]: interrupts are on (CST_IEc)
  cur,      \* cur[c]: c_curthread
  isidle,   \* c_isidle
  queue,    \* queue[c]: the threads on c_runqueue
  curspl,   \* t_curspl: 0 is IPL_NONE, 1 is IPL_HIGH
  count,    \* t_iplhigh_count
  cpu,      \* t_cpu
  holder,   \* lk_holder, of Spinlock and of each processor's run queue lock
  stack,    \* stack[t]: the frames of t, the innermost first
  asleep,   \* the threads on wait channels
  slept,    \* history: a thread has gone to sleep with a spinlock held
  dead      \* why the kernel stopped, or None

splvars == <<irq, cur, isidle, queue, curspl, count, cpu, holder, stack, asleep, slept, dead>>

(* pc; for code: the locks it holds, the level that its splhigh returned   *)
(* (-1: none), whether it is a handler and what mips_trap has to undo; for *)
(* thread_switch: its spl, the new state and the channel; the lock that is *)
(* being waited for.                                                       *)
Code == [pc |-> "run", held |-> {}, spl |-> -1, handler |-> FALSE, adjust |-> FALSE,
         to |-> "", chan |-> None, want |-> None]
Switch(to, chan, spl) == [Code EXCEPT !.pc = "place", !.to = to, !.chan = chan, !.spl = spl]

Running(t) == \E c \in Cpu : cur[c] = t

(* A thread is created at splhigh, with the count that goes with it.       *)
Created == 1

(* Every processor has a first thread, which does spl0 (mainbus_bootstrap, *)
(* cpu_hatch).                                                             *)
SplInit ==
  /\ cur \in Injection(Cpu, Thread)
  /\ irq = [c \in Cpu |-> FALSE] /\ isidle = irq /\ queue = [c \in Cpu |-> {}]
  /\ curspl = [t \in Thread |-> 1] /\ count = [t \in Thread |-> Created]
  /\ cpu = [t \in Thread |-> IF Running(t) THEN Inverse(cur, Cpu, Thread)[t] ELSE None]
  /\ holder = [lk \in Spinlock \cup Cpu |-> None]
  /\ stack = [t \in Thread |-> IF Running(t) THEN <<[Code EXCEPT !.pc = "spl0"]>> ELSE << >>]
  /\ asleep = {} /\ slept = FALSE /\ dead = None

-----------------------------------------------------------------------------
(* spl.c: the level of a processor and of the thread it runs *)

Level(c, t) == [irq |-> irq[c], spl |-> curspl[t], n |-> count[t]]

splraise(l) == [l EXCEPT !.irq = IF l.n = 0 THEN FALSE ELSE @, !.n = @ + 1]
spllower(l) == [l EXCEPT !.n = @ - 1, !.irq = IF l.n = 1 THEN TRUE ELSE @]

splx(l, spl) ==
  LET moved == CASE l.spl < spl -> splraise(l) [] l.spl > spl -> spllower(l) [] OTHER -> l
  IN [moved EXCEPT !.spl = spl]

SetLevel(c, t, l) ==
  /\ irq' = [irq EXCEPT ![c] = l.irq]
  /\ curspl' = [curspl EXCEPT ![t] = l.spl] /\ count' = [count EXCEPT ![t] = l.n]

-----------------------------------------------------------------------------
(* spinlock.c *)

Top(t) == stack[t][1]
SetStack(t, fs) == stack' = [stack EXCEPT ![t] = fs]
Under(t, f) == <<f>> \o Tail(stack[t])
SetTop(t, f) == SetStack(t, Under(t, f))
At(c, t, pc) == dead = None /\ cur[c] = t /\ Top(t).want = None /\ Top(t).pc = pc

(* From level l, t takes lk and goes on with the stack fs; it waits if     *)
(* another processor has the lock.  Taking a free lock is one step with    *)
(* splraise.                                                               *)
spinlock_acquire(c, t, l, lk, fs) ==
  /\ SetLevel(c, t, splraise(l))
  /\ CASE holder[lk] = c -> dead' = "deadlock" /\ UNCHANGED <<stack, holder>>
       [] holder[lk] = None -> /\ holder' = [holder EXCEPT ![lk] = c]
                               /\ SetStack(t, fs) /\ UNCHANGED dead
       [] OTHER -> SetStack(t, [fs EXCEPT ![1].want = lk]) /\ UNCHANGED <<holder, dead>>

testandset(c, t) ==
  /\ dead = None /\ cur[c] = t /\ Top(t).want # None /\ holder[Top(t).want] = None
  /\ holder' = [holder EXCEPT ![Top(t).want] = c] /\ SetTop(t, [Top(t) EXCEPT !.want = None])
  /\ UNCHANGED <<irq, cur, isidle, queue, curspl, count, cpu, asleep, slept, dead>>

(* spinlock_release, with the level set to l: spllower, and what follows. *)
spinlock_release(c, t, lks, l) ==
  IF \E lk \in lks : holder[lk] # c THEN dead' = "assertion" /\ UNCHANGED <<holder, irq, curspl, count>>
  ELSE /\ holder' = [lk \in DOMAIN holder |-> IF lk \in lks THEN None ELSE holder[lk]]
       /\ SetLevel(c, t, l) /\ UNCHANGED dead

-----------------------------------------------------------------------------
(* Code, of a thread or of a handler.  Locks are taken in the order of     *)
(* their numbers, as the kernel's are in a fixed order; releases and       *)
(* levels do not nest.                                                     *)

acquire(c, t) ==
  /\ At(c, t, "run") /\ Cardinality(Top(t).held) < MaxHeld
  /\ \E lk \in {k \in Spinlock : \A j \in Top(t).held : j < k} :
       spinlock_acquire(c, t, Level(c, t), lk, Under(t, [Top(t) EXCEPT !.held = @ \cup {lk}]))
  /\ UNCHANGED <<cur, isidle, queue, cpu, asleep, slept>>

release(c, t) ==
  /\ At(c, t, "run")
  /\ \E lk \in Top(t).held :
       /\ spinlock_release(c, t, {lk}, spllower(Level(c, t)))
       /\ SetTop(t, [Top(t) EXCEPT !.held = @ \ {lk}])
  /\ UNCHANGED <<cur, isidle, queue, cpu, asleep, slept>>

splhigh(c, t) ==
  /\ At(c, t, "run") /\ Top(t).spl = -1 /\ ~Top(t).handler
  /\ SetLevel(c, t, splx(Level(c, t), 1)) /\ SetTop(t, [Top(t) EXCEPT !.spl = curspl[t]])
  /\ UNCHANGED <<cur, isidle, queue, cpu, holder, asleep, slept, dead>>

restore(c, t) ==
  /\ At(c, t, "run") /\ Top(t).spl # -1
  /\ SetLevel(c, t, splx(Level(c, t), Top(t).spl)) /\ SetTop(t, [Top(t) EXCEPT !.spl = -1])
  /\ UNCHANGED <<cur, isidle, queue, cpu, holder, asleep, slept, dead>>

(* The beginning of thread_switch, called at level l by the frames fs: it  *)
(* returns at once on a processor that idles.                              *)
thread_switch(c, t, l, fs, to, chan) ==
  IF isidle[c]
  THEN SetLevel(c, t, splx(splx(l, 1), l.spl)) /\ SetStack(t, fs) /\ UNCHANGED <<holder, dead>>
  ELSE spinlock_acquire(c, t, splx(l, 1), c, <<Switch(to, chan, l.spl)>> \o fs)

(* A thread yields, and hardclock does so at the end of a handler. *)
thread_yield(c, t) ==
  /\ At(c, t, "run") /\ Top(t).held = {}
  /\ thread_switch(c, t, Level(c, t),
       Under(t, [Top(t) EXCEPT !.pc = IF Top(t).handler THEN "return" ELSE "run"]), "ready", None)
  /\ UNCHANGED <<cur, isidle, queue, cpu, asleep, slept>>

(* wchan_sleep: the lock of the channel is left to thread_switch.  The     *)
(* thread may hold others: sys_write, file_open and file_close call into   *)
(* the file system with filetable_spinlock held.                           *)
wchan_sleep(c, t) ==
  /\ At(c, t, "run") /\ ~Top(t).handler
  /\ \E lk \in Top(t).held :
       /\ thread_switch(c, t, Level(c, t), Under(t, [Top(t) EXCEPT !.held = @ \ {lk}]), "sleep", lk)
       /\ slept' = (slept \/ Top(t).held # {lk})
  /\ UNCHANGED <<cur, isidle, queue, cpu, asleep>>

thread_exit(c, t) ==
  /\ At(c, t, "run") /\ Top(t).held = {} /\ Top(t).spl = -1 /\ Len(stack[t]) = 1
  /\ thread_switch(c, t, splx(Level(c, t), 1), << >>, "zombie", None)
  /\ UNCHANGED <<cur, isidle, queue, cpu, asleep, slept>>

(* thread_fork raises the count of the new thread once more for the run    *)
(* queue's lock, which the thread will release in thread_startup.          *)
Unaccounted == Created  \* faulty variant
Forked == Created + 1

(* thread_make_runnable, of a new thread or of one on a wait channel, by   *)
(* a thread or a handler.  The lock is taken and released again.           *)
make_runnable(c, t, u, d) ==
  /\ At(c, t, "run") /\ holder[d] = None
  /\ queue' = [queue EXCEPT ![d] = @ \cup {u}]
  /\ UNCHANGED <<irq, cur, isidle, holder, slept, dead>>

thread_fork(c, t) ==
  /\ ~Top(t).handler
  /\ \E u \in Thread :
       /\ stack[u] = << >> /\ cpu' = [cpu EXCEPT ![u] = c] /\ make_runnable(c, t, u, c)
       /\ stack' = [stack EXCEPT ![u] = <<[Code EXCEPT !.pc = "startup"]>>]
       /\ curspl' = [curspl EXCEPT ![u] = 1] /\ count' = [count EXCEPT ![u] = Forked]
  /\ UNCHANGED asleep

wchan_wakeone(c, t) ==
  /\ \E u \in asleep : make_runnable(c, t, u, cpu[u]) /\ asleep' = asleep \ {u}
  /\ UNCHANGED <<curspl, count, cpu, stack>>

(* thread_consider_migration, in a handler, moves threads that are not     *)
(* running anywhere.                                                       *)
migrate(c, t) ==
  /\ At(c, t, "run") /\ Top(t).handler /\ holder[c] = None
  /\ \E d \in Cpu \ {c}, u \in {v \in queue[c] : ~Running(v)} :
       /\ holder[d] = None
       /\ queue' = [queue EXCEPT ![c] = @ \ {u}, ![d] = @ \cup {u}] /\ cpu' = [cpu EXCEPT ![u] = d]
  /\ UNCHANGED <<irq, cur, isidle, curspl, count, holder, stack, asleep, slept, dead>>

-----------------------------------------------------------------------------
(* mips_trap on an interrupt *)

Handler == [Code EXCEPT !.handler = TRUE]

interrupt(c, t) ==
  /\ dead = None /\ cur[c] = t /\ irq[c]
  /\ irq' = [irq EXCEPT ![c] = FALSE]
  /\ IF curspl[t] = 0 /\ count[t] # 0
     THEN dead' = "assertion" /\ UNCHANGED <<curspl, count, stack>>
     ELSE /\ stack' = [stack EXCEPT ![t] = <<[Handler EXCEPT !.adjust = curspl[t] = 0]>> \o @]
          /\ curspl' = [curspl EXCEPT ![t] = 1]
          /\ count' = [count EXCEPT ![t] = @ + 1 - curspl[t]]
          /\ UNCHANGED dead
  /\ UNCHANGED <<cur, isidle, queue, cpu, holder, asleep, slept>>

(* The handler has returned; so does the trap, with interrupts on. *)
handled(c, t) ==
  /\ \/ At(c, t, "return") \/ At(c, t, "run")
  /\ Top(t).handler /\ Top(t).held = {}
  /\ IF Top(t).adjust /\ (curspl[t] # 1 \/ count[t] # 1)
     THEN dead' = "assertion" /\ UNCHANGED <<irq, curspl, count, stack>>
     ELSE /\ stack' = [stack EXCEPT ![t] = Tail(@)] /\ irq' = [irq EXCEPT ![c] = TRUE]
          /\ curspl' = [curspl EXCEPT ![t] = IF Top(t).adjust THEN 0 ELSE @]
          /\ count' = [count EXCEPT ![t] = IF Top(t).adjust THEN @ - 1 ELSE @]
          /\ UNCHANGED dead
  /\ UNCHANGED <<cur, isidle, queue, cpu, holder, asleep, slept>>

-----------------------------------------------------------------------------
(* The rest of thread_switch *)

Return(t) == stack' = [stack EXCEPT ![t] = Tail(@)]

nothing_to_do(c, t) ==
  /\ At(c, t, "place") /\ Top(t).to = "ready" /\ queue[c] = {}
  /\ spinlock_release(c, t, {c}, splx(spllower(Level(c, t)), Top(t).spl)) /\ Return(t)
  /\ UNCHANGED <<cur, isidle, queue, cpu, asleep, slept>>

(* The thread goes where it belongs, before the next one is looked for; a  *)
(* channel is unlocked.  Both are under the run queue's lock.              *)
Placed(c, t) ==
  IF Top(t).to = "ready" /\ Top(t).pc = "place" THEN [queue EXCEPT ![c] = @ \cup {t}] ELSE queue
Sleeps(t) == Top(t).to = "sleep" /\ Top(t).pc = "place"
Unlocked(t) == IF Sleeps(t) THEN {Top(t).chan} ELSE {}
After(c, t) == IF Sleeps(t) THEN spllower(Level(c, t)) ELSE Level(c, t)

Leaves(c, t) ==
  /\ \/ At(c, t, "place") /\ ~(Top(t).to = "ready" /\ queue[c] = {})
     \/ At(c, t, "next")
  /\ asleep' = IF Sleeps(t) THEN asleep \cup {t} ELSE asleep

(* No thread is ready: the queue is unlocked and cpu_idle waits for an     *)
(* interrupt, turning interrupts on and off again.                         *)
cpu_idle(c, t) ==
  /\ Leaves(c, t) /\ Placed(c, t)[c] = {}
  /\ isidle' = [isidle EXCEPT ![c] = TRUE]
  /\ spinlock_release(c, t, Unlocked(t) \cup {c}, [spllower(After(c, t)) EXCEPT !.irq = TRUE])
  /\ SetTop(t, [Top(t) EXCEPT !.pc = "irqon"])
  /\ UNCHANGED <<cur, queue, cpu, slept>>

cpu_irqoff(c, t) ==
  /\ At(c, t, "irqon")
  /\ spinlock_acquire(c, t, [Level(c, t) EXCEPT !.irq = FALSE], c,
       Under(t, [Top(t) EXCEPT !.pc = "next"]))
  /\ UNCHANGED <<cur, isidle, queue, cpu, asleep, slept>>

switchframe_switch(c, t) ==
  /\ Leaves(c, t)
  /\ \E u \in Placed(c, t)[c] :
       /\ queue' = [Placed(c, t) EXCEPT ![c] = @ \ {u}] /\ cur' = [cur EXCEPT ![c] = u]
       /\ SetTop(t, [Top(t) EXCEPT !.pc = "tail"])
  /\ isidle' = [isidle EXCEPT ![c] = FALSE]
  /\ spinlock_release(c, t, Unlocked(t), After(c, t))
  /\ UNCHANGED <<cpu, slept>>

(* The threads that exited on c are destroyed. *)
exorcise(c) ==
  [u \in Thread |-> IF stack[u] # << >> /\ Top(u).to = "zombie" /\ cpu[u] = c THEN << >> ELSE stack[u]]

(* In the thread switched to: the run queue's lock and the level. *)
switch_tail(c, t) ==
  /\ At(c, t, "tail")
  /\ spinlock_release(c, t, {c}, splx(spllower(Level(c, t)), Top(t).spl))
  /\ stack' = [exorcise(c) EXCEPT ![t] = Tail(@)]
  /\ UNCHANGED <<cur, isidle, queue, cpu, asleep, slept>>

thread_startup(c, t) ==
  /\ At(c, t, "startup")
  /\ spinlock_release(c, t, {c}, splx(spllower(Level(c, t)), 0))
  /\ stack' = [exorcise(c) EXCEPT ![t] = <<Code>>]
  /\ UNCHANGED <<cur, isidle, queue, cpu, asleep, slept>>

spl0(c, t) ==
  /\ At(c, t, "spl0")
  /\ SetLevel(c, t, splx(Level(c, t), 0)) /\ SetTop(t, Code)
  /\ UNCHANGED <<cur, isidle, queue, cpu, holder, asleep, slept, dead>>

Switching(c, t) ==
  \/ nothing_to_do(c, t) \/ cpu_idle(c, t) \/ cpu_irqoff(c, t)
  \/ switchframe_switch(c, t) \/ switch_tail(c, t)

SplStep(c, t) ==
  \/ testandset(c, t) \/ acquire(c, t) \/ release(c, t) \/ splhigh(c, t) \/ restore(c, t)
  \/ thread_yield(c, t) \/ wchan_sleep(c, t) \/ thread_exit(c, t) \/ thread_fork(c, t)
  \/ wchan_wakeone(c, t) \/ migrate(c, t) \/ interrupt(c, t) \/ handled(c, t)
  \/ Switching(c, t) \/ thread_startup(c, t) \/ spl0(c, t)

SplNext == \E c \in Cpu : SplStep(c, cur[c])

-----------------------------------------------------------------------------
(* t waits in cpu_idle with interrupts on. *)
Idling(t) == Top(t).pc = "irqon"

(* The spinlocks that t has taken or is taking, and not released: those of *)
(* its code and handlers, and that of the channel it is going to sleep on. *)
Locks(t) ==
  UNION {stack[t][i].held : i \in 1..Len(stack[t])} \cup Unlocked(t)

(* The levels are kept across context switches, interrupts and wakeups     *)
(* (splraise, spllower, thread_switch, mips_trap): interrupts are on       *)
(* exactly when the running thread's count is zero, or while its processor *)
(* idles; a thread's count is what splhigh, its spinlocks and the run      *)
(* queue's lock add up to, although that lock is taken in one thread and   *)
(* released in another; and as long as no thread has gone to sleep with a  *)
(* spinlock held, a processor holds exactly the locks of the thread it     *)
(* runs, and no assertion about levels and holders fails.                  *)
(*                                                                         *)
(* After such a sleep the counts are still right, but a lock names a       *)
(* processor that its thread may have left: see LocksFollowThreads.        *)
LevelsKept ==
  /\ slept \/ dead = None
  /\ dead = None =>
       /\ \A c \in Cpu : LET t == cur[c] IN
            /\ irq[c] <=> count[t] = 0 \/ Idling(t)
            /\ count[t] = curspl[t] + Cardinality(Locks(t)) + (IF holder[c] = c THEN 1 ELSE 0)
            /\ slept \/ {lk \in Spinlock : holder[lk] = c} = Locks(t) \ {Top(t).want}
       /\ \A t \in Thread : stack[t] # << >> /\ ~Running(t) =>
            curspl[t] = 1 /\ count[t] = 2 + Cardinality(Locks(t))

(* No assertion about levels and holders ever fails, and a spinlock is     *)
(* held by the processor that runs the thread which took it.  sys_write,   *)
(* file_open and file_close make this false.                               *)
LocksFollowThreads ==
  /\ dead = None
  /\ \A c \in Cpu : {lk \in Spinlock : holder[lk] = c} = Locks(cur[c]) \ {Top(cur[c]).want}
=============================================================================
