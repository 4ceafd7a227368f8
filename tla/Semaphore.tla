------------------------------ MODULE Semaphore ------------------------------
(***************************************************************************)
(* Counting semaphores: P() and V() of thread/synch.c on top of a spinlock *)
(* and a wait channel (thread/thread.c).                                   *)
(*                                                                         *)
(* One step is what a thread does between two points where another         *)
(* processor can see or change the semaphore.  A thread that holds a       *)
(* spinlock runs with interrupts off and cannot leave its processor, so    *)
(* the lock is modelled as held by the thread.  pc[t] = "run" means that t *)
(* is outside P and V.  An interrupt handler is a thread that never calls  *)
(* P: P asserts that it is not in an interrupt.                            *)
(***************************************************************************)
EXTENDS Naturals, Sequences, FiniteSets, Functions

CONSTANTS
  Thread,        \* kernel threads and interrupt handlers
  Handler,       \* the members of Thread that are interrupt handlers
  Sem,           \* the semaphores
  NoThread,      \* a free spinlock; no target
  NoSem,         \* the argument of a thread outside P and V
  InitialCount,  \* the counts given to sem_create
  MaxCount       \* bound: V is not called on a count this high

ASSUME SemAssumption ==
  /\ NoThread \notin Thread
  /\ NoSem \notin Sem
  /\ IsFiniteSet(Thread)
  /\ Handler \subseteq Thread
  /\ MaxCount \in Nat
  /\ InitialCount \in [Sem -> Nat]

VARIABLES
  pc,          \* pc[t]: where in P or V thread t is
  arg,         \* arg[t]: the semaphore t is operating on, or NoSem
  sem_count,   \* sem_count[s]
  sem_lock,    \* sem_lock[s]: holder of the semaphore's spinlock
  wc_lock,     \* wc_lock[s]: holder of the wait channel's spinlock
  wc_threads,  \* wc_threads[s]: the sleeping threads, oldest first
  target       \* target[t]: the thread V took off the channel

vars == <<pc, arg, sem_count, sem_lock, wc_lock, wc_threads, target>>

Labels == {"run", "P.acquire", "P.test", "P.bridge", "P.sleep", "asleep",
           "V.acquire", "V.inc", "V.wake", "V.ready", "V.unlock"}

(* The variables have their types; in particular a count is never          *)
(* negative: P asserts that it is positive before it takes one.            *)
TypeOK ==
  /\ pc \in [Thread -> Labels]
  /\ arg \in [Thread -> Sem \cup {NoSem}]
  /\ sem_count \in [Sem -> Nat]
  /\ sem_lock \in [Sem -> Thread \cup {NoThread}]
  /\ wc_lock \in [Sem -> Thread \cup {NoThread}]
  /\ wc_threads \in [Sem -> Seq(Thread)]
  /\ target \in [Thread -> Thread \cup {NoThread}]

Init ==
  /\ pc = [t \in Thread |-> "run"]
  /\ arg = [t \in Thread |-> NoSem]
  /\ sem_count = InitialCount
  /\ sem_lock = [s \in Sem |-> NoThread]
  /\ wc_lock = [s \in Sem |-> NoThread]
  /\ wc_threads = [s \in Sem |-> << >>]
  /\ target = [t \in Thread |-> NoThread]

Goto(t, label) == pc' = [pc EXCEPT ![t] = label]

Return(t) ==
  /\ Goto(t, "run")
  /\ arg' = [arg EXCEPT ![t] = NoSem]

-----------------------------------------------------------------------------
(* P *)

PCall(t, s) ==
  /\ pc[t] = "run"
  /\ t \notin Handler
  /\ Goto(t, "P.acquire")
  /\ arg' = [arg EXCEPT ![t] = s]
  /\ UNCHANGED <<sem_count, sem_lock, wc_lock, wc_threads, target>>

(* spinlock_acquire(&sem->sem_lock), on entry and again after a sleep. *)
PAcquire(t) ==
  /\ pc[t] = "P.acquire"
  /\ sem_lock[arg[t]] = NoThread
  /\ sem_lock' = [sem_lock EXCEPT ![arg[t]] = t]
  /\ Goto(t, "P.test")
  /\ UNCHANGED <<arg, sem_count, wc_lock, wc_threads, target>>

(* Faulty variants: no test of the count; no decrement. *)
PTakeUntested(t) ==
  /\ pc[t] = "P.test"
  /\ sem_count' = [sem_count EXCEPT ![arg[t]] = @ - 1]
  /\ sem_lock' = [sem_lock EXCEPT ![arg[t]] = NoThread]
  /\ Return(t)
  /\ UNCHANGED <<wc_lock, wc_threads, target>>

PTakeNothing(t) ==
  /\ pc[t] = "P.test"
  /\ sem_count[arg[t]] > 0
  /\ sem_lock' = [sem_lock EXCEPT ![arg[t]] = NoThread]
  /\ Return(t)
  /\ UNCHANGED <<sem_count, wc_lock, wc_threads, target>>

(* The count is positive: take one and return. *)
PTake(t) ==
  /\ pc[t] = "P.test"
  /\ sem_count[arg[t]] > 0
  /\ sem_count' = [sem_count EXCEPT ![arg[t]] = @ - 1]
  /\ sem_lock' = [sem_lock EXCEPT ![arg[t]] = NoThread]
  /\ Return(t)
  /\ UNCHANGED <<wc_lock, wc_threads, target>>

(* Faulty variant: sem_lock released before the channel is locked. *)
PBridgeTooLate(t) ==
  /\ pc[t] = "P.test"
  /\ sem_count[arg[t]] = 0
  /\ sem_lock' = [sem_lock EXCEPT ![arg[t]] = NoThread]
  /\ Goto(t, "P.sleep")
  /\ UNCHANGED <<arg, sem_count, wc_lock, wc_threads, target>>

(* The count is zero: wchan_lock, with sem_lock still held. *)
PBridge(t) ==
  /\ pc[t] = "P.test"
  /\ sem_count[arg[t]] = 0
  /\ wc_lock[arg[t]] = NoThread
  /\ wc_lock' = [wc_lock EXCEPT ![arg[t]] = t]
  /\ Goto(t, "P.bridge")
  /\ UNCHANGED <<arg, sem_count, sem_lock, wc_threads, target>>

PUnlock(t) ==
  /\ pc[t] = "P.bridge"
  /\ sem_lock' = [sem_lock EXCEPT ![arg[t]] = NoThread]
  /\ Goto(t, "P.sleep")
  /\ UNCHANGED <<arg, sem_count, wc_lock, wc_threads, target>>

(* wchan_sleep: thread_switch queues the thread, then unlocks the channel. *)
PSleep(t) ==
  /\ pc[t] = "P.sleep"
  /\ wc_threads' = [wc_threads EXCEPT ![arg[t]] = Append(@, t)]
  /\ wc_lock' = [wc_lock EXCEPT ![arg[t]] = NoThread]
  /\ Goto(t, "asleep")
  /\ UNCHANGED <<arg, sem_count, sem_lock, target>>

-----------------------------------------------------------------------------
(* V *)

VCall(t, s) ==
  /\ pc[t] = "run"
  /\ sem_count[s] < MaxCount
  /\ Goto(t, "V.acquire")
  /\ arg' = [arg EXCEPT ![t] = s]
  /\ UNCHANGED <<sem_count, sem_lock, wc_lock, wc_threads, target>>

VAcquire(t) ==
  /\ pc[t] = "V.acquire"
  /\ sem_lock[arg[t]] = NoThread
  /\ sem_lock' = [sem_lock EXCEPT ![arg[t]] = t]
  /\ Goto(t, "V.inc")
  /\ UNCHANGED <<arg, sem_count, wc_lock, wc_threads, target>>

(* Faulty variant: sem_lock released before wchan_wakeone. *)
VIncUnlocked(t) ==
  /\ pc[t] = "V.inc"
  /\ sem_count' = [sem_count EXCEPT ![arg[t]] = @ + 1]
  /\ sem_lock' = [sem_lock EXCEPT ![arg[t]] = NoThread]
  /\ Goto(t, "V.wake")
  /\ UNCHANGED <<arg, wc_lock, wc_threads, target>>

VInc(t) ==
  /\ pc[t] = "V.inc"
  /\ sem_count' = [sem_count EXCEPT ![arg[t]] = @ + 1]
  /\ Goto(t, "V.wake")
  /\ UNCHANGED <<arg, sem_lock, wc_lock, wc_threads, target>>

(* wchan_wakeone, under the channel's lock, finds nobody... *)
VNobody(t) ==
  /\ pc[t] = "V.wake"
  /\ wc_lock[arg[t]] = NoThread
  /\ wc_threads[arg[t]] = << >>
  /\ Goto(t, "V.unlock")
  /\ UNCHANGED <<arg, sem_count, sem_lock, wc_lock, wc_threads, target>>

(* Faulty variant: the sleeper stays on the channel. *)
VWakeInPlace(t) ==
  /\ pc[t] = "V.wake"
  /\ wc_lock[arg[t]] = NoThread
  /\ wc_threads[arg[t]] # << >>
  /\ target' = [target EXCEPT ![t] = Head(wc_threads[arg[t]])]
  /\ Goto(t, "V.ready")
  /\ UNCHANGED <<arg, sem_count, sem_lock, wc_lock, wc_threads>>

(* ... or takes the oldest sleeper off. *)
VWake(t) ==
  /\ pc[t] = "V.wake"
  /\ wc_lock[arg[t]] = NoThread
  /\ wc_threads[arg[t]] # << >>
  /\ target' = [target EXCEPT ![t] = Head(wc_threads[arg[t]])]
  /\ wc_threads' = [wc_threads EXCEPT ![arg[t]] = Tail(@)]
  /\ Goto(t, "V.ready")
  /\ UNCHANGED <<arg, sem_count, sem_lock, wc_lock>>

(* thread_make_runnable: the sleeper returns from wchan_sleep. *)
VReady(t) ==
  /\ pc[t] = "V.ready"
  /\ pc' = [pc EXCEPT ![t] = "V.unlock", ![target[t]] = "P.acquire"]
  /\ target' = [target EXCEPT ![t] = NoThread]
  /\ UNCHANGED <<arg, sem_count, sem_lock, wc_lock, wc_threads>>

VUnlock(t) ==
  /\ pc[t] = "V.unlock"
  /\ sem_lock' = [sem_lock EXCEPT ![arg[t]] = NoThread]
  /\ Return(t)
  /\ UNCHANGED <<sem_count, wc_lock, wc_threads, target>>

-----------------------------------------------------------------------------
(* Everything a thread does inside P and V. *)
Step(t) ==
  \/ PAcquire(t) \/ PTake(t) \/ PBridge(t) \/ PUnlock(t) \/ PSleep(t)
  \/ VAcquire(t) \/ VInc(t) \/ VNobody(t) \/ VWake(t) \/ VReady(t) \/ VUnlock(t)

Next ==
  \E t \in Thread : Step(t) \/ \E s \in Sem : PCall(t, s) \/ VCall(t, s)

Spec == Init /\ [][Next]_vars

-----------------------------------------------------------------------------
(* Properties *)

InFlight(u) == \E t \in Thread : pc[t] = "V.ready" /\ target[t] = u

(* The threads that wait for a wakeup on s: on the channel, or between the *)
(* release of sem_lock and thread_switch putting them there.               *)
Blocked(s) ==
  {u \in Thread : /\ arg[u] = s
                   /\ \/ pc[u] = "P.sleep"
                      \/ pc[u] = "asleep" /\ ~InFlight(u)}

(* The threads that will look at the count of s again, or wake one that    *)
(* will.                                                                   *)
Active(s) ==
  {u \in Thread : /\ arg[u] = s
                   /\ pc[u] \in {"P.acquire", "P.test", "V.wake", "V.ready"}}

(* No wakeup is lost between the test of the count and the sleep: as long  *)
(* as a thread waits in P, every unit of the count is matched by a thread  *)
(* on its way to take it.  This is what "bridging" from sem_lock to the    *)
(* channel's lock in P is for.                                             *)
NoLostWakeup ==
  \A s \in Sem : Blocked(s) # {} => sem_count[s] <= Cardinality(Active(s))

(* A sleeper is woken once: it is on the channel of the semaphore it waits *)
(* for, exactly once, until one V takes it off; and nothing else is there. *)
WokenOnce ==
  /\ \A s \in Sem :
       /\ Range(wc_threads[s]) =
            {u \in Thread : arg[u] = s /\ pc[u] = "asleep" /\ ~InFlight(u)}
       /\ IsInjective(wc_threads[s])
  /\ \A t, u \in Thread :
       pc[t] = "V.ready" /\ pc[u] = "V.ready" /\ target[t] = target[u] => t = u

-----------------------------------------------------------------------------
(* Refinement: the operations are atomic. *)

OpOf(t) ==
  CASE pc[t] = "run" -> <<"none">>
    [] pc[t] \in {"P.acquire", "P.test", "P.bridge", "P.sleep", "asleep"} ->
         <<"P", arg[t]>>
    [] pc[t] \in {"V.acquire", "V.inc"} -> <<"V", arg[t]>>
    [] OTHER -> <<"V.done", arg[t]>>

Atomic == INSTANCE AtomicSemaphore
            WITH count <- sem_count, op <- [t \in Thread |-> OpOf(t)]

(* P and V behave as single atomic steps, as synch.h requires of them: P   *)
(* takes effect at its decrement, V at its increment, and a thread returns *)
(* from P only by taking a unit that was there.                            *)
AtomicSpec == Atomic!Spec
=============================================================================
