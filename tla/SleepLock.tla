------------------------------ MODULE SleepLock ------------------------------
(***************************************************************************)
(* The sleep lock of thread/synch.c: lock_acquire and lock_release, a      *)
(* holder pointer guarded by the spinlock lk_lock, with a wait channel for *)
(* the threads that find the lock taken.                                   *)
(*                                                                         *)
(* lk_pc[t] is "out" or "in" when t is in neither function: "in" from the  *)
(* return of lock_acquire to the call of lock_release.  The field held     *)
(* follows holder and nothing reads it, so it is left out.                 *)
(***************************************************************************)
EXTENDS Naturals, Sequences, FiniteSets, Functions

CONSTANTS
  User,      \* the threads that use the lock
  NoUser     \* nobody holds the lock

ASSUME LockAssumption == NoUser \notin User

VARIABLES
  lk_pc,       \* lk_pc[t]: where t is
  cont,        \* cont[t]: where lock_release returns to
  holder,      \* lock->holder
  lk_lock,     \* holder of the spinlock lk_lock
  lk_wclock,   \* holder of the spinlock of lk_wchan
  lk_threads,  \* the threads sleeping on lk_wchan, oldest first
  lk_target    \* lk_target[t]: the thread t took off the channel

lkvars == <<lk_pc, cont, holder, lk_lock, lk_wclock, lk_threads, lk_target>>

AcquireLabels == {"A.acquire", "A.test", "A.bridge", "A.sleep", "A.asleep"}
ReleaseLabels == {"R.acquire", "R.test", "R.wake", "R.ready", "R.unlock"}

LkInit ==
  /\ lk_pc = [t \in User |-> "out"]
  /\ cont = [t \in User |-> "out"]
  /\ holder = NoUser
  /\ lk_lock = NoUser
  /\ lk_wclock = NoUser
  /\ lk_threads = << >>
  /\ lk_target = [t \in User |-> NoUser]

LkGoto(t, from, to) ==
  /\ lk_pc[t] = from
  /\ lk_pc' = [lk_pc EXCEPT ![t] = to]

-----------------------------------------------------------------------------
(* lock_acquire *)

AcquireCall(t) ==
  /\ LkGoto(t, "out", "A.acquire")
  /\ UNCHANGED <<cont, holder, lk_lock, lk_wclock, lk_threads, lk_target>>

(* spinlock_acquire(&lock->lk_lock), on entry and again after a sleep. *)
AAcquire(t) ==
  /\ LkGoto(t, "A.acquire", "A.test")
  /\ lk_lock = NoUser
  /\ lk_lock' = t
  /\ UNCHANGED <<cont, holder, lk_wclock, lk_threads, lk_target>>

ATake(t) ==
  /\ LkGoto(t, "A.test", "in")
  /\ holder = NoUser
  /\ holder' = t
  /\ lk_lock' = NoUser
  /\ UNCHANGED <<cont, lk_wclock, lk_threads, lk_target>>

(* Faulty variant: lk_lock released before the channel is locked. *)
ABridgeTooLate(t) ==
  /\ LkGoto(t, "A.test", "A.sleep")
  /\ holder # NoUser
  /\ lk_lock' = NoUser
  /\ UNCHANGED <<cont, holder, lk_wclock, lk_threads, lk_target>>

(* The lock is taken: wchan_lock, with lk_lock still held. *)
ABridge(t) ==
  /\ LkGoto(t, "A.test", "A.bridge")
  /\ holder # NoUser
  /\ lk_wclock = NoUser
  /\ lk_wclock' = t
  /\ UNCHANGED <<cont, holder, lk_lock, lk_threads, lk_target>>

AUnlock(t) ==
  /\ LkGoto(t, "A.bridge", "A.sleep")
  /\ lk_lock' = NoUser
  /\ UNCHANGED <<cont, holder, lk_wclock, lk_threads, lk_target>>

ASleep(t) ==
  /\ LkGoto(t, "A.sleep", "A.asleep")
  /\ lk_threads' = Append(lk_threads, t)
  /\ lk_wclock' = NoUser
  /\ UNCHANGED <<cont, holder, lk_lock, lk_target>>

-----------------------------------------------------------------------------
(* lock_release: a thread that does not hold the lock may call it too, and *)
(* the call then does nothing.                                             *)

ReleaseCall(t) ==
  /\ LkGoto(t, "in", "R.acquire") \/ LkGoto(t, "out", "R.acquire")
  /\ cont' = [cont EXCEPT ![t] = "out"]
  /\ UNCHANGED <<holder, lk_lock, lk_wclock, lk_threads, lk_target>>

RAcquire(t) ==
  /\ LkGoto(t, "R.acquire", "R.test")
  /\ lk_lock = NoUser
  /\ lk_lock' = t
  /\ UNCHANGED <<cont, holder, lk_wclock, lk_threads, lk_target>>

RDrop(t) ==
  /\ LkGoto(t, "R.test", "R.wake")
  /\ holder = t
  /\ holder' = NoUser
  /\ UNCHANGED <<cont, lk_lock, lk_wclock, lk_threads, lk_target>>

RIgnore(t) ==
  /\ LkGoto(t, "R.test", "R.unlock")
  /\ holder # t
  /\ UNCHANGED <<cont, holder, lk_lock, lk_wclock, lk_threads, lk_target>>

(* wchan_wakeone, under the channel's lock, finds nobody... *)
RNobody(t) ==
  /\ LkGoto(t, "R.wake", "R.unlock")
  /\ lk_wclock = NoUser
  /\ lk_threads = << >>
  /\ UNCHANGED <<cont, holder, lk_lock, lk_wclock, lk_threads, lk_target>>

(* ... or takes the oldest sleeper off. *)
RWake(t) ==
  /\ LkGoto(t, "R.wake", "R.ready")
  /\ lk_wclock = NoUser
  /\ lk_threads # << >>
  /\ lk_target' = [lk_target EXCEPT ![t] = Head(lk_threads)]
  /\ lk_threads' = Tail(lk_threads)
  /\ UNCHANGED <<cont, holder, lk_lock, lk_wclock>>

(* thread_make_runnable: the sleeper returns from wchan_sleep. *)
RReady(t) ==
  /\ lk_pc[t] = "R.ready"
  /\ lk_pc' = [lk_pc EXCEPT ![t] = "R.unlock", ![lk_target[t]] = "A.acquire"]
  /\ lk_target' = [lk_target EXCEPT ![t] = NoUser]
  /\ UNCHANGED <<cont, holder, lk_lock, lk_wclock, lk_threads>>

RUnlock(t) ==
  /\ LkGoto(t, "R.unlock", cont[t])
  /\ lk_lock' = NoUser
  /\ UNCHANGED <<cont, holder, lk_wclock, lk_threads, lk_target>>

-----------------------------------------------------------------------------
(* Everything a thread does inside the two functions. *)
LkStep(t) ==
  \/ AAcquire(t) \/ ATake(t) \/ ABridge(t) \/ AUnlock(t) \/ ASleep(t)
  \/ RAcquire(t) \/ RDrop(t) \/ RIgnore(t) \/ RNobody(t) \/ RWake(t)
  \/ RReady(t) \/ RUnlock(t)

-----------------------------------------------------------------------------
(* Properties *)

LkInFlight(u) == \E t \in User : lk_pc[t] = "R.ready" /\ lk_target[t] = u

(* No release is lost between the test of holder and the sleep: while a    *)
(* thread waits, somebody holds the lock, or a thread on its way will look *)
(* at the holder again or wake one that will.                              *)
NoLostRelease ==
  (\E u \in User : lk_pc[u] = "A.sleep" \/ (lk_pc[u] = "A.asleep" /\ ~LkInFlight(u)))
  => \/ holder # NoUser
     \/ \E u \in User : lk_pc[u] \in {"A.acquire", "A.test", "R.wake", "R.ready"}

(* The channel holds the sleepers nobody has woken yet, each exactly once. *)
SleepersQueued ==
  /\ Range(lk_threads) = {u \in User : lk_pc[u] = "A.asleep" /\ ~LkInFlight(u)}
  /\ IsInjective(lk_threads)

-----------------------------------------------------------------------------
(* Where a thread is in AtomicLock. *)

AtOf(t) ==
  CASE lk_pc[t] \in {"out", "in"} -> lk_pc[t]
    [] lk_pc[t] \in AcquireLabels -> "acquiring"
    [] lk_pc[t] \in {"R.acquire", "R.test"} -> "releasing"
    [] OTHER -> "released"
=============================================================================
