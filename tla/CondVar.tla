------------------------------ MODULE CondVar ------------------------------
(***************************************************************************)
(* The condition variable of thread/synch.c, used with one SleepLock.      *)
(* cv_wait calls lock_release, locks the condition variable's channel,     *)
(* sleeps, and calls lock_acquire; nothing is held between the release and *)
(* the channel's lock.  cv_signal and cv_broadcast take no notice of the   *)
(* lock.                                                                   *)
(***************************************************************************)
EXTENDS SleepLock

VARIABLES
  cv_lock,     \* holder of the spinlock of cv_wchan
  cv_threads,  \* the threads sleeping on cv_wchan, oldest first
  woken        \* woken[t]: threads t took off the channel and has yet to ready

cvonly == <<cv_lock, cv_threads, woken>>
cvvars == <<lkvars, cvonly>>

WaitLabels == {"W.lock", "W.sleep", "W.asleep"}
WakeLabels == {"S.wake", "B.wake", "C.ready"}
CvInit ==
  /\ LkInit
  /\ cv_lock = NoUser
  /\ cv_threads = << >>
  /\ woken = [t \in User |-> << >>]

(* cv_wait starts with lock_release, whether or not the caller holds it. *)
WaitCall(t) ==
  /\ LkGoto(t, "in", "R.acquire") \/ LkGoto(t, "out", "R.acquire")
  /\ cont' = [cont EXCEPT ![t] = "W.lock"]
  /\ UNCHANGED <<holder, lk_lock, lk_wclock, lk_threads, lk_target, cvonly>>

WLock(t) ==
  /\ LkGoto(t, "W.lock", "W.sleep")
  /\ cv_lock = NoUser
  /\ cv_lock' = t
  /\ UNCHANGED <<cont, holder, lk_lock, lk_wclock, lk_threads, lk_target, cv_threads, woken>>

WSleep(t) ==
  /\ LkGoto(t, "W.sleep", "W.asleep")
  /\ cv_threads' = Append(cv_threads, t)
  /\ cv_lock' = NoUser
  /\ UNCHANGED <<cont, holder, lk_lock, lk_wclock, lk_threads, lk_target, woken>>

(* cv_signal and cv_broadcast return to where they were called from. *)
WakeCall(t, label) ==
  /\ LkGoto(t, "in", label) \/ LkGoto(t, "out", label)
  /\ cont' = [cont EXCEPT ![t] = lk_pc[t]]
  /\ UNCHANGED <<holder, lk_lock, lk_wclock, lk_threads, lk_target, cvonly>>

SignalCall(t) == WakeCall(t, "S.wake")
BroadcastCall(t) == WakeCall(t, "B.wake")

(* wchan_wakeone, under the channel's lock, takes at most one sleeper off. *)
SWake(t) ==
  /\ LkGoto(t, "S.wake", "C.ready")
  /\ cv_lock = NoUser
  /\ LET n == IF cv_threads = << >> THEN 0 ELSE 1 IN
     /\ woken' = [woken EXCEPT ![t] = SubSeq(cv_threads, 1, n)]
     /\ cv_threads' = SubSeq(cv_threads, n + 1, Len(cv_threads))
  /\ UNCHANGED <<cont, holder, lk_lock, lk_wclock, lk_threads, lk_target, cv_lock>>

(* Faulty variant: the sleepers stay on the channel. *)
BWakeInPlace(t) ==
  /\ LkGoto(t, "B.wake", "C.ready")
  /\ cv_lock = NoUser
  /\ woken' = [woken EXCEPT ![t] = cv_threads]
  /\ UNCHANGED <<cont, holder, lk_lock, lk_wclock, lk_threads, lk_target, cv_lock, cv_threads>>

(* wchan_wakeall, under the channel's lock, moves them all to a local list. *)
BWake(t) ==
  /\ LkGoto(t, "B.wake", "C.ready")
  /\ cv_lock = NoUser
  /\ woken' = [woken EXCEPT ![t] = cv_threads]
  /\ cv_threads' = << >>
  /\ UNCHANGED <<cont, holder, lk_lock, lk_wclock, lk_threads, lk_target, cv_lock>>

(* Faulty variant: cv_wait returns without the lock. *)
CReadyUnlocked(t) ==
  /\ lk_pc[t] = "C.ready"
  /\ woken[t] # << >>
  /\ lk_pc' = [lk_pc EXCEPT ![Head(woken[t])] = "in"]
  /\ woken' = [woken EXCEPT ![t] = Tail(@)]
  /\ UNCHANGED <<cont, holder, lk_lock, lk_wclock, lk_threads, lk_target, cv_lock, cv_threads>>

(* thread_make_runnable, one by one: the sleeper goes on to lock_acquire. *)
CReady(t) ==
  /\ lk_pc[t] = "C.ready"
  /\ woken[t] # << >>
  /\ lk_pc' = [lk_pc EXCEPT ![Head(woken[t])] = "A.acquire"]
  /\ woken' = [woken EXCEPT ![t] = Tail(@)]
  /\ UNCHANGED <<cont, holder, lk_lock, lk_wclock, lk_threads, lk_target, cv_lock, cv_threads>>

CReturn(t) ==
  /\ LkGoto(t, "C.ready", cont[t])
  /\ woken[t] = << >>
  /\ UNCHANGED <<cont, holder, lk_lock, lk_wclock, lk_threads, lk_target, cvonly>>

-----------------------------------------------------------------------------
(* Everything a thread does inside the functions of the lock and the cv. *)
CvStep(t) ==
  \/ LkStep(t) /\ UNCHANGED cvonly
  \/ WLock(t) \/ WSleep(t) \/ SWake(t) \/ BWake(t) \/ CReady(t) \/ CReturn(t)

CvNext ==
  \E t \in User :
    \/ CvStep(t)
    \/ (AcquireCall(t) \/ ReleaseCall(t)) /\ UNCHANGED cvonly
    \/ WaitCall(t) \/ SignalCall(t) \/ BroadcastCall(t)

CvSpec == CvInit /\ [][CvNext]_cvvars

-----------------------------------------------------------------------------
(* The threads asleep in cv_wait are those on the channel and those in the *)
(* hands of wakers, and none of them is there twice.                       *)
WaitersPlaced ==
  /\ IsInjective(cv_threads) /\ \A t \in User : IsInjective(woken[t])
  /\ \A t \in User : Range(woken[t]) \cap Range(cv_threads) = {}
  /\ \A t, u \in User : t # u => Range(woken[t]) \cap Range(woken[u]) = {}
  /\ \A u \in User :
       lk_pc[u] = "W.asleep" <=> \/ u \in Range(cv_threads)
                              \/ \E t \in User : u \in Range(woken[t])

(* A thread asleep in cv_wait is in exactly one place, the channel or the  *)
(* list of one waker, and in it once: signal and broadcast, racing, wake   *)
(* each waiter once and lose none that is on the channel.  The lock's      *)
(* channel holds the sleepers no lock_release has woken yet, each once.    *)
WaitersInOnePlace == SleepersQueued /\ WaitersPlaced

-----------------------------------------------------------------------------
(* Refinement *)

CvAtOf(t) ==
  CASE lk_pc[t] \in WaitLabels -> "out"
    [] lk_pc[t] \in WakeLabels -> cont[t]
    [] OTHER -> AtOf(t)

CvAtomic == INSTANCE AtomicLock
              WITH Thread <- User, NoThread <- NoUser, owner <- holder,
                   at <- [x \in User |-> CvAtOf(x)]

(* lock_acquire and lock_release behave as single atomic steps, as synch.h *)
(* requires ("These operations must be atomic"), also when they are called *)
(* by cv_wait: a thread asleep in cv_wait is outside the lock.             *)
LockIsAtomic == CvAtomic!Spec
=============================================================================
