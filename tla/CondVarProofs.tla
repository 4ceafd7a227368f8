--------------------------- MODULE CondVarProofs ---------------------------
(***************************************************************************)
(* Proofs about the sleep lock and the condition variable (CondVar), for   *)
(* any number of threads.                                                  *)
(***************************************************************************)
EXTENDS CondVar, TLAPS

CvLabels == {"out", "in"} \cup AcquireLabels \cup ReleaseLabels \cup WaitLabels \cup WakeLabels

CvTypeOK ==
  /\ lk_pc \in [User -> CvLabels]
  /\ cont \in [User -> {"out", "in", "W.lock"}]
  /\ holder \in User \cup {NoUser}
  /\ lk_lock \in User \cup {NoUser}
  /\ lk_wclock \in User \cup {NoUser}
  /\ lk_threads \in Seq(User)
  /\ lk_target \in [User -> User \cup {NoUser}]
  /\ cv_threads \in Seq(User)
  /\ woken \in [User -> Seq(User)]

(* Where a thread holds lk_lock, and where the spinlock of lk_wchan. *)
HoldsLkLock(t) == lk_pc[t] \in {"A.test", "A.bridge", "R.test", "R.wake", "R.ready", "R.unlock"}
HoldsChannel(t) == lk_pc[t] \in {"A.bridge", "A.sleep"}

(* The facts about control that the other invariants rest on. *)
CvControl ==
  /\ \A t \in User : (lk_lock = t) <=> HoldsLkLock(t)
  /\ \A t \in User : (lk_wclock = t) <=> HoldsChannel(t)
  /\ \A t \in User : lk_pc[t] = "A.bridge" => holder # NoUser
  /\ \A t \in User : lk_pc[t] = "R.ready" => lk_target[t] \in User /\ lk_pc[lk_target[t]] = "A.asleep"
  /\ \A t \in User : lk_pc[t] \in ReleaseLabels => cont[t] \in {"out", "W.lock"}
  /\ \A t \in User : lk_pc[t] \in WakeLabels => cont[t] \in {"out", "in"}
  /\ \A t \in User : lk_pc[t] # "C.ready" => woken[t] = << >>

(* Between the return of lock_acquire and the call of lock_release or      *)
(* cv_wait, also in a call of cv_signal or cv_broadcast there.             *)
Inside(t) == lk_pc[t] = "in" \/ (lk_pc[t] \in WakeLabels /\ cont[t] = "in")

(* A thread inside the lock is its holder, so there is one at most: the    *)
(* lock of synch.c excludes, whatever cv_wait does with it and whoever     *)
(* calls lock_release without holding it.                                  *)
MutualExclusion == \A t \in User : Inside(t) => holder = t

(* Who holds the lock is inside it or on the way out through lock_release. *)
HolderKnown == \A t \in User : holder = t => Inside(t) \/ lk_pc[t] \in {"R.acquire", "R.test"}

IInv ==
  CvTypeOK /\ CvControl /\ WaitersInOnePlace /\ NoLostRelease /\ MutualExclusion /\ HolderKnown

-----------------------------------------------------------------------------
(* Queues without duplicates, such as wait channels.  Adding an element    *)
(* that is not in the queue.                                               *)
LEMMA AppendElements ==
  ASSUME NEW T, NEW q \in Seq(T), NEW x \in T, x \notin Range(q), IsInjective(q)
  PROVE  /\ Append(q, x) \in Seq(T)
         /\ Range(Append(q, x)) = Range(q) \cup {x}
         /\ IsInjective(Append(q, x))
<1> DEFINE r == Append(q, x)
<1>1. /\ DOMAIN q = 1..Len(q) /\ Len(q) \in Nat
      /\ DOMAIN r = 1..(Len(q) + 1)
      /\ \A i \in 1..Len(q) : r[i] = q[i]
      /\ r[Len(q) + 1] = x
      /\ r \in Seq(T)
  OBVIOUS
<1> HIDE DEF r
<1>2. IsInjective(r)
  BY <1>1 DEF IsInjective, Range
<1>3. Range(r) \subseteq Range(q) \cup {x}
  BY <1>1 DEF Range
<1>4. Range(q) \cup {x} \subseteq Range(r)
  BY <1>1 DEF Range
<1> QED
  BY <1>1, <1>2, <1>3, <1>4 DEF r

(* Removing the first element. *)
LEMMA TailElements ==
  ASSUME NEW T, NEW q \in Seq(T), q # << >>, IsInjective(q)
  PROVE  /\ Tail(q) \in Seq(T)
         /\ Head(q) \in Range(q) /\ Head(q) \in T
         /\ Range(Tail(q)) = Range(q) \ {Head(q)}
         /\ IsInjective(Tail(q))
<1> DEFINE r == Tail(q)
           h == Head(q)
<1>1. /\ DOMAIN q = 1..Len(q) /\ Len(q) \in Nat /\ Len(q) >= 1
      /\ DOMAIN r = 1..(Len(q) - 1)
      /\ \A i \in 1..(Len(q) - 1) : r[i] = q[i + 1]
      /\ h = q[1]
      /\ r \in Seq(T) /\ h \in T
  OBVIOUS
<1> HIDE DEF r, h
<1>2. IsInjective(r)
  BY <1>1 DEF IsInjective
<1>3. ASSUME NEW y \in Range(r) PROVE y \in Range(q) \ {h}
  <2>1. PICK i \in 1..(Len(q) - 1) : r[i] = y
    BY <1>1 DEF Range
  <2>2. i + 1 \in 1..Len(q) /\ i + 1 # 1 /\ q[i + 1] = y
    BY <1>1, <2>1
  <2>3. y # h
    BY <1>1, <2>2 DEF IsInjective
  <2> QED
    BY <1>1, <2>2, <2>3 DEF Range
<1>4. ASSUME NEW y \in Range(q) \ {h} PROVE y \in Range(r)
  <2>1. PICK i \in 1..Len(q) : q[i] = y
    BY <1>1 DEF Range
  <2>2. i # 1 /\ i - 1 \in 1..(Len(q) - 1) /\ r[i - 1] = y
    BY <1>1, <2>1
  <2> QED
    BY <1>1, <2>2 DEF Range
<1>5. h \in Range(q)
  BY <1>1 DEF Range
<1> QED
  BY <1>1, <1>2, <1>3, <1>4, <1>5 DEF r, h

(* The empty queue, and a queue of one. *)
LEMMA EmptyElements == Range(<< >>) = {} /\ IsInjective(<< >>)
  BY DEF Range, IsInjective

(* A sequence of one element holds that element, once. *)
LEMMA OneElement ==
  ASSUME NEW x
  PROVE  Range(<<x>>) = {x} /\ IsInjective(<<x>>)
  BY DEF Range, IsInjective

(* The first element and the others, as slices. *)
LEMMA FirstAndRest ==
  ASSUME NEW T, NEW q \in Seq(T), q # << >>
  PROVE  SubSeq(q, 1, 1) = <<Head(q)>> /\ SubSeq(q, 2, Len(q)) = Tail(q)
<1>1. Len(q) \in Nat /\ Len(q) >= 1 /\ q[1] \in T /\ Head(q) = q[1]
  OBVIOUS
<1>2. /\ SubSeq(q, 1, 1) \in Seq(T) /\ Len(SubSeq(q, 1, 1)) = 1
      /\ SubSeq(q, 1, 1)[1] = q[1]
  <2>1. \A i \in 1..1 : q[i] \in T
    BY <1>1
  <2> QED
    BY <2>1
<1>3. <<Head(q)>> \in Seq(T) /\ Len(<<Head(q)>>) = 1 /\ <<Head(q)>>[1] = q[1]
  BY <1>1
<1> DEFINE a == SubSeq(q, 1, 1)
           h == <<Head(q)>>
<1>4. a = [i \in 1..1 |-> a[i]] /\ h = [i \in 1..1 |-> h[i]] /\ a[1] = h[1]
  BY <1>2, <1>3
<1>5. a = h
  <2> HIDE DEF a, h
  <2> QED
    BY <1>4
<1> QED
  BY <1>5

-----------------------------------------------------------------------------
(* Every step respects the types of the variables. *)
LEMMA TypeStep ==
  ASSUME CvTypeOK, CvControl, WaitersInOnePlace, [CvNext]_cvvars
  PROVE  CvTypeOK'
<1> USE LockAssumption DEF CvTypeOK, CvLabels, AcquireLabels, ReleaseLabels, WaitLabels, WakeLabels, LkGoto
<1>1. ASSUME NEW t \in User, AcquireCall(t), UNCHANGED cvonly PROVE CvTypeOK'
  BY <1>1 DEF AcquireCall, cvonly
<1>2. ASSUME NEW t \in User, AAcquire(t), UNCHANGED cvonly PROVE CvTypeOK'
  BY <1>2 DEF AAcquire, cvonly
<1>3. ASSUME NEW t \in User, ATake(t), UNCHANGED cvonly PROVE CvTypeOK'
  BY <1>3 DEF ATake, cvonly
<1>4. ASSUME NEW t \in User, ABridge(t), UNCHANGED cvonly PROVE CvTypeOK'
  BY <1>4 DEF ABridge, cvonly
<1>5. ASSUME NEW t \in User, AUnlock(t), UNCHANGED cvonly PROVE CvTypeOK'
  BY <1>5 DEF AUnlock, cvonly
<1>6. ASSUME NEW t \in User, ASleep(t), UNCHANGED cvonly PROVE CvTypeOK'
  BY <1>6 DEF ASleep, cvonly
<1>7. ASSUME NEW t \in User, ReleaseCall(t), UNCHANGED cvonly PROVE CvTypeOK'
  BY Zenon, <1>7 DEF ReleaseCall, cvonly
<1>8. ASSUME NEW t \in User, RAcquire(t), UNCHANGED cvonly PROVE CvTypeOK'
  BY <1>8 DEF RAcquire, cvonly
<1>9. ASSUME NEW t \in User, RDrop(t), UNCHANGED cvonly PROVE CvTypeOK'
  BY <1>9 DEF RDrop, cvonly
<1>10. ASSUME NEW t \in User, RIgnore(t), UNCHANGED cvonly PROVE CvTypeOK'
  BY <1>10 DEF RIgnore, cvonly
<1>11. ASSUME NEW t \in User, RNobody(t), UNCHANGED cvonly PROVE CvTypeOK'
  BY <1>11 DEF RNobody, cvonly
<1>12. ASSUME NEW t \in User, RWake(t), UNCHANGED cvonly PROVE CvTypeOK'
  <2>1. Tail(lk_threads) \in Seq(User) /\ Head(lk_threads) \in User
    BY <1>12 DEF RWake
  <2> QED
    BY <1>12, <2>1 DEF RWake, cvonly
<1>13. ASSUME NEW t \in User, RReady(t), UNCHANGED cvonly PROVE CvTypeOK'
  BY Zenon, <1>13 DEF RReady, cvonly
<1>14. ASSUME NEW t \in User, RUnlock(t), UNCHANGED cvonly PROVE CvTypeOK'
  BY <1>14 DEF RUnlock, cvonly
<1>15. ASSUME NEW t \in User, WaitCall(t) PROVE CvTypeOK'
  BY Zenon, <1>15 DEF WaitCall, cvonly
<1>16. ASSUME NEW t \in User, WLock(t) PROVE CvTypeOK'
  BY <1>16 DEF WLock, cvonly
<1>17. ASSUME NEW t \in User, WSleep(t) PROVE CvTypeOK'
  BY <1>17 DEF WSleep, cvonly
<1>18. ASSUME NEW t \in User, SignalCall(t) PROVE CvTypeOK'
  BY Zenon, <1>18 DEF SignalCall, WakeCall, cvonly
<1>19. ASSUME NEW t \in User, BroadcastCall(t) PROVE CvTypeOK'
  BY Zenon, <1>19 DEF BroadcastCall, WakeCall, cvonly
<1>20. ASSUME NEW t \in User, SWake(t) PROVE CvTypeOK'
  <2>1. /\ \A n \in 0..1 : n <= Len(cv_threads) => SubSeq(cv_threads, 1, n) \in Seq(User)
        /\ \A n \in 0..1 : SubSeq(cv_threads, n + 1, Len(cv_threads)) \in Seq(User)
    OBVIOUS
  <2> QED
    BY <1>20, <2>1 DEF SWake
<1>21. ASSUME NEW t \in User, BWake(t) PROVE CvTypeOK'
  BY <1>21 DEF BWake, cvonly
<1>22. ASSUME NEW t \in User, CReady(t) PROVE CvTypeOK'
  <2>1. Tail(woken[t]) \in Seq(User) /\ Head(woken[t]) \in User
    BY <1>22 DEF CReady
  <2> QED
    BY <1>22, <2>1 DEF CReady
<1>23. ASSUME NEW t \in User, CReturn(t) PROVE CvTypeOK'
  BY <1>23 DEF CReturn, cvonly
<1>24. CASE UNCHANGED cvvars
  BY <1>24 DEF cvvars, lkvars, cvonly
<1> QED
  BY Zenon, <1>1, <1>2, <1>3, <1>4, <1>5, <1>6, <1>7, <1>8, <1>9, <1>10, <1>11, <1>12,
     <1>13, <1>14, <1>15, <1>16, <1>17, <1>18, <1>19, <1>20, <1>21, <1>22, <1>23, <1>24 DEF CvNext, CvStep, LkStep

(* The thread that a step of thread_make_runnable is about. *)
LEMMA Readied ==
  ASSUME CvTypeOK, WaitersPlaced, NEW t \in User, CReady(t)
  PROVE  LET u == Head(woken[t]) IN
         /\ u \in User /\ u \in Range(woken[t]) /\ u # t
         /\ lk_pc[u] = "W.asleep" /\ lk_pc'[u] = "A.acquire" /\ lk_pc[t] = "C.ready"
         /\ \A s \in User : s # u => lk_pc'[s] = lk_pc[s]
         /\ Range(woken'[t]) = Range(woken[t]) \ {u} /\ IsInjective(woken'[t])
         /\ \A s \in User : s # t => woken'[s] = woken[s]
<1> DEFINE u == Head(woken[t])
<1>1. woken[t] # << >> /\ IsInjective(woken[t]) /\ woken[t] \in Seq(User)
  BY DEF CReady, WaitersPlaced, CvTypeOK
<1>2. /\ u \in User /\ u \in Range(woken[t])
      /\ Range(Tail(woken[t])) = Range(woken[t]) \ {u} /\ IsInjective(Tail(woken[t]))
  BY <1>1, TailElements
<1>3. lk_pc[u] = "W.asleep" /\ lk_pc[t] = "C.ready" /\ u # t
  BY <1>2 DEF WaitersPlaced, CReady
<1>4. lk_pc' = [lk_pc EXCEPT ![u] = "A.acquire"] /\ woken' = [woken EXCEPT ![t] = Tail(woken[t])]
  BY DEF CReady
<1> HIDE DEF u
<1>5. lk_pc'[u] = "A.acquire" /\ \A s \in User : s # u => lk_pc'[s] = lk_pc[s]
  BY <1>2, <1>4 DEF CvTypeOK
<1>6. woken'[t] = Tail(woken[t]) /\ \A s \in User : s # t => woken'[s] = woken[s]
  BY <1>4 DEF CvTypeOK
<1> QED
  BY <1>2, <1>3, <1>5, <1>6 DEF u

(* A call of lock_release, cv_wait, cv_signal or cv_broadcast takes nothing *)
(* and notes where it returns to.                                          *)
LEMMA CallControl ==
  ASSUME CvTypeOK, CvControl, NEW t \in User,
         NEW label \in {"R.acquire", "S.wake", "B.wake"},
         NEW back \in IF label = "R.acquire" THEN {"out", "W.lock"} ELSE {"out", "in"},
         lk_pc[t] \in {"in", "out"},
         lk_pc' = [lk_pc EXCEPT ![t] = label], cont' = [cont EXCEPT ![t] = back],
         UNCHANGED <<holder, lk_lock, lk_wclock, lk_target, woken>>
  PROVE  CvControl'
<1> USE DEF CvTypeOK, CvControl, HoldsLkLock, HoldsChannel, ReleaseLabels, WakeLabels
<1>1. /\ lk_pc'[t] = label /\ cont'[t] = back
      /\ \A s \in User : s # t => lk_pc'[s] = lk_pc[s] /\ cont'[s] = cont[s]
  OBVIOUS
<1>2. \A s \in User : lk_pc[s] = "R.ready" => lk_target[s] \in User /\ lk_target[s] # t
  OBVIOUS
<1>3. \A s \in User : (lk_lock' = s) <=> HoldsLkLock(s)'
  BY <1>1
<1>4. \A s \in User : (lk_wclock' = s) <=> HoldsChannel(s)'
  BY <1>1
<1>5. \A s \in User : lk_pc'[s] = "A.bridge" => holder' # NoUser
  BY <1>1
<1>6. \A s \in User : lk_pc'[s] = "R.ready" => lk_target'[s] \in User /\ lk_pc'[lk_target'[s]] = "A.asleep"
  BY <1>1, <1>2
<1>7. \A s \in User : lk_pc'[s] \in ReleaseLabels => cont'[s] \in {"out", "W.lock"}
  BY <1>1
<1>8. \A s \in User : lk_pc'[s] \in WakeLabels => cont'[s] \in {"out", "in"}
  BY <1>1
<1>9. \A s \in User : lk_pc'[s] # "C.ready" => woken'[s] = << >>
  BY <1>1
<1> QED
  BY <1>3, <1>4, <1>5, <1>6, <1>7, <1>8, <1>9

(* Every step keeps the spinlocks, the targets and the places to return to  *)
(* in order.                                                               *)
LEMMA ControlStep ==
  ASSUME CvTypeOK, CvControl, WaitersInOnePlace, [CvNext]_cvvars
  PROVE  CvControl'
<1> USE LockAssumption DEF CvTypeOK, CvControl, CvLabels, AcquireLabels, ReleaseLabels, WaitLabels, WakeLabels,
             LkGoto, HoldsLkLock, HoldsChannel
<1>1. ASSUME NEW t \in User, AcquireCall(t), UNCHANGED cvonly PROVE CvControl'
  BY <1>1 DEF AcquireCall, cvonly
<1>2. ASSUME NEW t \in User, AAcquire(t), UNCHANGED cvonly PROVE CvControl'
  BY <1>2 DEF AAcquire, cvonly
<1>3. ASSUME NEW t \in User, ATake(t), UNCHANGED cvonly PROVE CvControl'
  BY <1>3 DEF ATake, cvonly
<1>4. ASSUME NEW t \in User, ABridge(t), UNCHANGED cvonly PROVE CvControl'
  BY <1>4 DEF ABridge, cvonly
<1>5. ASSUME NEW t \in User, AUnlock(t), UNCHANGED cvonly PROVE CvControl'
  BY <1>5 DEF AUnlock, cvonly
<1>6. ASSUME NEW t \in User, ASleep(t), UNCHANGED cvonly PROVE CvControl'
  BY <1>6 DEF ASleep, cvonly
<1>7. ASSUME NEW t \in User, ReleaseCall(t), UNCHANGED cvonly PROVE CvControl'
  <2>1. lk_pc[t] \in {"in", "out"} /\ lk_pc' = [lk_pc EXCEPT ![t] = "R.acquire"]
    BY <1>7 DEF ReleaseCall
  <2> QED
    BY Zenon, <1>7, <2>1, CallControl DEF ReleaseCall, cvonly
<1>8. ASSUME NEW t \in User, RAcquire(t), UNCHANGED cvonly PROVE CvControl'
  BY <1>8 DEF RAcquire, cvonly
<1>9. ASSUME NEW t \in User, RDrop(t), UNCHANGED cvonly PROVE CvControl'
  BY <1>9 DEF RDrop, cvonly
<1>10. ASSUME NEW t \in User, RIgnore(t), UNCHANGED cvonly PROVE CvControl'
  BY <1>10 DEF RIgnore, cvonly
<1>11. ASSUME NEW t \in User, RNobody(t), UNCHANGED cvonly PROVE CvControl'
  BY <1>11 DEF RNobody, cvonly
<1>12. ASSUME NEW t \in User, RWake(t), UNCHANGED cvonly PROVE CvControl'
  <2>1. lk_threads # << >> /\ IsInjective(lk_threads)
    BY <1>12 DEF RWake, WaitersInOnePlace, SleepersQueued
  <2>2. Head(lk_threads) \in User /\ Head(lk_threads) \in Range(lk_threads)
    BY <2>1, TailElements
  <2>3. lk_pc[Head(lk_threads)] = "A.asleep"
    BY <2>2 DEF WaitersInOnePlace, SleepersQueued
  <2>4. lk_target' = [lk_target EXCEPT ![t] = Head(lk_threads)]
    BY <1>12 DEF RWake
  <2> QED
    BY <1>12, <2>2, <2>3, <2>4 DEF RWake, cvonly
<1>13. ASSUME NEW t \in User, RReady(t), UNCHANGED cvonly PROVE CvControl'
  BY <1>13 DEF RReady, cvonly
<1>14. ASSUME NEW t \in User, RUnlock(t), UNCHANGED cvonly PROVE CvControl'
  <2>1. cont[t] \in {"out", "W.lock"}
    BY <1>14 DEF RUnlock
  <2> QED
    BY <1>14, <2>1 DEF RUnlock, cvonly
<1>15. ASSUME NEW t \in User, WaitCall(t) PROVE CvControl'
  <2>1. lk_pc[t] \in {"in", "out"} /\ lk_pc' = [lk_pc EXCEPT ![t] = "R.acquire"]
    BY <1>15 DEF WaitCall
  <2> QED
    BY Zenon, <1>15, <2>1, CallControl DEF WaitCall, cvonly
<1>16. ASSUME NEW t \in User, WLock(t) PROVE CvControl'
  BY <1>16 DEF WLock, cvonly
<1>17. ASSUME NEW t \in User, WSleep(t) PROVE CvControl'
  BY <1>17 DEF WSleep, cvonly
<1>18. ASSUME NEW t \in User, SignalCall(t) PROVE CvControl'
  <2>1. lk_pc[t] \in {"in", "out"} /\ lk_pc' = [lk_pc EXCEPT ![t] = "S.wake"]
    BY <1>18 DEF SignalCall, WakeCall
  <2> QED
    BY Zenon, <1>18, <2>1, CallControl DEF SignalCall, WakeCall, cvonly
<1>19. ASSUME NEW t \in User, BroadcastCall(t) PROVE CvControl'
  <2>1. lk_pc[t] \in {"in", "out"} /\ lk_pc' = [lk_pc EXCEPT ![t] = "B.wake"]
    BY <1>19 DEF BroadcastCall, WakeCall
  <2> QED
    BY Zenon, <1>19, <2>1, CallControl DEF BroadcastCall, WakeCall, cvonly
<1>20. ASSUME NEW t \in User, SWake(t) PROVE CvControl'
  BY <1>20 DEF SWake, cvonly
<1>21. ASSUME NEW t \in User, BWake(t) PROVE CvControl'
  BY <1>21 DEF BWake, cvonly
<1>22. ASSUME NEW t \in User, CReady(t) PROVE CvControl'
  <2> DEFINE u == Head(woken[t])
  <2>1. /\ u \in User /\ u # t /\ lk_pc[u] = "W.asleep" /\ lk_pc'[u] = "A.acquire"
        /\ \A s \in User : s # u => lk_pc'[s] = lk_pc[s]
        /\ \A s \in User : s # t => woken'[s] = woken[s]
    BY <1>22, Readied DEF WaitersInOnePlace
  <2>2. lk_pc[t] = "C.ready" /\ UNCHANGED <<cont, holder, lk_lock, lk_wclock, lk_target>>
    BY <1>22 DEF CReady
  <2> HIDE DEF u
  <2>3. \A s \in User : lk_pc[s] = "R.ready" => lk_target[s] \in User /\ lk_target[s] # u
    BY <2>1
  <2>4. \A s \in User : (lk_lock' = s) <=> HoldsLkLock(s)'
    BY Zenon, <2>1, <2>2
  <2>5. \A s \in User : (lk_wclock' = s) <=> HoldsChannel(s)'
    BY <2>1, <2>2
  <2>6. \A s \in User : lk_pc'[s] = "A.bridge" => holder' # NoUser
    BY <2>1, <2>2
  <2>7. \A s \in User : lk_pc'[s] = "R.ready" => lk_target'[s] \in User /\ lk_pc'[lk_target'[s]] = "A.asleep"
    BY <2>1, <2>2, <2>3
  <2>8. \A s \in User : lk_pc'[s] \in ReleaseLabels => cont'[s] \in {"out", "W.lock"}
    BY <2>1, <2>2
  <2>9. \A s \in User : lk_pc'[s] \in WakeLabels => cont'[s] \in {"out", "in"}
    BY <2>1, <2>2
  <2>10. ASSUME NEW s \in User, lk_pc'[s] # "C.ready" PROVE woken'[s] = << >>
    <3>1. s # t /\ lk_pc[s] # "C.ready"
      BY <2>1, <2>2, <2>10
    <3> QED
      BY <2>1, <3>1
  <2> QED
    BY <2>4, <2>5, <2>6, <2>7, <2>8, <2>9, <2>10
<1>23. ASSUME NEW t \in User, CReturn(t) PROVE CvControl'
  BY <1>23 DEF CReturn, cvonly
<1>24. CASE UNCHANGED cvvars
  BY <1>24 DEF cvvars, lkvars, cvonly
<1> QED
  BY Zenon, <1>1, <1>2, <1>3, <1>4, <1>5, <1>6, <1>7, <1>8, <1>9, <1>10, <1>11, <1>12,
     <1>13, <1>14, <1>15, <1>16, <1>17, <1>18, <1>19, <1>20, <1>21, <1>22, <1>23, <1>24 DEF CvNext, CvStep, LkStep

-----------------------------------------------------------------------------
(* The lock's channel. *)
LEMMA QueuedUnchanged ==
  ASSUME SleepersQueued, UNCHANGED <<lk_threads, lk_target>>,
         \A u \in User : (lk_pc'[u] = "A.asleep") = (lk_pc[u] = "A.asleep"),
         \A u \in User : (lk_pc'[u] = "R.ready") = (lk_pc[u] = "R.ready")
  PROVE  SleepersQueued'
  BY DEF SleepersQueued, LkInFlight

(* lock_acquire puts its thread on the channel of the lock. *)
LEMMA QueuedASleep ==
  ASSUME CvTypeOK, CvControl, SleepersQueued, NEW t \in User, ASleep(t)
  PROVE  SleepersQueued'
<1>1. /\ lk_pc[t] = "A.sleep" /\ lk_pc'[t] = "A.asleep"
      /\ \A u \in User : u # t => lk_pc'[u] = lk_pc[u]
      /\ lk_threads' = Append(lk_threads, t) /\ lk_target' = lk_target
  BY DEF ASleep, LkGoto, CvTypeOK
<1>2. t \notin Range(lk_threads) /\ IsInjective(lk_threads) /\ lk_threads \in Seq(User)
  BY <1>1 DEF SleepersQueued, CvTypeOK
<1>3. Range(lk_threads') = Range(lk_threads) \cup {t} /\ IsInjective(lk_threads')
  BY <1>1, <1>2, AppendElements
<1>4. \A u \in User : LkInFlight(u)' <=> LkInFlight(u)
  BY <1>1 DEF LkInFlight
<1>5. ~LkInFlight(t)
  BY <1>1 DEF LkInFlight, CvControl
<1> QED
  BY <1>1, <1>3, <1>4, <1>5 DEF SleepersQueued

(* lock_release takes the first thread off it. *)
LEMMA QueuedRWake ==
  ASSUME CvTypeOK, CvControl, SleepersQueued, NEW t \in User, RWake(t)
  PROVE  SleepersQueued'
<1> DEFINE h == Head(lk_threads)
<1>1. /\ lk_pc[t] = "R.wake" /\ lk_pc'[t] = "R.ready"
      /\ \A u \in User : u # t => lk_pc'[u] = lk_pc[u] /\ lk_target'[u] = lk_target[u]
      /\ lk_threads' = Tail(lk_threads) /\ lk_target'[t] = h
      /\ lk_threads # << >> /\ lk_threads \in Seq(User)
  BY DEF RWake, LkGoto, CvTypeOK
<1>2. IsInjective(lk_threads)
  BY DEF SleepersQueued
<1>3. Range(lk_threads') = Range(lk_threads) \ {h} /\ IsInjective(lk_threads')
  BY <1>1, <1>2, TailElements
<1> HIDE DEF h
<1>4. ASSUME NEW u \in User PROVE LkInFlight(u)' <=> LkInFlight(u) \/ u = h
  BY <1>1 DEF LkInFlight
<1>5. \A u \in User : lk_pc'[u] = "A.asleep" <=> lk_pc[u] = "A.asleep"
  BY <1>1
<1> QED
  BY <1>3, <1>4, <1>5 DEF SleepersQueued

(* And makes it ready. *)
LEMMA QueuedRReady ==
  ASSUME CvTypeOK, CvControl, SleepersQueued, NEW t \in User, RReady(t)
  PROVE  SleepersQueued'
<1> DEFINE u == lk_target[t]
<1>1. /\ lk_pc[t] = "R.ready" /\ u \in User /\ lk_pc[u] = "A.asleep"
      /\ lk_pc'[t] = "R.unlock" /\ lk_pc'[u] = "A.acquire"
      /\ \A s \in User \ {t, u} : lk_pc'[s] = lk_pc[s]
      /\ \A s \in User \ {t} : lk_target'[s] = lk_target[s]
      /\ lk_threads' = lk_threads
  BY DEF RReady, CvTypeOK, CvControl
<1> HIDE DEF u
<1>2. \A s \in User : lk_pc[s] = "R.ready" => s = t
  BY <1>1 DEF CvControl, HoldsLkLock
<1>3. \A s \in User : LkInFlight(s) <=> s = u
  BY <1>1, <1>2 DEF LkInFlight, u
<1>4. \A s \in User : ~LkInFlight(s)'
  <2>1. \A s \in User : lk_pc'[s] # "R.ready"
    BY <1>1, <1>2
  <2> QED
    BY <2>1 DEF LkInFlight
<1>5. \A s \in User : lk_pc'[s] = "A.asleep" <=> lk_pc[s] = "A.asleep" /\ s # u
  BY <1>1
<1> QED
  BY <1>1, <1>3, <1>4, <1>5 DEF SleepersQueued

(* Only falling asleep, a wakeup and its end touch the lock's channel. *)
LEMMA QueuedStep ==
  ASSUME CvTypeOK, CvControl, WaitersInOnePlace, [CvNext]_cvvars
  PROVE  SleepersQueued'
<1> USE DEF WaitersInOnePlace
<1>1. ASSUME NEW t \in User, AcquireCall(t), UNCHANGED cvonly PROVE SleepersQueued'
  BY <1>1, QueuedUnchanged DEF AcquireCall, LkGoto, CvTypeOK
<1>2. ASSUME NEW t \in User, AAcquire(t), UNCHANGED cvonly PROVE SleepersQueued'
  BY <1>2, QueuedUnchanged DEF AAcquire, LkGoto, CvTypeOK
<1>3. ASSUME NEW t \in User, ATake(t), UNCHANGED cvonly PROVE SleepersQueued'
  BY <1>3, QueuedUnchanged DEF ATake, LkGoto, CvTypeOK
<1>4. ASSUME NEW t \in User, ABridge(t), UNCHANGED cvonly PROVE SleepersQueued'
  BY <1>4, QueuedUnchanged DEF ABridge, LkGoto, CvTypeOK
<1>5. ASSUME NEW t \in User, AUnlock(t), UNCHANGED cvonly PROVE SleepersQueued'
  BY <1>5, QueuedUnchanged DEF AUnlock, LkGoto, CvTypeOK
<1>6. ASSUME NEW t \in User, ASleep(t), UNCHANGED cvonly PROVE SleepersQueued'
  BY <1>6, QueuedASleep
<1>7. ASSUME NEW t \in User, ReleaseCall(t), UNCHANGED cvonly PROVE SleepersQueued'
  BY <1>7, QueuedUnchanged DEF ReleaseCall, LkGoto, CvTypeOK
<1>8. ASSUME NEW t \in User, RAcquire(t), UNCHANGED cvonly PROVE SleepersQueued'
  BY <1>8, QueuedUnchanged DEF RAcquire, LkGoto, CvTypeOK
<1>9. ASSUME NEW t \in User, RDrop(t), UNCHANGED cvonly PROVE SleepersQueued'
  BY <1>9, QueuedUnchanged DEF RDrop, LkGoto, CvTypeOK
<1>10. ASSUME NEW t \in User, RIgnore(t), UNCHANGED cvonly PROVE SleepersQueued'
  BY <1>10, QueuedUnchanged DEF RIgnore, LkGoto, CvTypeOK
<1>11. ASSUME NEW t \in User, RNobody(t), UNCHANGED cvonly PROVE SleepersQueued'
  BY <1>11, QueuedUnchanged DEF RNobody, LkGoto, CvTypeOK
<1>12. ASSUME NEW t \in User, RWake(t), UNCHANGED cvonly PROVE SleepersQueued'
  BY <1>12, QueuedRWake
<1>13. ASSUME NEW t \in User, RReady(t), UNCHANGED cvonly PROVE SleepersQueued'
  BY <1>13, QueuedRReady
<1>14. ASSUME NEW t \in User, RUnlock(t), UNCHANGED cvonly PROVE SleepersQueued'
  BY Zenon, <1>14, QueuedUnchanged DEF RUnlock, LkGoto, CvTypeOK
<1>15. ASSUME NEW t \in User, WaitCall(t) PROVE SleepersQueued'
  BY <1>15, QueuedUnchanged DEF WaitCall, LkGoto, CvTypeOK
<1>16. ASSUME NEW t \in User, WLock(t) PROVE SleepersQueued'
  BY <1>16, QueuedUnchanged DEF WLock, LkGoto, CvTypeOK
<1>17. ASSUME NEW t \in User, WSleep(t) PROVE SleepersQueued'
  BY <1>17, QueuedUnchanged DEF WSleep, LkGoto, CvTypeOK
<1>18. ASSUME NEW t \in User, SignalCall(t) PROVE SleepersQueued'
  BY <1>18, QueuedUnchanged DEF SignalCall, WakeCall, LkGoto, CvTypeOK
<1>19. ASSUME NEW t \in User, BroadcastCall(t) PROVE SleepersQueued'
  BY <1>19, QueuedUnchanged DEF BroadcastCall, WakeCall, LkGoto, CvTypeOK
<1>20. ASSUME NEW t \in User, SWake(t) PROVE SleepersQueued'
  BY <1>20, QueuedUnchanged DEF SWake, LkGoto, CvTypeOK
<1>21. ASSUME NEW t \in User, BWake(t) PROVE SleepersQueued'
  BY <1>21, QueuedUnchanged DEF BWake, LkGoto, CvTypeOK
<1>22. ASSUME NEW t \in User, CReady(t) PROVE SleepersQueued'
  <2>1. \A u \in User : u # Head(woken[t]) => lk_pc'[u] = lk_pc[u]
    BY <1>22, Readied
  <2>2. lk_pc[Head(woken[t])] = "W.asleep" /\ lk_pc'[Head(woken[t])] = "A.acquire"
    BY <1>22, Readied
  <2> QED
    BY <1>22, <2>1, <2>2, QueuedUnchanged DEF CReady
<1>23. ASSUME NEW t \in User, CReturn(t) PROVE SleepersQueued'
  BY Zenon, <1>23, QueuedUnchanged DEF CReturn, LkGoto, CvTypeOK
<1>24. CASE UNCHANGED cvvars
  BY <1>24, QueuedUnchanged DEF cvvars, lkvars, LkGoto, CvTypeOK
<1> QED
  BY <1>1, <1>2, <1>3, <1>4, <1>5, <1>6, <1>7, <1>8, <1>9, <1>10, <1>11, <1>12,
     <1>13, <1>14, <1>15, <1>16, <1>17, <1>18, <1>19, <1>20, <1>21, <1>22, <1>23, <1>24 DEF CvNext, CvStep, LkStep

-----------------------------------------------------------------------------
(* The channel of the condition variable. *)
LEMMA PlacedUnchanged ==
  ASSUME WaitersPlaced, UNCHANGED <<cv_threads, woken>>,
         \A u \in User : (lk_pc'[u] = "W.asleep") = (lk_pc[u] = "W.asleep")
  PROVE  WaitersPlaced'
  BY DEF WaitersPlaced

(* cv_wait puts its thread on the channel of the condition variable. *)
LEMMA PlacedWSleep ==
  ASSUME CvTypeOK, WaitersPlaced, NEW t \in User, WSleep(t)
  PROVE  WaitersPlaced'
<1>1. /\ lk_pc[t] = "W.sleep" /\ lk_pc'[t] = "W.asleep"
      /\ \A u \in User : u # t => lk_pc'[u] = lk_pc[u]
      /\ cv_threads' = Append(cv_threads, t) /\ woken' = woken
  BY DEF WSleep, LkGoto, CvTypeOK
<1>2. t \notin Range(cv_threads) /\ \A s \in User : t \notin Range(woken[s])
  BY <1>1 DEF WaitersPlaced
<1>3. Range(cv_threads') = Range(cv_threads) \cup {t} /\ IsInjective(cv_threads')
  BY <1>1, <1>2, AppendElements DEF WaitersPlaced, CvTypeOK
<1>4. \A s \in User : Range(woken'[s]) \cap Range(cv_threads') = {}
  BY <1>1, <1>2, <1>3 DEF WaitersPlaced
<1>5. ASSUME NEW u \in User
      PROVE  lk_pc'[u] = "W.asleep" <=> \/ u \in Range(cv_threads')
                                     \/ \E s \in User : u \in Range(woken'[s])
  BY <1>1, <1>3 DEF WaitersPlaced
<1> QED
  BY <1>1, <1>3, <1>4, <1>5 DEF WaitersPlaced

(* A waker t takes the threads of moved off the channel. *)
LEMMA PlacedTake ==
  ASSUME WaitersPlaced, NEW t \in User, NEW moved,
         Range(woken[t]) = {}, Range(woken'[t]) = moved, IsInjective(woken'[t]),
         moved \subseteq Range(cv_threads),
         Range(cv_threads') = Range(cv_threads) \ moved, IsInjective(cv_threads'),
         \A s \in User : s # t => woken'[s] = woken[s],
         \A u \in User : (lk_pc'[u] = "W.asleep") = (lk_pc[u] = "W.asleep")
  PROVE  WaitersPlaced'
<1>1. \A s \in User : IsInjective(woken'[s])
  BY DEF WaitersPlaced
<1>2. \A s \in User : Range(woken'[s]) \cap Range(cv_threads') = {}
  BY DEF WaitersPlaced
<1>3. \A s, u \in User : s # u => Range(woken'[s]) \cap Range(woken'[u]) = {}
  BY DEF WaitersPlaced
<1>4. ASSUME NEW u \in User
      PROVE  lk_pc'[u] = "W.asleep" <=> \/ u \in Range(cv_threads')
                                     \/ \E s \in User : u \in Range(woken'[s])
  BY DEF WaitersPlaced
<1> QED
  BY <1>1, <1>2, <1>3, <1>4 DEF WaitersPlaced

(* cv_signal takes the first thread off it. *)
LEMMA PlacedSWake ==
  ASSUME CvTypeOK, CvControl, WaitersPlaced, NEW t \in User, SWake(t)
  PROVE  WaitersPlaced'
<1>1. /\ lk_pc[t] = "S.wake" /\ lk_pc'[t] = "C.ready"
      /\ \A u \in User : u # t => lk_pc'[u] = lk_pc[u] /\ woken'[u] = woken[u]
      /\ cv_threads \in Seq(User) /\ IsInjective(cv_threads)
  BY DEF SWake, LkGoto, CvTypeOK, WaitersPlaced
<1>2. Range(woken[t]) = {}
  BY <1>1, EmptyElements DEF CvControl
<1>3. CASE cv_threads = << >>
  <2>1. woken'[t] = << >> /\ cv_threads' = << >>
    BY <1>3 DEF SWake, CvTypeOK
  <2> QED
    BY <1>1, <1>2, <1>3, <2>1, EmptyElements, PlacedTake
<1>4. CASE cv_threads # << >>
  <2>1. woken'[t] = <<Head(cv_threads)>> /\ cv_threads' = Tail(cv_threads)
    BY <1>1, <1>4, FirstAndRest DEF SWake, CvTypeOK
  <2>2. /\ Range(woken'[t]) = {Head(cv_threads)} /\ IsInjective(woken'[t])
        /\ Head(cv_threads) \in Range(cv_threads)
        /\ Range(cv_threads') = Range(cv_threads) \ {Head(cv_threads)} /\ IsInjective(cv_threads')
    BY <1>1, <1>4, <2>1, TailElements, OneElement
  <2> QED
    BY <1>1, <1>2, <2>2, PlacedTake
<1> QED
  BY <1>3, <1>4

(* cv_broadcast takes them all. *)
LEMMA PlacedBWake ==
  ASSUME CvTypeOK, CvControl, WaitersPlaced, NEW t \in User, BWake(t)
  PROVE  WaitersPlaced'
<1>1. /\ lk_pc[t] = "B.wake" /\ lk_pc'[t] = "C.ready"
      /\ \A u \in User : u # t => lk_pc'[u] = lk_pc[u] /\ woken'[u] = woken[u]
      /\ woken'[t] = cv_threads /\ cv_threads' = << >> /\ IsInjective(cv_threads)
  BY DEF BWake, LkGoto, CvTypeOK, WaitersPlaced
<1>2. Range(woken[t]) = {}
  BY <1>1, EmptyElements DEF CvControl
<1> QED
  BY <1>1, <1>2, EmptyElements, PlacedTake

(* And makes them ready one after the other. *)
LEMMA PlacedCReady ==
  ASSUME CvTypeOK, WaitersPlaced, NEW t \in User, CReady(t)
  PROVE  WaitersPlaced'
<1> DEFINE u == Head(woken[t])
<1>1. /\ u \in User /\ u \in Range(woken[t]) /\ u # t
      /\ lk_pc[u] = "W.asleep" /\ lk_pc'[u] = "A.acquire"
      /\ \A s \in User : s # u => lk_pc'[s] = lk_pc[s]
      /\ Range(woken'[t]) = Range(woken[t]) \ {u} /\ IsInjective(woken'[t])
      /\ \A s \in User : s # t => woken'[s] = woken[s]
  BY Readied
<1>2. cv_threads' = cv_threads
  BY DEF CReady
<1> HIDE DEF u
<1>3. u \notin Range(cv_threads) /\ \A s \in User : s # t => u \notin Range(woken[s])
  BY <1>1 DEF WaitersPlaced
<1> QED
  BY <1>1, <1>2, <1>3 DEF WaitersPlaced

(* Only falling asleep and the steps of cv_signal and cv_broadcast touch   *)
(* the channel of the condition variable.                                  *)
LEMMA PlacedStep ==
  ASSUME CvTypeOK, CvControl, WaitersPlaced, [CvNext]_cvvars
  PROVE  WaitersPlaced'
<1>1. ASSUME NEW t \in User, AcquireCall(t), UNCHANGED cvonly PROVE WaitersPlaced'
  BY <1>1, PlacedUnchanged DEF AcquireCall, LkGoto, CvTypeOK, cvonly
<1>2. ASSUME NEW t \in User, AAcquire(t), UNCHANGED cvonly PROVE WaitersPlaced'
  BY <1>2, PlacedUnchanged DEF AAcquire, LkGoto, CvTypeOK, cvonly
<1>3. ASSUME NEW t \in User, ATake(t), UNCHANGED cvonly PROVE WaitersPlaced'
  BY <1>3, PlacedUnchanged DEF ATake, LkGoto, CvTypeOK, cvonly
<1>4. ASSUME NEW t \in User, ABridge(t), UNCHANGED cvonly PROVE WaitersPlaced'
  BY <1>4, PlacedUnchanged DEF ABridge, LkGoto, CvTypeOK, cvonly
<1>5. ASSUME NEW t \in User, AUnlock(t), UNCHANGED cvonly PROVE WaitersPlaced'
  BY <1>5, PlacedUnchanged DEF AUnlock, LkGoto, CvTypeOK, cvonly
<1>6. ASSUME NEW t \in User, ASleep(t), UNCHANGED cvonly PROVE WaitersPlaced'
  BY <1>6, PlacedUnchanged DEF ASleep, LkGoto, CvTypeOK, cvonly
<1>7. ASSUME NEW t \in User, ReleaseCall(t), UNCHANGED cvonly PROVE WaitersPlaced'
  BY <1>7, PlacedUnchanged DEF ReleaseCall, LkGoto, CvTypeOK, cvonly
<1>8. ASSUME NEW t \in User, RAcquire(t), UNCHANGED cvonly PROVE WaitersPlaced'
  BY <1>8, PlacedUnchanged DEF RAcquire, LkGoto, CvTypeOK, cvonly
<1>9. ASSUME NEW t \in User, RDrop(t), UNCHANGED cvonly PROVE WaitersPlaced'
  BY <1>9, PlacedUnchanged DEF RDrop, LkGoto, CvTypeOK, cvonly
<1>10. ASSUME NEW t \in User, RIgnore(t), UNCHANGED cvonly PROVE WaitersPlaced'
  BY <1>10, PlacedUnchanged DEF RIgnore, LkGoto, CvTypeOK, cvonly
<1>11. ASSUME NEW t \in User, RNobody(t), UNCHANGED cvonly PROVE WaitersPlaced'
  BY <1>11, PlacedUnchanged DEF RNobody, LkGoto, CvTypeOK, cvonly
<1>12. ASSUME NEW t \in User, RWake(t), UNCHANGED cvonly PROVE WaitersPlaced'
  BY <1>12, PlacedUnchanged DEF RWake, LkGoto, CvTypeOK, cvonly
<1>13. ASSUME NEW t \in User, RReady(t), UNCHANGED cvonly PROVE WaitersPlaced'
  <2>1. lk_target[t] \in User /\ lk_pc[lk_target[t]] = "A.asleep" /\ lk_pc[t] = "R.ready"
    BY <1>13 DEF RReady, CvControl
  <2> QED
    BY <1>13, <2>1, PlacedUnchanged DEF RReady, CvTypeOK, cvonly
<1>14. ASSUME NEW t \in User, RUnlock(t), UNCHANGED cvonly PROVE WaitersPlaced'
  <2>1. cont[t] # "W.asleep"
    BY Zenon DEF CvTypeOK
  <2> QED
    BY <1>14, <2>1, PlacedUnchanged DEF RUnlock, LkGoto, CvTypeOK, cvonly
<1>15. ASSUME NEW t \in User, WaitCall(t) PROVE WaitersPlaced'
  BY <1>15, PlacedUnchanged DEF WaitCall, LkGoto, CvTypeOK, cvonly
<1>16. ASSUME NEW t \in User, WLock(t) PROVE WaitersPlaced'
  BY <1>16, PlacedUnchanged DEF WLock, LkGoto, CvTypeOK, cvonly
<1>17. ASSUME NEW t \in User, WSleep(t) PROVE WaitersPlaced'
  BY <1>17, PlacedWSleep
<1>18. ASSUME NEW t \in User, SignalCall(t) PROVE WaitersPlaced'
  BY <1>18, PlacedUnchanged DEF SignalCall, WakeCall, LkGoto, CvTypeOK, cvonly
<1>19. ASSUME NEW t \in User, BroadcastCall(t) PROVE WaitersPlaced'
  BY <1>19, PlacedUnchanged DEF BroadcastCall, WakeCall, LkGoto, CvTypeOK, cvonly
<1>20. ASSUME NEW t \in User, SWake(t) PROVE WaitersPlaced'
  BY <1>20, PlacedSWake
<1>21. ASSUME NEW t \in User, BWake(t) PROVE WaitersPlaced'
  BY <1>21, PlacedBWake
<1>22. ASSUME NEW t \in User, CReady(t) PROVE WaitersPlaced'
  BY <1>22, PlacedCReady
<1>23. ASSUME NEW t \in User, CReturn(t) PROVE WaitersPlaced'
  BY Zenon, <1>23, PlacedUnchanged DEF CReturn, LkGoto, CvTypeOK, cvonly
<1>24. CASE UNCHANGED cvvars
  BY <1>24, PlacedUnchanged DEF cvvars, lkvars, LkGoto, CvTypeOK, cvonly
<1> QED
  BY <1>1, <1>2, <1>3, <1>4, <1>5, <1>6, <1>7, <1>8, <1>9, <1>10, <1>11, <1>12,
     <1>13, <1>14, <1>15, <1>16, <1>17, <1>18, <1>19, <1>20, <1>21, <1>22, <1>23, <1>24 DEF CvNext, CvStep, LkStep

-----------------------------------------------------------------------------
(* Wakeups of the lock. *)
LEMMA NothingLost ==
  ASSUME NoLostRelease, UNCHANGED <<holder, lk_target>>,
         \A u \in User : (lk_pc'[u] = "R.ready") = (lk_pc[u] = "R.ready"),
         \A u \in User : lk_pc'[u] \in {"A.sleep", "A.asleep"} => lk_pc'[u] = lk_pc[u],
         \A u \in User : lk_pc[u] \in {"A.acquire", "A.test", "R.wake", "R.ready"}
                             => lk_pc'[u] \in {"A.acquire", "A.test", "R.wake", "R.ready"}
  PROVE  NoLostRelease'
<1>1. \A u \in User : LkInFlight(u)' <=> LkInFlight(u)
  BY DEF LkInFlight
<1> QED
  BY <1>1 DEF NoLostRelease

(* No release is lost while a thread is on its way to test the lock or to  *)
(* wake.                                                                   *)
LEMMA OnItsWay ==
  ASSUME NEW u \in User, lk_pc'[u] \in {"A.acquire", "A.test", "R.wake", "R.ready"}
  PROVE  NoLostRelease'
  BY DEF NoLostRelease

(* A step that makes the lock free is followed by a wakeup, and a thread   *)
(* that goes to sleep has seen the lock taken, under lk_lock.              *)
LEMMA NoLostReleaseStep ==
  ASSUME CvTypeOK, CvControl, WaitersInOnePlace, NoLostRelease, [CvNext]_cvvars
  PROVE  NoLostRelease'
<1>1. ASSUME NEW t \in User, AcquireCall(t), UNCHANGED cvonly PROVE NoLostRelease'
  <2>1. lk_pc'[t] = "A.acquire"
    BY <1>1 DEF AcquireCall, LkGoto, CvTypeOK
  <2> QED
    BY <2>1, OnItsWay
<1>2. ASSUME NEW t \in User, AAcquire(t), UNCHANGED cvonly PROVE NoLostRelease'
  <2>1. lk_pc'[t] = "A.test"
    BY <1>2 DEF AAcquire, LkGoto, CvTypeOK
  <2> QED
    BY <2>1, OnItsWay
<1>3. ASSUME NEW t \in User, ATake(t), UNCHANGED cvonly PROVE NoLostRelease'
  BY <1>3, LockAssumption DEF ATake, NoLostRelease
<1>4. ASSUME NEW t \in User, ABridge(t), UNCHANGED cvonly PROVE NoLostRelease'
  BY <1>4, LockAssumption DEF ABridge, NoLostRelease
<1>5. ASSUME NEW t \in User, AUnlock(t), UNCHANGED cvonly PROVE NoLostRelease'
  BY <1>5 DEF AUnlock, LkGoto, NoLostRelease, CvControl
<1>6. ASSUME NEW t \in User, ASleep(t), UNCHANGED cvonly PROVE NoLostRelease'
  <2>1. /\ lk_pc[t] = "A.sleep" /\ lk_pc'[t] = "A.asleep" /\ UNCHANGED <<holder, lk_target>>
        /\ \A u \in User : u # t => lk_pc'[u] = lk_pc[u]
    BY <1>6 DEF ASleep, LkGoto, CvTypeOK
  <2>2. holder # NoUser \/ \E u \in User : lk_pc[u] \in {"A.acquire", "A.test", "R.wake", "R.ready"}
    BY <2>1 DEF NoLostRelease
  <2> QED
    BY <2>1, <2>2 DEF NoLostRelease
<1>7. ASSUME NEW t \in User, ReleaseCall(t), UNCHANGED cvonly PROVE NoLostRelease'
  BY <1>7, NothingLost DEF ReleaseCall, LkGoto, CvTypeOK
<1>8. ASSUME NEW t \in User, RAcquire(t), UNCHANGED cvonly PROVE NoLostRelease'
  BY <1>8, NothingLost DEF RAcquire, LkGoto, CvTypeOK
<1>9. ASSUME NEW t \in User, RDrop(t), UNCHANGED cvonly PROVE NoLostRelease'
  <2>1. lk_pc'[t] = "R.wake"
    BY <1>9 DEF RDrop, LkGoto, CvTypeOK
  <2> QED
    BY <2>1, OnItsWay
<1>10. ASSUME NEW t \in User, RIgnore(t), UNCHANGED cvonly PROVE NoLostRelease'
  BY <1>10, NothingLost DEF RIgnore, LkGoto, CvTypeOK
<1>11. ASSUME NEW t \in User, RNobody(t), UNCHANGED cvonly PROVE NoLostRelease'
  <2>1. /\ lk_pc[t] = "R.wake" /\ lk_pc'[t] = "R.unlock" /\ UNCHANGED <<holder, lk_target>>
        /\ \A u \in User : u # t => lk_pc'[u] = lk_pc[u]
        /\ lk_wclock = NoUser /\ lk_threads = << >>
    BY <1>11 DEF RNobody, LkGoto, CvTypeOK
  <2>2. \A u \in User : lk_pc[u] # "A.sleep"
    BY <2>1, LockAssumption DEF CvControl, HoldsChannel
  <2>3. \A u \in User : lk_pc[u] = "A.asleep" => LkInFlight(u)
    BY <2>1, EmptyElements DEF WaitersInOnePlace, SleepersQueued
  <2>4. \A u \in User : LkInFlight(u) => LkInFlight(u)'
    BY <2>1 DEF LkInFlight
  <2> QED
    BY <2>1, <2>2, <2>3, <2>4 DEF NoLostRelease
<1>12. ASSUME NEW t \in User, RWake(t), UNCHANGED cvonly PROVE NoLostRelease'
  <2>1. lk_pc'[t] = "R.ready"
    BY <1>12 DEF RWake, LkGoto, CvTypeOK
  <2> QED
    BY <2>1, OnItsWay
<1>13. ASSUME NEW t \in User, RReady(t), UNCHANGED cvonly PROVE NoLostRelease'
  <2>1. lk_target[t] \in User /\ lk_pc'[lk_target[t]] = "A.acquire"
    BY <1>13 DEF RReady, CvControl, CvTypeOK
  <2> QED
    BY <2>1, OnItsWay
<1>14. ASSUME NEW t \in User, RUnlock(t), UNCHANGED cvonly PROVE NoLostRelease'
  BY Zenon, <1>14, NothingLost DEF RUnlock, LkGoto, CvTypeOK
<1>15. ASSUME NEW t \in User, WaitCall(t) PROVE NoLostRelease'
  BY <1>15, NothingLost DEF WaitCall, LkGoto, CvTypeOK
<1>16. ASSUME NEW t \in User, WLock(t) PROVE NoLostRelease'
  BY <1>16, NothingLost DEF WLock, LkGoto, CvTypeOK
<1>17. ASSUME NEW t \in User, WSleep(t) PROVE NoLostRelease'
  BY <1>17, NothingLost DEF WSleep, LkGoto, CvTypeOK
<1>18. ASSUME NEW t \in User, SignalCall(t) PROVE NoLostRelease'
  BY <1>18, NothingLost DEF SignalCall, WakeCall, LkGoto, CvTypeOK
<1>19. ASSUME NEW t \in User, BroadcastCall(t) PROVE NoLostRelease'
  BY <1>19, NothingLost DEF BroadcastCall, WakeCall, LkGoto, CvTypeOK
<1>20. ASSUME NEW t \in User, SWake(t) PROVE NoLostRelease'
  BY <1>20, NothingLost DEF SWake, LkGoto, CvTypeOK
<1>21. ASSUME NEW t \in User, BWake(t) PROVE NoLostRelease'
  BY <1>21, NothingLost DEF BWake, LkGoto, CvTypeOK
<1>22. ASSUME NEW t \in User, CReady(t) PROVE NoLostRelease'
  <2>1. Head(woken[t]) \in User /\ lk_pc'[Head(woken[t])] = "A.acquire"
    BY <1>22, Readied DEF WaitersInOnePlace
  <2> QED
    BY <2>1, OnItsWay
<1>23. ASSUME NEW t \in User, CReturn(t) PROVE NoLostRelease'
  BY Zenon, <1>23, NothingLost DEF CReturn, LkGoto, CvTypeOK
<1>24. CASE UNCHANGED cvvars
  BY <1>24, NothingLost DEF cvvars, lkvars, LkGoto, CvTypeOK
<1> QED
  BY <1>1, <1>2, <1>3, <1>4, <1>5, <1>6, <1>7, <1>8, <1>9, <1>10, <1>11, <1>12,
     <1>13, <1>14, <1>15, <1>16, <1>17, <1>18, <1>19, <1>20, <1>21, <1>22, <1>23, <1>24 DEF CvNext, CvStep, LkStep

-----------------------------------------------------------------------------
(* The lock is taken when nobody holds it and given up by its holder. *)
LEMMA ExclusionStep ==
  ASSUME CvTypeOK, CvControl, WaitersInOnePlace, MutualExclusion, HolderKnown, [CvNext]_cvvars
  PROVE  MutualExclusion' /\ HolderKnown'
<1> USE DEF MutualExclusion, HolderKnown, Inside, WakeLabels
<1>1. ASSUME NEW t \in User, AcquireCall(t), UNCHANGED cvonly PROVE MutualExclusion' /\ HolderKnown'
  BY <1>1 DEF AcquireCall, LkGoto, CvTypeOK
<1>2. ASSUME NEW t \in User, AAcquire(t), UNCHANGED cvonly PROVE MutualExclusion' /\ HolderKnown'
  BY <1>2 DEF AAcquire, LkGoto, CvTypeOK
<1>3. ASSUME NEW t \in User, ATake(t), UNCHANGED cvonly PROVE MutualExclusion' /\ HolderKnown'
  BY <1>3, LockAssumption DEF ATake, LkGoto, CvTypeOK
<1>4. ASSUME NEW t \in User, ABridge(t), UNCHANGED cvonly PROVE MutualExclusion' /\ HolderKnown'
  BY <1>4 DEF ABridge, LkGoto, CvTypeOK
<1>5. ASSUME NEW t \in User, AUnlock(t), UNCHANGED cvonly PROVE MutualExclusion' /\ HolderKnown'
  BY <1>5 DEF AUnlock, LkGoto, CvTypeOK
<1>6. ASSUME NEW t \in User, ASleep(t), UNCHANGED cvonly PROVE MutualExclusion' /\ HolderKnown'
  BY <1>6 DEF ASleep, LkGoto, CvTypeOK
<1>7. ASSUME NEW t \in User, ReleaseCall(t), UNCHANGED cvonly PROVE MutualExclusion' /\ HolderKnown'
  BY <1>7 DEF ReleaseCall, LkGoto, CvTypeOK
<1>8. ASSUME NEW t \in User, RAcquire(t), UNCHANGED cvonly PROVE MutualExclusion' /\ HolderKnown'
  BY <1>8 DEF RAcquire, LkGoto, CvTypeOK
<1>9. ASSUME NEW t \in User, RDrop(t), UNCHANGED cvonly PROVE MutualExclusion' /\ HolderKnown'
  BY <1>9, LockAssumption DEF RDrop, LkGoto, CvTypeOK
<1>10. ASSUME NEW t \in User, RIgnore(t), UNCHANGED cvonly PROVE MutualExclusion' /\ HolderKnown'
  BY <1>10 DEF RIgnore, LkGoto, CvTypeOK
<1>11. ASSUME NEW t \in User, RNobody(t), UNCHANGED cvonly PROVE MutualExclusion' /\ HolderKnown'
  BY <1>11 DEF RNobody, LkGoto, CvTypeOK
<1>12. ASSUME NEW t \in User, RWake(t), UNCHANGED cvonly PROVE MutualExclusion' /\ HolderKnown'
  BY <1>12 DEF RWake, LkGoto, CvTypeOK
<1>13. ASSUME NEW t \in User, RReady(t), UNCHANGED cvonly PROVE MutualExclusion' /\ HolderKnown'
  <2>1. /\ lk_target[t] \in User /\ lk_pc'[t] = "R.unlock" /\ lk_pc'[lk_target[t]] = "A.acquire"
        /\ \A u \in User : u # t /\ u # lk_target[t] => lk_pc'[u] = lk_pc[u]
        /\ UNCHANGED <<cont, holder>> /\ lk_pc[t] = "R.ready" /\ lk_pc[lk_target[t]] = "A.asleep"
    BY <1>13 DEF RReady, CvControl, CvTypeOK
  <2> QED
    BY <2>1
<1>14. ASSUME NEW t \in User, RUnlock(t), UNCHANGED cvonly PROVE MutualExclusion' /\ HolderKnown'
  BY Zenon, <1>14 DEF RUnlock, LkGoto, CvTypeOK, CvControl, ReleaseLabels
<1>15. ASSUME NEW t \in User, WaitCall(t) PROVE MutualExclusion' /\ HolderKnown'
  BY <1>15 DEF WaitCall, LkGoto, CvTypeOK
<1>16. ASSUME NEW t \in User, WLock(t) PROVE MutualExclusion' /\ HolderKnown'
  BY <1>16 DEF WLock, LkGoto, CvTypeOK
<1>17. ASSUME NEW t \in User, WSleep(t) PROVE MutualExclusion' /\ HolderKnown'
  BY <1>17 DEF WSleep, LkGoto, CvTypeOK
<1>18. ASSUME NEW t \in User, SignalCall(t) PROVE MutualExclusion' /\ HolderKnown'
  BY <1>18 DEF SignalCall, WakeCall, LkGoto, CvTypeOK
<1>19. ASSUME NEW t \in User, BroadcastCall(t) PROVE MutualExclusion' /\ HolderKnown'
  BY <1>19 DEF BroadcastCall, WakeCall, LkGoto, CvTypeOK
<1>20. ASSUME NEW t \in User, SWake(t) PROVE MutualExclusion' /\ HolderKnown'
  BY <1>20 DEF SWake, LkGoto, CvTypeOK
<1>21. ASSUME NEW t \in User, BWake(t) PROVE MutualExclusion' /\ HolderKnown'
  BY <1>21 DEF BWake, LkGoto, CvTypeOK
<1>22. ASSUME NEW t \in User, CReady(t) PROVE MutualExclusion' /\ HolderKnown'
  <2>1. \A u \in User : u # Head(woken[t]) => lk_pc'[u] = lk_pc[u]
    BY <1>22, Readied DEF WaitersInOnePlace
  <2>2. /\ lk_pc'[Head(woken[t])] = "A.acquire" /\ lk_pc[Head(woken[t])] = "W.asleep"
        /\ UNCHANGED <<cont, holder>>
    BY Zenon, <1>22, Readied DEF WaitersInOnePlace, CReady
  <2> QED
    BY <2>1, <2>2
<1>23. ASSUME NEW t \in User, CReturn(t) PROVE MutualExclusion' /\ HolderKnown'
  BY <1>23 DEF CReturn, LkGoto, CvTypeOK
<1>24. CASE UNCHANGED cvvars
  BY <1>24 DEF cvvars, lkvars, LkGoto, CvTypeOK
<1> QED
  BY Zenon, <1>1, <1>2, <1>3, <1>4, <1>5, <1>6, <1>7, <1>8, <1>9, <1>10, <1>11, <1>12,
     <1>13, <1>14, <1>15, <1>16, <1>17, <1>18, <1>19, <1>20, <1>21, <1>22, <1>23, <1>24 DEF CvNext, CvStep, LkStep

-----------------------------------------------------------------------------
(* The initial states satisfy the invariant. *)
LEMMA Initially == CvInit => IInv
<1> SUFFICES ASSUME CvInit PROVE IInv
  OBVIOUS
<1> USE DEF CvInit, LkInit
<1>1. CvTypeOK
  BY DEF CvTypeOK, CvLabels
<1>2. CvControl
  BY LockAssumption DEF CvControl, HoldsLkLock, HoldsChannel, ReleaseLabels, WakeLabels
<1>3. WaitersInOnePlace
  BY EmptyElements DEF WaitersInOnePlace, SleepersQueued, WaitersPlaced
<1>4. NoLostRelease
  BY DEF NoLostRelease
<1>5. MutualExclusion /\ HolderKnown
  BY LockAssumption DEF MutualExclusion, HolderKnown, Inside, WakeLabels
<1> QED
  BY <1>1, <1>2, <1>3, <1>4, <1>5 DEF IInv

(* IInv is inductive. *)
LEMMA InductiveStep ==
  ASSUME IInv, [CvNext]_cvvars
  PROVE  IInv'
  BY TypeStep, ControlStep, QueuedStep, PlacedStep, NoLostReleaseStep, ExclusionStep
     DEF IInv, WaitersInOnePlace

(* The inductive invariant holds throughout. *)
LEMMA Inductive == CvSpec => []IInv
  BY Initially, InductiveStep, PTL DEF CvSpec

-----------------------------------------------------------------------------
(* What a thread looks like to the callers of the lock depends on where it *)
(* is and where it returns to.                                             *)
LEMMA LooksTheSame ==
  ASSUME NEW s \in User, lk_pc'[s] = lk_pc[s], cont'[s] = cont[s]
  PROVE  CvAtOf(s)' = CvAtOf(s)
  BY DEF CvAtOf, AtOf

(* A step of one thread is a Move of AtomicLock. *)
LEMMA Moves ==
  ASSUME NEW t \in User, NEW from, NEW to,
         CvAtOf(t) = from, CvAtOf(t)' = to,
         \A s \in User : s # t => CvAtOf(s)' = CvAtOf(s)
  PROVE  CvAtomic!Move(t, from, to)
  BY Zenon DEF CvAtomic!Move

(* A step that changes neither the holder nor where a thread is stutters. *)
LEMMA Stays ==
  ASSUME UNCHANGED holder, \A s \in User : CvAtOf(s)' = CvAtOf(s)
  PROVE  UNCHANGED <<holder, [x \in User |-> CvAtOf(x)]>>
  OBVIOUS

(* Every step of the code is a step of AtomicLock or changes nothing there. *)
LEMMA AtomicStep ==
  ASSUME CvTypeOK, CvControl, WaitersInOnePlace, [CvNext]_cvvars
  PROVE  [CvAtomic!Next]_<<holder, [x \in User |-> CvAtOf(x)]>>
<1>1. ASSUME NEW t \in User, AcquireCall(t), UNCHANGED cvonly PROVE [CvAtomic!Next]_<<holder, [x \in User |-> CvAtOf(x)]>>
  <2>1. \A s \in User : s # t => CvAtOf(s)' = CvAtOf(s)
    BY <1>1, LooksTheSame DEF AcquireCall, LkGoto, CvTypeOK
  <2>2. CvAtOf(t) = "out" /\ CvAtOf(t)' = "acquiring"
    BY <1>1 DEF AcquireCall, LkGoto, CvTypeOK, CvAtOf, AtOf, AcquireLabels, ReleaseLabels, WaitLabels, WakeLabels
  <2>3. CvAtomic!CallAcquire(t)
    BY <1>1, <2>1, <2>2, Moves DEF AcquireCall, CvAtomic!CallAcquire
  <2> QED
    BY <2>3 DEF CvAtomic!Next
<1>2. ASSUME NEW t \in User, AAcquire(t), UNCHANGED cvonly PROVE [CvAtomic!Next]_<<holder, [x \in User |-> CvAtOf(x)]>>
  <2>1. \A s \in User : s # t => CvAtOf(s)' = CvAtOf(s)
    BY <1>2, LooksTheSame DEF AAcquire, LkGoto, CvTypeOK
  <2>2. CvAtOf(t)' = CvAtOf(t) /\ UNCHANGED holder
    BY <1>2 DEF AAcquire, LkGoto, CvTypeOK, CvControl, CvAtOf, AtOf, AcquireLabels, ReleaseLabels, WaitLabels, WakeLabels
  <2> QED
    BY <2>1, <2>2, Stays
<1>3. ASSUME NEW t \in User, ATake(t), UNCHANGED cvonly PROVE [CvAtomic!Next]_<<holder, [x \in User |-> CvAtOf(x)]>>
  <2>1. \A s \in User : s # t => CvAtOf(s)' = CvAtOf(s)
    BY <1>3, LooksTheSame DEF ATake, LkGoto, CvTypeOK
  <2>2. CvAtOf(t) = "acquiring" /\ CvAtOf(t)' = "in"
    BY <1>3 DEF ATake, LkGoto, CvTypeOK, CvAtOf, AtOf, AcquireLabels, ReleaseLabels, WaitLabels, WakeLabels
  <2>3. CvAtomic!Take(t)
    BY <1>3, <2>1, <2>2, Moves DEF ATake, CvAtomic!Take
  <2> QED
    BY <2>3 DEF CvAtomic!Next
<1>4. ASSUME NEW t \in User, ABridge(t), UNCHANGED cvonly PROVE [CvAtomic!Next]_<<holder, [x \in User |-> CvAtOf(x)]>>
  <2>1. \A s \in User : s # t => CvAtOf(s)' = CvAtOf(s)
    BY <1>4, LooksTheSame DEF ABridge, LkGoto, CvTypeOK
  <2>2. CvAtOf(t)' = CvAtOf(t) /\ UNCHANGED holder
    BY <1>4 DEF ABridge, LkGoto, CvTypeOK, CvControl, CvAtOf, AtOf, AcquireLabels, ReleaseLabels, WaitLabels, WakeLabels
  <2> QED
    BY <2>1, <2>2, Stays
<1>5. ASSUME NEW t \in User, AUnlock(t), UNCHANGED cvonly PROVE [CvAtomic!Next]_<<holder, [x \in User |-> CvAtOf(x)]>>
  <2>1. \A s \in User : s # t => CvAtOf(s)' = CvAtOf(s)
    BY <1>5, LooksTheSame DEF AUnlock, LkGoto, CvTypeOK
  <2>2. CvAtOf(t)' = CvAtOf(t) /\ UNCHANGED holder
    BY <1>5 DEF AUnlock, LkGoto, CvTypeOK, CvControl, CvAtOf, AtOf, AcquireLabels, ReleaseLabels, WaitLabels, WakeLabels
  <2> QED
    BY <2>1, <2>2, Stays
<1>6. ASSUME NEW t \in User, ASleep(t), UNCHANGED cvonly PROVE [CvAtomic!Next]_<<holder, [x \in User |-> CvAtOf(x)]>>
  <2>1. \A s \in User : s # t => CvAtOf(s)' = CvAtOf(s)
    BY <1>6, LooksTheSame DEF ASleep, LkGoto, CvTypeOK
  <2>2. CvAtOf(t)' = CvAtOf(t) /\ UNCHANGED holder
    BY <1>6 DEF ASleep, LkGoto, CvTypeOK, CvControl, CvAtOf, AtOf, AcquireLabels, ReleaseLabels, WaitLabels, WakeLabels
  <2> QED
    BY <2>1, <2>2, Stays
<1>7. ASSUME NEW t \in User, ReleaseCall(t), UNCHANGED cvonly PROVE [CvAtomic!Next]_<<holder, [x \in User |-> CvAtOf(x)]>>
  <2>1. \A s \in User : s # t => CvAtOf(s)' = CvAtOf(s)
    BY <1>7, LooksTheSame DEF ReleaseCall, LkGoto, CvTypeOK
  <2>2. CvAtOf(t) \in {"in", "out"} /\ CvAtOf(t)' = "releasing"
    BY <1>7 DEF ReleaseCall, LkGoto, CvTypeOK, CvAtOf, AtOf, AcquireLabels, ReleaseLabels, WaitLabels, WakeLabels
  <2>3. CvAtomic!CallRelease(t)
    BY <1>7, <2>1, <2>2, Moves DEF ReleaseCall, CvAtomic!CallRelease
  <2> QED
    BY <2>3 DEF CvAtomic!Next
<1>8. ASSUME NEW t \in User, RAcquire(t), UNCHANGED cvonly PROVE [CvAtomic!Next]_<<holder, [x \in User |-> CvAtOf(x)]>>
  <2>1. \A s \in User : s # t => CvAtOf(s)' = CvAtOf(s)
    BY <1>8, LooksTheSame DEF RAcquire, LkGoto, CvTypeOK
  <2>2. CvAtOf(t)' = CvAtOf(t) /\ UNCHANGED holder
    BY <1>8 DEF RAcquire, LkGoto, CvTypeOK, CvControl, CvAtOf, AtOf, AcquireLabels, ReleaseLabels, WaitLabels, WakeLabels
  <2> QED
    BY <2>1, <2>2, Stays
<1>9. ASSUME NEW t \in User, RDrop(t), UNCHANGED cvonly PROVE [CvAtomic!Next]_<<holder, [x \in User |-> CvAtOf(x)]>>
  <2>1. \A s \in User : s # t => CvAtOf(s)' = CvAtOf(s)
    BY <1>9, LooksTheSame DEF RDrop, LkGoto, CvTypeOK
  <2>2. CvAtOf(t) = "releasing" /\ CvAtOf(t)' = "released"
    BY <1>9 DEF RDrop, LkGoto, CvTypeOK, CvAtOf, AtOf, AcquireLabels, ReleaseLabels, WaitLabels, WakeLabels
  <2>3. CvAtomic!Drop(t)
    BY <1>9, <2>1, <2>2, Moves DEF RDrop, CvAtomic!Drop
  <2> QED
    BY <2>3 DEF CvAtomic!Next
<1>10. ASSUME NEW t \in User, RIgnore(t), UNCHANGED cvonly PROVE [CvAtomic!Next]_<<holder, [x \in User |-> CvAtOf(x)]>>
  <2>1. \A s \in User : s # t => CvAtOf(s)' = CvAtOf(s)
    BY <1>10, LooksTheSame DEF RIgnore, LkGoto, CvTypeOK
  <2>2. CvAtOf(t) = "releasing" /\ CvAtOf(t)' = "released"
    BY <1>10 DEF RIgnore, LkGoto, CvTypeOK, CvAtOf, AtOf, AcquireLabels, ReleaseLabels, WaitLabels, WakeLabels
  <2>3. CvAtomic!Drop(t)
    BY <1>10, <2>1, <2>2, Moves DEF RIgnore, CvAtomic!Drop
  <2> QED
    BY <2>3 DEF CvAtomic!Next
<1>11. ASSUME NEW t \in User, RNobody(t), UNCHANGED cvonly PROVE [CvAtomic!Next]_<<holder, [x \in User |-> CvAtOf(x)]>>
  <2>1. \A s \in User : s # t => CvAtOf(s)' = CvAtOf(s)
    BY <1>11, LooksTheSame DEF RNobody, LkGoto, CvTypeOK
  <2>2. CvAtOf(t)' = CvAtOf(t) /\ UNCHANGED holder
    BY <1>11 DEF RNobody, LkGoto, CvTypeOK, CvControl, CvAtOf, AtOf, AcquireLabels, ReleaseLabels, WaitLabels, WakeLabels
  <2> QED
    BY <2>1, <2>2, Stays
<1>12. ASSUME NEW t \in User, RWake(t), UNCHANGED cvonly PROVE [CvAtomic!Next]_<<holder, [x \in User |-> CvAtOf(x)]>>
  <2>1. \A s \in User : s # t => CvAtOf(s)' = CvAtOf(s)
    BY <1>12, LooksTheSame DEF RWake, LkGoto, CvTypeOK
  <2>2. CvAtOf(t)' = CvAtOf(t) /\ UNCHANGED holder
    BY <1>12 DEF RWake, LkGoto, CvTypeOK, CvControl, CvAtOf, AtOf, AcquireLabels, ReleaseLabels, WaitLabels, WakeLabels
  <2> QED
    BY <2>1, <2>2, Stays
<1>13. ASSUME NEW t \in User, RReady(t), UNCHANGED cvonly PROVE [CvAtomic!Next]_<<holder, [x \in User |-> CvAtOf(x)]>>
  <2>1. PICK u \in User : u = lk_target[t] /\ lk_pc[u] = "A.asleep"
    BY <1>13 DEF RReady, CvControl
  <2>2. /\ lk_pc[t] = "R.ready" /\ lk_pc'[t] = "R.unlock" /\ lk_pc'[u] = "A.acquire"
        /\ \A s \in User : s # t /\ s # u => lk_pc'[s] = lk_pc[s]
        /\ UNCHANGED <<cont, holder>>
    BY <1>13, <2>1 DEF RReady, CvTypeOK
  <2>3. \A s \in User : s # t /\ s # u => CvAtOf(s)' = CvAtOf(s)
    BY <2>2, LooksTheSame
  <2>4. CvAtOf(t)' = CvAtOf(t) /\ CvAtOf(u)' = CvAtOf(u)
    BY <2>1, <2>2 DEF CvAtOf, AtOf, AcquireLabels, ReleaseLabels, WaitLabels, WakeLabels
  <2> QED
    BY <2>2, <2>3, <2>4, Stays
<1>14. ASSUME NEW t \in User, RUnlock(t), UNCHANGED cvonly PROVE [CvAtomic!Next]_<<holder, [x \in User |-> CvAtOf(x)]>>
  <2>1. \A s \in User : s # t => CvAtOf(s)' = CvAtOf(s)
    BY <1>14, LooksTheSame DEF RUnlock, LkGoto, CvTypeOK
  <2>2. CvAtOf(t) = "released" /\ CvAtOf(t)' = "out"
    BY <1>14 DEF RUnlock, LkGoto, CvTypeOK, CvControl, CvAtOf, AtOf, AcquireLabels, ReleaseLabels, WaitLabels, WakeLabels
  <2>3. CvAtomic!ReturnRelease(t)
    BY <1>14, <2>1, <2>2, Moves DEF RUnlock, CvAtomic!ReturnRelease
  <2> QED
    BY <2>3 DEF CvAtomic!Next
<1>15. ASSUME NEW t \in User, WaitCall(t) PROVE [CvAtomic!Next]_<<holder, [x \in User |-> CvAtOf(x)]>>
  <2>1. \A s \in User : s # t => CvAtOf(s)' = CvAtOf(s)
    BY <1>15, LooksTheSame DEF WaitCall, LkGoto, CvTypeOK
  <2>2. CvAtOf(t) \in {"in", "out"} /\ CvAtOf(t)' = "releasing"
    BY <1>15 DEF WaitCall, LkGoto, CvTypeOK, CvAtOf, AtOf, AcquireLabels, ReleaseLabels, WaitLabels, WakeLabels
  <2>3. CvAtomic!CallRelease(t)
    BY <1>15, <2>1, <2>2, Moves DEF WaitCall, CvAtomic!CallRelease
  <2> QED
    BY <2>3 DEF CvAtomic!Next
<1>16. ASSUME NEW t \in User, WLock(t) PROVE [CvAtomic!Next]_<<holder, [x \in User |-> CvAtOf(x)]>>
  <2>1. \A s \in User : s # t => CvAtOf(s)' = CvAtOf(s)
    BY <1>16, LooksTheSame DEF WLock, LkGoto, CvTypeOK
  <2>2. CvAtOf(t)' = CvAtOf(t) /\ UNCHANGED holder
    BY <1>16 DEF WLock, LkGoto, CvTypeOK, CvControl, CvAtOf, AtOf, AcquireLabels, ReleaseLabels, WaitLabels, WakeLabels
  <2> QED
    BY <2>1, <2>2, Stays
<1>17. ASSUME NEW t \in User, WSleep(t) PROVE [CvAtomic!Next]_<<holder, [x \in User |-> CvAtOf(x)]>>
  <2>1. \A s \in User : s # t => CvAtOf(s)' = CvAtOf(s)
    BY <1>17, LooksTheSame DEF WSleep, LkGoto, CvTypeOK
  <2>2. CvAtOf(t)' = CvAtOf(t) /\ UNCHANGED holder
    BY <1>17 DEF WSleep, LkGoto, CvTypeOK, CvControl, CvAtOf, AtOf, AcquireLabels, ReleaseLabels, WaitLabels, WakeLabels
  <2> QED
    BY <2>1, <2>2, Stays
<1>18. ASSUME NEW t \in User, SignalCall(t) PROVE [CvAtomic!Next]_<<holder, [x \in User |-> CvAtOf(x)]>>
  <2>1. \A s \in User : s # t => CvAtOf(s)' = CvAtOf(s)
    BY <1>18, LooksTheSame DEF SignalCall, WakeCall, LkGoto, CvTypeOK
  <2>2. CvAtOf(t)' = CvAtOf(t) /\ UNCHANGED holder
    BY Zenon, <1>18 DEF SignalCall, WakeCall, LkGoto, CvTypeOK, CvControl, CvAtOf, AtOf, AcquireLabels, ReleaseLabels, WaitLabels, WakeLabels
  <2> QED
    BY <2>1, <2>2, Stays
<1>19. ASSUME NEW t \in User, BroadcastCall(t) PROVE [CvAtomic!Next]_<<holder, [x \in User |-> CvAtOf(x)]>>
  <2>1. \A s \in User : s # t => CvAtOf(s)' = CvAtOf(s)
    BY <1>19, LooksTheSame DEF BroadcastCall, WakeCall, LkGoto, CvTypeOK
  <2>2. CvAtOf(t)' = CvAtOf(t) /\ UNCHANGED holder
    BY Zenon, <1>19 DEF BroadcastCall, WakeCall, LkGoto, CvTypeOK, CvControl, CvAtOf, AtOf, AcquireLabels, ReleaseLabels, WaitLabels, WakeLabels
  <2> QED
    BY <2>1, <2>2, Stays
<1>20. ASSUME NEW t \in User, SWake(t) PROVE [CvAtomic!Next]_<<holder, [x \in User |-> CvAtOf(x)]>>
  <2>1. \A s \in User : s # t => CvAtOf(s)' = CvAtOf(s)
    BY <1>20, LooksTheSame DEF SWake, LkGoto, CvTypeOK
  <2>2. CvAtOf(t)' = CvAtOf(t) /\ UNCHANGED holder
    BY <1>20 DEF SWake, LkGoto, CvTypeOK, CvControl, CvAtOf, AtOf, AcquireLabels, ReleaseLabels, WaitLabels, WakeLabels
  <2> QED
    BY <2>1, <2>2, Stays
<1>21. ASSUME NEW t \in User, BWake(t) PROVE [CvAtomic!Next]_<<holder, [x \in User |-> CvAtOf(x)]>>
  <2>1. \A s \in User : s # t => CvAtOf(s)' = CvAtOf(s)
    BY <1>21, LooksTheSame DEF BWake, LkGoto, CvTypeOK
  <2>2. CvAtOf(t)' = CvAtOf(t) /\ UNCHANGED holder
    BY <1>21 DEF BWake, LkGoto, CvTypeOK, CvControl, CvAtOf, AtOf, AcquireLabels, ReleaseLabels, WaitLabels, WakeLabels
  <2> QED
    BY <2>1, <2>2, Stays
<1>22. ASSUME NEW t \in User, CReady(t) PROVE [CvAtomic!Next]_<<holder, [x \in User |-> CvAtOf(x)]>>
  <2>1. PICK u \in User : u = Head(woken[t])
    BY <1>22, Readied DEF WaitersInOnePlace
  <2>2. /\ lk_pc[u] = "W.asleep" /\ lk_pc'[u] = "A.acquire"
        /\ \A s \in User : s # u => lk_pc'[s] = lk_pc[s]
    BY <1>22, <2>1, Readied DEF WaitersInOnePlace
  <2>3. UNCHANGED <<cont, holder>>
    BY <1>22 DEF CReady
  <2>4. \A s \in User : s # u => CvAtOf(s)' = CvAtOf(s)
    BY <2>2, <2>3, LooksTheSame
  <2>5. CvAtOf(u) = "out" /\ CvAtOf(u)' = "acquiring"
    BY <2>2 DEF CvAtOf, AtOf, AcquireLabels, ReleaseLabels, WaitLabels, WakeLabels
  <2>6. CvAtomic!CallAcquire(u)
    BY <2>3, <2>4, <2>5, Moves DEF CvAtomic!CallAcquire
  <2> QED
    BY <2>6 DEF CvAtomic!Next
<1>23. ASSUME NEW t \in User, CReturn(t) PROVE [CvAtomic!Next]_<<holder, [x \in User |-> CvAtOf(x)]>>
  <2>1. \A s \in User : s # t => CvAtOf(s)' = CvAtOf(s)
    BY <1>23, LooksTheSame DEF CReturn, LkGoto, CvTypeOK
  <2>2. CvAtOf(t)' = CvAtOf(t) /\ UNCHANGED holder
    BY <1>23 DEF CReturn, LkGoto, CvTypeOK, CvControl, CvAtOf, AtOf, AcquireLabels, ReleaseLabels, WaitLabels, WakeLabels
  <2> QED
    BY <2>1, <2>2, Stays
<1>24. CASE UNCHANGED cvvars
  BY <1>24, LooksTheSame, Stays DEF cvvars, lkvars
<1> QED
  BY Zenon, <1>1, <1>2, <1>3, <1>4, <1>5, <1>6, <1>7, <1>8, <1>9, <1>10, <1>11, <1>12,
     <1>13, <1>14, <1>15, <1>16, <1>17, <1>18, <1>19, <1>20, <1>21, <1>22, <1>23, <1>24 DEF CvNext, CvStep, LkStep

-----------------------------------------------------------------------------
(* Racing signals and broadcasts wake each waiter once, and the lock's     *)
(* channel holds each sleeper once, for any number of threads (cv_wait,    *)
(* cv_signal, cv_broadcast, lock_acquire, lock_release).                   *)
THEOREM WaitersWokenOnce == CvSpec => []WaitersInOnePlace
<1>1. IInv => WaitersInOnePlace
  BY DEF IInv
<1> QED
  BY Inductive, <1>1, PTL

(* No release is lost between lock_acquire's test and its sleep, also when *)
(* the lock is released and taken by cv_wait.                              *)
THEOREM NoReleaseLost == CvSpec => []NoLostRelease
<1>1. IInv => NoLostRelease
  BY DEF IInv
<1> QED
  BY Inductive, <1>1, PTL

(* The lock excludes: two threads are never inside it. *)
THEOREM LockExcludes == CvSpec => []MutualExclusion
<1>1. IInv => MutualExclusion
  BY DEF IInv
<1> QED
  BY Inductive, <1>1, PTL

(* lock_acquire and lock_release, called directly or by cv_wait, are the   *)
(* atomic operations of synch.h.                                           *)
THEOREM LockImplementsAtomic == CvSpec => LockIsAtomic
<1>1. CvInit => CvAtomic!Init
  <2> SUFFICES ASSUME CvInit PROVE CvAtomic!Init
    OBVIOUS
  <2>1. \A t \in User : CvAtOf(t) = "out"
    BY DEF CvInit, LkInit, CvAtOf, AtOf, AcquireLabels, WaitLabels, WakeLabels
  <2> QED
    BY <2>1 DEF CvInit, LkInit, CvAtomic!Init
<1>2. IInv /\ [CvNext]_cvvars => [CvAtomic!Next]_<<holder, [x \in User |-> CvAtOf(x)]>>
  BY AtomicStep DEF IInv
<1>3. CvSpec => []IInv
  BY Inductive
<1> QED
  BY <1>1, <1>2, <1>3, PTL DEF CvSpec, LockIsAtomic, CvAtomic!Spec

=============================================================================
