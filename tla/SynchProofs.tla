-------------------------- MODULE SynchProofs --------------------------
(***************************************************************************)
(* Proofs about the semaphore (Semaphore), for any number of threads,      *)
(* handlers and semaphores and any bound on the count, and about the       *)
(* condition variable test (CvTest), for any number of threads and loops:  *)
(* the test rests on what CondVarProofs shows of the lock and the          *)
(* condition variable.                                                     *)
(***************************************************************************)
EXTENDS Semaphore, CondVarProofs, CvTest, FiniteSetTheorems

(* Where a thread holds the spinlock of its semaphore. *)
HoldsSemLock(t) ==
  pc[t] \in {"P.test", "P.bridge", "V.inc", "V.wake", "V.ready", "V.unlock"}

(* Where a thread holds the spinlock of its semaphore's wait channel. *)
HoldsSem(t) == pc[t] \in {"P.bridge", "P.sleep"}

(* The facts about control that the other invariants rest on. *)
Control ==
  /\ \A t \in Thread : (pc[t] = "run") <=> (arg[t] = NoSem)
  /\ \A t \in Thread, s \in Sem :
       (sem_lock[s] = t) <=> (HoldsSemLock(t) /\ arg[t] = s)
  /\ \A t \in Thread, s \in Sem :
       (wc_lock[s] = t) <=> (HoldsSem(t) /\ arg[t] = s)
  /\ \A t \in Thread : pc[t] = "P.bridge" => sem_count[arg[t]] = 0
  /\ \A t \in Thread :
       pc[t] = "V.ready" => /\ target[t] \in Thread
                            /\ pc[target[t]] = "asleep"
                            /\ arg[target[t]] = arg[t]

SemInv == TypeOK /\ Control /\ WokenOnce /\ NoLostWakeup

-----------------------------------------------------------------------------
(* A thread inside P or V has a semaphore. *)
LEMMA ArgInSem ==
  ASSUME TypeOK, Control
  PROVE  \A t \in Thread : pc[t] # "run" => arg[t] \in Sem
BY DEF TypeOK, Control

(* Every step of P and V respects the types of the variables. *)
LEMMA SemTypeStep ==
  ASSUME TypeOK, Control, WokenOnce, [Next]_vars
  PROVE  TypeOK'
<1> USE SemAssumption DEF TypeOK, Labels, Goto, Return
<1>1. ASSUME NEW t \in Thread, NEW s \in Sem, PCall(t, s) PROVE TypeOK'
  BY <1>1, ArgInSem DEF PCall
<1>2. ASSUME NEW t \in Thread, PAcquire(t) PROVE TypeOK'
  BY <1>2, ArgInSem DEF PAcquire
<1>3. ASSUME NEW t \in Thread, PTake(t) PROVE TypeOK'
  BY <1>3, ArgInSem DEF PTake
<1>4. ASSUME NEW t \in Thread, PBridge(t) PROVE TypeOK'
  BY <1>4, ArgInSem DEF PBridge
<1>5. ASSUME NEW t \in Thread, PUnlock(t) PROVE TypeOK'
  BY <1>5, ArgInSem DEF PUnlock
<1>6. ASSUME NEW t \in Thread, PSleep(t) PROVE TypeOK'
  BY <1>6, ArgInSem DEF PSleep
<1>7. ASSUME NEW t \in Thread, NEW s \in Sem, VCall(t, s) PROVE TypeOK'
  BY <1>7, ArgInSem DEF VCall
<1>8. ASSUME NEW t \in Thread, VAcquire(t) PROVE TypeOK'
  BY <1>8, ArgInSem DEF VAcquire
<1>9. ASSUME NEW t \in Thread, VInc(t) PROVE TypeOK'
  BY <1>9, ArgInSem DEF VInc
<1>10. ASSUME NEW t \in Thread, VNobody(t) PROVE TypeOK'
  BY <1>10, ArgInSem DEF VNobody
<1>11. ASSUME NEW t \in Thread, VWake(t) PROVE TypeOK'
  <2>1. arg[t] \in Sem
    BY <1>11, ArgInSem DEF VWake
  <2>2. /\ Tail(wc_threads[arg[t]]) \in Seq(Thread)
        /\ Head(wc_threads[arg[t]]) \in Thread
    BY <1>11, <2>1, TailElements DEF VWake, WokenOnce
  <2> QED
    BY <1>11, <2>1, <2>2 DEF VWake
<1>12. ASSUME NEW t \in Thread, VReady(t) PROVE TypeOK'
  BY Zenon, <1>12, ArgInSem DEF VReady
<1>13. ASSUME NEW t \in Thread, VUnlock(t) PROVE TypeOK'
  BY <1>13, ArgInSem DEF VUnlock
<1>14. CASE UNCHANGED vars
  BY <1>14 DEF vars
<1> QED
  BY Zenon, <1>1, <1>2, <1>3, <1>4, <1>5, <1>6, <1>7, <1>8, <1>9, <1>10, <1>11, <1>12,
     <1>13, <1>14 DEF Next, Step

(* Every step keeps the locks, the arguments and the targets in order. *)
LEMMA SemControlStep ==
  ASSUME TypeOK, Control, WokenOnce, [Next]_vars
  PROVE  Control'
<1> USE SemAssumption DEF TypeOK, Labels, Goto, Return, Control, HoldsSemLock, HoldsSem
<1>1. ASSUME NEW t \in Thread, NEW s \in Sem, PCall(t, s) PROVE Control'
  BY <1>1, ArgInSem DEF PCall
<1>2. ASSUME NEW t \in Thread, PAcquire(t) PROVE Control'
  BY <1>2, ArgInSem DEF PAcquire
<1>3. ASSUME NEW t \in Thread, PTake(t) PROVE Control'
  BY <1>3, ArgInSem DEF PTake
<1>4. ASSUME NEW t \in Thread, PBridge(t) PROVE Control'
  BY <1>4, ArgInSem DEF PBridge
<1>5. ASSUME NEW t \in Thread, PUnlock(t) PROVE Control'
  BY <1>5, ArgInSem DEF PUnlock
<1>6. ASSUME NEW t \in Thread, PSleep(t) PROVE Control'
  BY <1>6, ArgInSem DEF PSleep
<1>7. ASSUME NEW t \in Thread, NEW s \in Sem, VCall(t, s) PROVE Control'
  BY <1>7, ArgInSem DEF VCall
<1>8. ASSUME NEW t \in Thread, VAcquire(t) PROVE Control'
  BY <1>8, ArgInSem DEF VAcquire
<1>9. ASSUME NEW t \in Thread, VInc(t) PROVE Control'
  <2>1. ASSUME NEW u \in Thread, pc[u] = "P.bridge" PROVE arg[u] # arg[t]
    BY <1>9, <2>1, ArgInSem DEF VInc
  <2> QED
    BY <1>9, <2>1, ArgInSem DEF VInc
<1>10. ASSUME NEW t \in Thread, VNobody(t) PROVE Control'
  BY <1>10, ArgInSem DEF VNobody
<1>11. ASSUME NEW t \in Thread, VWake(t) PROVE Control'
  <2>1. arg[t] \in Sem
    BY <1>11, ArgInSem DEF VWake
  <2> DEFINE u == Head(wc_threads[arg[t]])
  <2>2. u \in Thread /\ pc[u] = "asleep" /\ arg[u] = arg[t]
    <3>1. u \in Range(wc_threads[arg[t]])
      BY <1>11, <2>1, TailElements DEF VWake, WokenOnce
    <3> QED
      BY <2>1, <3>1 DEF WokenOnce
  <2>3. target' = [target EXCEPT ![t] = u]
    BY <1>11 DEF VWake
  <2> HIDE DEF u
  <2> QED
    BY <1>11, <2>1, <2>2, <2>3 DEF VWake
<1>12. ASSUME NEW t \in Thread, VReady(t) PROVE Control'
  <2>1. /\ target[t] \in Thread /\ target[t] # t
        /\ pc[target[t]] = "asleep" /\ arg[target[t]] \in Sem
    BY <1>12, ArgInSem DEF VReady
  <2>2. \A v \in Thread : pc[v] = "V.ready" /\ v # t => target[v] # target[t]
    BY <1>12 DEF VReady, WokenOnce
  <2> QED
    BY <1>12, <2>1, <2>2 DEF VReady
<1>13. ASSUME NEW t \in Thread, VUnlock(t) PROVE Control'
  BY <1>13, ArgInSem DEF VUnlock
<1>14. CASE UNCHANGED vars
  BY <1>14 DEF vars
<1> QED
  BY Zenon, <1>1, <1>2, <1>3, <1>4, <1>5, <1>6, <1>7, <1>8, <1>9, <1>10, <1>11, <1>12,
     <1>13, <1>14 DEF Next, Step

(* A step that leaves the channels and the targets alone, and moves no     *)
(* thread into or out of a sleep or a wakeup, leaves WokenOnce alone.      *)
LEMMA WokenQuiet ==
  ASSUME WokenOnce,
         UNCHANGED <<wc_threads, target>>,
         \A u \in Thread :
           /\ (pc[u] = "asleep") <=> (pc'[u] = "asleep")
           /\ (pc[u] = "V.ready") <=> (pc'[u] = "V.ready")
           /\ pc[u] = "asleep" => arg'[u] = arg[u]
  PROVE  WokenOnce'
<1>1. \A u \in Thread : InFlight(u)' <=> InFlight(u)
  BY DEF InFlight
<1>2. ASSUME NEW s \in Sem
      PROVE  {u \in Thread : arg'[u] = s /\ pc'[u] = "asleep" /\ ~InFlight(u)'} =
               {u \in Thread : arg[u] = s /\ pc[u] = "asleep" /\ ~InFlight(u)}
  BY <1>1
<1> QED
  BY <1>2 DEF WokenOnce

(* Every step keeps the channels and the targets in order. *)
LEMMA WokenStep ==
  ASSUME TypeOK, Control, WokenOnce, [Next]_vars
  PROVE  WokenOnce'
<1> USE SemAssumption DEF TypeOK, Labels, Goto, Return
<1> DEFINE Waiting(s) == {u \in Thread : arg[u] = s /\ pc[u] = "asleep" /\ ~InFlight(u)}
<1>0. \A s \in Sem : Range(wc_threads[s]) = Waiting(s) /\ IsInjective(wc_threads[s])
  BY DEF WokenOnce
<1>1. ASSUME NEW t \in Thread, NEW s \in Sem, PCall(t, s) PROVE WokenOnce'
  BY <1>1, WokenQuiet DEF PCall
<1>2. ASSUME NEW t \in Thread, PAcquire(t) PROVE WokenOnce'
  BY <1>2, WokenQuiet DEF PAcquire
<1>3. ASSUME NEW t \in Thread, PTake(t) PROVE WokenOnce'
  BY <1>3, WokenQuiet DEF PTake
<1>4. ASSUME NEW t \in Thread, PBridge(t) PROVE WokenOnce'
  BY <1>4, WokenQuiet DEF PBridge
<1>5. ASSUME NEW t \in Thread, PUnlock(t) PROVE WokenOnce'
  BY <1>5, WokenQuiet DEF PUnlock
<1>6. ASSUME NEW t \in Thread, PSleep(t) PROVE WokenOnce'
  <2>1. PICK s0 \in Sem : s0 = arg[t] /\ pc[t] = "P.sleep"
    BY <1>6, ArgInSem DEF PSleep
  <2>2. ~InFlight(t) /\ \A u \in Thread : InFlight(u)' <=> InFlight(u)
    BY <1>6 DEF PSleep, InFlight, Control
  <2>3. Waiting(s0)' = Waiting(s0) \cup {t}
    BY <1>6, <2>1, <2>2 DEF PSleep
  <2>4. \A s \in Sem : s # s0 => Waiting(s)' = Waiting(s)
    BY <1>6, <2>1, <2>2 DEF PSleep
  <2>5. t \notin Range(wc_threads[s0])
    BY <2>1 DEF WokenOnce
  <2>6. /\ Range(wc_threads'[s0]) = Range(wc_threads[s0]) \cup {t}
        /\ IsInjective(wc_threads'[s0])
    <3>1. wc_threads[s0] \in Seq(Thread) /\ IsInjective(wc_threads[s0])
      BY <2>1 DEF WokenOnce
    <3>2. wc_threads'[s0] = Append(wc_threads[s0], t)
      BY <1>6, <2>1 DEF PSleep
    <3> QED
      BY <2>5, <3>1, <3>2, AppendElements
  <2>7. \A s \in Sem : s # s0 => wc_threads'[s] = wc_threads[s]
    BY <1>6, <2>1 DEF PSleep
  <2>8. \A s \in Sem : Range(wc_threads'[s]) = Waiting(s)' /\ IsInjective(wc_threads'[s])
    <3> HIDE DEF Waiting
    <3> QED
      BY Zenon, <1>0, <2>1, <2>3, <2>4, <2>6, <2>7
  <2>9. \A u, v \in Thread :
          pc'[u] = "V.ready" /\ pc'[v] = "V.ready" /\ target'[u] = target'[v] => u = v
    BY <1>6 DEF PSleep, WokenOnce
  <2> QED
    BY <2>8, <2>9 DEF WokenOnce
<1>7. ASSUME NEW t \in Thread, NEW s \in Sem, VCall(t, s) PROVE WokenOnce'
  BY <1>7, WokenQuiet DEF VCall
<1>8. ASSUME NEW t \in Thread, VAcquire(t) PROVE WokenOnce'
  BY <1>8, WokenQuiet DEF VAcquire
<1>9. ASSUME NEW t \in Thread, VInc(t) PROVE WokenOnce'
  BY <1>9, WokenQuiet DEF VInc
<1>10. ASSUME NEW t \in Thread, VNobody(t) PROVE WokenOnce'
  BY <1>10, WokenQuiet DEF VNobody
<1>11. ASSUME NEW t \in Thread, VWake(t) PROVE WokenOnce'
  <2>1. PICK s0 \in Sem : s0 = arg[t] /\ pc[t] = "V.wake"
    BY <1>11, ArgInSem DEF VWake
  <2> DEFINE h == Head(wc_threads[s0])
  <2>2. /\ Range(wc_threads'[s0]) = Range(wc_threads[s0]) \ {h}
        /\ IsInjective(wc_threads'[s0])
        /\ h \in Range(wc_threads[s0])
    <3>1. wc_threads[s0] \in Seq(Thread) /\ IsInjective(wc_threads[s0])
      BY <2>1 DEF WokenOnce
    <3>2. wc_threads'[s0] = Tail(wc_threads[s0]) /\ wc_threads[s0] # << >>
      BY <1>11, <2>1 DEF VWake
    <3> QED
      BY <3>1, <3>2, TailElements
  <2>3. /\ pc' = [pc EXCEPT ![t] = "V.ready"] /\ arg' = arg
        /\ target' = [target EXCEPT ![t] = h]
    BY <1>11, <2>1 DEF VWake
  <2>4. \A s \in Sem : s # s0 => wc_threads'[s] = wc_threads[s]
    BY <1>11, <2>1 DEF VWake
  <2>5. h \in Thread /\ pc[h] = "asleep" /\ arg[h] = s0 /\ ~InFlight(h)
    BY <2>1, <2>2 DEF WokenOnce
  <2> HIDE DEF h
  <2>6. \A u \in Thread : InFlight(u)' <=> (InFlight(u) \/ u = h)
    BY <2>1, <2>3 DEF InFlight
  <2>7. Waiting(s0)' = Waiting(s0) \ {h}
    BY <2>1, <2>3, <2>5, <2>6
  <2>8. \A s \in Sem : s # s0 => Waiting(s)' = Waiting(s)
    BY <2>1, <2>3, <2>5, <2>6
  <2>9. \A s \in Sem : Range(wc_threads'[s]) = Waiting(s)' /\ IsInjective(wc_threads'[s])
    <3> HIDE DEF Waiting
    <3> QED
      BY Zenon, <1>0, <2>1, <2>2, <2>4, <2>7, <2>8
  <2>10. \A u, v \in Thread :
           pc'[u] = "V.ready" /\ pc'[v] = "V.ready" /\ target'[u] = target'[v] => u = v
    BY <2>3, <2>5 DEF WokenOnce, InFlight
  <2> QED
    BY <2>9, <2>10 DEF WokenOnce
<1>12. ASSUME NEW t \in Thread, VReady(t) PROVE WokenOnce'
  <2> DEFINE h == target[t]
  <2>1. /\ pc[t] = "V.ready" /\ h \in Thread /\ h # t
        /\ pc[h] = "asleep" /\ InFlight(h)
    BY <1>12 DEF VReady, Control, InFlight
  <2>2. /\ pc' = [pc EXCEPT ![t] = "V.unlock", ![h] = "P.acquire"] /\ arg' = arg
        /\ target' = [target EXCEPT ![t] = NoThread] /\ wc_threads' = wc_threads
    BY <1>12 DEF VReady
  <2>3. \A v \in Thread : pc[v] = "V.ready" /\ v # t => target[v] # h
    BY <2>1 DEF WokenOnce
  <2>4. \A u \in Thread : InFlight(u)' <=> (InFlight(u) /\ u # h)
    BY <2>1, <2>2, <2>3 DEF InFlight
  <2>5. \A s \in Sem : Waiting(s)' = Waiting(s)
    BY <2>1, <2>2, <2>4
  <2>6. \A u, v \in Thread :
          pc'[u] = "V.ready" /\ pc'[v] = "V.ready" /\ target'[u] = target'[v] => u = v
    BY <2>1, <2>2 DEF WokenOnce
  <2> QED
    BY Zenon, <2>2, <2>5, <2>6 DEF WokenOnce
<1>13. ASSUME NEW t \in Thread, VUnlock(t) PROVE WokenOnce'
  BY <1>13, WokenQuiet DEF VUnlock
<1>14. CASE UNCHANGED vars
  BY <1>14, WokenQuiet DEF vars
<1> QED
  BY <1>1, <1>2, <1>3, <1>4, <1>5, <1>6, <1>7, <1>8, <1>9, <1>10, <1>11, <1>12,
     <1>13, <1>14 DEF Next, Step

-----------------------------------------------------------------------------
(* The threads that will look at a count are finitely many. *)
LEMMA ActiveFinite ==
  ASSUME NEW s \in Sem
  PROVE  /\ IsFiniteSet(Active(s)) /\ Cardinality(Active(s)) \in Nat
         /\ IsFiniteSet(Active(s)') /\ Cardinality(Active(s)') \in Nat
<1>1. Active(s) \subseteq Thread /\ Active(s)' \subseteq Thread
  BY DEF Active
<1> QED
  BY <1>1, SemAssumption, FS_Subset, FS_CardinalityType

NoneLost(s) == Blocked(s) # {} => sem_count[s] <= Cardinality(Active(s))

(* A step after which no more threads wait for s, no fewer will look at    *)
(* its count, and the count is the same, loses no wakeup.                  *)
LEMMA LostQuiet ==
  ASSUME NEW s \in Sem, TypeOK, NoneLost(s),
         sem_count'[s] = sem_count[s],
         Blocked(s)' \subseteq Blocked(s), Active(s) \subseteq Active(s)'
  PROVE  NoneLost(s)'
<1>1. Cardinality(Active(s)) <= Cardinality(Active(s)')
  BY ActiveFinite, FS_Subset
<1>2. sem_count[s] \in Nat
  BY DEF TypeOK
<1> QED
  BY <1>1, <1>2, ActiveFinite DEF NoneLost

(* Every step keeps each unit of a count that is waited for matched. *)
LEMMA LostStep ==
  ASSUME SemInv, [Next]_vars
  PROVE  NoLostWakeup'
<1> SUFFICES ASSUME NEW s0 \in Sem PROVE NoneLost(s0)'
  BY DEF NoLostWakeup, NoneLost
<1>0. TypeOK /\ Control /\ WokenOnce /\ NoneLost(s0)
  BY DEF SemInv, NoLostWakeup, NoneLost
<1> USE <1>0, SemAssumption DEF TypeOK, Labels, Goto, Return, InFlight
<1>1. ASSUME NEW t \in Thread, NEW s \in Sem, PCall(t, s) PROVE NoneLost(s0)'
  BY Zenon, <1>1, LostQuiet DEF PCall, Blocked, Active
<1>2. ASSUME NEW t \in Thread, PAcquire(t) PROVE NoneLost(s0)'
  BY Zenon, <1>2, LostQuiet DEF PAcquire, Blocked, Active
<1>3. ASSUME NEW t \in Thread, PTake(t) PROVE NoneLost(s0)'
  <2>1. CASE s0 # arg[t]
    BY Zenon, <1>3, <2>1, LostQuiet DEF PTake, Blocked, Active
  <2>2. CASE s0 = arg[t]
    <3>1. Active(s0)' = Active(s0) \ {t} /\ t \in Active(s0)
      BY <1>3, <2>2 DEF PTake, Active
    <3>2. Blocked(s0)' = Blocked(s0)
      BY <1>3 DEF PTake, Blocked
    <3>3. Cardinality(Active(s0)') = Cardinality(Active(s0)) - 1
      BY Zenon, <3>1, ActiveFinite, FS_RemoveElement
    <3>4. sem_count'[s0] = sem_count[s0] - 1 /\ sem_count[s0] \in Nat
      BY <1>3, <2>2 DEF PTake
    <3> QED
      BY <3>2, <3>3, <3>4, ActiveFinite DEF NoneLost
  <2> QED
    BY <2>1, <2>2
<1>4. ASSUME NEW t \in Thread, PBridge(t) PROVE NoneLost(s0)'
  <2>1. CASE s0 # arg[t]
    BY Zenon, <1>4, <2>1, LostQuiet DEF PBridge, Blocked, Active
  <2>2. CASE s0 = arg[t]
    <3>1. sem_count'[s0] = 0
      BY <1>4, <2>2 DEF PBridge
    <3> QED
      BY <3>1, ActiveFinite DEF NoneLost
  <2> QED
    BY <2>1, <2>2
<1>5. ASSUME NEW t \in Thread, PUnlock(t) PROVE NoneLost(s0)'
  <2>1. CASE s0 # arg[t]
    BY Zenon, <1>5, <2>1, LostQuiet DEF PUnlock, Blocked, Active
  <2>2. CASE s0 = arg[t]
    <3>1. sem_count'[s0] = 0
      BY <1>5, <2>2 DEF PUnlock, Control
    <3> QED
      BY <3>1, ActiveFinite DEF NoneLost
  <2> QED
    BY <2>1, <2>2
<1>6. ASSUME NEW t \in Thread, PSleep(t) PROVE NoneLost(s0)'
  BY Zenon, <1>6, LostQuiet DEF PSleep, Blocked, Active
<1>7. ASSUME NEW t \in Thread, NEW s \in Sem, VCall(t, s) PROVE NoneLost(s0)'
  BY Zenon, <1>7, LostQuiet DEF VCall, Blocked, Active
<1>8. ASSUME NEW t \in Thread, VAcquire(t) PROVE NoneLost(s0)'
  BY Zenon, <1>8, LostQuiet DEF VAcquire, Blocked, Active
<1>9. ASSUME NEW t \in Thread, VInc(t) PROVE NoneLost(s0)'
  <2>1. CASE s0 # arg[t]
    BY Zenon, <1>9, <2>1, LostQuiet DEF VInc, Blocked, Active
  <2>2. CASE s0 = arg[t]
    <3>1. Active(s0)' = Active(s0) \cup {t} /\ t \notin Active(s0)
      BY <1>9, <2>2 DEF VInc, Active
    <3>2. Blocked(s0)' = Blocked(s0)
      BY <1>9 DEF VInc, Blocked
    <3>3. Cardinality(Active(s0)') = Cardinality(Active(s0)) + 1
      BY Zenon, <3>1, ActiveFinite, FS_AddElement
    <3>4. sem_count'[s0] = sem_count[s0] + 1 /\ sem_count[s0] \in Nat
      BY <1>9, <2>2 DEF VInc
    <3> QED
      BY <3>2, <3>3, <3>4, ActiveFinite DEF NoneLost
  <2> QED
    BY <2>1, <2>2
<1>10. ASSUME NEW t \in Thread, VNobody(t) PROVE NoneLost(s0)'
  <2>1. CASE s0 # arg[t]
    BY Zenon, <1>10, <2>1, LostQuiet DEF VNobody, Blocked, Active
  <2>2. CASE s0 = arg[t]
    <3>1. ASSUME NEW u \in Blocked(s0) PROVE FALSE
      <4>1. CASE pc[u] = "P.sleep"
        BY <1>10, <2>2, <3>1, <4>1 DEF VNobody, Blocked, Control, HoldsSem
      <4>2. CASE pc[u] = "asleep" /\ ~InFlight(u)
        <5>1. u \in Range(wc_threads[s0])
          BY <3>1, <4>2 DEF WokenOnce, Blocked
        <5>2. wc_threads[s0] = << >>
          BY <1>10, <2>2 DEF VNobody
        <5> QED
          BY <5>1, <5>2 DEF Range
      <4> QED
        BY <3>1, <4>1, <4>2 DEF Blocked
    <3>2. Blocked(s0)' = Blocked(s0)
      BY <1>10 DEF VNobody, Blocked
    <3> QED
      BY <3>1, <3>2 DEF NoneLost
  <2> QED
    BY <2>1, <2>2
<1>11. ASSUME NEW t \in Thread, VWake(t) PROVE NoneLost(s0)'
  <2>1. Active(s0)' = Active(s0)
    BY <1>11 DEF VWake, Active
  <2>2. Blocked(s0)' \subseteq Blocked(s0)
    BY <1>11 DEF VWake, Blocked
  <2> QED
    BY Zenon, <1>11, <2>1, <2>2, LostQuiet DEF VWake
<1>12. ASSUME NEW t \in Thread, VReady(t) PROVE NoneLost(s0)'
  <2> DEFINE h == target[t]
  <2>1. /\ pc[t] = "V.ready" /\ h \in Thread /\ h # t
        /\ pc[h] = "asleep" /\ arg[h] = arg[t] /\ InFlight(h)
    BY <1>12 DEF VReady, Control
  <2>2. /\ pc' = [pc EXCEPT ![t] = "V.unlock", ![h] = "P.acquire"] /\ arg' = arg
        /\ target' = [target EXCEPT ![t] = NoThread] /\ sem_count' = sem_count
    BY <1>12 DEF VReady
  <2>3. \A v \in Thread : pc[v] = "V.ready" /\ v # t => target[v] # h
    BY <2>1 DEF WokenOnce
  <2>4. \A u \in Thread : InFlight(u)' <=> (InFlight(u) /\ u # h)
    BY <2>1, <2>2, <2>3
  <2> HIDE DEF InFlight, h
  <2>5. Blocked(s0)' = Blocked(s0)
    BY <2>1, <2>2, <2>4 DEF Blocked
  <2>6. CASE s0 # arg[t]
    <3>1. Active(s0) \subseteq Active(s0)'
      BY <2>1, <2>2, <2>6 DEF Active
    <3> QED
      BY Zenon, <2>2, <2>5, <3>1, LostQuiet
  <2>7. CASE s0 = arg[t]
    <3>1. /\ t \in Active(s0) /\ h \notin Active(s0)
          /\ Active(s0)' = (Active(s0) \ {t}) \cup {h}
      BY <2>1, <2>2, <2>7 DEF Active
    <3>2. Cardinality(Active(s0) \ {t}) = Cardinality(Active(s0)) - 1
      BY Zenon, <3>1, ActiveFinite, FS_RemoveElement
    <3>3. Cardinality(Active(s0)') = Cardinality(Active(s0) \ {t}) + 1
      BY Zenon, <3>1, ActiveFinite, FS_AddElement, FS_RemoveElement
    <3>4. Cardinality(Active(s0)') = Cardinality(Active(s0))
      BY <3>2, <3>3, ActiveFinite
    <3> QED
      BY <2>2, <2>5, <3>4 DEF NoneLost
  <2> QED
    BY <2>6, <2>7
<1>13. ASSUME NEW t \in Thread, VUnlock(t) PROVE NoneLost(s0)'
  BY Zenon, <1>13, LostQuiet DEF VUnlock, Blocked, Active
<1>14. CASE UNCHANGED vars
  BY Zenon, <1>14, LostQuiet DEF vars, Blocked, Active
<1> QED
  BY <1>1, <1>2, <1>3, <1>4, <1>5, <1>6, <1>7, <1>8, <1>9, <1>10, <1>11, <1>12,
     <1>13, <1>14 DEF Next, Step

-----------------------------------------------------------------------------
(* SemInv is inductive. *)
LEMMA SemInductive == Spec => []SemInv
<1>1. Init => SemInv
  <2> SUFFICES ASSUME Init PROVE SemInv
    OBVIOUS
  <2> USE SemAssumption DEF Init
  <2>1. TypeOK /\ Control
    BY DEF TypeOK, Labels, Control, HoldsSemLock, HoldsSem
  <2>2. WokenOnce
    BY DEF WokenOnce, Range, IsInjective, InFlight
  <2>3. NoLostWakeup
    BY DEF NoLostWakeup, Blocked
  <2> QED
    BY <2>1, <2>2, <2>3 DEF SemInv
<1>2. SemInv /\ [Next]_vars => SemInv'
  BY SemTypeStep, SemControlStep, WokenStep, LostStep DEF SemInv
<1> QED
  BY <1>1, <1>2, PTL DEF Spec

(* The state stays in its types in every run of P and V: in particular the *)
(* count, which P decrements, never goes below zero.                       *)
THEOREM TypeCorrect == Spec => []TypeOK
BY SemInductive, PTL DEF SemInv

(* A thread that sleeps in P is on the channel of its semaphore exactly    *)
(* once, and one V wakes it.                                               *)
THEOREM SleepersWokenOnce == Spec => []WokenOnce
BY SemInductive, PTL DEF SemInv

(* No V is lost on a thread that is between the test in P and its sleep.   *)
THEOREM NoWakeupLost == Spec => []NoLostWakeup
BY SemInductive, PTL DEF SemInv

-----------------------------------------------------------------------------
(* The steps of P and V that are not calls, effects or returns are         *)
(* stutters of the atomic semaphore, and each effect is one of its steps.  *)
LEMMA SemAtomicStep ==
  ASSUME SemInv, [Next]_vars
  PROVE  [Atomic!Next]_<<sem_count, [t \in Thread |-> OpOf(t)]>>
<1> DEFINE O == [t \in Thread |-> OpOf(t)]
<1> USE SemAssumption DEF TypeOK, Labels, Goto, Return
<1>0. TypeOK /\ Control
  BY DEF SemInv
<1>a. ASSUME NEW t \in Thread, \A u \in Thread : u # t => OpOf(u)' = OpOf(u)
      PROVE  O' = [O EXCEPT ![t] = OpOf(t)']
  BY Zenon, <1>a
<1>b. ASSUME \A u \in Thread : OpOf(u)' = OpOf(u), sem_count' = sem_count
      PROVE  UNCHANGED <<sem_count, O>>
  BY <1>b
<1>1. ASSUME NEW t \in Thread, NEW s \in Sem, PCall(t, s) PROVE [Atomic!Next]_<<sem_count, O>>
  <2>1. O' = [O EXCEPT ![t] = OpOf(t)'] /\ O[t] = OpOf(t)
    BY Zenon, <1>1, <1>0, <1>a DEF PCall, OpOf
  <2>2. Atomic!Call(t, "P", s)
    BY <1>1, <1>0, <2>1, ArgInSem DEF PCall, OpOf, Atomic!Call, Atomic!None
  <2> QED
    BY <1>0, <1>1, <2>2, ArgInSem DEF PCall, Atomic!Next
<1>2. ASSUME NEW t \in Thread, PAcquire(t) PROVE [Atomic!Next]_<<sem_count, O>>
  <2>1. \A u \in Thread : OpOf(u)' = OpOf(u)
    BY <1>2, <1>0 DEF PAcquire, OpOf
  <2> QED
    BY Zenon, <1>2, <1>b, <2>1 DEF PAcquire
<1>3. ASSUME NEW t \in Thread, PTake(t) PROVE [Atomic!Next]_<<sem_count, O>>
  <2>1. O' = [O EXCEPT ![t] = OpOf(t)'] /\ O[t] = OpOf(t)
    BY Zenon, <1>3, <1>0, <1>a DEF PTake, OpOf
  <2>2. Atomic!Take(t, arg[t])
    BY <1>3, <1>0, <2>1, ArgInSem DEF PTake, OpOf, Atomic!Take, Atomic!None
  <2> QED
    BY <1>0, <1>3, <2>2, ArgInSem DEF PTake, Atomic!Next
<1>4. ASSUME NEW t \in Thread, PBridge(t) PROVE [Atomic!Next]_<<sem_count, O>>
  <2>1. \A u \in Thread : OpOf(u)' = OpOf(u)
    BY <1>4, <1>0 DEF PBridge, OpOf
  <2> QED
    BY <1>4, <1>b, <2>1 DEF PBridge
<1>5. ASSUME NEW t \in Thread, PUnlock(t) PROVE [Atomic!Next]_<<sem_count, O>>
  <2>1. \A u \in Thread : OpOf(u)' = OpOf(u)
    BY <1>5, <1>0 DEF PUnlock, OpOf
  <2> QED
    BY <1>5, <1>b, <2>1 DEF PUnlock
<1>6. ASSUME NEW t \in Thread, PSleep(t) PROVE [Atomic!Next]_<<sem_count, O>>
  <2>1. \A u \in Thread : OpOf(u)' = OpOf(u)
    BY <1>6, <1>0 DEF PSleep, OpOf
  <2> QED
    BY <1>6, <1>b, <2>1 DEF PSleep
<1>7. ASSUME NEW t \in Thread, NEW s \in Sem, VCall(t, s) PROVE [Atomic!Next]_<<sem_count, O>>
  <2>1. O' = [O EXCEPT ![t] = OpOf(t)'] /\ O[t] = OpOf(t)
    BY Zenon, <1>7, <1>0, <1>a DEF VCall, OpOf
  <2>2. Atomic!Call(t, "V", s)
    BY <1>7, <1>0, <2>1, ArgInSem DEF VCall, OpOf, Atomic!Call, Atomic!None
  <2> QED
    BY <1>0, <1>7, <2>2, ArgInSem DEF VCall, Atomic!Next
<1>8. ASSUME NEW t \in Thread, VAcquire(t) PROVE [Atomic!Next]_<<sem_count, O>>
  <2>1. \A u \in Thread : OpOf(u)' = OpOf(u)
    BY <1>8, <1>0 DEF VAcquire, OpOf
  <2> QED
    BY <1>8, <1>b, <2>1 DEF VAcquire
<1>9. ASSUME NEW t \in Thread, VInc(t) PROVE [Atomic!Next]_<<sem_count, O>>
  <2>1. O' = [O EXCEPT ![t] = OpOf(t)'] /\ O[t] = OpOf(t)
    BY Zenon, <1>9, <1>0, <1>a DEF VInc, OpOf
  <2>2. Atomic!Add(t, arg[t])
    BY <1>9, <1>0, <2>1, ArgInSem DEF VInc, OpOf, Atomic!Add, Atomic!None
  <2> QED
    BY <1>0, <1>9, <2>2, ArgInSem DEF VInc, Atomic!Next
<1>10. ASSUME NEW t \in Thread, VNobody(t) PROVE [Atomic!Next]_<<sem_count, O>>
  <2>1. \A u \in Thread : OpOf(u)' = OpOf(u)
    BY <1>10, <1>0 DEF VNobody, OpOf
  <2> QED
    BY <1>10, <1>b, <2>1 DEF VNobody
<1>11. ASSUME NEW t \in Thread, VWake(t) PROVE [Atomic!Next]_<<sem_count, O>>
  <2>1. \A u \in Thread : OpOf(u)' = OpOf(u)
    BY <1>11, <1>0 DEF VWake, OpOf
  <2> QED
    BY <1>11, <1>b, <2>1 DEF VWake
<1>12. ASSUME NEW t \in Thread, VReady(t) PROVE [Atomic!Next]_<<sem_count, O>>
  <2>1. pc[target[t]] = "asleep" /\ target[t] \in Thread /\ pc[t] = "V.ready"
    BY <1>12, <1>0 DEF VReady, Control
  <2>2. \A u \in Thread : OpOf(u)' = OpOf(u)
    BY <1>12, <1>0, <2>1 DEF VReady, OpOf
  <2> QED
    BY <1>12, <1>b, <2>2 DEF VReady
<1>13. ASSUME NEW t \in Thread, VUnlock(t) PROVE [Atomic!Next]_<<sem_count, O>>
  <2>1. O' = [O EXCEPT ![t] = OpOf(t)'] /\ O[t] = OpOf(t)
    BY Zenon, <1>13, <1>0, <1>a DEF VUnlock, OpOf
  <2>2. Atomic!ReturnV(t, arg[t])
    BY <1>13, <1>0, <2>1, ArgInSem DEF VUnlock, OpOf, Atomic!ReturnV, Atomic!None
  <2> QED
    BY <1>0, <1>13, <2>2, ArgInSem DEF VUnlock, Atomic!Next
<1>14. CASE UNCHANGED vars
  BY <1>14 DEF vars, OpOf
<1> QED
  BY <1>1, <1>2, <1>3, <1>4, <1>5, <1>6, <1>7, <1>8, <1>9, <1>10, <1>11, <1>12,
     <1>13, <1>14 DEF Next, Step

(* P and V are atomic, as synch.h requires: every run of the code, seen    *)
(* through its counts and calls, is a run of the atomic semaphore.         *)
THEOREM ImplementsAtomic == Spec => AtomicSpec
<1>1. Init => Atomic!Init
  BY DEF Init, Atomic!Init, Atomic!None, OpOf
<1>2. SemInv /\ [Next]_vars => [Atomic!Next]_<<sem_count, [t \in Thread |-> OpOf(t)]>>
  BY SemAtomicStep
<1> QED
  BY <1>1, <1>2, SemInductive, PTL DEF Spec, AtomicSpec, Atomic!Spec
-----------------------------------------------------------------------------
(* The condition variable test *)

Exited == {t \in User : next[t] = "exited"}
Next5 == {"acquire", "test", "release", "V", "exited"}

TestTypes ==
  /\ testval1 \in User /\ next \in [User -> Next5] /\ loops \in [User -> Nat]
  /\ done \in Nat /\ awaited \in 0..(NTHREADS + 1)

(* Main has had a unit of donesem from every thread that is gone, or one   *)
(* is left for it; a thread that is gone is in none of the functions.      *)
Received == IF awaited > NTHREADS THEN NTHREADS ELSE awaited
ExitsCounted ==
  /\ done + Received = Cardinality(Exited)
  /\ \A t \in User : next[t] = "exited" => lk_pc[t] = "out"

TestInv == IInv /\ TestTypes /\ ExitsCounted /\ ReverseOrder

(* Only the thread itself leaves "out". *)
LEMMA OutStays ==
  ASSUME CvTypeOK, CvControl, WaitersPlaced, NEW s \in User, CvStep(s),
         NEW t \in User, lk_pc[t] = "out"
  PROVE  lk_pc'[t] = "out"
<1>1. CASE CReady(s)
  BY <1>1, Readied
<1>2. CASE RReady(s)
  BY <1>2 DEF RReady, CvControl, CvTypeOK
<1>3. CASE \E from, to : from # "out" /\ LkGoto(s, from, to)
  BY <1>3 DEF LkGoto, CvTypeOK
<1> QED
  BY Zenon, <1>1, <1>2, <1>3 DEF CvStep, LkStep, AAcquire, ATake, ABridge, AUnlock, ASleep, RAcquire, RDrop, RIgnore,
       RNobody, RWake, RUnlock, WLock, WSleep, SWake, BWake, CReturn

(* What the test does with the lock and the cv is what anyone may do. *)
LEMMA TestCalls ==
  ASSUME NEW t \in User, CvTestStep(t)
  PROVE  [CvNext]_cvvars
<1>1. CASE CvStep(t) /\ UNCHANGED client
  BY Zenon, <1>1 DEF CvNext
<1>2. CASE cvtestthread(t)
  BY Zenon, <1>2 DEF cvtestthread, Acquire, CvWait, PrintAndPass, Release, VAndExit, CvNext
<1> QED
  BY <1>1, <1>2 DEF CvTestStep

(* Every step of the test respects the types of its variables. *)
LEMMA TestTypesStep ==
  ASSUME TestTypes, NEW t \in User, CvTestStep(t)
  PROVE  /\ TestTypes' /\ awaited' = awaited
         /\ \A u \in User : u # t => next'[u] = next[u] /\ loops'[u] = loops[u]
<1> USE DEF TestTypes, Next5, Then
<1>1. CASE CvStep(t) /\ UNCHANGED client
  BY <1>1 DEF client
<1>2. CASE Acquire(t)
  BY <1>2 DEF Acquire
<1>3. CASE CvWait(t)
  BY <1>3 DEF CvWait
<1>4. CASE PrintAndPass(t)
  BY <1>4, CvTestAssumption DEF PrintAndPass
<1>5. CASE Release(t)
  BY <1>5 DEF Release
<1>6. CASE VAndExit(t)
  BY <1>6 DEF VAndExit
<1> QED
  BY Zenon, <1>1, <1>2, <1>3, <1>4, <1>5, <1>6 DEF CvTestStep, cvtestthread

(* A turn of the test: the count of who prints and the turn change as one. *)
LEMMA OrderStep ==
  ASSUME TestTypes, ReverseOrder, NEW t \in User, CvTestStep(t)
  PROVE  ReverseOrder'
<1>0. /\ TestTypes' /\ \A u \in User : u # t => next'[u] = next[u] /\ loops'[u] = loops[u]
      /\ \A u \in User : Printed(u) \in Nat
  BY TestTypesStep DEF Printed, TestTypes
<1>1. \A u \in User : u # t => Printed(u)' = Printed(u)
  BY <1>0 DEF Printed
<1>2. CASE ~PrintAndPass(t)
  <2>1. testval1' = testval1 /\ Printed(t)' = Printed(t)
    <3>1. CASE CvStep(t) /\ UNCHANGED client
      BY <3>1 DEF client, Printed
    <3>2. CASE Acquire(t) \/ CvWait(t) \/ VAndExit(t)
      BY <3>2 DEF Acquire, CvWait, VAndExit, Then, Printed, TestTypes
    <3>3. CASE Release(t)
      <4>1. /\ next[t] = "release" /\ next'[t] # "release" /\ loops'[t] = loops[t] + 1
            /\ testval1' = testval1 /\ loops[t] \in Nat
        BY <3>3 DEF Release, Then, TestTypes
      <4> QED
        BY <4>1 DEF Printed
    <3> QED
      BY Zenon, <1>2, <3>1, <3>2, <3>3 DEF CvTestStep, cvtestthread
  <2>2. \A u \in User : Printed(u)' = Printed(u)
    BY <1>1, <2>1
  <2> QED
    BY <2>1, <2>2 DEF ReverseOrder
<1>3. CASE PrintAndPass(t)
  <2>1. /\ next[t] = "test" /\ next'[t] = "release" /\ loops' = loops /\ loops[t] \in Nat /\ testval1 = t
        /\ testval1' = (t + NTHREADS - 1) % NTHREADS
    BY <1>3 DEF PrintAndPass, Then, TestTypes
  <2>2. Printed(t)' = Printed(t) + 1
    BY <2>1 DEF Printed
  <2>3. testval1' = IF t = 0 THEN NTHREADS - 1 ELSE t - 1
    <3>1. t \in 0..(NTHREADS - 1) /\ NTHREADS \in Nat \ {0}
      BY CvTestAssumption
    <3>2. CASE t = 0
      BY <2>1, <3>1, <3>2
    <3>3. CASE t # 0
      <4>1. t - 1 \in 0..(NTHREADS - 1) /\ t + NTHREADS - 1 = (t - 1) + NTHREADS
        BY <3>1, <3>3
      <4>2. ((t - 1) + NTHREADS) % NTHREADS = t - 1
        BY <3>1, <4>1
      <4> QED
        BY <2>1, <3>3, <4>1, <4>2
    <3> QED
      BY <3>2, <3>3
  <2>4. ASSUME NEW u \in User, NEW v \in User, u > v
        PROVE  Printed(u)' = Printed(v)' + IF v <= testval1' /\ testval1' < u THEN 1 ELSE 0
    <3>1. Printed(u) = Printed(v) + IF v <= t /\ t < u THEN 1 ELSE 0
      BY <2>1, <2>4 DEF ReverseOrder
    <3>2. /\ u \in 0..(NTHREADS - 1) /\ v \in 0..(NTHREADS - 1) /\ t \in 0..(NTHREADS - 1) /\ NTHREADS \in Nat \ {0}
          /\ Printed(u) \in Nat /\ Printed(v) \in Nat
      BY <1>0, CvTestAssumption
    <3>3. /\ Printed(u)' = Printed(u) + IF u = t THEN 1 ELSE 0
          /\ Printed(v)' = Printed(v) + IF v = t THEN 1 ELSE 0
      BY <1>0, <1>1, <2>2
    <3> QED
      BY <2>3, <2>4, <3>1, <3>2, <3>3
  <2> QED
    BY <2>4 DEF ReverseOrder
<1> QED
  BY <1>2, <1>3

(* Exits are counted. *)
LEMMA ExitsStep ==
  ASSUME CvTypeOK, CvControl, WaitersPlaced, TestTypes, ExitsCounted, NEW t \in User, CvTestStep(t)
  PROVE  ExitsCounted'
<1>0. /\ TestTypes' /\ awaited' = awaited /\ \A u \in User : u # t => next'[u] = next[u]
  BY TestTypesStep
<1>1. IsFiniteSet(Exited) /\ Cardinality(Exited) \in Nat
  <2>1. IsFiniteSet(User) /\ Exited \subseteq User
    BY FS_Interval, CvTestAssumption DEF Exited
  <2> QED
    BY <2>1, FS_Subset, FS_CardinalityType
<1>2. CASE CvStep(t) /\ UNCHANGED client
  <2>1. UNCHANGED <<next, done, awaited>> /\ Exited' = Exited
    BY <1>2 DEF client, Exited
  <2>2. \A u \in User : lk_pc[u] = "out" => lk_pc'[u] = "out"
    BY Zenon, <1>2, OutStays
  <2> QED
    BY Zenon, <2>1, <2>2 DEF ExitsCounted, Received
<1>3. CASE Acquire(t) \/ CvWait(t) \/ PrintAndPass(t) \/ Release(t)
  <2>1. UNCHANGED <<done, awaited>> /\ next[t] # "exited" /\ next'[t] # "exited"
    BY <1>3 DEF Acquire, CvWait, PrintAndPass, Release, Then, TestTypes
  <2>2. Exited' = Exited
    BY <1>0, <2>1 DEF Exited
  <2>3. \A u \in User : u # t => lk_pc'[u] = lk_pc[u]
    BY <1>3 DEF Acquire, CvWait, PrintAndPass, Release, AcquireCall, WaitCall, BroadcastCall, WakeCall,
         ReleaseCall, LkGoto, CvTypeOK
  <2> QED
    BY Zenon, <1>0, <2>1, <2>2, <2>3 DEF ExitsCounted, Received
<1>4. CASE VAndExit(t)
  <2>1. /\ done' = done + 1 /\ next[t] = "V" /\ next'[t] = "exited" /\ lk_pc[t] = "out" /\ lk_pc' = lk_pc
    BY <1>4 DEF VAndExit, Then, TestTypes, cvvars, lkvars
  <2>2. Exited' = Exited \cup {t} /\ t \notin Exited
    BY Zenon, <1>0, <2>1 DEF Exited
  <2>3. Cardinality(Exited') = Cardinality(Exited) + 1
    BY <1>1, <2>2, FS_AddElement
  <2>4. done' + Received' = Cardinality(Exited')
    <3>1. Received \in Nat /\ done \in Nat /\ done' = done + 1
      BY <2>1, CvTestAssumption DEF TestTypes, Received
    <3>2. done + Received = Cardinality(Exited) /\ Received' = Received
      BY Zenon, <1>0 DEF ExitsCounted, Received
    <3> QED
      BY <1>1, <2>3, <3>1, <3>2
  <2>5. \A u \in User : next'[u] = "exited" => lk_pc'[u] = "out"
    BY <1>0, <2>1 DEF ExitsCounted
  <2> QED
    BY <2>4, <2>5 DEF ExitsCounted
<1> QED
  BY Zenon, <1>2, <1>3, <1>4 DEF CvTestStep, cvtestthread

(* cvtest itself waits for every thread before it cleans up. *)
LEMMA MainStep ==
  ASSUME TestInv, cvtest
  PROVE  TestInv'
<1>1. UNCHANGED <<cvvars, testval1, next, loops>>
  BY Zenon DEF cvtest, AwaitOne, cleanitems
<1>2. IInv'
  <2>1. IInv /\ UNCHANGED cvvars
    BY Zenon, <1>1 DEF TestInv
  <2> QED
    BY <2>1, InductiveStep
<1>3. ReverseOrder'
  BY Zenon, <1>1 DEF TestInv, ReverseOrder, Printed
<1>4. TestTypes' /\ done' + Received' = done + Received
  <2>0. TestTypes
    BY Zenon DEF TestInv
  <2>1. CASE AwaitOne
    BY <2>0, <2>1, CvTestAssumption DEF AwaitOne, TestTypes, Received
  <2>2. CASE cleanitems
    BY <2>0, <2>2, CvTestAssumption DEF cleanitems, TestTypes, Received
  <2> QED
    BY <2>1, <2>2 DEF cvtest
<1>5. ExitsCounted'
  <2>1. Exited' = Exited /\ lk_pc' = lk_pc /\ next' = next
    BY Zenon, <1>1 DEF Exited, cvvars, lkvars
  <2> QED
    BY Zenon, <1>4, <2>1 DEF TestInv, ExitsCounted
<1> QED
  BY Zenon, <1>2, <1>3, <1>4, <1>5 DEF TestInv

(* The inductive invariant of the test holds throughout. *)
LEMMA TestInductive == TestSpec => []TestInv
<1>1. TestInit => TestInv
  <2> SUFFICES ASSUME TestInit PROVE TestInv
    OBVIOUS
  <2>1. IInv
    BY Initially DEF TestInit
  <2>2. TestTypes
    BY CvTestAssumption DEF TestInit, TestTypes, Next5
  <2>3. Exited = {} /\ \A t \in User : next[t] # "exited" /\ Printed(t) = 0
    BY DEF TestInit, Exited, Printed
  <2>4. ExitsCounted
    BY <2>3, FS_EmptySet, CvTestAssumption DEF TestInit, ExitsCounted, Received
  <2>5. ReverseOrder
    BY <2>3, CvTestAssumption DEF TestInit, ReverseOrder
  <2> QED
    BY <2>1, <2>2, <2>4, <2>5 DEF TestInv
<1>2. TestInv /\ [cvtest \/ \E t \in User : CvTestStep(t)]_testvars => TestInv'
  <2> SUFFICES ASSUME TestInv, [cvtest \/ \E t \in User : CvTestStep(t)]_testvars PROVE TestInv'
    OBVIOUS
  <2>1. ASSUME NEW t \in User, CvTestStep(t) PROVE TestInv'
    <3>1. CvTypeOK /\ CvControl /\ WaitersPlaced /\ IInv /\ TestTypes /\ ExitsCounted /\ ReverseOrder
      BY Zenon DEF TestInv, IInv, WaitersInOnePlace
    <3>2. IInv'
      BY <2>1, <3>1, TestCalls, InductiveStep
    <3> QED
      BY Zenon, <2>1, <3>1, <3>2, TestTypesStep, ExitsStep, OrderStep DEF TestInv
  <2>2. CASE UNCHANGED testvars
    <3>1. UNCHANGED <<cvvars, testval1, next, loops, done, awaited>>
      BY Zenon, <2>2 DEF testvars, client
    <3>2. IInv'
      BY <3>1, InductiveStep DEF TestInv
    <3>3. TestTypes' /\ ReverseOrder'
      BY Zenon, <3>1 DEF TestInv, TestTypes, ReverseOrder, Printed
    <3>4. ExitsCounted'
      BY Zenon, <3>1 DEF TestInv, ExitsCounted, Received, Exited, cvvars, lkvars
    <3> QED
      BY <3>2, <3>3, <3>4 DEF TestInv
  <2> QED
    BY Zenon, <2>1, <2>2, MainStep
<1> QED
  BY <1>1, <1>2, PTL DEF TestSpec

(* "threads should print out in reverse order" (synchtest.c): for every    *)
(* number of threads and of rounds, in whatever order they run.            *)
THEOREM TurnsInReverse == TestSpec => []ReverseOrder
<1>1. TestInv => ReverseOrder
  BY DEF TestInv
<1> QED
  BY TestInductive, <1>1, PTL

(* Main destroys the lock and the cv of the test when no thread can touch  *)
(* them any more: the units of donesem count the threads that are gone.    *)
THEOREM CvTestCleansUp == TestSpec => []DestroyIsSafe
<1>1. TestInv => DestroyIsSafe
  <2> SUFFICES ASSUME TestInv, awaited = NTHREADS + 1
               PROVE  /\ \A t \in User : lk_pc[t] = "out" /\ next[t] = "exited"
                      /\ holder = NoUser /\ lk_lock = NoUser
                      /\ lk_threads = << >> /\ cv_threads = << >>
    BY DEF DestroyIsSafe
  <2>0. CvTypeOK /\ CvControl /\ WaitersPlaced /\ SleepersQueued /\ HolderKnown /\ TestTypes /\ ExitsCounted
    BY Zenon DEF TestInv, IInv, WaitersInOnePlace
  <2>1. Exited = User
    <3>1. IsFiniteSet(User) /\ Exited \subseteq User /\ Cardinality(User) = NTHREADS
      BY FS_Interval, CvTestAssumption DEF Exited
    <3>2. IsFiniteSet(Exited) /\ Cardinality(Exited) \in Nat
      BY <3>1, FS_Subset, FS_CardinalityType
    <3>3. Cardinality(Exited) >= NTHREADS
      BY <2>0, <3>2, CvTestAssumption DEF ExitsCounted, Received, TestTypes
    <3> QED
      <4>0. Cardinality(Exited) <= Cardinality(User)
        BY Zenon, <3>1, FS_Subset
      <4>1. Cardinality(Exited) = Cardinality(User)
        BY <3>1, <3>2, <3>3, <4>0, CvTestAssumption
      <4> QED
        BY Zenon, <3>1, <4>1, FS_Subset
  <2>2. \A t \in User : lk_pc[t] = "out" /\ next[t] = "exited"
    BY <2>0, <2>1 DEF Exited, ExitsCounted
  <2>3. holder = NoUser
    BY <2>0, <2>2 DEF HolderKnown, Inside, WakeLabels, CvTypeOK
  <2>4. lk_lock = NoUser
    BY <2>0, <2>2 DEF CvControl, HoldsLkLock, CvTypeOK
  <2>5. lk_threads = << >>
    <3>1. Range(lk_threads) = {} /\ lk_threads \in Seq(User) /\ IsInjective(lk_threads)
      BY <2>0, <2>2 DEF SleepersQueued, CvTypeOK
    <3> QED
      BY <3>1, TailElements
  <2>6. cv_threads = << >>
    <3>1. cv_threads \in Seq(User) /\ IsInjective(cv_threads) /\ \A u \in User : u \notin Range(cv_threads)
      BY <2>0, <2>2 DEF WaitersPlaced, CvTypeOK
    <3> QED
      BY <3>1, TailElements
  <2> QED
    BY <2>2, <2>3, <2>4, <2>5, <2>6
<1> QED
  BY TestInductive, <1>1, PTL
=============================================================================
