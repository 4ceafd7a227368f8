--------------------------- MODULE ProcessProofs ---------------------------
(***************************************************************************)
(* The menu waits for its processes (Process), for any number of threads   *)
(* and processes.                                                          *)
(***************************************************************************)
EXTENDS Process, FiniteSetTheorems, TLAPS

(* Where a thread or the menu can be. *)
CreateLabels == {"pid", "inc.P", "inc.read", "inc.write"}
MakeLabels == CreateLabels \cup {"thread_fork", "destroy"}
LeaveLabels == {"dec.P", "dec.read", "dec.write"}
LiveLabels == CreateLabels \cup {"start", "user", "create", "thread_fork", "retval"}
Labels == LiveLabels \cup LeaveLabels \cup {"none", "destroy", "prompt", "wait"}

(* The part of MenuLabels before the menu waits, and where it holds the    *)
(* mutex.                                                                  *)
BeforeLabels == CreateLabels \cup {"prompt", "create", "thread_fork"}
MutexLabels == {"inc.read", "inc.write", "dec.read", "dec.write"}

ProcTypeOK ==
  /\ pc \in [Actor -> Labels]
  /\ t_proc \in [Thread -> Proc \cup {NoProc}]
  /\ child \in [Actor -> Proc \cup {NoProc}]
  /\ tmp \in [Actor -> Int]
  /\ alloc \subseteq Proc
  /\ proc_count \in Int /\ count_mutex \in {0, 1} /\ no_proc_sem \in Nat
  /\ next_pid \in Int
  /\ pc[menu] \in BeforeLabels \cup LeaveLabels \cup {"wait", "destroy"}
  /\ \A t \in Thread : pc[t] \notin {"prompt", "wait"}

(* A process that is being created or destroyed, or has a thread, is       *)
(* allocated, and is that of one creator, destroyer or thread.             *)
Owned ==
  /\ \A a \in Actor : pc[a] \in MakeLabels => child[a] \in alloc
  /\ \A a, b \in Actor : pc[a] \in MakeLabels /\ pc[b] \in MakeLabels /\ child[a] = child[b] => a = b
  /\ \A t \in Thread : IF pc[t] \in LiveLabels THEN t_proc[t] \in alloc ELSE t_proc[t] = NoProc
  /\ \A t, u \in Thread : t_proc[t] = t_proc[u] /\ t_proc[t] # NoProc => t = u
  /\ \A t \in Thread, a \in Actor : pc[a] \in MakeLabels => child[a] # t_proc[t]

(* proc_count is not changed between the read and the write of a thread    *)
(* that holds proc_count_mutex.                                            *)
Mutex ==
  /\ \A a \in Actor : pc[a] \in MutexLabels => count_mutex = 0
  /\ \A a, b \in Actor : pc[a] \in MutexLabels /\ pc[b] \in MutexLabels => a = b
  /\ \A a \in Actor : pc[a] \in {"inc.write", "dec.write"} => tmp[a] = proc_count

(* No process is left behind. *)
HasOwner(x) == (\E a \in Actor : pc[a] \in MakeLabels /\ child[a] = x) \/ \E t \in Thread : t_proc[t] = x

Waiting ==
  /\ \A x \in alloc : HasOwner(x)
  /\ pc[menu] \in BeforeLabels \cup {"wait"}
  /\ pc[menu] \in BeforeLabels => no_proc_sem = 0 /\ \A t \in Thread : pc[t] = "none"
  /\ pc[menu] = "wait" => no_proc_sem = IF proc_count = 0 THEN 1 ELSE 0

Waits == "thread_fork" \notin faults => Waiting

IInv == ProcTypeOK /\ Owned /\ Mutex /\ CountIsExact /\ Waits

USE DEF Actor
-----------------------------------------------------------------------------
(* The sets that are counted are finite. *)
LEMMA Finite ==
  /\ IsFiniteSet(Actor) /\ IsFiniteSet(Leaving)
  /\ \A S \in SUBSET Proc : IsFiniteSet(S)
<1>1. IsFiniteSet(Actor)
  BY Zenon, ProcAssumption, FS_Singleton, FS_Union
<1>2. IsFiniteSet(Leaving)
  BY <1>1, FS_Subset DEF Leaving
<1> QED
  BY <1>1, <1>2, ProcAssumption, FS_Subset

(* The initial states satisfy the invariant. *)
LEMMA Initially == Init => IInv
<1> SUFFICES ASSUME Init PROVE IInv
  OBVIOUS
<1>1. ProcTypeOK
  BY ProcAssumption DEF Init, ProcTypeOK, Labels, LiveLabels, LeaveLabels, BeforeLabels, CreateLabels
<1>2. Owned
  BY ProcAssumption DEF Init, Owned, MakeLabels, LiveLabels, CreateLabels
<1>3. Mutex
  BY ProcAssumption DEF Init, Mutex, MutexLabels
<1>4. CountIsExact
  <2>1. alloc \ Uncounted = {} /\ Leaving = {} /\ proc_count = 0
    BY ProcAssumption DEF Init, Leaving
  <2> QED
    BY <2>1, FS_EmptySet DEF CountIsExact
<1>5. Waits
  BY ProcAssumption DEF Init, Waits, Waiting, BeforeLabels
<1> QED
  BY <1>1, <1>2, <1>3, <1>4, <1>5 DEF IInv

(* What an actor does, and what else a thread or the menu does. *)
Works(a) == Create(a) \/ Destroy(a)
ThreadOnly(t) == ForkCall(t) \/ ReturnPid(t) \/ Begin(t) \/ LoadFails(t) \/ Exit(t)

(* A step is one of an actor at work, of a thread alone, or of the menu. *)
LEMMA Steps ==
  ASSUME Next
  PROVE  \/ \E a \in Actor : Works(a)
         \/ \E t \in Thread : ThreadOnly(t)
         \/ common_prog \/ Wait
  BY DEF Next, MenuStep, ThreadStep, Works, ThreadOnly

-----------------------------------------------------------------------------
(* The steps that work on a process respect the types. *)
LEMMA TypeWorks ==
  ASSUME IInv, NEW a \in Actor, Works(a)
  PROVE  ProcTypeOK'
<1>1. ProcTypeOK /\ (pc[a] \in MutexLabels => count_mutex = 0)
  BY DEF IInv, Mutex
<1> USE DEF Labels, LiveLabels, LeaveLabels, BeforeLabels, CreateLabels, MutexLabels,
            ProcTypeOK, Goto, Set, sems, pids, thr, faulty
<1>2. CASE Allocate(a)
  BY <1>1, <1>2, ProcAssumption DEF Allocate
<1>3. CASE SetPid(a)
  BY <1>1, <1>3, ProcAssumption DEF SetPid
<1>4. CASE AllocateFails(a)
  BY <1>1, <1>4, ProcAssumption DEF AllocateFails
<1>5. CASE IncP(a)
  BY <1>1, <1>5, ProcAssumption DEF IncP
<1>6. CASE IncRead(a)
  BY <1>1, <1>6, ProcAssumption DEF IncRead
<1>7. CASE IncWrite(a)
  BY <1>1, <1>7, ProcAssumption DEF IncWrite
<1>8. CASE StartThreadFails(a)
  BY <1>1, <1>8, ProcAssumption DEF StartThreadFails
<1>9. ASSUME NEW u \in Thread, StartThread(a, u) PROVE ProcTypeOK'
  BY <1>1, <1>9, ProcAssumption DEF StartThread
<1>10. CASE Free(a)
  BY <1>1, <1>10, ProcAssumption DEF Free
<1>11. CASE DecP(a)
  BY <1>1, <1>11, ProcAssumption DEF DecP
<1>12. CASE DecRead(a)
  BY <1>1, <1>12, ProcAssumption DEF DecRead
<1>13. CASE DecWrite(a)
  BY <1>1, <1>13, ProcAssumption DEF DecWrite, CountDown
<1> QED
  BY Zenon, <1>2, <1>3, <1>4, <1>5, <1>6, <1>7, <1>8, <1>9, <1>10, <1>11, <1>12, <1>13 DEF Works, Create, Destroy

(* So do the other steps. *)
LEMMA TypeOthers ==
  ASSUME IInv, (\E t \in Thread : ThreadOnly(t)) \/ common_prog \/ Wait
  PROVE  ProcTypeOK'
<1>1. ProcTypeOK
  BY DEF IInv
<1> USE DEF Labels, LiveLabels, LeaveLabels, BeforeLabels, CreateLabels,
            ProcTypeOK, Goto, Set, sems, pids, thr, faulty
<1>2. ASSUME NEW t \in Thread, ThreadOnly(t) PROVE ProcTypeOK'
  <2>1. CASE ForkCall(t)
    BY <1>1, <2>1, ProcAssumption DEF ForkCall
  <2>2. CASE ReturnPid(t)
    BY <1>1, <2>2, ProcAssumption DEF ReturnPid
  <2>3. CASE Begin(t)
    BY <1>1, <2>3, ProcAssumption DEF Begin
  <2>4. CASE LoadFails(t)
    BY <1>1, <2>4, ProcAssumption DEF LoadFails
  <2>5. CASE Exit(t)
    BY <1>1, <2>5, ProcAssumption DEF Exit
  <2> QED
    BY Zenon, <1>2, <2>1, <2>2, <2>3, <2>4, <2>5 DEF ThreadOnly
<1>3. CASE common_prog
  BY <1>1, <1>3, ProcAssumption DEF common_prog
<1>4. CASE Wait
  BY <1>1, <1>4, ProcAssumption DEF Wait
<1> QED
  BY Zenon, <1>2, <1>3, <1>4

-----------------------------------------------------------------------------
(* A step leaves no process behind. *)
OwnerKept == (\A x \in alloc : HasOwner(x)) => (\A x \in alloc : HasOwner(x))'

(* A step that only moves a, to a place where it owns what it owned.       *)
LEMMA OwnedKept ==
  ASSUME Owned, NEW a \in Actor,
         child' = child, t_proc' = t_proc, alloc' = alloc,
         \A b \in Actor : b # a => pc'[b] = pc[b],
         pc'[a] \in MakeLabels <=> pc[a] \in MakeLabels,
         a \in Thread => (pc'[a] \in LiveLabels <=> pc[a] \in LiveLabels)
  PROVE  /\ Owned'
         /\ OwnerKept
<1>1. \A b \in Actor : pc'[b] \in MakeLabels <=> pc[b] \in MakeLabels
  OBVIOUS
<1>2. \A t \in Thread : pc'[t] \in LiveLabels <=> pc[t] \in LiveLabels
  OBVIOUS
<1>3. Owned'
  BY <1>1, <1>2 DEF Owned
<1> QED
  BY <1>1, <1>3 DEF OwnerKept, HasOwner

(* A process structure just allocated has its creator for an owner         *)
(* (proc_create).                                                          *)
LEMMA OwnedAllocate ==
  ASSUME IInv, NEW a \in Actor, Allocate(a)
  PROVE  Owned' /\ OwnerKept
<1>1. ProcTypeOK /\ Owned
  BY DEF IInv
<1>2. PICK x \in Proc \ alloc : alloc' = alloc \cup {x} /\ child' = [child EXCEPT ![a] = x]
  BY Zenon DEF Allocate, Set
<1>3. /\ \A b \in Actor : b # a => pc'[b] = pc[b] /\ child'[b] = child[b]
      /\ pc[a] = "create" /\ pc'[a] = "pid" /\ child'[a] = x /\ t_proc' = t_proc
      /\ \A t \in Thread : t_proc[t] \in alloc \cup {NoProc}
  BY <1>1, <1>2 DEF Allocate, Goto, ProcTypeOK, thr, Owned
<1>4. /\ \A b \in Actor : b # a => (pc'[b] \in MakeLabels <=> pc[b] \in MakeLabels)
      /\ pc'[a] \in MakeLabels /\ pc[a] \notin MakeLabels
      /\ \A t \in Thread : pc'[t] \in LiveLabels <=> pc[t] \in LiveLabels
  BY <1>3 DEF MakeLabels, LiveLabels, CreateLabels
<1>5. x \notin alloc /\ x # NoProc /\ alloc' = alloc \cup {x}
  BY <1>2, ProcAssumption
<1>6. Owned'
  BY <1>1, <1>3, <1>4, <1>5 DEF Owned
<1>7. OwnerKept
  BY <1>3, <1>4, <1>5 DEF OwnerKept, HasOwner
<1> QED
  BY <1>6, <1>7

(* A thread that starts takes over its process (thread_fork). *)
LEMMA OwnedStart ==
  ASSUME IInv, NEW a \in Actor, NEW u \in Thread, StartThread(a, u)
  PROVE  Owned' /\ OwnerKept
<1>1. ProcTypeOK /\ Owned
  BY DEF IInv
<1>2. /\ \A b \in Actor : b # a /\ b # u => pc'[b] = pc[b]
      /\ \A b \in Actor : b # a => child'[b] = child[b]
      /\ \A t \in Thread : t # u => t_proc'[t] = t_proc[t]
      /\ a # u /\ pc[a] = "thread_fork" /\ pc[u] = "none" /\ alloc' = alloc
      /\ pc'[u] = "start" /\ t_proc'[u] = child[a]
      /\ pc'[a] \in {"wait", "retval"} /\ (a # menu => pc'[a] = "retval")
  BY <1>1, ProcAssumption DEF StartThread, Set, ProcTypeOK
<1>3. /\ \A b \in Actor : pc'[b] \in MakeLabels <=> b # a /\ pc[b] \in MakeLabels
      /\ pc[a] \in MakeLabels /\ pc'[u] \in LiveLabels
      /\ \A t \in Thread : t # u => (pc'[t] \in LiveLabels <=> pc[t] \in LiveLabels)
  BY <1>2, ProcAssumption DEF MakeLabels, LiveLabels, CreateLabels
<1>4. child[a] \in alloc /\ \A t \in Thread : child[a] # t_proc[t]
  BY <1>1, <1>3 DEF Owned
<1>5. Owned'
  BY <1>1, <1>2, <1>3, <1>4 DEF Owned
<1>6. t_proc[u] = NoProc
  BY <1>1, <1>2 DEF Owned, LiveLabels, CreateLabels
<1>7. NoProc \notin alloc
  BY <1>1, ProcAssumption DEF ProcTypeOK
<1>8. OwnerKept
  BY <1>2, <1>3, <1>6, <1>7 DEF OwnerKept, HasOwner
<1> QED
  BY <1>5, <1>8

(* When no thread starts, the creator keeps the process. *)
LEMMA OwnedStartFails ==
  ASSUME IInv, NEW a \in Actor, StartThreadFails(a)
  PROVE  Owned'
<1>1. ProcTypeOK /\ Owned
  BY DEF IInv
<1>2. /\ \A b \in Actor : b # a => pc'[b] = pc[b] /\ child'[b] = child[b]
      /\ pc[a] = "thread_fork" /\ t_proc' = t_proc /\ alloc' = alloc
      /\ IF a = menu THEN pc'[a] = "destroy" /\ child'[a] = child[a] ELSE pc'[a] = "user"
  BY <1>1 DEF StartThreadFails, Goto, Set, ProcTypeOK, thr
<1>3. /\ \A b \in Actor : pc'[b] \in MakeLabels => pc[b] \in MakeLabels /\ child'[b] = child[b]
      /\ \A t \in Thread : pc'[t] \in LiveLabels <=> pc[t] \in LiveLabels
  BY <1>2, ProcAssumption DEF MakeLabels, LiveLabels, CreateLabels
<1> QED
  BY <1>1, <1>2, <1>3 DEF Owned

(* A freed structure has no owner (proc_destroy). *)
LEMMA OwnedFree ==
  ASSUME IInv, NEW a \in Actor, Free(a)
  PROVE  Owned' /\ OwnerKept
<1>1. ProcTypeOK /\ Owned
  BY DEF IInv
<1>2. /\ \A b \in Actor : b # a => pc'[b] = pc[b] /\ child'[b] = child[b]
      /\ pc[a] = "destroy" /\ pc'[a] = "dec.P" /\ t_proc' = t_proc /\ alloc' = alloc \ {child[a]}
  BY <1>1 DEF Free, Goto, Set, ProcTypeOK, thr
<1>3. /\ \A b \in Actor : pc'[b] \in MakeLabels <=> b # a /\ pc[b] \in MakeLabels
      /\ pc[a] \in MakeLabels
      /\ \A t \in Thread : pc'[t] \in LiveLabels <=> pc[t] \in LiveLabels
  BY <1>2 DEF MakeLabels, LiveLabels, CreateLabels
<1>4. Owned'
  BY <1>1, <1>2, <1>3 DEF Owned
<1>5. OwnerKept
  BY <1>2, <1>3 DEF OwnerKept, HasOwner
<1> QED
  BY <1>4, <1>5

(* A thread on its way out still owns its process (sys__exit). *)
LEMMA OwnedExit ==
  ASSUME IInv, NEW t \in Thread, Exit(t)
  PROVE  Owned' /\ OwnerKept
<1>1. ProcTypeOK /\ Owned
  BY DEF IInv
<1>2. /\ \A b \in Actor : b # t => pc'[b] = pc[b] /\ child'[b] = child[b]
      /\ \A u \in Thread : u # t => t_proc'[u] = t_proc[u]
      /\ pc[t] = "user" /\ pc'[t] = "destroy" /\ alloc' = alloc
      /\ child'[t] = t_proc[t] /\ t_proc'[t] = NoProc
  BY <1>1 DEF Exit, Goto, Set, ProcTypeOK
<1>3. /\ \A b \in Actor : pc'[b] \in MakeLabels <=> b = t \/ pc[b] \in MakeLabels
      /\ pc[t] \in LiveLabels /\ pc'[t] \notin LiveLabels /\ pc[t] \notin MakeLabels
      /\ \A u \in Thread : u # t => (pc'[u] \in LiveLabels <=> pc[u] \in LiveLabels)
  BY <1>2 DEF MakeLabels, LiveLabels, CreateLabels
<1>4. t_proc[t] \in alloc /\ NoProc \notin alloc
  BY <1>1, <1>3, ProcAssumption DEF Owned, ProcTypeOK
<1>5. Owned'
  BY <1>1, <1>2, <1>3, <1>4 DEF Owned
<1>6. OwnerKept
  BY <1>2, <1>3, <1>4 DEF OwnerKept, HasOwner
<1> QED
  BY <1>5, <1>6

(* A creator that returns owns nothing more. *)
LEMMA OwnedReturns ==
  ASSUME IInv, NEW t \in Thread, ReturnPid(t)
  PROVE  Owned' /\ OwnerKept
<1>1. ProcTypeOK /\ Owned
  BY DEF IInv
<1>2. /\ \A b \in Actor : b # t => pc'[b] = pc[b] /\ child'[b] = child[b]
      /\ pc[t] = "retval" /\ pc'[t] = "user" /\ t_proc' = t_proc /\ alloc' = alloc
  BY <1>1 DEF ReturnPid, Goto, Set, ProcTypeOK, thr
<1>3. /\ \A b \in Actor : pc'[b] \in MakeLabels <=> pc[b] \in MakeLabels
      /\ pc[t] \notin MakeLabels
      /\ \A u \in Thread : pc'[u] \in LiveLabels <=> pc[u] \in LiveLabels
  BY <1>2 DEF MakeLabels, LiveLabels, CreateLabels
<1>4. \A b \in Actor : pc[b] \in MakeLabels => child'[b] = child[b]
  BY <1>2, <1>3
<1>5. Owned'
  BY <1>1, <1>2, <1>3, <1>4 DEF Owned
<1>6. OwnerKept
  BY <1>2, <1>3, <1>4 DEF OwnerKept, HasOwner
<1> QED
  BY <1>5, <1>6

(* Every step that works on a process keeps the ownership. *)
LEMMA OwnedWorks ==
  ASSUME IInv, NEW a \in Actor, Works(a)
  PROVE  Owned' /\ ("thread_fork" \notin faults' => OwnerKept)
<1>1. ProcTypeOK /\ Owned
  BY DEF IInv
<1>2. CASE SetPid(a) \/ AllocateFails(a) \/ IncP(a) \/ IncRead(a) \/ IncWrite(a) \/ DecP(a) \/ DecRead(a)
          \/ DecWrite(a)
  <2>1. /\ child' = child /\ t_proc' = t_proc /\ alloc' = alloc
        /\ \A b \in Actor : b # a => pc'[b] = pc[b]
        /\ \/ pc[a] = "create" /\ pc'[a] = IF a = menu THEN "prompt" ELSE "user"
           \/ pc[a] \in CreateLabels /\ pc'[a] \in CreateLabels \cup {"thread_fork"}
           \/ pc[a] \in LeaveLabels /\ pc'[a] \in LeaveLabels \cup {"none", "prompt"}
    BY Zenon, <1>1, <1>2 DEF ProcTypeOK, CreateLabels, LeaveLabels, Goto, thr, SetPid, AllocateFails, IncP, IncRead,
                      IncWrite, DecP, DecRead, DecWrite, CountDown
  <2>2. /\ pc'[a] \in MakeLabels <=> pc[a] \in MakeLabels
        /\ a \in Thread => (pc'[a] \in LiveLabels <=> pc[a] \in LiveLabels)
    BY <2>1, ProcAssumption DEF MakeLabels, LiveLabels, CreateLabels, LeaveLabels
  <2> QED
    BY <1>1, <2>1, <2>2, OwnedKept
<1>3. CASE StartThreadFails(a)
  <2>1. "thread_fork" \in faults'
    BY <1>3 DEF StartThreadFails
  <2> QED
    BY <1>3, <2>1, OwnedStartFails
<1> QED
  BY Zenon, <1>2, <1>3, OwnedAllocate, OwnedStart, OwnedFree DEF Works, Create, Destroy

(* So do the other steps. *)
LEMMA OwnedOthers ==
  ASSUME IInv, (\E t \in Thread : ThreadOnly(t)) \/ common_prog \/ Wait
  PROVE  Owned' /\ OwnerKept
<1>1. ProcTypeOK /\ Owned
  BY DEF IInv
<1>2. ASSUME NEW t \in Thread, ForkCall(t) \/ Begin(t) \/ LoadFails(t)
      PROVE  Owned' /\ OwnerKept
  <2>1. /\ child' = child /\ t_proc' = t_proc /\ alloc' = alloc
        /\ \A b \in Actor : b # t => pc'[b] = pc[b]
        /\ pc[t] \in {"user", "start"} /\ pc'[t] \in {"create", "user", "start"}
    BY <1>1, <1>2 DEF ProcTypeOK, Goto, thr, ForkCall, Begin, LoadFails
  <2>2. /\ pc'[t] \in MakeLabels <=> pc[t] \in MakeLabels
        /\ pc'[t] \in LiveLabels <=> pc[t] \in LiveLabels
    BY <2>1 DEF MakeLabels, LiveLabels, CreateLabels
  <2> QED
    BY <1>1, <2>1, <2>2, OwnedKept
<1>3. CASE common_prog \/ Wait
  <2>1. /\ child' = child /\ t_proc' = t_proc /\ alloc' = alloc
        /\ \A b \in Actor : b # menu => pc'[b] = pc[b]
        /\ pc[menu] \in {"prompt", "wait"} /\ pc'[menu] \in {"create", "prompt"}
    BY <1>1, <1>3 DEF ProcTypeOK, Goto, thr, common_prog, Wait
  <2>2. pc'[menu] \in MakeLabels <=> pc[menu] \in MakeLabels
    BY <2>1 DEF MakeLabels, CreateLabels
  <2> QED
    BY <1>1, <2>1, <2>2, OwnedKept, ProcAssumption
<1> QED
  BY Zenon, <1>2, <1>3, OwnedReturns, OwnedExit DEF ThreadOnly

-----------------------------------------------------------------------------
(* A step that has nothing to do with the count. *)
LEMMA MutexKept ==
  ASSUME Mutex,
         proc_count' = proc_count, count_mutex' = count_mutex,
         \A b \in Actor : pc'[b] \in MutexLabels => pc'[b] = pc[b] /\ tmp'[b] = tmp[b]
  PROVE  Mutex'
<1>1. \A b \in Actor : pc'[b] \in {"inc.write", "dec.write"} => pc'[b] \in MutexLabels
  BY DEF MutexLabels
<1> QED
  BY <1>1 DEF Mutex

(* proc_count_mutex has one owner at most after each step at work. *)
LEMMA MutexWorks ==
  ASSUME IInv, NEW a \in Actor, Works(a)
  PROVE  Mutex'
<1>1. ProcTypeOK /\ Mutex
  BY DEF IInv
<1>2. CASE IncP(a) \/ DecP(a)
  <2>1. /\ \A b \in Actor : b # a => pc'[b] = pc[b]
        /\ count_mutex > 0 /\ count_mutex' = count_mutex - 1 /\ pc'[a] \in {"inc.read", "dec.read"}
    BY <1>1, <1>2 DEF ProcTypeOK, Goto, IncP, DecP
  <2>2. count_mutex' = 0 /\ count_mutex # 0
    BY <1>1, <2>1 DEF ProcTypeOK
  <2>3. \A b \in Actor : pc[b] \notin MutexLabels
    BY <1>1, <2>2 DEF Mutex
  <2> QED
    BY Zenon, <2>1, <2>2, <2>3 DEF Mutex, MutexLabels
<1>3. CASE IncRead(a) \/ DecRead(a)
  <2>1. /\ \A b \in Actor : b # a => pc'[b] = pc[b]
        /\ count_mutex' = count_mutex /\ proc_count' = proc_count /\ tmp'[a] = proc_count
        /\ pc[a] \in {"inc.read", "dec.read"}
    BY <1>1, <1>3 DEF ProcTypeOK, Goto, Set, sems, IncRead, DecRead
  <2>2. pc[a] \in MutexLabels
    BY <2>1 DEF MutexLabels
  <2>3. \A b \in Actor : b # a => pc'[b] \notin MutexLabels
    BY <1>1, <2>1, <2>2 DEF Mutex
  <2>4. count_mutex' = 0
    BY <1>1, <2>1, <2>2 DEF Mutex
  <2>5. \A b \in Actor : pc'[b] \in {"inc.write", "dec.write"} => b = a
    BY <2>3 DEF MutexLabels
  <2> QED
    BY <2>1, <2>3, <2>4, <2>5 DEF Mutex
<1>4. CASE IncWrite(a) \/ DecWrite(a)
  <2>1. /\ \A b \in Actor : b # a => pc'[b] = pc[b]
        /\ pc[a] \in {"inc.write", "dec.write"} /\ pc'[a] \in {"thread_fork", "none", "prompt"}
    BY Zenon, <1>1, <1>4 DEF ProcTypeOK, Goto, IncWrite, DecWrite, CountDown
  <2>2. \A b \in Actor : pc'[b] \notin MutexLabels
    BY <1>1, <2>1 DEF Mutex, MutexLabels
  <2> QED
    BY <2>2 DEF Mutex, MutexLabels
<1>5. CASE Allocate(a) \/ SetPid(a) \/ AllocateFails(a) \/ StartThreadFails(a) \/ Free(a)
  <2>1. /\ \A b \in Actor : b # a => pc'[b] = pc[b] /\ tmp'[b] = tmp[b]
        /\ count_mutex' = count_mutex /\ proc_count' = proc_count
        /\ pc'[a] \in {"pid", "inc.P", "prompt", "user", "destroy", "dec.P"}
    BY Zenon, <1>1, <1>5 DEF ProcTypeOK, Goto, Set, sems, Allocate, SetPid, AllocateFails, StartThreadFails, Free
  <2>2. pc'[a] \notin MutexLabels
    BY <2>1 DEF MutexLabels
  <2> QED
    BY <1>1, <2>1, <2>2, MutexKept
<1>6. ASSUME NEW u \in Thread, StartThread(a, u) PROVE Mutex'
  <2>1. /\ \A b \in Actor : pc'[b] \in {pc[b], "wait", "retval", "start"}
        /\ count_mutex' = count_mutex /\ proc_count' = proc_count /\ tmp' = tmp
    BY <1>1, <1>6 DEF ProcTypeOK, sems, StartThread
  <2>2. \A b \in Actor : pc'[b] \in MutexLabels => pc'[b] = pc[b] /\ tmp'[b] = tmp[b]
    BY <2>1 DEF MutexLabels
  <2> QED
    BY <1>1, <2>1, <2>2, MutexKept
<1> QED
  BY Zenon, <1>2, <1>3, <1>4, <1>5, <1>6 DEF Works, Create, Destroy

(* And after the other steps. *)
LEMMA MutexOthers ==
  ASSUME IInv, (\E t \in Thread : ThreadOnly(t)) \/ common_prog \/ Wait
  PROVE  Mutex'
<1>1. ProcTypeOK /\ Mutex
  BY DEF IInv
<1>2. /\ \A b \in Actor : pc'[b] \in {pc[b], "create", "user", "start", "destroy", "prompt"}
      /\ count_mutex' = count_mutex /\ proc_count' = proc_count /\ tmp' = tmp
  BY <1>1 DEF ProcTypeOK, Goto, sems, ThreadOnly, ForkCall, ReturnPid, Begin, LoadFails, Exit, common_prog, Wait
<1>3. \A b \in Actor : pc'[b] \in MutexLabels => pc'[b] = pc[b] /\ tmp'[b] = tmp[b]
  BY <1>2 DEF MutexLabels
<1> QED
  BY <1>1, <1>2, <1>3, MutexKept

-----------------------------------------------------------------------------
(* One more element, one more counted. *)
LEMMA Added ==
  ASSUME NEW S, NEW T, NEW x, IsFiniteSet(S), x \notin S, T = S \cup {x}
  PROVE  Cardinality(T) = Cardinality(S) + 1 /\ Cardinality(S) \in Nat
  BY FS_AddElement, FS_CardinalityType

(* One element less, one less counted. *)
LEMMA Removed ==
  ASSUME NEW S, NEW T, NEW x, IsFiniteSet(S), x \in S, T = S \ {x}
  PROVE  Cardinality(T) = Cardinality(S) - 1 /\ Cardinality(S) \in Nat
  BY FS_RemoveElement, FS_CardinalityType

(* A step that counts nothing. *)
LEMMA CountKept ==
  ASSUME CountIsExact, alloc' = alloc, proc_count' = proc_count,
         \A b \in Actor : pc'[b] \in CreateLabels <=> pc[b] \in CreateLabels,
         \A b \in Actor : pc[b] \in CreateLabels => child'[b] = child[b],
         \A b \in Actor : pc'[b] \in LeaveLabels <=> pc[b] \in LeaveLabels
  PROVE  CountIsExact'
<1>1. Uncounted' = Uncounted
  BY DEF Uncounted, CreateLabels
<1>2. Leaving' = Leaving
  BY DEF Leaving, LeaveLabels
<1> QED
  BY <1>1, <1>2 DEF CountIsExact

(* proc_create's structure is one that proc_count does not count yet. *)
LEMMA CountAllocate ==
  ASSUME IInv, NEW a \in Actor, Allocate(a)
  PROVE  CountIsExact'
<1>1. ProcTypeOK /\ Owned /\ CountIsExact
  BY DEF IInv
<1>2. PICK x \in Proc \ alloc : alloc' = alloc \cup {x} /\ child' = [child EXCEPT ![a] = x]
  BY Zenon DEF Allocate, Set
<1>3. /\ \A b \in Actor : b # a => pc'[b] = pc[b] /\ child'[b] = child[b]
      /\ pc[a] = "create" /\ pc'[a] = "pid" /\ child'[a] = x /\ proc_count' = proc_count
  BY <1>1, <1>2 DEF Allocate, Goto, ProcTypeOK, sems
<1>4. Uncounted' = Uncounted \cup {x}
  BY <1>3 DEF Uncounted
<1>5. x \notin Uncounted
  BY <1>1, <1>2 DEF Uncounted, Owned, MakeLabels, CreateLabels
<1>6. (alloc \ Uncounted)' = alloc \ Uncounted
  BY <1>2, <1>4, <1>5
<1>7. Leaving' = Leaving
  BY <1>3 DEF Leaving
<1> QED
  BY <1>1, <1>3, <1>6, <1>7 DEF CountIsExact

(* proc_create counts it. *)
LEMMA CountInc ==
  ASSUME IInv, NEW a \in Actor, IncWrite(a)
  PROVE  CountIsExact'
<1>1. ProcTypeOK /\ Owned /\ CountIsExact /\ Mutex
  BY DEF IInv
<1>2. /\ \A b \in Actor : b # a => pc'[b] = pc[b]
      /\ pc[a] = "inc.write" /\ pc'[a] = "thread_fork" /\ child' = child /\ alloc' = alloc
      /\ proc_count' = tmp[a] + 1
  BY <1>1 DEF IncWrite, Goto, ProcTypeOK
<1>3. proc_count' = proc_count + 1
  BY <1>1, <1>2 DEF Mutex
<1>4. \A b \in Actor : b # a /\ pc[b] \in CreateLabels => child[b] # child[a]
  BY <1>1, <1>2 DEF Owned, MakeLabels, CreateLabels
<1>5. Uncounted' = Uncounted \ {child[a]} /\ child[a] \in Uncounted
  BY <1>2, <1>4 DEF Uncounted, CreateLabels
<1>6. child[a] \in alloc
  BY <1>1, <1>2 DEF Owned, MakeLabels, CreateLabels
<1>7. (alloc \ Uncounted)' = (alloc \ Uncounted) \cup {child[a]} /\ child[a] \notin alloc \ Uncounted
  BY <1>2, <1>5, <1>6
<1>8. IsFiniteSet(alloc \ Uncounted)
  BY <1>1, Finite DEF ProcTypeOK
<1>9. /\ Cardinality((alloc \ Uncounted)') = Cardinality(alloc \ Uncounted) + 1
      /\ Cardinality(alloc \ Uncounted) \in Nat
  BY Zenon, <1>7, <1>8, Added
<1>10. Leaving' = Leaving
  BY <1>2 DEF Leaving
<1>11. Cardinality(Leaving) \in Nat
  BY Finite, FS_CardinalityType
<1> QED
  BY <1>1, <1>3, <1>9, <1>10, <1>11 DEF CountIsExact

(* proc_destroy frees a structure that is still counted. *)
LEMMA CountFree ==
  ASSUME IInv, NEW a \in Actor, Free(a)
  PROVE  CountIsExact'
<1>1. ProcTypeOK /\ Owned /\ CountIsExact
  BY DEF IInv
<1>2. /\ \A b \in Actor : b # a => pc'[b] = pc[b] /\ child'[b] = child[b]
      /\ pc[a] = "destroy" /\ pc'[a] = "dec.P" /\ alloc' = alloc \ {child[a]} /\ proc_count' = proc_count
  BY <1>1 DEF Free, Goto, Set, ProcTypeOK, sems
<1>3. Uncounted' = Uncounted
  BY <1>2 DEF Uncounted
<1>4. child[a] \notin Uncounted /\ child[a] \in alloc
  <2>1. \A b \in Actor : pc[b] \in CreateLabels => b # a /\ pc[b] \in MakeLabels
    BY <1>2 DEF MakeLabels, CreateLabels
  <2>2. pc[a] \in MakeLabels
    BY <1>2 DEF MakeLabels
  <2> QED
    BY <1>1, <2>1, <2>2 DEF Uncounted, Owned, CreateLabels
<1>5. (alloc \ Uncounted)' = (alloc \ Uncounted) \ {child[a]} /\ child[a] \in alloc \ Uncounted
  BY <1>2, <1>3, <1>4
<1>6. Leaving' = Leaving \cup {a} /\ a \notin Leaving
  BY <1>2 DEF Leaving
<1>7. IsFiniteSet(alloc \ Uncounted) /\ IsFiniteSet(Leaving)
  BY <1>1, Finite DEF ProcTypeOK
<1>8. /\ Cardinality((alloc \ Uncounted)') = Cardinality(alloc \ Uncounted) - 1
      /\ Cardinality(alloc \ Uncounted) \in Nat
  BY Zenon, <1>5, <1>7, Removed
<1>9. Cardinality(Leaving') = Cardinality(Leaving) + 1 /\ Cardinality(Leaving) \in Nat
  BY Zenon, <1>6, <1>7, Added
<1> QED
  BY <1>1, <1>2, <1>8, <1>9 DEF CountIsExact

(* proc_destroy stops counting it. *)
LEMMA CountDec ==
  ASSUME IInv, NEW a \in Actor, DecWrite(a)
  PROVE  CountIsExact'
<1>1. ProcTypeOK /\ CountIsExact /\ Mutex
  BY DEF IInv
<1>2. /\ \A b \in Actor : b # a => pc'[b] = pc[b]
      /\ pc[a] = "dec.write" /\ pc'[a] \in {"none", "prompt"} /\ child' = child /\ alloc' = alloc
      /\ proc_count' = tmp[a] - 1
  BY <1>1 DEF DecWrite, CountDown, Goto, ProcTypeOK
<1>3. proc_count' = proc_count - 1
  BY <1>1, <1>2 DEF Mutex
<1>4. Uncounted' = Uncounted
  BY <1>2 DEF Uncounted
<1>5. Leaving' = Leaving \ {a} /\ a \in Leaving
  BY <1>2 DEF Leaving
<1>6. IsFiniteSet(alloc \ Uncounted) /\ IsFiniteSet(Leaving)
  BY <1>1, Finite DEF ProcTypeOK
<1>7. Cardinality(alloc \ Uncounted) \in Nat
  BY <1>6, FS_CardinalityType
<1>8. Cardinality(Leaving') = Cardinality(Leaving) - 1 /\ Cardinality(Leaving) \in Nat
  BY Zenon, <1>5, <1>6, Removed
<1> QED
  BY <1>1, <1>2, <1>3, <1>4, <1>7, <1>8 DEF CountIsExact

(* proc_count stays exact in every step at work. *)
LEMMA CountWorks ==
  ASSUME IInv, NEW a \in Actor, Works(a)
  PROVE  CountIsExact'
<1>1. ProcTypeOK /\ CountIsExact
  BY DEF IInv
<1>2. CASE SetPid(a) \/ AllocateFails(a) \/ IncP(a) \/ IncRead(a) \/ StartThreadFails(a) \/ DecP(a) \/ DecRead(a)
  <2>1. /\ \A b \in Actor : b # a => pc'[b] = pc[b] /\ child'[b] = child[b]
        /\ alloc' = alloc /\ proc_count' = proc_count
        /\ \/ pc[a] \in {"create", "thread_fork"} /\ pc'[a] \in {"prompt", "user", "destroy"}
           \/ pc[a] \in CreateLabels /\ pc'[a] \in CreateLabels /\ child'[a] = child[a]
           \/ pc[a] \in LeaveLabels /\ pc'[a] \in LeaveLabels
    BY Zenon, <1>1, <1>2 DEF ProcTypeOK, CreateLabels, LeaveLabels, Goto, Set, sems, SetPid, AllocateFails, IncP,
                             IncRead, StartThreadFails, DecP, DecRead
  <2>2. /\ pc'[a] \in CreateLabels <=> pc[a] \in CreateLabels
        /\ pc[a] \in CreateLabels => child'[a] = child[a]
        /\ pc'[a] \in LeaveLabels <=> pc[a] \in LeaveLabels
    BY <2>1 DEF CreateLabels, LeaveLabels
  <2> QED
    BY <1>1, <2>1, <2>2, CountKept
<1>3. ASSUME NEW u \in Thread, StartThread(a, u) PROVE CountIsExact'
  <2>1. /\ \A b \in Actor : b # a /\ b # u => pc'[b] = pc[b] /\ child'[b] = child[b]
        /\ alloc' = alloc /\ proc_count' = proc_count
        /\ pc[a] = "thread_fork" /\ pc[u] = "none"
        /\ pc'[a] \in {"wait", "retval"} /\ pc'[u] = "start"
    BY <1>1, <1>3 DEF ProcTypeOK, Set, sems, StartThread
  <2>2. /\ \A b \in Actor : pc'[b] \in CreateLabels <=> pc[b] \in CreateLabels
        /\ \A b \in Actor : pc[b] \in CreateLabels => child'[b] = child[b]
        /\ \A b \in Actor : pc'[b] \in LeaveLabels <=> pc[b] \in LeaveLabels
    BY <2>1 DEF CreateLabels, LeaveLabels
  <2> QED
    BY <1>1, <2>1, <2>2, CountKept
<1> QED
  BY Zenon, <1>2, <1>3, CountAllocate, CountInc, CountFree, CountDec DEF Works, Create, Destroy

(* And in the other steps. *)
LEMMA CountOthers ==
  ASSUME IInv, (\E t \in Thread : ThreadOnly(t)) \/ common_prog \/ Wait
  PROVE  CountIsExact'
<1>1. ProcTypeOK /\ CountIsExact
  BY DEF IInv
<1> DEFINE Elsewhere == {"user", "start", "retval", "create", "destroy", "prompt", "wait"}
<1>2. PICK a \in Actor :
        /\ \A b \in Actor : b # a => pc'[b] = pc[b] /\ child'[b] = child[b]
        /\ alloc' = alloc /\ proc_count' = proc_count
        /\ pc[a] \in Elsewhere /\ pc'[a] \in Elsewhere
  BY <1>1 DEF ProcTypeOK, Goto, Set, sems, ThreadOnly, ForkCall, ReturnPid, Begin, LoadFails, Exit, common_prog, Wait
<1>3. /\ \A b \in Actor : pc'[b] \in CreateLabels <=> pc[b] \in CreateLabels
      /\ \A b \in Actor : pc[b] \in CreateLabels => child'[b] = child[b]
      /\ \A b \in Actor : pc'[b] \in LeaveLabels <=> pc[b] \in LeaveLabels
  BY <1>2 DEF CreateLabels, LeaveLabels
<1> QED
  BY <1>1, <1>2, <1>3, CountKept

-----------------------------------------------------------------------------
(* A thread that has not ended is counted, and so is a process whose       *)
(* thread is about to be started.                                          *)
LEMMA Counted ==
  ASSUME IInv, NEW a \in Actor, (a \in Thread /\ pc[a] # "none") \/ pc[a] = "thread_fork"
  PROVE  proc_count > 0
<1>1. ProcTypeOK /\ Owned /\ CountIsExact
  BY DEF IInv
<1>2. IsFiniteSet(alloc \ Uncounted) /\ IsFiniteSet(Leaving)
  BY <1>1, Finite DEF ProcTypeOK
<1>3. Cardinality(alloc \ Uncounted) \in Nat /\ Cardinality(Leaving) \in Nat
  BY <1>2, FS_CardinalityType
<1>4. SUFFICES alloc \ Uncounted # {} \/ Leaving # {}
  <2>1. Cardinality(alloc \ Uncounted) # 0 \/ Cardinality(Leaving) # 0
    BY Zenon, <1>2, <1>4, FS_EmptySet
  <2> QED
    BY <1>1, <1>3, <2>1 DEF CountIsExact
<1>5. CASE pc[a] \in LeaveLabels
  BY <1>5 DEF Leaving, LeaveLabels
<1>6. CASE pc[a] \in {"thread_fork", "destroy"}
  <2>1. \A b \in Actor : pc[b] \in CreateLabels => b # a /\ pc[b] \in MakeLabels
    BY <1>6 DEF MakeLabels, CreateLabels
  <2>2. pc[a] \in MakeLabels
    BY <1>6 DEF MakeLabels
  <2>3. child[a] \in alloc \ Uncounted
    BY <1>1, <2>1, <2>2 DEF Uncounted, Owned, CreateLabels
  <2> QED
    BY <2>3
<1>7. CASE a \in Thread /\ pc[a] \in LiveLabels
  <2>1. \A b \in Actor : pc[b] \in CreateLabels => pc[b] \in MakeLabels
    BY DEF MakeLabels
  <2>2. t_proc[a] \in alloc \ Uncounted
    BY <1>1, <1>7, <2>1 DEF Uncounted, Owned, CreateLabels
  <2> QED
    BY <2>2
<1> QED
  BY <1>1, <1>5, <1>6, <1>7 DEF ProcTypeOK, Labels, LiveLabels

(* What the menu does before its P keeps what no_proc_sem promises. *)
LEMMA WaitsMenu ==
  ASSUME IInv, Works(menu)
  PROVE  Waits'
<1> SUFFICES ASSUME "thread_fork" \notin faults' PROVE Waiting'
  BY DEF Waits
<1>1. ProcTypeOK
  BY DEF IInv
<1>2. "thread_fork" \notin faults /\ ~StartThreadFails(menu)
  BY Zenon DEF Works, Create, Destroy, faulty, Allocate, SetPid, AllocateFails, IncP, IncRead, IncWrite,
         StartThreadFails, StartThread, Free, DecP, DecRead, DecWrite, CountDown
<1>3. Waiting
  BY <1>2 DEF IInv, Waits
<1>4. (\A x \in alloc : HasOwner(x))'
  BY <1>3, OwnedWorks DEF OwnerKept, Waiting
<1>5. pc[menu] \in BeforeLabels \ {"prompt"}
  BY Zenon, <1>3 DEF Waiting, BeforeLabels, CreateLabels, Works, Create, Destroy, Goto, Allocate, SetPid, AllocateFails,
              IncP, IncRead, IncWrite, StartThreadFails, StartThread, Free, DecP, DecRead, DecWrite, CountDown
<1>6. no_proc_sem = 0 /\ \A t \in Thread : pc[t] = "none"
  BY <1>3, <1>5 DEF Waiting
<1>7. CASE Allocate(menu) \/ SetPid(menu) \/ AllocateFails(menu) \/ IncP(menu) \/ IncRead(menu) \/ IncWrite(menu)
  <2>1. /\ \A t \in Thread : pc'[t] = pc[t]
        /\ pc'[menu] \in BeforeLabels /\ no_proc_sem' = no_proc_sem
    BY Zenon, <1>1, <1>7, ProcAssumption
       DEF ProcTypeOK, BeforeLabels, CreateLabels, Goto, sems, Allocate, SetPid, AllocateFails, IncP, IncRead, IncWrite
  <2>2. pc'[menu] # "wait"
    BY <2>1 DEF BeforeLabels, CreateLabels
  <2> QED
    BY <1>4, <1>6, <2>1, <2>2 DEF Waiting
<1>8. ASSUME NEW u \in Thread, StartThread(menu, u) PROVE Waiting'
  <2>1. pc[menu] = "thread_fork" /\ pc'[menu] = "wait" /\ no_proc_sem' = no_proc_sem /\ proc_count' = proc_count
    BY <1>1, <1>8, ProcAssumption DEF ProcTypeOK, sems, StartThread
  <2>2. proc_count > 0 /\ proc_count \in Int
    BY <1>1, <2>1, Counted DEF ProcTypeOK
  <2>3. no_proc_sem' = IF proc_count' = 0 THEN 1 ELSE 0
    BY <1>6, <2>1, <2>2
  <2>4. pc'[menu] \notin BeforeLabels
    BY <2>1 DEF BeforeLabels, CreateLabels
  <2> QED
    BY <1>4, <2>1, <2>3, <2>4 DEF Waiting
<1>9. ~Destroy(menu)
  BY <1>5 DEF BeforeLabels, CreateLabels, Destroy, Goto, Free, DecP, DecRead, DecWrite, CountDown
<1> QED
  BY Zenon, <1>2, <1>7, <1>8, <1>9 DEF Works, Create

(* So does what a thread does with its process. *)
LEMMA WaitsThread ==
  ASSUME IInv, NEW t \in Thread, Works(t)
  PROVE  Waits'
<1> SUFFICES ASSUME "thread_fork" \notin faults' PROVE Waiting'
  BY DEF Waits
<1>1. ProcTypeOK /\ Mutex
  BY DEF IInv
<1>2. "thread_fork" \notin faults
  BY Zenon DEF Works, Create, Destroy, faulty, Allocate, SetPid, AllocateFails, IncP, IncRead, IncWrite,
         StartThreadFails, StartThread, Free, DecP, DecRead, DecWrite, CountDown
<1>3. Waiting
  BY <1>2 DEF IInv, Waits
<1>4. (\A x \in alloc : HasOwner(x))'
  BY <1>3, OwnedWorks DEF OwnerKept, Waiting
<1>5. pc[t] # "none"
  BY Zenon DEF Works, Create, Destroy, Goto, Allocate, SetPid, AllocateFails, IncP, IncRead, IncWrite,
         StartThreadFails, StartThread, Free, DecP, DecRead, DecWrite, CountDown
<1>6. pc[menu] = "wait"
  BY <1>3, <1>5 DEF Waiting
<1>7. proc_count > 0 /\ proc_count \in Int
  BY <1>1, <1>5, Counted DEF ProcTypeOK
<1>8. no_proc_sem = 0
  BY <1>3, <1>6, <1>7 DEF Waiting
<1>9. pc'[menu] = "wait"
  BY Zenon, <1>1, <1>6, ProcAssumption
     DEF ProcTypeOK, Works, Create, Destroy, Goto, Allocate, SetPid, AllocateFails, IncP, IncRead, IncWrite,
         StartThreadFails, StartThread, Free, DecP, DecRead, DecWrite, CountDown
<1>10. no_proc_sem' = IF proc_count' = 0 THEN 1 ELSE 0
  <2>1. CASE IncWrite(t)
    <3>1. proc_count' = tmp[t] + 1 /\ no_proc_sem' = no_proc_sem /\ pc[t] = "inc.write"
      BY <2>1 DEF IncWrite, Goto
    <3>2. tmp[t] = proc_count
      BY <1>1, <3>1 DEF Mutex
    <3> QED
      BY <1>7, <1>8, <3>1, <3>2
  <2>2. CASE DecWrite(t)
    <3>1. /\ proc_count' = tmp[t] - 1 /\ pc[t] = "dec.write"
          /\ no_proc_sem' = IF tmp[t] - 1 = 0 THEN no_proc_sem + 1 ELSE no_proc_sem
      BY <2>2 DEF DecWrite, CountDown, Goto
    <3> QED
      BY <1>8, <3>1
  <2>3. CASE ~IncWrite(t) /\ ~DecWrite(t)
    <3>1. proc_count' = proc_count /\ no_proc_sem' = no_proc_sem
      BY Zenon, <2>3 DEF Works, Create, Destroy, sems, Allocate, SetPid, AllocateFails, IncP, IncRead,
                  StartThreadFails, StartThread, Free, DecP, DecRead
    <3> QED
      BY <1>7, <1>8, <3>1
  <2> QED
    BY <2>1, <2>2, <2>3
<1>11. pc'[menu] \notin BeforeLabels
  BY <1>9 DEF BeforeLabels, CreateLabels
<1> QED
  BY <1>4, <1>9, <1>10, <1>11 DEF Waiting

(* And what a thread does without one. *)
LEMMA WaitsThreadOnly ==
  ASSUME IInv, NEW t \in Thread, ThreadOnly(t)
  PROVE  Waits'
<1> SUFFICES ASSUME "thread_fork" \notin faults' PROVE Waiting'
  BY DEF Waits
<1>1. ProcTypeOK
  BY DEF IInv
<1>2. "thread_fork" \notin faults
  BY Zenon DEF faulty, ThreadOnly, ForkCall, ReturnPid, Begin, LoadFails, Exit
<1>3. Waiting
  BY <1>2 DEF IInv, Waits
<1>4. (\A x \in alloc : HasOwner(x))'
  BY <1>3, OwnedOthers DEF OwnerKept, Waiting
<1>5. /\ pc'[menu] = pc[menu] /\ pc[t] # "none"
      /\ proc_count' = proc_count /\ no_proc_sem' = no_proc_sem
  BY <1>1, ProcAssumption DEF ProcTypeOK, Goto, sems, ThreadOnly, ForkCall, ReturnPid, Begin, LoadFails, Exit
<1>6. pc[menu] = "wait"
  BY <1>3, <1>5 DEF Waiting
<1>7. pc[menu] \notin BeforeLabels
  BY <1>6 DEF BeforeLabels, CreateLabels
<1> QED
  BY <1>3, <1>4, <1>5, <1>6, <1>7 DEF Waiting

(* A new command starts with no unit left (common_prog). *)
LEMMA WaitsCommand ==
  ASSUME IInv, common_prog
  PROVE  Waits'
<1> SUFFICES ASSUME "thread_fork" \notin faults' PROVE Waiting'
  BY DEF Waits
<1>1. ProcTypeOK
  BY DEF IInv
<1>2. "thread_fork" \notin faults
  BY DEF faulty, common_prog
<1>3. Waiting
  BY <1>2 DEF IInv, Waits
<1>4. (\A x \in alloc : HasOwner(x))'
  BY <1>3, OwnedOthers DEF OwnerKept, Waiting
<1>5. /\ pc[menu] = "prompt" /\ pc'[menu] = "create" /\ no_proc_sem' = no_proc_sem
      /\ \A t \in Thread : pc'[t] = pc[t]
  BY <1>1, ProcAssumption DEF ProcTypeOK, Goto, sems, common_prog
<1>6. pc[menu] \in BeforeLabels /\ pc'[menu] \in BeforeLabels
  BY <1>5 DEF BeforeLabels
<1> QED
  BY <1>3, <1>4, <1>5, <1>6 DEF Waiting

(* The menu's P takes the unit of the last process. *)
LEMMA WaitsWait ==
  ASSUME IInv, Wait
  PROVE  Waits'
<1> SUFFICES ASSUME "thread_fork" \notin faults' PROVE Waiting'
  BY DEF Waits
<1>1. ProcTypeOK
  BY DEF IInv
<1>2. "thread_fork" \notin faults
  BY DEF faulty, Wait
<1>3. Waiting
  BY <1>2 DEF IInv, Waits
<1>4. (\A x \in alloc : HasOwner(x))'
  BY <1>3, OwnedOthers DEF OwnerKept, Waiting
<1>5. /\ pc[menu] = "wait" /\ pc'[menu] = "prompt"
      /\ no_proc_sem > 0 /\ no_proc_sem' = no_proc_sem - 1
      /\ \A t \in Thread : pc'[t] = pc[t]
  BY <1>1, ProcAssumption DEF ProcTypeOK, Goto, Wait
<1>6. no_proc_sem' = 0 /\ ~(proc_count > 0)
  BY <1>3, <1>5 DEF Waiting
<1>7. \A t \in Thread : pc[t] = "none"
  BY <1>6, Counted
<1>8. pc'[menu] \in BeforeLabels
  BY <1>5 DEF BeforeLabels
<1> QED
  BY Zenon, <1>4, <1>5, <1>6, <1>7, <1>8 DEF Waiting

-----------------------------------------------------------------------------
(* Every step keeps the inductive invariant. *)
LEMMA Inductive == IInv /\ [Next]_vars => IInv'
<1> SUFFICES ASSUME IInv, [Next]_vars PROVE IInv'
  OBVIOUS
<1>1. ASSUME NEW a \in Actor, Works(a) PROVE IInv'
  <2>1. Waits'
    BY <1>1, WaitsMenu, WaitsThread
  <2> QED
    BY Zenon, <1>1, <2>1, TypeWorks, OwnedWorks, MutexWorks, CountWorks DEF IInv
<1>2. CASE (\E t \in Thread : ThreadOnly(t)) \/ common_prog \/ Wait
  BY Zenon, <1>2, TypeOthers, OwnedOthers, MutexOthers, CountOthers, WaitsThreadOnly,
     WaitsCommand, WaitsWait DEF IInv
<1>3. CASE UNCHANGED vars
  BY <1>3 DEF vars, thr, pids, sems, faulty, IInv, ProcTypeOK, Owned, Mutex, CountIsExact, Uncounted, Leaving,
              Waits, Waiting, HasOwner
<1> QED
  BY Zenon, <1>1, <1>2, <1>3, Steps

(* The inductive invariant holds throughout: every process structure has   *)
(* one owner, proc_count_mutex excludes, proc_count is exact and           *)
(* no_proc_sem gets a unit for the last process only                       *)
(* (proc_create_runprogram, proc_destroy, common_prog).                    *)
THEOREM InvariantHolds == Spec => []IInv
  BY Initially, Inductive, PTL DEF Spec

(* proc_count is exact, and while no thread_fork has failed common_prog    *)
(* does not come back to the prompt before the last process of the command *)
(* is destroyed, and leaves no unit of no_proc_sem for the next command.   *)
THEOREM MenuWaitsForAll == Spec => []MenuWaits
<1>1. IInv => MenuWaits
  <2> SUFFICES ASSUME IInv, "thread_fork" \notin faults, pc[menu] = "prompt"
               PROVE  alloc = {} /\ proc_count = 0 /\ no_proc_sem = 0
    BY DEF IInv, MenuWaits, MenuAlwaysWaits
  <2>1. ProcTypeOK /\ Owned /\ Waiting /\ CountIsExact
    BY DEF IInv, Waits
  <2>2. no_proc_sem = 0 /\ \A t \in Thread : pc[t] = "none"
    BY <2>1 DEF Waiting, BeforeLabels
  <2>3. \A a \in Actor : pc[a] \notin MakeLabels
    BY <2>2 DEF MakeLabels, CreateLabels
  <2>4. \A t \in Thread : t_proc[t] = NoProc
    BY <2>1, <2>2 DEF Owned, LiveLabels, CreateLabels
  <2>5. alloc = {}
    BY <2>1, <2>3, <2>4, ProcAssumption DEF Waiting, HasOwner, ProcTypeOK
  <2>6. Leaving = {}
    BY <2>2 DEF Leaving
  <2>7. proc_count = 0
    BY <2>1, <2>5, <2>6, FS_EmptySet DEF CountIsExact
  <2> QED
    BY <2>2, <2>5, <2>7
<1> QED
  BY <1>1, InvariantHolds, PTL

(* A process is destroyed once: the structure that proc_destroy frees is   *)
(* allocated, no thread runs in it, and nobody else destroys or creates    *)
(* it, however often its memory has been reused.                           *)
DestroyedOnce ==
  \A a \in Actor :
    pc[a] = "destroy" =>
      /\ child[a] \in alloc
      /\ \A t \in Thread : t_proc[t] # child[a]
      /\ \A b \in Actor \ {a} : pc[b] \in MakeLabels => child[b] # child[a]

(* proc_destroy relies on "the only reference to this structure".          *)
THEOREM ProcessesDestroyedOnce == Spec => []DestroyedOnce
<1>1. IInv => DestroyedOnce
  BY DEF IInv, Owned, DestroyedOnce, MakeLabels
<1> QED
  BY <1>1, InvariantHolds, PTL
=============================================================================
