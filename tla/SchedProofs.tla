----------------------------- MODULE SchedProofs -----------------------------
(***************************************************************************)
(* The inductive invariant of the thread system (Sched), for any number of *)
(* processors, threads and wait channels, and what follows from it.  That  *)
(* threads stay in one place is proved in SchedPlaces, and what each       *)
(* processor knows of its own state in SchedControl.                       *)
(***************************************************************************)
EXTENDS SchedControl

(* A processor is in thread_consider_migration by one of these steps. *)
LEMMA MigSteps ==
  ASSUME SchedTypeOK, NEW c \in CPU, Continue(c) \/ Start(c), pc'[c] \in MigLabels
  PROVE  \/ Hardclock(c) \/ MigCount(c) \/ MigTake(c) \/ MigSkipSelf(c) \/ MigLock(c)
         \/ MigMove(c) \/ MigKeep(c) \/ MigUnlock(c)
<1> USE DEF SchedTypeOK, MigLabels, Goto
<1>1. ~(YieldCall(c) \/ YieldIdle(c) \/ YieldNothing(c) \/ ExitCall(c) \/ SwitchReady(c) \/ SwitchZombie(c))
  BY DEF YieldCall, YieldIdle, YieldNothing, ExitCall, SwitchReady, SwitchZombie
<1>2. ~(GoIdle(c) \/ Relock(c) \/ Switch(c) \/ SwitchTail(c) \/ Exorcise(c))
  BY Zenon DEF GoIdle, Relock, Switch, SwitchTail, Exorcise
<1>3. ~(ReadyTarget(c) \/ ReadyPost(c) \/ ReadyReturn(c))
  BY Zenon DEF ReadyTarget, ReadyPost, ReadyReturn, Back
<1>4. ~(TakeIpi(c) \/ ClearIpi(c))
  BY DEF TakeIpi, ClearIpi, Enter, Back
<1>5. ~(MigNotBusy(c) \/ MigFinish(c))
  BY DEF MigNotBusy, MigFinish
<1>6. ~\E w \in Chan : SleepCall(c, w) \/ SwitchSleep(c, w) \/ WakeOne(c, w) \/ WakeAll(c, w)
  BY Zenon DEF SleepCall, SwitchSleep, WakeOne, WakeAll, TakeOff, Enter
<1>7. ~\E t \in Thread : Fork(c, t)
  BY Zenon DEF Fork
<1> QED
  BY <1>1, <1>2, <1>3, <1>4, <1>5, <1>6, <1>7 DEF Continue, Start

(* Every step leaves a migrating processor as many threads as it counted. *)
LEMMA CountedStep ==
  ASSUME SchedTypeOK, SchedTypeOK', Control, InOnePlace, Counted, NEW c \in CPU, Continue(c) \/ Start(c)
  PROVE  Counted'
<1> DEFINE Mine == /\ pc'[c] \in {"mig.count", "mig.take"} => mig'[c].my <= Len(runq'[c])
                   /\ pc'[c] \in {"mig.send", "mig.move"} => mig'[c].send <= Len(list'[c])
<1>0. \A d \in CPU : Len(runq[d]) \in Nat /\ Len(runq'[d]) \in Nat /\ Len(list[d]) \in Nat /\ Len(list'[d]) \in Nat
  <2>1. \A d \in CPU : /\ runq[d] \in Seq(Thread) /\ runq'[d] \in Seq(Thread)
                       /\ list[d] \in Seq(Thread) /\ list'[d] \in Seq(Thread)
    BY DEF SchedTypeOK
  <2> QED
    BY <2>1
<1>1. ASSUME pc'[c] \notin MigLabels PROVE Mine
  BY <1>1 DEF MigLabels
<1>2. ASSUME Hardclock(c) PROVE Mine
  <2>1. mig'[c] = NoMig /\ NoMig.my = 0 /\ pc'[c] \in {"yield", "mig.count"}
    BY Zenon, <1>2 DEF SchedTypeOK, Control, ControlOf, MigLabels, NoMig, Hardclock, Enter
  <2> QED
    BY <1>0, <2>1
<1>3. ASSUME MigCount(c) PROVE Mine
  <2>1. mig'[c].my = IF mig[c].i = c THEN Len(runq[c]) ELSE mig[c].my
    BY <1>3, MigCountSets
  <2>2. runq' = runq /\ pc'[c] \in {"mig.count", "mig.take"} /\ mig[c].my <= Len(runq[c])
    BY <1>3 DEF SchedTypeOK, Counted, MigCount, queues
  <2> QED
    BY <1>0, <2>1, <2>2
<1>4. ASSUME MigTake(c) PROVE Mine
  <2>1. mig'[c].send = Len(list'[c])
    BY <1>4, MigTakeSets, MigTakeMoves
  <2>2. pc'[c] = "mig.send"
    BY <1>4 DEF SchedTypeOK, MigTake, Goto
  <2> QED
    BY <1>0, <2>1, <2>2
<1>5. ASSUME MigSkipSelf(c) \/ MigUnlock(c) PROVE Mine
  <2>1. mig'[c].send = mig[c].send
    BY <1>5, MigIndexSets
  <2>2. list' = list /\ pc'[c] = "mig.send" /\ mig[c].send <= Len(list[c])
    BY Zenon, <1>5 DEF SchedTypeOK, Counted, MigSkipSelf, MigUnlock, Goto
  <2> QED
    BY <2>1, <2>2
<1>6. ASSUME MigLock(c) PROVE Mine
  BY <1>6 DEF SchedTypeOK, Counted, MigLock, Goto
<1>7. ASSUME MigMove(c) \/ MigKeep(c) PROVE Mine
  <2>1. mig'[c].send = mig[c].send - 1 /\ mig[c].send \in Nat
    BY <1>7, MigSendSets, MigFields
  <2>2. Len(list'[c]) >= Len(list[c]) - 1
    BY <1>0, <1>7, MigMoveMoves, MigKeepMoves
  <2>3. pc'[c] = "mig.move" /\ mig[c].send <= Len(list[c])
    BY <1>7 DEF SchedTypeOK, Counted, MigMove, MigKeep
  <2> QED
    BY <1>0, <2>1, <2>2, <2>3
<1>8. Mine
  <2> HIDE DEF Mine
  <2> QED
    BY <1>1, <1>2, <1>3, <1>4, <1>5, <1>6, <1>7, MigSteps
<1>9. ASSUME NEW d \in CPU, d # c
      PROVE  /\ pc'[d] \in {"mig.count", "mig.take"} => mig'[d].my <= Len(runq'[d])
             /\ pc'[d] \in {"mig.send", "mig.move"} => mig'[d].send <= Len(list'[d])
  <2>1. pc'[d] = pc[d] /\ mig'[d] = mig[d] /\ list'[d] = list[d] /\ Len(runq'[d]) >= Len(runq[d])
    BY <1>9, OthersStay DEF Others
  <2>2. mig[d].my \in Nat
    BY MigFields
  <2> QED
    BY <1>0, <2>1, <2>2 DEF Counted
<1> QED
  BY <1>8, <1>9 DEF Counted

(* Every step that queues a thread for an idle processor interrupts it. *)
LEMMA IdleStep ==
  ASSUME SchedTypeOK, Control, IdleIsInterrupted, [Next]_vars
  PROVE  IdleIsInterrupted'
<1>1. ASSUME NEW c \in CPU, Plain(c) PROVE IdleIsInterrupted'
  BY <1>1, PlainStays, PlainGoes DEF IdleIsInterrupted
<1>2. ASSUME NEW c \in CPU, SwitchReady(c) PROVE IdleIsInterrupted'
  BY <1>2 DEF SchedTypeOK, IdleIsInterrupted, SwitchReady, Goto, Leave, Lock, Free, queues
<1>3. ASSUME NEW c \in CPU, SwitchZombie(c) PROVE IdleIsInterrupted'
  BY <1>3 DEF SchedTypeOK, IdleIsInterrupted, SwitchZombie, Goto, Leave, Lock, Free, queues
<1>4. ASSUME NEW c \in CPU, NEW w \in Chan, SwitchSleep(c, w) PROVE IdleIsInterrupted'
  BY <1>4 DEF SchedTypeOK, IdleIsInterrupted, SwitchSleep, Goto, Leave, Lock, Free, queues
<1>5. ASSUME NEW c \in CPU, Switch(c) PROVE IdleIsInterrupted'
  BY <1>5 DEF SchedTypeOK, IdleIsInterrupted, Switch, Goto, queues
<1>6. ASSUME NEW c \in CPU, SwitchTail(c) PROVE IdleIsInterrupted'
  BY <1>6 DEF SchedTypeOK, IdleIsInterrupted, SwitchTail, Goto, Unlock, queues
<1>7. ASSUME NEW c \in CPU, Exorcise(c) PROVE IdleIsInterrupted'
  BY <1>7 DEF SchedTypeOK, IdleIsInterrupted, Exorcise, Goto, queues
<1>8. ASSUME NEW c \in CPU, NEW t \in Thread, Fork(c, t) PROVE IdleIsInterrupted'
  BY <1>8 DEF SchedTypeOK, IdleIsInterrupted, Fork, Goto, queues
<1>9. ASSUME NEW c \in CPU, NEW w \in Chan, WakeOne(c, w) PROVE IdleIsInterrupted'
  BY <1>9 DEF SchedTypeOK, IdleIsInterrupted, WakeOne, TakeOff, Enter, queues
<1>10. ASSUME NEW c \in CPU, NEW w \in Chan, WakeAll(c, w) PROVE IdleIsInterrupted'
  BY <1>10 DEF SchedTypeOK, IdleIsInterrupted, WakeAll, TakeOff, Enter, queues
<1>11. ASSUME NEW c \in CPU, ReadyPost(c) PROVE IdleIsInterrupted'
  <2>1. dest[c] \in CPU
    BY <1>11 DEF SchedTypeOK
  <2>2. \A d \in CPU : pc'[d] = "idle" => pc[d] = "idle" /\ isidle[d]
    BY <1>11 DEF SchedTypeOK, Control, ControlOf, ReadyPost, Goto
  <2>3. /\ \A d \in CPU : d # dest[c] => runq'[d] = runq[d] /\ line'[d] = line[d]
        /\ line'[dest[c]] = (line[dest[c]] \/ isidle[dest[c]])
    BY <1>11, <2>1 DEF SchedTypeOK, ReadyPost, Goto
  <2> QED
    BY Zenon, <2>2, <2>3 DEF IdleIsInterrupted
<1>12. ASSUME NEW c \in CPU, MigTake(c) PROVE IdleIsInterrupted'
  BY <1>12 DEF SchedTypeOK, IdleIsInterrupted, MigTake, Goto, Local, queues
<1>13. ASSUME NEW c \in CPU, MigMove(c) PROVE IdleIsInterrupted'
  <2>1. mig[c].i \in CPU
    BY <1>13, MigIndex DEF MigMove
  <2>2. \A d \in CPU : pc'[d] = "idle" => pc[d] = "idle" /\ isidle[d]
    BY <1>13 DEF SchedTypeOK, Control, ControlOf, MigMove, Local, Room
  <2>3. /\ \A d \in CPU : d # mig[c].i => runq'[d] = runq[d] /\ line'[d] = line[d]
        /\ line'[mig[c].i] = (line[mig[c].i] \/ isidle[mig[c].i])
    BY Zenon, <1>13, <2>1 DEF SchedTypeOK, MigMove, Local, Room
  <2> QED
    BY Zenon, <2>2, <2>3 DEF IdleIsInterrupted
<1>14. ASSUME NEW c \in CPU, MigKeep(c) PROVE IdleIsInterrupted'
  BY <1>14 DEF SchedTypeOK, IdleIsInterrupted, MigKeep, Local, Room, queues
<1>15. ASSUME NEW c \in CPU, MigFinish(c) PROVE IdleIsInterrupted'
  BY <1>15 DEF SchedTypeOK, IdleIsInterrupted, MigFinish, Goto, Local, Sending, queues
<1>16. CASE UNCHANGED vars
  BY <1>16 DEF IdleIsInterrupted, vars, queues
<1> QED
  BY <1>1, <1>2, <1>3, <1>4, <1>5, <1>6, <1>7, <1>8, <1>9, <1>10, <1>11, <1>12, <1>13, <1>14, <1>15, <1>16,
     Cases

(* No processor is on the stack of a thread that exorcise frees. *)
LEMMA ZombiesAreNotCurrent ==
  ASSUME SchedTypeOK, Control, InOnePlace, Owned, NEW c \in CPU, pc[c] = "exorcise", NEW d \in CPU
  PROVE  curthread[d] \notin Range(zombies[c])
<1>1. CASE d = c
  BY <1>1, CurrentApart DEF Control, ControlOf
<1>2. CASE d # c
  BY <1>2 DEF Owned, OwnedBy
<1> QED
  BY <1>1, <1>2

(* Every step leaves processors on stacks that exist. *)
LEMMA StacksStep ==
  ASSUME SchedTypeOK, Control, InOnePlace, Owned, StacksExist, [Next]_vars
  PROVE  StacksExist'
<1>1. ASSUME NEW c \in CPU, Plain(c) PROVE StacksExist'
  BY <1>1, PlainStays DEF StacksExist
<1>2. ASSUME NEW c \in CPU, SwitchReady(c) PROVE StacksExist'
  BY <1>2 DEF SchedTypeOK, StacksExist, SwitchReady, Goto, Leave, Lock, Free, threads
<1>3. ASSUME NEW c \in CPU, SwitchZombie(c) PROVE StacksExist'
  BY <1>3 DEF SchedTypeOK, StacksExist, SwitchZombie, Goto, Leave, Lock, Free, threads
<1>4. ASSUME NEW c \in CPU, NEW w \in Chan, SwitchSleep(c, w) PROVE StacksExist'
  BY <1>4 DEF SchedTypeOK, StacksExist, SwitchSleep, Goto, Leave, Lock, Free, threads
<1>5. ASSUME NEW c \in CPU, Switch(c) PROVE StacksExist'
  <2>1. curthread'[c] \in Thread /\ curthread'[c] \in Range(runq[c]) /\ t_state' = t_state
    BY Zenon, <1>5, SwitchMoves DEF Switch, threads
  <2>2. t_state[curthread'[c]] # "none"
    BY Zenon, <2>1, ApartIs, Places, AtIs DEF Apart
  <2> QED
    BY <1>5, <2>1, <2>2 DEF SchedTypeOK, StacksExist, Switch
<1>6. ASSUME NEW c \in CPU, SwitchTail(c) PROVE StacksExist'
  BY <1>6 DEF SchedTypeOK, StacksExist, SwitchTail, Goto, Unlock, threads
<1>7. ASSUME NEW c \in CPU, Exorcise(c) PROVE StacksExist'
  <2>1. \A d \in CPU : curthread[d] \notin Range(zombies[c])
    BY Zenon, <1>7, ZombiesAreNotCurrent DEF Exorcise, Goto
  <2> QED
    BY <1>7, <2>1 DEF SchedTypeOK, StacksExist, Exorcise
<1>8. ASSUME NEW c \in CPU, NEW t \in Thread, Fork(c, t) PROVE StacksExist'
  BY <1>8 DEF SchedTypeOK, StacksExist, Fork, Goto, threads
<1>9. ASSUME NEW c \in CPU, NEW w \in Chan, WakeOne(c, w) PROVE StacksExist'
  BY <1>9 DEF SchedTypeOK, StacksExist, WakeOne, TakeOff, Enter, threads
<1>10. ASSUME NEW c \in CPU, NEW w \in Chan, WakeAll(c, w) PROVE StacksExist'
  BY <1>10 DEF SchedTypeOK, StacksExist, WakeAll, TakeOff, Enter, threads
<1>11. ASSUME NEW c \in CPU, ReadyPost(c) PROVE StacksExist'
  BY <1>11 DEF SchedTypeOK, StacksExist, ReadyPost, Goto, threads
<1>12. ASSUME NEW c \in CPU, MigTake(c) PROVE StacksExist'
  BY <1>12 DEF SchedTypeOK, StacksExist, MigTake, Goto, Local, threads
<1>13. ASSUME NEW c \in CPU, MigMove(c) PROVE StacksExist'
  BY <1>13 DEF SchedTypeOK, StacksExist, MigMove, Local, Room, threads
<1>14. ASSUME NEW c \in CPU, MigKeep(c) PROVE StacksExist'
  BY <1>14 DEF SchedTypeOK, StacksExist, MigKeep, Local, Room, threads
<1>15. ASSUME NEW c \in CPU, MigFinish(c) PROVE StacksExist'
  BY <1>15 DEF SchedTypeOK, StacksExist, MigFinish, Goto, Local, Sending, threads
<1>16. CASE UNCHANGED vars
  BY <1>16 DEF StacksExist, vars, threads
<1> QED
  BY <1>1, <1>2, <1>3, <1>4, <1>5, <1>6, <1>7, <1>8, <1>9, <1>10, <1>11, <1>12, <1>13, <1>14, <1>15, <1>16,
     Cases

(* A processor is always on the stack of some thread. *)
LEMMA CurrentIsThread ==
  ASSUME SchedTypeOK, NEW c \in CPU
  PROVE  curthread[c] \in Thread
  BY DEF SchedTypeOK

(* A processor about to post a thread has one. *)
LEMMA PostHead ==
  ASSUME SchedTypeOK, Control, InOnePlace, NEW c \in CPU, pc[c] = "post"
  PROVE  Head(list[c]) \in Range(list[c])
<1>1. list[c] # << >>
  BY DEF Control, ControlOf
<1> QED
  BY <1>1, Lists, TailElements

(* No list holds a free structure, and no processor is on its stack. *)
LEMMA FreeIsNowhere ==
  ASSUME SchedTypeOK, InOnePlace, StacksExist, NEW t \in Thread, t_state[t] = "none", NEW c \in CPU
  PROVE  /\ curthread[c] \in Thread \ {t} /\ Range(runq[c]) \subseteq Thread \ {t}
         /\ Range(list[c]) \subseteq Thread \ {t} /\ Range(zombies[c]) \subseteq Thread \ {t}
<1>1. curthread[c] \in Thread \ {t}
  BY CurrentIsThread DEF StacksExist
<1>2. \A p \in Place : t \notin Range(At(p))
  BY ApartIs DEF Apart
<1>3. t \notin Range(runq[c]) /\ t \notin Range(list[c]) /\ t \notin Range(zombies[c])
  <2>1. At(<<"runq", c>>) = runq[c] /\ At(<<"list", c>>) = list[c] /\ At(<<"zombies", c>>) = zombies[c]
    BY Zenon, AtIs
  <2>2. <<"runq", c>> \in Place /\ <<"list", c>> \in Place /\ <<"zombies", c>> \in Place
    BY Zenon, Places
  <2> QED
    BY Zenon, <1>2, <2>1, <2>2
<1> QED
  BY Zenon, <1>1, <1>3, Lists

(* A step that leaves t_cpu alone, and moves threads only between the current
   thread, the run queue, the zombies and the migration list of one processor,
   keeps t_cpu true of the queue that a thread is on. *)
LEMMA OwnedKept ==
  ASSUME Owned, tcpu' = tcpu,
         \A d \in CPU : curthread'[d] = curthread[d] \/ curthread'[d] \in Range(runq[d]),
         \A d \in CPU : Range(zombies'[d]) \subseteq Range(zombies[d]) \cup {curthread[d]},
         \A d \in CPU : \/ Range(runq'[d]) \subseteq Range(runq[d]) \cup {curthread[d]}
                        \/ pc[d] = "mig.send" /\ Range(runq'[d]) \subseteq Range(runq[d]) \cup Range(list[d]),
         \A d \in CPU : pc'[d] \in {"mig.send", "mig.move"} =>
                          \/ Range(list'[d]) \subseteq Range(runq[d])
                          \/ pc[d] \in {"mig.send", "mig.move"} /\ Range(list'[d]) \subseteq Range(list[d]),
         \A d \in CPU : pc'[d] = "post" => pc[d] = "post" /\ list'[d] = list[d] /\ dest'[d] = dest[d]
  PROVE  Owned'
<1>1. \A d \in CPU : tcpu'[curthread'[d]] = d
  BY DEF Owned, OwnedBy
<1>2. \A d \in CPU : \A u \in Range(runq'[d]) : tcpu'[u] = d
  BY DEF Owned, OwnedBy
<1>3. \A d \in CPU : \A u \in Range(zombies'[d]) : tcpu'[u] = d
  BY DEF Owned, OwnedBy
<1>4. \A d \in CPU : pc'[d] \in {"mig.send", "mig.move"} => \A u \in Range(list'[d]) : tcpu'[u] = d
  BY DEF Owned, OwnedBy
<1>5. \A d \in CPU : pc'[d] = "post" => tcpu'[Head(list'[d])] = dest'[d]
  BY DEF Owned, OwnedBy
<1> QED
  BY Zenon, <1>1, <1>2, <1>3, <1>4, <1>5 DEF Owned, OwnedBy

(* Every step keeps t_cpu true of the queue that a thread is on. *)
LEMMA OwnedStep ==
  ASSUME SchedTypeOK, Control, Counted, InOnePlace, Owned, StacksExist, [Next]_vars
  PROVE  Owned'
<1>1. ASSUME NEW c \in CPU, Plain(c) PROVE Owned'
  <2>1. UNCHANGED <<curthread, runq, zombies, list, tcpu>>
    BY <1>1, PlainStays
  <2>2. /\ \A d \in CPU : d # c => pc'[d] = pc[d] /\ dest'[d] = dest[d]
        /\ pc'[c] \in {"mig.send", "mig.move"} => pc[c] \in {"mig.send", "mig.move"}
        /\ pc'[c] = "post" => dest'[c] = tcpu[Head(list[c])]
    BY <1>1, PlainGoes
  <2> QED
    BY <2>1, <2>2 DEF Owned, OwnedBy
<1>2. ASSUME NEW c \in CPU, SwitchReady(c) PROVE Owned'
  <2>1. Range(runq'[c]) = Range(runq[c]) \cup {curthread[c]}
    BY Zenon, <1>2, SwitchReadyMoves
  <2>2. UNCHANGED <<tcpu, dest, curthread, zombies>>
    BY <1>2 DEF SwitchReady, Leave, queues, threads
  <2>3. /\ \A d \in CPU : d # c => runq'[d] = runq[d]
        /\ \A d \in CPU : d # c => pc'[d] = pc[d] /\ list'[d] = list[d]
        /\ pc'[c] \notin {"mig.send", "mig.move", "post"}
    BY <1>2 DEF SchedTypeOK, SwitchReady, Goto, Leave, Lock, Free, queues, threads
  <2> QED
    BY <2>1, <2>2, <2>3, OwnedKept
<1>3. ASSUME NEW c \in CPU, SwitchZombie(c) PROVE Owned'
  <2>1. Range(zombies'[c]) = Range(zombies[c]) \cup {curthread[c]}
    BY Zenon, <1>3, SwitchZombieMoves
  <2>2. UNCHANGED <<tcpu, dest, curthread, runq>>
    BY <1>3 DEF SwitchZombie, Leave, queues, threads
  <2>3. /\ \A d \in CPU : d # c => zombies'[d] = zombies[d]
        /\ \A d \in CPU : d # c => pc'[d] = pc[d] /\ list'[d] = list[d]
        /\ pc'[c] \notin {"mig.send", "mig.move", "post"}
    BY <1>3 DEF SchedTypeOK, SwitchZombie, Goto, Leave, Lock, Free, queues, threads
  <2> QED
    BY <2>1, <2>2, <2>3, OwnedKept
<1>4. ASSUME NEW c \in CPU, NEW w \in Chan, SwitchSleep(c, w) PROVE Owned'
  <2>2. UNCHANGED <<tcpu, dest, curthread, runq, zombies>>
    BY <1>4 DEF SwitchSleep, Leave, queues, threads
  <2>3. /\ \A d \in CPU : d # c => pc'[d] = pc[d] /\ list'[d] = list[d]
        /\ pc'[c] \notin {"mig.send", "mig.move", "post"}
    BY <1>4 DEF SchedTypeOK, SwitchSleep, Goto, Leave, Lock, Free, queues, threads
  <2> QED
    BY <2>2, <2>3, OwnedKept
<1>5. ASSUME NEW c \in CPU, Switch(c) PROVE Owned'
  <2>1. curthread'[c] \in Range(runq[c]) /\ Range(runq'[c]) \subseteq Range(runq[c])
    BY Zenon, <1>5, SwitchMoves
  <2>2. UNCHANGED <<tcpu, dest, zombies>>
    BY <1>5 DEF Switch, queues, threads
  <2>3. /\ \A d \in CPU : d # c => curthread'[d] = curthread[d]
        /\ \A d \in CPU : d # c => runq'[d] = runq[d]
        /\ \A d \in CPU : d # c => pc'[d] = pc[d] /\ list'[d] = list[d]
        /\ pc'[c] \notin {"mig.send", "mig.move", "post"}
    BY <1>5 DEF SchedTypeOK, Switch, Goto, queues, threads
  <2> QED
    BY <2>1, <2>2, <2>3, OwnedKept
<1>6. ASSUME NEW c \in CPU, SwitchTail(c) PROVE Owned'
  <2>2. UNCHANGED <<tcpu, dest, curthread, runq, zombies>>
    BY <1>6 DEF SwitchTail, queues, threads
  <2>3. /\ \A d \in CPU : d # c => pc'[d] = pc[d] /\ list'[d] = list[d]
        /\ pc'[c] \notin {"mig.send", "mig.move", "post"}
    BY <1>6 DEF SchedTypeOK, SwitchTail, Goto, Unlock, queues, threads
  <2> QED
    BY <2>2, <2>3, OwnedKept
<1>7. ASSUME NEW c \in CPU, Exorcise(c) PROVE Owned'
  <2>1. /\ UNCHANGED <<curthread, runq, list, dest>> /\ pc[c] = "exorcise"
        /\ \A u \in Thread : u \notin Range(zombies[c]) => tcpu'[u] = tcpu[u]
    BY Zenon, <1>7 DEF Exorcise, Goto
  <2>2. /\ zombies'[c] = << >>
        /\ \A d \in CPU : d # c => zombies'[d] = zombies[d]
        /\ \A d \in CPU : pc'[d] \in {"mig.send", "mig.move", "post"} => pc'[d] = pc[d]
    BY <1>7 DEF SchedTypeOK, Exorcise, Goto
  <2>3. \A d \in CPU : curthread[d] \in Thread /\ curthread[d] \notin Range(zombies[c])
    BY Zenon, <2>1, CurrentIsThread, ZombiesAreNotCurrent
  <2>4. \A d \in CPU : /\ \A u \in Range(runq[d]) : u \in Thread /\ u \notin Range(zombies[c])
                       /\ \A u \in Range(list[d]) : u \in Thread /\ u \notin Range(zombies[c])
                       /\ d # c => \A u \in Range(zombies[d]) : u \in Thread /\ u \notin Range(zombies[c])
    <3>1. \A d \in CPU : /\ Range(runq[d]) \subseteq Thread /\ Range(list[d]) \subseteq Thread
                         /\ Range(zombies[d]) \subseteq Thread
      BY Zenon, Lists
    <3>2. \A d \in CPU : /\ Range(runq[d]) \cap Range(zombies[c]) = {}
                         /\ Range(list[d]) \cap Range(zombies[c]) = {}
                         /\ d # c => Range(zombies[d]) \cap Range(zombies[c]) = {}
      BY Zenon, ListsApart
    <3> QED
      BY Zenon, <3>1, <3>2
  <2>5. \A d \in CPU : tcpu'[curthread'[d]] = d
    BY Zenon, <2>1, <2>3 DEF Owned, OwnedBy
  <2>6. \A d \in CPU : \A u \in Range(runq'[d]) : tcpu'[u] = d
    BY Zenon, <2>1, <2>4 DEF Owned, OwnedBy
  <2>7. \A d \in CPU : \A u \in Range(zombies'[d]) : tcpu'[u] = d
    <3>1. Range(zombies'[c]) = {}
      BY Zenon, <2>2, EmptyElements
    <3> QED
      BY Zenon, <2>1, <2>2, <2>4, <3>1 DEF Owned, OwnedBy
  <2>8. \A d \in CPU : pc'[d] \in {"mig.send", "mig.move"} => \A u \in Range(list'[d]) : tcpu'[u] = d
    BY <2>1, <2>2, <2>4 DEF Owned, OwnedBy
  <2>9. \A d \in CPU : pc'[d] = "post" => tcpu'[Head(list'[d])] = dest'[d]
    <3>1. \A d \in CPU : pc[d] = "post" => Head(list[d]) \in Range(list[d])
      BY Zenon, PostHead
    <3> QED
      BY <2>1, <2>2, <2>4, <3>1 DEF Owned, OwnedBy
  <2> QED
    BY Zenon, <2>5, <2>6, <2>7, <2>8, <2>9 DEF Owned, OwnedBy
<1>8. ASSUME NEW c \in CPU, NEW t \in Thread, Fork(c, t) PROVE Owned'
  <2>1. \A d \in CPU : pc[d] = "post" => Head(list[d]) \in Range(list[d])
    BY PostHead
  <2>2. \A u \in Thread : u # t => tcpu'[u] = tcpu[u]
    BY <1>8 DEF SchedTypeOK, Fork
  <2>3. /\ UNCHANGED <<curthread, runq, zombies, dest>>
        /\ \A d \in CPU : pc'[d] \in {"mig.send", "mig.move", "post"} => d # c /\ pc'[d] = pc[d] /\ list'[d] = list[d]
    BY <1>8 DEF SchedTypeOK, Fork, Goto, queues
  <2>4. \A d \in CPU : /\ curthread[d] \in Thread \ {t} /\ Range(runq[d]) \subseteq Thread \ {t}
                       /\ Range(list[d]) \subseteq Thread \ {t} /\ Range(zombies[d]) \subseteq Thread \ {t}
    BY <1>8, FreeIsNowhere DEF Fork
  <2>5. \A d \in CPU : tcpu'[curthread'[d]] = d
    BY <2>2, <2>3, <2>4 DEF Owned, OwnedBy
  <2>6. \A d \in CPU : \A u \in Range(runq'[d]) : tcpu'[u] = d
    BY <2>2, <2>3, <2>4 DEF Owned, OwnedBy
  <2>7. \A d \in CPU : \A u \in Range(zombies'[d]) : tcpu'[u] = d
    BY <2>2, <2>3, <2>4 DEF Owned, OwnedBy
  <2>8. \A d \in CPU : pc'[d] \in {"mig.send", "mig.move"} => \A u \in Range(list'[d]) : tcpu'[u] = d
    BY <2>2, <2>3, <2>4 DEF Owned, OwnedBy
  <2>9. \A d \in CPU : pc'[d] = "post" => tcpu'[Head(list'[d])] = dest'[d]
    BY <2>1, <2>2, <2>3, <2>4 DEF Owned, OwnedBy
  <2> QED
    BY <2>5, <2>6, <2>7, <2>8, <2>9 DEF Owned, OwnedBy
<1>9. ASSUME NEW c \in CPU, NEW w \in Chan, WakeOne(c, w) PROVE Owned'
  <2>2. UNCHANGED <<tcpu, dest, curthread, runq, zombies>>
    BY <1>9 DEF WakeOne, TakeOff, queues, threads
  <2>3. /\ \A d \in CPU : d # c => pc'[d] = pc[d] /\ list'[d] = list[d]
        /\ pc'[c] \notin {"mig.send", "mig.move", "post"}
    BY <1>9 DEF SchedTypeOK, WakeOne, TakeOff, Enter, queues, threads
  <2> QED
    BY <2>2, <2>3, OwnedKept
<1>10. ASSUME NEW c \in CPU, NEW w \in Chan, WakeAll(c, w) PROVE Owned'
  <2>2. UNCHANGED <<tcpu, dest, curthread, runq, zombies>>
    BY <1>10 DEF WakeAll, TakeOff, queues, threads
  <2>3. /\ \A d \in CPU : d # c => pc'[d] = pc[d] /\ list'[d] = list[d]
        /\ pc'[c] \notin {"mig.send", "mig.move", "post"}
    BY <1>10 DEF SchedTypeOK, WakeAll, TakeOff, Enter, queues, threads
  <2> QED
    BY <2>2, <2>3, OwnedKept
<1>11. ASSUME NEW c \in CPU, ReadyPost(c) PROVE Owned'
  <2>1. PICK e \in CPU : e = dest[c] /\ Range(runq'[e]) = Range(runq[e]) \cup {Head(list[c])}
    <3>1. PICK e \in CPU : e = dest[c]
      BY DEF SchedTypeOK
    <3> QED
      BY Zenon, <1>11, <3>1, ReadyPostMoves
  <2>2. UNCHANGED <<tcpu, curthread, zombies>> /\ pc[c] = "post"
    BY <1>11 DEF ReadyPost, Goto, queues, threads
  <2>3. /\ \A d \in CPU : d # e => runq'[d] = runq[d]
        /\ \A d \in CPU : d # c => pc'[d] = pc[d] /\ list'[d] = list[d] /\ dest'[d] = dest[d]
        /\ pc'[c] \notin {"mig.send", "mig.move", "post"}
    BY <1>11, <2>1 DEF SchedTypeOK, ReadyPost, Goto
  <2>4. tcpu[Head(list[c])] = e
    BY Zenon, <2>1, <2>2 DEF Owned, OwnedBy
  <2>5. \A d \in CPU : tcpu'[curthread'[d]] = d
    BY Zenon, <2>2 DEF Owned, OwnedBy
  <2>6. \A d \in CPU : \A u \in Range(runq'[d]) : tcpu'[u] = d
    BY <2>1, <2>2, <2>3, <2>4 DEF Owned, OwnedBy
  <2>7. \A d \in CPU : \A u \in Range(zombies'[d]) : tcpu'[u] = d
    BY Zenon, <2>2 DEF Owned, OwnedBy
  <2>8. \A d \in CPU : pc'[d] \in {"mig.send", "mig.move"} => \A u \in Range(list'[d]) : tcpu'[u] = d
    BY <2>2, <2>3 DEF Owned, OwnedBy
  <2>9. \A d \in CPU : pc'[d] = "post" => tcpu'[Head(list'[d])] = dest'[d]
    BY <2>2, <2>3 DEF Owned, OwnedBy
  <2> QED
    BY Zenon, <2>5, <2>6, <2>7, <2>8, <2>9 DEF Owned, OwnedBy
<1>12. ASSUME NEW c \in CPU, MigTake(c) PROVE Owned'
  <2>1. Range(runq'[c]) \subseteq Range(runq[c]) /\ Range(list'[c]) \subseteq Range(runq[c])
    BY Zenon, <1>12, MigTakeMoves
  <2>2. UNCHANGED <<tcpu, dest, curthread, zombies>>
    BY <1>12 DEF MigTake, queues, threads
  <2>3. /\ \A d \in CPU : d # c => runq'[d] = runq[d]
        /\ \A d \in CPU : d # c => pc'[d] = pc[d] /\ list'[d] = list[d]
        /\ pc'[c] # "post"
    BY <1>12 DEF SchedTypeOK, MigTake, Goto, Local, queues, threads
  <2> QED
    BY <2>1, <2>2, <2>3, OwnedKept
<1>13. ASSUME NEW c \in CPU, MigMove(c) PROVE Owned'
  <2>1. PICK h \in Thread, e \in CPU :
          /\ h = Head(list[c]) /\ e = mig[c].i /\ h \in Range(list[c])
          /\ Range(list'[c]) = Range(list[c]) \ {h} /\ Range(runq'[e]) = Range(runq[e]) \cup {h}
    BY Zenon, <1>13, MigMoveMoves, MigIndex DEF MigMove
  <2>2. UNCHANGED <<pc, curthread, zombies, dest>> /\ pc[c] = "mig.move" /\ h # curthread[c]
    BY Zenon, <1>13, <2>1 DEF MigMove
  <2>3. /\ tcpu'[h] = e /\ \A u \in Thread : u # h => tcpu'[u] = tcpu[u]
        /\ \A d \in CPU : d # e => runq'[d] = runq[d]
        /\ \A d \in CPU : d # c => list'[d] = list[d]
    BY Zenon, <1>13, <2>1 DEF SchedTypeOK, MigMove
  <2>4. /\ \A d \in CPU : \A u \in Range(runq[d]) : u \in Thread /\ u # h
        /\ \A d \in CPU : \A u \in Range(zombies[d]) : u \in Thread /\ u # h
        /\ \A d \in CPU : d # c => \A u \in Range(list[d]) : u \in Thread /\ u # h
        /\ \A u \in Range(list[c]) : u \in Thread
    <3>1. \A d \in CPU : /\ Range(runq[d]) \subseteq Thread /\ Range(list[d]) \subseteq Thread
                         /\ Range(zombies[d]) \subseteq Thread
      BY Zenon, Lists
    <3>2. \A d \in CPU : /\ Range(runq[d]) \cap Range(list[c]) = {}
                         /\ Range(zombies[d]) \cap Range(list[c]) = {}
                         /\ d # c => Range(list[d]) \cap Range(list[c]) = {}
      BY Zenon, ListsApart
    <3> QED
      BY Zenon, <2>1, <3>1, <3>2
  <2>5. \A d \in CPU : tcpu'[curthread'[d]] = d
    <3>1. tcpu[h] = c
      BY Zenon, <2>1, <2>2 DEF Owned, OwnedBy
    <3>2. \A d \in CPU : curthread[d] \in Thread /\ curthread[d] # h
      BY <2>2, <3>1, CurrentIsThread DEF Owned, OwnedBy
    <3> QED
      BY Zenon, <2>2, <2>3, <3>2 DEF Owned, OwnedBy
  <2>6. \A d \in CPU : \A u \in Range(runq'[d]) : tcpu'[u] = d
    <3>1. \A d \in CPU : \A u \in Range(runq[d]) : tcpu'[u] = d
      BY <2>3, <2>4 DEF Owned, OwnedBy
    <3> QED
      BY <2>1, <2>3, <3>1
  <2>7. \A d \in CPU : \A u \in Range(zombies'[d]) : tcpu'[u] = d
    BY <2>2, <2>3, <2>4 DEF Owned, OwnedBy
  <2>8. \A d \in CPU : pc'[d] \in {"mig.send", "mig.move"} => \A u \in Range(list'[d]) : tcpu'[u] = d
    BY <2>1, <2>2, <2>3, <2>4 DEF Owned, OwnedBy
  <2>9. \A d \in CPU : pc'[d] = "post" => tcpu'[Head(list'[d])] = dest'[d]
    <3>1. \A d \in CPU : pc[d] = "post" => d # c /\ Head(list[d]) \in Range(list[d])
      BY <2>2, PostHead
    <3> QED
      BY <2>2, <2>3, <2>4, <3>1 DEF Owned, OwnedBy
  <2> QED
    BY Zenon, <2>5, <2>6, <2>7, <2>8, <2>9 DEF Owned, OwnedBy
<1>14. ASSUME NEW c \in CPU, MigKeep(c) PROVE Owned'
  <2>1. Range(list'[c]) = Range(list[c])
    BY Zenon, <1>14, MigKeepMoves
  <2>2. UNCHANGED <<tcpu, dest, curthread, runq, zombies>>
    BY <1>14 DEF MigKeep, queues, threads
  <2>3. /\ \A d \in CPU : d # c => pc'[d] = pc[d] /\ list'[d] = list[d]
        /\ pc'[c] = "mig.move" /\ pc[c] = "mig.move"
    BY <1>14 DEF SchedTypeOK, MigKeep, Local, Room, queues, threads
  <2> QED
    BY <2>1, <2>2, <2>3, OwnedKept
<1>15. ASSUME NEW c \in CPU, MigFinish(c) PROVE Owned'
  <2>1. pc[c] = "mig.send" /\ Range(runq'[c]) = Range(runq[c]) \cup Range(list[c])
    BY Zenon, <1>15, MigFinishMoves DEF MigFinish, Goto
  <2>2. UNCHANGED <<tcpu, dest, curthread, zombies>>
    BY <1>15 DEF MigFinish, queues, threads
  <2>3. /\ \A d \in CPU : d # c => runq'[d] = runq[d]
        /\ \A d \in CPU : d # c => pc'[d] = pc[d] /\ list'[d] = list[d]
        /\ pc'[c] \notin {"mig.send", "mig.move", "post"}
    BY <1>15 DEF SchedTypeOK, MigFinish, Goto, Local, Sending, queues, threads
  <2> QED
    BY <2>1, <2>2, <2>3, OwnedKept
<1>16. CASE UNCHANGED vars
  BY <1>16 DEF Owned, OwnedBy, vars, queues, threads
<1> QED
  BY <1>1, <1>2, <1>3, <1>4, <1>5, <1>6, <1>7, <1>8, <1>9, <1>10, <1>11, <1>12, <1>13, <1>14, <1>15, <1>16,
     Cases

-----------------------------------------------------------------------------
(* Initially every processor runs its boot thread, and nothing else exists. *)
LEMMA InitialCpu ==
  ASSUME Init, NEW c \in CPU
  PROVE  boot[c] \in Thread /\ tcpu[boot[c]] = c /\ t_state[boot[c]] = "run"
<1>1. boot[c] \in Thread /\ boot[c] \in Range(boot) /\ \A d \in CPU : boot[d] = boot[c] => d = c
  BY SchedAssumption DEF Range, IsInjective
<1>2. (CHOOSE d \in CPU : boot[d] = boot[c]) = c
  BY <1>1
<1> QED
  BY <1>1, <1>2 DEF Init

(* So every thread is in one place. *)
LEMMA InitialPlaces ==
  ASSUME Init
  PROVE  InOnePlace
<1>1. /\ \A c \in CPU : At(<<"cpu", c>>) = <<boot[c]>>
      /\ \A c \in CPU : At(<<"runq", c>>) = << >> /\ At(<<"zombies", c>>) = << >> /\ At(<<"list", c>>) = << >>
      /\ \A w \in Chan : At(<<"wchan", w>>) = << >>
  <2>1. /\ \A c \in CPU : ~isidle[c] /\ curthread[c] = boot[c] /\ runq[c] = << >> /\ zombies[c] = << >> /\ list[c] = << >>
        /\ \A w \in Chan : wchan[w] = << >>
    BY DEF Init
  <2> QED
    BY Zenon, <2>1, AtIs
<1>2. \A p \in Place : \/ \E c \in CPU : p = <<"cpu", c>> /\ IsInjective(At(p)) /\ Range(At(p)) = {boot[c]}
                       \/ IsInjective(At(p)) /\ Range(At(p)) = {}
  <2> SUFFICES ASSUME NEW p \in Place
               PROVE \/ \E c \in CPU : p = <<"cpu", c>> /\ IsInjective(At(p)) /\ Range(At(p)) = {boot[c]}
                     \/ IsInjective(At(p)) /\ Range(At(p)) = {}
    OBVIOUS
  <2>1. CASE \E c \in CPU : p = <<"cpu", c>>
    BY <1>1, <2>1, OneElement
  <2>2. CASE At(p) = << >>
    BY <2>2, EmptyElements
  <2>3. \/ \E c \in CPU : p = <<"cpu", c>>
        \/ \E c \in CPU : p = <<"runq", c>> \/ p = <<"zombies", c>> \/ p = <<"list", c>>
        \/ \E w \in Chan : p = <<"wchan", w>>
    BY Zenon, PlaceCases
  <2>4. CASE \E c \in CPU : p = <<"runq", c>> \/ p = <<"zombies", c>> \/ p = <<"list", c>>
    BY Zenon, <1>1, <2>2, <2>4
  <2>5. CASE \E w \in Chan : p = <<"wchan", w>>
    BY Zenon, <1>1, <2>2, <2>5
  <2> QED
    BY Zenon, <2>1, <2>3, <2>4, <2>5
<1>3. \A c, d \in CPU : boot[c] = boot[d] => c = d
  BY SchedAssumption DEF IsInjective
<1>4. \A t \in Thread : \A p, q \in Place : t \in Range(At(p)) /\ t \in Range(At(q)) => p = q
  BY <1>2, <1>3
<1>5. \A t \in Thread : \A p \in Place : t \in Range(At(p)) => t_state[t] # "none"
  BY <1>2, InitialCpu
<1>6. ASSUME NEW t \in Thread, t_state[t] # "none" PROVE \E p \in Place : t \in Range(At(p))
  <2>1. PICK c \in CPU : t = boot[c]
    BY <1>6, SchedAssumption DEF Init, Range
  <2>2. <<"cpu", c>> \in Place /\ At(<<"cpu", c>>) = <<t>>
    BY Zenon, <1>1, <2>1, Places
  <2> QED
    BY <2>2, OneElement
<1>7. Apart
  BY <1>2, <1>4, <1>5, <1>6 DEF Apart
<1> QED
  BY <1>7, ApartIs

(* The invariant holds initially, *)
LEMMA Initially == Init => IInv
<1> SUFFICES ASSUME Init PROVE IInv
  OBVIOUS
<1>1. SchedTypeOK
  <2>1. tcpu \in [Thread -> CPU]
    <3>1. 0 \in CPU
      BY SchedAssumption DEF CPU
    <3>2. ASSUME NEW t \in Range(boot) PROVE (CHOOSE c \in CPU : boot[c] = t) \in CPU
      BY SchedAssumption DEF Range
    <3> QED
      BY <3>1, <3>2 DEF Init
  <2>2. mig \in [CPU -> MigLocals]
    BY DEF Init, NoMig, MigLocals
  <2>3. isidle \in [CPU -> BOOLEAN] /\ line \in [CPU -> BOOLEAN]
    BY DEF Init
  <2> QED
    BY <2>1, <2>2, <2>3, SchedAssumption DEF Init, SchedTypeOK, Labels, States
<1>2. Control
  BY DEF Init, Control, ControlOf, ListLabels, MigLabels
<1>3. InOnePlace
  BY InitialPlaces
<1>4. Owned
  <2>1. \A c \in CPU : Range(runq[c]) = {} /\ Range(zombies[c]) = {} /\ pc[c] = "run" /\ curthread[c] = boot[c]
    BY EmptyElements DEF Init
  <2> QED
    BY <2>1, InitialCpu DEF Owned, OwnedBy
<1>5. StacksExist
  BY InitialCpu DEF Init, StacksExist
<1>6. IdleIsInterrupted /\ Counted
  BY DEF Init, IdleIsInterrupted, Counted
<1> QED
  BY <1>1, <1>2, <1>3, <1>4, <1>5, <1>6 DEF IInv

(* is preserved by every step, *)
LEMMA Step == IInv /\ [Next]_vars => IInv'
<1> SUFFICES ASSUME IInv, [Next]_vars PROVE IInv'
  OBVIOUS
<1>0. /\ SchedTypeOK /\ Control /\ InOnePlace /\ Owned /\ StacksExist
      /\ IdleIsInterrupted /\ Counted
  BY DEF IInv
<1>1. SchedTypeOK'
  BY <1>0, TypeStep
<1>2. Control'
  <2>1. CASE UNCHANGED vars
    BY Zenon, <1>0, <2>1 DEF Control, ControlOf, vars
  <2> QED
    BY <1>0, <2>1, ControlStep DEF Next
<1>3. InOnePlace'
  BY <1>0, PlacedStep
<1>4. Owned'
  BY <1>0, OwnedStep
<1>5. StacksExist'
  BY <1>0, StacksStep
<1>6. IdleIsInterrupted'
  BY <1>0, IdleStep
<1>7. Counted'
  <2>1. CASE UNCHANGED vars
    BY <1>0, <2>1 DEF Counted, vars, queues
  <2> QED
    BY <1>0, <1>1, <2>1, CountedStep DEF Next
<1> QED
  BY <1>1, <1>2, <1>3, <1>4, <1>5, <1>6, <1>7 DEF IInv

(* and so always holds. *)
LEMMA Inductive == Spec => []IInv
  BY Initially, Step, PTL DEF Spec

-----------------------------------------------------------------------------
(* A thread is on one list, channel or processor at a time, and there once; *)
(* a structure that exorcise has freed is on none, and one that is in use   *)
(* is not lost: thread_switch, wchan_wakeone, wchan_wakeall,                *)
(* thread_make_runnable and thread_consider_migration each take a thread    *)
(* from where it is before they put it elsewhere.                           *)
THEOREM ThreadsInOnePlace == Spec => []InOnePlace
<1>1. IInv => InOnePlace
  BY DEF IInv
<1> QED
  BY <1>1, Inductive, PTL

(* No two processors are on one stack, idle or not, and no stack that a     *)
(* processor is on is freed.  A processor idles on the stack of the thread  *)
(* that left it; thread_consider_migration passes that thread over, and     *)
(* exorcise runs on a processor that has left the stacks it frees.          *)
THEOREM StacksNotShared == Spec => []StacksApart
<1>1. SchedTypeOK /\ Owned => IsInjective(curthread)
  BY DEF SchedTypeOK, Owned, OwnedBy, IsInjective
<1>2. IInv => StacksApart
  BY Zenon, <1>1 DEF IInv, StacksExist, StacksApart
<1> QED
  BY <1>2, Inductive, PTL

(* A thread's t_cpu names the processor that runs it or has it queued, and  *)
(* does not change between the moment thread_make_runnable reads it and the *)
(* moment the thread is queued there.                                       *)
THEOREM ThreadsBelong == Spec => []BelongsToCpu
<1>1. IInv => BelongsToCpu
  <2> SUFFICES ASSUME IInv, NEW c \in CPU
               PROVE  /\ tcpu[curthread[c]] = c
                      /\ \A i \in DOMAIN runq[c] : tcpu[runq[c][i]] = c
                      /\ pc[c] = "post" => tcpu[Head(list[c])] = dest[c]
    BY DEF BelongsToCpu
  <2> QED
    BY DEF IInv, Owned, OwnedBy, Range
<1> QED
  BY <1>1, Inductive, PTL

(* An idle processor with a thread on its queue has its interrupt line up:  *)
(* the wakeups that thread_make_runnable and thread_consider_migration send *)
(* are not missed, however they interleave with cpu_idle and with the       *)
(* handler that lowers the line.                                            *)
THEOREM IdleNotMissed == Spec => []IdleIsInterrupted
<1>1. IInv => IdleIsInterrupted
  BY DEF IInv
<1> QED
  BY <1>1, Inductive, PTL

(* thread_consider_migration never takes a thread from an empty list.       *)
THEOREM MigrationFindsThreads == Spec => []MigrationHasThreads
<1>1. IInv => MigrationHasThreads
  BY DEF IInv, Counted, MigrationHasThreads
<1> QED
  BY <1>1, Inductive, PTL
=============================================================================
