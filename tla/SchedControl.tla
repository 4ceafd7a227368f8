---------------------------- MODULE SchedControl ----------------------------
(***************************************************************************)
(* What a processor knows of its own state (Sched): every step respects    *)
(* the types of the variables and keeps what a processor's label promises  *)
(* about its lists and its migration.                                      *)
(***************************************************************************)
EXTENDS SchedPlaces

(* What a plain step of c changes. *)
LEMMA PlainGoes ==
  ASSUME SchedTypeOK, NEW c \in CPU, Plain(c)
  PROVE  /\ \A d \in CPU : d # c => pc'[d] = pc[d] /\ dest'[d] = dest[d] /\ mig'[d] = mig[d] /\ line'[d] = line[d]
         /\ pc'[c] = "idle" => runq[c] = << >>
         /\ pc'[c] \in {"mig.send", "mig.move"} => pc[c] \in {"mig.send", "mig.move"}
         /\ pc'[c] = "post" => dest'[c] = tcpu[Head(list[c])]
<1> USE DEF SchedTypeOK, Goto
<1>1. CASE YieldCall(c)
  BY <1>1 DEF YieldCall
<1>2. CASE YieldIdle(c)
  BY <1>2 DEF YieldIdle
<1>3. CASE YieldNothing(c)
  BY <1>3 DEF YieldNothing
<1>4. CASE ExitCall(c)
  BY <1>4 DEF ExitCall
<1>5. CASE GoIdle(c)
  BY <1>5 DEF GoIdle
<1>6. CASE Relock(c)
  BY <1>6 DEF Relock
<1>7. CASE ReadyTarget(c)
  BY <1>7 DEF ReadyTarget
<1>8. CASE ReadyReturn(c)
  BY <1>8 DEF ReadyReturn, Back
<1>9. CASE TakeIpi(c)
  BY <1>9 DEF TakeIpi, Enter
<1>10. CASE ClearIpi(c)
  BY <1>10 DEF ClearIpi, Back
<1>11. CASE Hardclock(c)
  BY <1>11 DEF Hardclock, Enter
<1>12. CASE MigCount(c)
  BY <1>12 DEF MigCount, Local
<1>13. CASE MigNotBusy(c)
  BY <1>13 DEF MigNotBusy, Local
<1>14. CASE MigSkipSelf(c)
  BY <1>14 DEF MigSkipSelf, Local
<1>15. CASE MigLock(c)
  BY <1>15 DEF MigLock
<1>16. CASE MigUnlock(c)
  BY <1>16 DEF MigUnlock, Local
<1>17. CASE \E w \in Chan : SleepCall(c, w)
  BY <1>17 DEF SleepCall
<1> QED
  BY Zenon, <1>1, <1>2, <1>3, <1>4, <1>5, <1>6, <1>7, <1>8, <1>9,
     <1>10, <1>11, <1>12, <1>13, <1>14, <1>15, <1>16, <1>17 DEF Plain

(* A processor's steps leave what is private to the others, and make their *)
(* queues no shorter.                                                      *)
Others(c) ==
  \A d \in CPU : d # c =>
    /\ pc'[d] = pc[d] /\ isidle'[d] = isidle[d] /\ curthread'[d] = curthread[d]
    /\ zombies'[d] = zombies[d] /\ list'[d] = list[d] /\ dest'[d] = dest[d] /\ mig'[d] = mig[d]
    /\ Len(runq'[d]) >= Len(runq[d])

(* Every step respects the types of the variables. *)
LEMMA TypeStep ==
  ASSUME SchedTypeOK, Control, InOnePlace, Counted, [Next]_vars
  PROVE  SchedTypeOK'
<1> USE SchedAssumption DEF SchedTypeOK, Labels, States
<1>1. ASSUME NEW c \in CPU, YieldCall(c) PROVE SchedTypeOK'
  BY Zenon, <1>1 DEF YieldCall, Goto, queues, threads, chans
<1>2. ASSUME NEW c \in CPU, YieldIdle(c) PROVE SchedTypeOK'
  BY Zenon, <1>2 DEF YieldIdle, Goto, queues, threads, chans
<1>3. ASSUME NEW c \in CPU, YieldNothing(c) PROVE SchedTypeOK'
  BY Zenon, <1>3 DEF YieldNothing, Goto, queues, threads, chans
<1>4. ASSUME NEW c \in CPU, SwitchReady(c) PROVE SchedTypeOK'
  <2>1. pc' \in [CPU -> Labels]
    BY <1>4 DEF SwitchReady, Goto, Leave, Lock, Free
  <2>2. isidle' \in [CPU -> BOOLEAN]
    BY <1>4 DEF SwitchReady, Goto, Leave, Lock, Free
  <2>3. runq' \in [CPU -> Seq(Thread)]
    BY <1>4 DEF SwitchReady, Goto, Leave, Lock, Free
  <2>4. rqlock' \in [CPU -> CPU \cup {NoCPU}]
    BY <1>4 DEF SwitchReady, Goto, Leave, Lock, Free
  <2>5. t_state' \in [Thread -> States]
    BY <1>4 DEF SwitchReady, Goto, Leave, Lock, Free
  <2> QED
    BY Zenon, <1>4, <2>1, <2>2, <2>3, <2>4, <2>5 DEF SwitchReady, Goto, Leave, Lock, Free, queues, threads, chans
<1>5. ASSUME NEW c \in CPU, ExitCall(c) PROVE SchedTypeOK'
  BY Zenon, <1>5 DEF ExitCall, Goto, queues, threads, chans
<1>6. ASSUME NEW c \in CPU, SwitchZombie(c) PROVE SchedTypeOK'
  <2>1. pc' \in [CPU -> Labels]
    BY <1>6 DEF SwitchZombie, Goto, Leave, Lock, Free
  <2>2. isidle' \in [CPU -> BOOLEAN]
    BY <1>6 DEF SwitchZombie, Goto, Leave, Lock, Free
  <2>3. rqlock' \in [CPU -> CPU \cup {NoCPU}]
    BY <1>6 DEF SwitchZombie, Goto, Leave, Lock, Free
  <2>4. zombies' \in [CPU -> Seq(Thread)]
    BY <1>6 DEF SwitchZombie, Goto, Leave, Lock, Free
  <2>5. t_state' \in [Thread -> States]
    BY <1>6 DEF SwitchZombie, Goto, Leave, Lock, Free
  <2> QED
    BY Zenon, <1>6, <2>1, <2>2, <2>3, <2>4, <2>5 DEF SwitchZombie, Goto, Leave, Lock, Free, queues, threads, chans
<1>7. ASSUME NEW c \in CPU, GoIdle(c) PROVE SchedTypeOK'
  BY Zenon, <1>7 DEF GoIdle, Goto, Unlock, queues, threads, chans
<1>8. ASSUME NEW c \in CPU, Relock(c) PROVE SchedTypeOK'
  BY Zenon, <1>8 DEF Relock, Goto, Lock, Free, queues, threads, chans
<1>9. ASSUME NEW c \in CPU, Switch(c) PROVE SchedTypeOK'
  <2>1. pc' \in [CPU -> Labels]
    BY <1>9 DEF Switch, Goto
  <2>2. curthread' \in [CPU -> Thread]
    <3>1. curthread'[c] \in Thread
      BY Zenon, <1>9, SwitchMoves
    <3>2. curthread' = [curthread EXCEPT ![c] = curthread'[c]]
      BY <1>9 DEF Switch, Goto
    <3> QED
      BY Zenon, <3>1, <3>2
  <2>3. isidle' \in [CPU -> BOOLEAN]
    BY <1>9 DEF Switch, Goto
  <2>4. runq' \in [CPU -> Seq(Thread)]
    BY <1>9 DEF Switch, Goto
  <2> QED
    BY Zenon, <1>9, <2>1, <2>2, <2>3, <2>4 DEF Switch, Goto, queues, threads, chans
<1>10. ASSUME NEW c \in CPU, SwitchTail(c) PROVE SchedTypeOK'
  BY Zenon, <1>10 DEF SwitchTail, Goto, Unlock, queues, threads, chans
<1>11. ASSUME NEW c \in CPU, Exorcise(c) PROVE SchedTypeOK'
  <2>1. pc' \in [CPU -> Labels]
    BY <1>11 DEF Exorcise, Goto
  <2>2. zombies' \in [CPU -> Seq(Thread)]
    BY <1>11 DEF Exorcise, Goto
  <2>3. tcpu' \in [Thread -> CPU]
    <3>1. 0 \in CPU
      BY DEF CPU
    <3> QED
      BY <1>11, <3>1 DEF Exorcise, Goto
  <2>4. t_state' \in [Thread -> States]
    BY <1>11 DEF Exorcise, Goto
  <2> QED
    BY <1>11, <2>1, <2>2, <2>3, <2>4 DEF Exorcise, Goto, queues, threads, chans
<1>12. ASSUME NEW c \in CPU, ReadyTarget(c) PROVE SchedTypeOK'
  <2>1. pc' \in [CPU -> Labels]
    BY <1>12 DEF ReadyTarget, Goto
  <2>2. dest' \in [CPU -> CPU]
    <3>1. list[c] # << >> /\ list[c] \in Seq(Thread)
      BY <1>12 DEF ReadyTarget
    <3>2. Head(list[c]) \in Thread
      BY <3>1
    <3> QED
      BY Zenon, <1>12, <3>2 DEF ReadyTarget, Goto
  <2> QED
    BY Zenon, <1>12, <2>1, <2>2 DEF ReadyTarget, Goto, queues, threads, chans
<1>13. ASSUME NEW c \in CPU, ReadyPost(c) PROVE SchedTypeOK'
  <2>1. pc' \in [CPU -> Labels]
    BY <1>13 DEF ReadyPost, Goto
  <2>2. runq' \in [CPU -> Seq(Thread)]
    <3>1. dest[c] \in CPU /\ runq'[dest[c]] \in Seq(Thread)
      BY Zenon, <1>13, ReadyPostMoves
    <3>2. runq' = [runq EXCEPT ![dest[c]] = runq'[dest[c]]]
      BY <1>13, <3>1 DEF ReadyPost, Goto
    <3> QED
      BY Zenon, <3>1, <3>2
  <2>3. line' \in [CPU -> BOOLEAN]
    BY <1>13 DEF ReadyPost, Goto
  <2>4. list' \in [CPU -> Seq(Thread)]
    <3>1. list'[c] \in Seq(Thread)
      BY Zenon, <1>13, ReadyPostMoves
    <3>2. list' = [list EXCEPT ![c] = list'[c]]
      BY <1>13 DEF ReadyPost, Goto
    <3> QED
      BY Zenon, <3>1, <3>2
  <2>5. dest' \in [CPU -> CPU]
    BY <1>13 DEF ReadyPost, Goto
  <2> QED
    BY Zenon, <1>13, <2>1, <2>2, <2>3, <2>4, <2>5 DEF ReadyPost, Goto, queues, threads, chans
<1>14. ASSUME NEW c \in CPU, ReadyReturn(c) PROVE SchedTypeOK'
  BY Zenon, <1>14 DEF ReadyReturn, Goto, Back, queues, threads, chans
<1>15. ASSUME NEW c \in CPU, TakeIpi(c) PROVE SchedTypeOK'
  BY Zenon, <1>15 DEF TakeIpi, Enter, queues, threads, chans
<1>16. ASSUME NEW c \in CPU, ClearIpi(c) PROVE SchedTypeOK'
  BY Zenon, <1>16 DEF ClearIpi, Goto, Back, queues, threads, chans
<1>17. ASSUME NEW c \in CPU, Hardclock(c) PROVE SchedTypeOK'
  BY Zenon, <1>17 DEF Hardclock, Enter, queues, threads, chans
<1>18. ASSUME NEW c \in CPU, MigCount(c) PROVE SchedTypeOK'
  <2>1. pc' \in [CPU -> Labels]
    BY <1>18 DEF MigCount, Local
  <2>2. mig' \in [CPU -> MigLocals]
    <3>1. mig'[c] \in MigLocals
      BY Zenon, <1>18, MigCountSets
    <3>2. mig' = [mig EXCEPT ![c] = mig'[c]]
      BY <1>18 DEF MigCount, Local
    <3> QED
      BY Zenon, <3>1, <3>2
  <2> QED
    BY Zenon, <1>18, <2>1, <2>2 DEF MigCount, Local, queues, threads, chans
<1>19. ASSUME NEW c \in CPU, MigNotBusy(c) PROVE SchedTypeOK'
  <2>1. pc' \in [CPU -> Labels]
    BY <1>19 DEF MigNotBusy, Goto, Local
  <2>2. mig' \in [CPU -> MigLocals]
    BY <1>19 DEF MigNotBusy, Goto, Local, MigLocals, NoMig
  <2> QED
    BY Zenon, <1>19, <2>1, <2>2 DEF MigNotBusy, Goto, Local, queues, threads, chans
<1>20. ASSUME NEW c \in CPU, MigTake(c) PROVE SchedTypeOK'
  <2>1. pc' \in [CPU -> Labels]
    BY <1>20 DEF MigTake, Goto, Local
  <2>2. mig' \in [CPU -> MigLocals]
    <3>1. mig'[c] \in MigLocals
      BY Zenon, <1>20, MigTakeSets
    <3>2. mig' = [mig EXCEPT ![c] = mig'[c]]
      BY <1>20 DEF MigTake, Goto, Local
    <3> QED
      BY Zenon, <3>1, <3>2
  <2>3. list' \in [CPU -> Seq(Thread)]
    <3>1. list'[c] \in Seq(Thread)
      BY Zenon, <1>20, MigTakeMoves
    <3>2. list' = [list EXCEPT ![c] = list'[c]]
      BY <1>20 DEF MigTake, Goto, Local
    <3> QED
      BY Zenon, <3>1, <3>2
  <2>4. runq' \in [CPU -> Seq(Thread)]
    <3>1. runq'[c] \in Seq(Thread)
      BY Zenon, <1>20, MigTakeMoves
    <3>2. runq' = [runq EXCEPT ![c] = runq'[c]]
      BY <1>20 DEF MigTake, Goto, Local
    <3> QED
      BY Zenon, <3>1, <3>2
  <2> QED
    BY Zenon, <1>20, <2>1, <2>2, <2>3, <2>4 DEF MigTake, Goto, Local, queues, threads, chans
<1>21. ASSUME NEW c \in CPU, MigSkipSelf(c) PROVE SchedTypeOK'
  <2>1. mig' \in [CPU -> MigLocals]
    <3>1. mig'[c] \in MigLocals
      BY Zenon, <1>21, MigIndexSets
    <3>2. mig' = [mig EXCEPT ![c] = mig'[c]]
      BY <1>21 DEF MigSkipSelf, Local, Sending
    <3> QED
      BY Zenon, <3>1, <3>2
  <2> QED
    BY Zenon, <1>21, <2>1 DEF MigSkipSelf, Local, Sending, queues, threads, chans
<1>22. ASSUME NEW c \in CPU, MigLock(c) PROVE SchedTypeOK'
  BY Zenon, <1>22 DEF MigLock, Goto, Lock, Free, Sending, queues, threads, chans
<1>23. ASSUME NEW c \in CPU, MigMove(c) PROVE SchedTypeOK'
  <2>1. runq' \in [CPU -> Seq(Thread)]
    <3>1. mig[c].i \in CPU /\ runq'[mig[c].i] \in Seq(Thread)
      BY Zenon, <1>23, MigMoveMoves, MigIndex DEF MigMove
    <3>2. runq' = [runq EXCEPT ![mig[c].i] = runq'[mig[c].i]]
      BY Zenon, <1>23, <3>1 DEF MigMove, Local, Room
    <3> QED
      BY Zenon, <3>1, <3>2
  <2>2. line' \in [CPU -> BOOLEAN]
    BY Zenon, <1>23 DEF MigMove, Local, Room
  <2>3. list' \in [CPU -> Seq(Thread)]
    <3>1. list'[c] \in Seq(Thread)
      BY Zenon, <1>23, MigMoveMoves
    <3>2. list' = [list EXCEPT ![c] = list'[c]]
      BY <1>23 DEF MigMove, Local, Room
    <3> QED
      BY Zenon, <3>1, <3>2
  <2>4. mig' \in [CPU -> MigLocals]
    <3>1. mig'[c] \in MigLocals
      BY Zenon, <1>23, MigSendSets
    <3>2. mig' = [mig EXCEPT ![c] = mig'[c]]
      BY <1>23 DEF MigMove, Local, Room
    <3> QED
      BY Zenon, <3>1, <3>2
  <2>5. tcpu' \in [Thread -> CPU]
    <3>1. mig[c].i \in CPU
      BY Zenon, <1>23, MigIndex DEF MigMove
    <3> QED
      BY Zenon, <1>23, <3>1 DEF MigMove, Local, Room
  <2> QED
    BY Zenon, <1>23, <2>1, <2>2, <2>3, <2>4, <2>5 DEF MigMove, Local, Room, queues, threads, chans
<1>24. ASSUME NEW c \in CPU, MigKeep(c) PROVE SchedTypeOK'
  <2>1. list' \in [CPU -> Seq(Thread)]
    <3>1. list'[c] \in Seq(Thread)
      BY Zenon, <1>24, MigKeepMoves
    <3>2. list' = [list EXCEPT ![c] = list'[c]]
      BY <1>24 DEF MigKeep, Local, Room
    <3> QED
      BY Zenon, <3>1, <3>2
  <2>2. mig' \in [CPU -> MigLocals]
    <3>1. mig'[c] \in MigLocals
      BY Zenon, <1>24, MigSendSets
    <3>2. mig' = [mig EXCEPT ![c] = mig'[c]]
      BY <1>24 DEF MigKeep, Local, Room
    <3> QED
      BY Zenon, <3>1, <3>2
  <2> QED
    BY Zenon, <1>24, <2>1, <2>2 DEF MigKeep, Local, Room, queues, threads, chans
<1>25. ASSUME NEW c \in CPU, MigUnlock(c) PROVE SchedTypeOK'
  <2>1. pc' \in [CPU -> Labels]
    BY <1>25 DEF MigUnlock, Goto, Local, Unlock, Room
  <2>2. rqlock' \in [CPU -> CPU \cup {NoCPU}]
    BY Zenon, <1>25 DEF MigUnlock, Goto, Local, Unlock, Room
  <2>3. mig' \in [CPU -> MigLocals]
    <3>1. mig'[c] \in MigLocals
      BY Zenon, <1>25, MigIndexSets
    <3>2. mig' = [mig EXCEPT ![c] = mig'[c]]
      BY <1>25 DEF MigUnlock, Goto, Local, Unlock, Room
    <3> QED
      BY Zenon, <3>1, <3>2
  <2> QED
    BY Zenon, <1>25, <2>1, <2>2, <2>3 DEF MigUnlock, Goto, Local, Unlock, Room, queues, threads, chans
<1>26. ASSUME NEW c \in CPU, MigFinish(c) PROVE SchedTypeOK'
  <2>1. pc' \in [CPU -> Labels]
    BY <1>26 DEF MigFinish, Goto, Local, Sending
  <2>2. runq' \in [CPU -> Seq(Thread)]
    BY <1>26 DEF MigFinish, Goto, Local, Sending
  <2>3. list' \in [CPU -> Seq(Thread)]
    BY <1>26 DEF MigFinish, Goto, Local, Sending
  <2>4. mig' \in [CPU -> MigLocals]
    BY <1>26 DEF MigFinish, Goto, Local, Sending, MigLocals, NoMig
  <2> QED
    BY Zenon, <1>26, <2>1, <2>2, <2>3, <2>4 DEF MigFinish, Goto, Local, Sending, queues, threads, chans
<1>27. ASSUME NEW c \in CPU, NEW w \in Chan, SleepCall(c, w) PROVE SchedTypeOK'
  BY Zenon, <1>27 DEF SleepCall, Goto, queues, threads, chans
<1>28. ASSUME NEW c \in CPU, NEW w \in Chan, SwitchSleep(c, w) PROVE SchedTypeOK'
  <2>1. pc' \in [CPU -> Labels]
    BY <1>28 DEF SwitchSleep, Goto, Leave, Lock, Free
  <2>2. isidle' \in [CPU -> BOOLEAN]
    BY <1>28 DEF SwitchSleep, Goto, Leave, Lock, Free
  <2>3. rqlock' \in [CPU -> CPU \cup {NoCPU}]
    BY <1>28 DEF SwitchSleep, Goto, Leave, Lock, Free
  <2>4. t_state' \in [Thread -> States]
    BY <1>28 DEF SwitchSleep, Goto, Leave, Lock, Free
  <2>5. wchan' \in [Chan -> Seq(Thread)]
    BY <1>28 DEF SwitchSleep, Goto, Leave, Lock, Free
  <2>6. wclock' \in [Chan -> CPU \cup {NoCPU}]
    BY <1>28 DEF SwitchSleep, Goto, Leave, Lock, Free
  <2> QED
    BY Zenon, <1>28, <2>1, <2>2, <2>3, <2>4, <2>5, <2>6 DEF SwitchSleep, Goto, Leave, Lock, Free, queues, threads, chans
<1>29. ASSUME NEW c \in CPU, NEW w \in Chan, WakeOne(c, w) PROVE SchedTypeOK'
  <2>1. pc' \in [CPU -> Labels]
    BY <1>29 DEF WakeOne, TakeOff, Enter
  <2>2. list' \in [CPU -> Seq(Thread)]
    <3>1. list'[c] \in Seq(Thread)
      BY Zenon, <1>29, WakeOneMoves
    <3>2. list' = [list EXCEPT ![c] = list'[c]]
      BY <1>29 DEF WakeOne, TakeOff, Enter
    <3> QED
      BY Zenon, <3>1, <3>2
  <2>3. wchan' \in [Chan -> Seq(Thread)]
    <3>1. wchan'[w] \in Seq(Thread)
      BY Zenon, <1>29, WakeOneMoves
    <3>2. wchan' = [wchan EXCEPT ![w] = wchan'[w]]
      BY <1>29 DEF WakeOne, TakeOff, Enter
    <3> QED
      BY Zenon, <3>1, <3>2
  <2> QED
    BY Zenon, <1>29, <2>1, <2>2, <2>3 DEF WakeOne, TakeOff, Enter, queues, threads, chans
<1>30. ASSUME NEW c \in CPU, NEW w \in Chan, WakeAll(c, w) PROVE SchedTypeOK'
  <2>1. pc' \in [CPU -> Labels]
    BY <1>30 DEF WakeAll, TakeOff, Enter
  <2>2. list' \in [CPU -> Seq(Thread)]
    <3>1. list'[c] \in Seq(Thread)
      BY Zenon, <1>30, WakeAllMoves
    <3>2. list' = [list EXCEPT ![c] = list'[c]]
      BY <1>30 DEF WakeAll, TakeOff, Enter
    <3> QED
      BY Zenon, <3>1, <3>2
  <2>3. wchan' \in [Chan -> Seq(Thread)]
    <3>1. wchan'[w] \in Seq(Thread)
      BY Zenon, <1>30, WakeAllMoves
    <3>2. wchan' = [wchan EXCEPT ![w] = wchan'[w]]
      BY <1>30 DEF WakeAll, TakeOff, Enter
    <3> QED
      BY Zenon, <3>1, <3>2
  <2> QED
    BY Zenon, <1>30, <2>1, <2>2, <2>3 DEF WakeAll, TakeOff, Enter, queues, threads, chans
<1>31. ASSUME NEW c \in CPU, NEW t \in Thread, Fork(c, t) PROVE SchedTypeOK'
  <2>1. pc' \in [CPU -> Labels]
    BY <1>31 DEF Fork, Goto
  <2>2. list' \in [CPU -> Seq(Thread)]
    BY <1>31 DEF Fork, Goto
  <2>3. tcpu' \in [Thread -> CPU]
    BY <1>31 DEF Fork, Goto
  <2>4. t_state' \in [Thread -> States]
    BY <1>31 DEF Fork, Goto
  <2> QED
    BY Zenon, <1>31, <2>1, <2>2, <2>3, <2>4 DEF Fork, Goto, queues, threads, chans
<1>32. CASE UNCHANGED vars
  BY Zenon, <1>32 DEF vars, queues, threads, chans
<1> QED
  BY Zenon, <1>1, <1>2, <1>3, <1>4, <1>5, <1>6, <1>7, <1>8, <1>9, <1>10, <1>11,
     <1>12, <1>13, <1>14, <1>15, <1>16, <1>17, <1>18, <1>19, <1>20, <1>21, <1>22,
     <1>23, <1>24, <1>25, <1>26, <1>27, <1>28, <1>29, <1>30, <1>31, <1>32 DEF Next, Continue, Start

(* Every step of c is of that kind. *)
LEMMA OthersStay ==
  ASSUME SchedTypeOK, Control, Counted, InOnePlace, NEW c \in CPU, Continue(c) \/ Start(c)
  PROVE  Others(c)
<1>0. \A d \in CPU : Len(runq[d]) \in Nat
  BY DEF SchedTypeOK
<1>1. CASE Plain(c)
  BY <1>0, <1>1, PlainStays, PlainGoes DEF Others
<1>2. CASE SwitchReady(c)
  BY <1>0, <1>2 DEF SchedTypeOK, Others, SwitchReady, Goto, Leave, Lock, Free, queues, threads
<1>3. CASE SwitchZombie(c)
  BY <1>0, <1>3 DEF SchedTypeOK, Others, SwitchZombie, Goto, Leave, Lock, Free, queues, threads
<1>4. CASE \E w \in Chan : SwitchSleep(c, w)
  BY <1>0, <1>4 DEF SchedTypeOK, Others, SwitchSleep, Goto, Leave, Lock, Free, queues, threads
<1>5. CASE Switch(c)
  BY <1>0, <1>5 DEF SchedTypeOK, Others, Switch, Goto, queues, threads
<1>6. CASE SwitchTail(c)
  BY <1>0, <1>6 DEF SchedTypeOK, Others, SwitchTail, Goto, Unlock, queues, threads
<1>7. CASE Exorcise(c)
  BY <1>0, <1>7 DEF SchedTypeOK, Others, Exorcise, Goto, queues, threads
<1>8. CASE \E t \in Thread : Fork(c, t)
  BY <1>0, <1>8 DEF SchedTypeOK, Others, Fork, Goto, queues, threads
<1>9. CASE \E w \in Chan : WakeOne(c, w)
  BY <1>0, <1>9 DEF SchedTypeOK, Others, WakeOne, TakeOff, Enter, queues, threads
<1>10. CASE \E w \in Chan : WakeAll(c, w)
  BY <1>0, <1>10 DEF SchedTypeOK, Others, WakeAll, TakeOff, Enter, queues, threads
<1>11. CASE ReadyPost(c)
  <2>1. dest[c] \in CPU /\ Len(runq'[dest[c]]) = Len(runq[dest[c]]) + 1
    BY Zenon, <1>11, ReadyPostMoves DEF SchedTypeOK
  <2>2. \A d \in CPU : d # dest[c] => runq'[d] = runq[d]
    BY <1>11, <2>1 DEF SchedTypeOK, ReadyPost
  <2>3. \A d \in CPU : Len(runq'[d]) >= Len(runq[d])
    BY <1>0, <2>1, <2>2
  <2> QED
    BY <1>11, <2>3 DEF SchedTypeOK, Others, ReadyPost, Goto
<1>12. CASE MigTake(c)
  BY <1>0, <1>12 DEF SchedTypeOK, Others, MigTake, Goto, Local, queues, threads
<1>13. CASE MigMove(c)
  <2>1. mig[c].i \in CPU /\ Len(runq'[mig[c].i]) = Len(runq[mig[c].i]) + 1
    BY Zenon, <1>13, MigMoveMoves, MigIndex DEF MigMove
  <2>2. \A d \in CPU : d # mig[c].i => runq'[d] = runq[d]
    BY <1>13, <2>1 DEF SchedTypeOK, MigMove
  <2>3. \A d \in CPU : Len(runq'[d]) >= Len(runq[d])
    BY <1>0, <2>1, <2>2
  <2> QED
    BY Zenon, <1>13, <2>3 DEF SchedTypeOK, Others, MigMove, Local, Room
<1>14. CASE MigKeep(c)
  BY <1>0, <1>14 DEF SchedTypeOK, Others, MigKeep, Local, Room, queues, threads
<1>15. CASE MigFinish(c)
  BY <1>0, <1>15 DEF SchedTypeOK, Others, MigFinish, Goto, Local, Sending, queues, threads
<1> QED
  BY <1>1, <1>2, <1>3, <1>4, <1>5, <1>6, <1>7, <1>8, <1>9, <1>10, <1>11, <1>12, <1>13, <1>14, <1>15
     DEF Plain, Continue, Start

(* Every step respects what a processor's place says. *)
LEMMA ControlStep ==
  ASSUME SchedTypeOK, Control, Counted, InOnePlace, NEW c \in CPU, Continue(c) \/ Start(c)
  PROVE  Control'
<1> USE DEF ListLabels, MigLabels
<1>0. ControlOf(c)
  BY DEF Control
<1>1. ASSUME YieldCall(c) PROVE ControlOf(c)'
  BY <1>0, <1>1 DEF SchedTypeOK, ControlOf, YieldCall, Goto
<1>2. ASSUME YieldIdle(c) PROVE ControlOf(c)'
  BY <1>0, <1>2 DEF SchedTypeOK, ControlOf, YieldIdle, Goto
<1>3. ASSUME YieldNothing(c) PROVE ControlOf(c)'
  BY <1>0, <1>3 DEF SchedTypeOK, ControlOf, YieldNothing, Goto
<1>4. ASSUME SwitchReady(c) PROVE ControlOf(c)'
  BY <1>0, <1>4 DEF SchedTypeOK, ControlOf, SwitchReady, Goto, Leave, Lock, Free
<1>5. ASSUME ExitCall(c) PROVE ControlOf(c)'
  BY <1>0, <1>5 DEF SchedTypeOK, ControlOf, ExitCall, Goto
<1>6. ASSUME SwitchZombie(c) PROVE ControlOf(c)'
  BY <1>0, <1>6 DEF SchedTypeOK, ControlOf, SwitchZombie, Goto, Leave, Lock, Free
<1>7. ASSUME GoIdle(c) PROVE ControlOf(c)'
  BY <1>0, <1>7 DEF SchedTypeOK, ControlOf, GoIdle, Goto, Unlock
<1>8. ASSUME Relock(c) PROVE ControlOf(c)'
  BY <1>0, <1>8 DEF SchedTypeOK, ControlOf, Relock, Goto, Lock, Free
<1>9. ASSUME Switch(c) PROVE ControlOf(c)'
  BY <1>0, <1>9 DEF SchedTypeOK, ControlOf, Switch, Goto
<1>10. ASSUME SwitchTail(c) PROVE ControlOf(c)'
  BY <1>0, <1>10 DEF SchedTypeOK, ControlOf, SwitchTail, Goto, Unlock
<1>11. ASSUME Exorcise(c) PROVE ControlOf(c)'
  BY <1>0, <1>11 DEF SchedTypeOK, ControlOf, Exorcise, Goto
<1>12. ASSUME ReadyTarget(c) PROVE ControlOf(c)'
  BY <1>0, <1>12 DEF SchedTypeOK, ControlOf, ReadyTarget, Goto
<1>13. ASSUME ReadyPost(c) PROVE ControlOf(c)'
  BY <1>0, <1>13 DEF SchedTypeOK, ControlOf, ReadyPost, Goto
<1>14. ASSUME ReadyReturn(c) PROVE ControlOf(c)'
  BY <1>0, <1>14 DEF SchedTypeOK, ControlOf, ReadyReturn, Goto, Back
<1>15. ASSUME TakeIpi(c) PROVE ControlOf(c)'
  BY Zenon, <1>0, <1>15 DEF SchedTypeOK, ControlOf, TakeIpi, Enter
<1>16. ASSUME ClearIpi(c) PROVE ControlOf(c)'
  BY <1>0, <1>16 DEF SchedTypeOK, ControlOf, ClearIpi, Goto, Back
<1>17. ASSUME Hardclock(c) PROVE ControlOf(c)'
  <2>1. mig[c] = NoMig /\ mig'[c] = NoMig /\ NoMig.i = 0 /\ 0 < NCPU
    BY <1>0, <1>17, SchedAssumption DEF ControlOf, NoMig, Hardclock, Enter
  <2> QED
    BY Zenon, <1>0, <1>17, <2>1 DEF SchedTypeOK, ControlOf, Hardclock, Enter
<1>18. ASSUME MigCount(c) PROVE ControlOf(c)'
  <2>1. mig'[c].i = mig[c].i + 1 /\ mig[c].i \in Nat /\ NCPU \in Nat
    BY <1>18, MigCountSets, MigFields, SchedAssumption
  <2> QED
    BY <1>0, <1>18, <2>1 DEF SchedTypeOK, ControlOf, MigCount
<1>19. ASSUME MigNotBusy(c) PROVE ControlOf(c)'
  BY <1>0, <1>19 DEF SchedTypeOK, ControlOf, MigNotBusy, Goto, Local
<1>20. ASSUME MigTake(c) PROVE ControlOf(c)'
  BY Zenon, <1>0, <1>20, MigTakeSets DEF SchedTypeOK, ControlOf, MigTake, Goto, Local
<1>21. ASSUME MigSkipSelf(c) PROVE ControlOf(c)'
  BY <1>0, <1>21, MigIndexSets DEF SchedTypeOK, ControlOf, MigSkipSelf, Local, Sending
<1>22. ASSUME MigLock(c) PROVE ControlOf(c)'
  BY <1>0, <1>22 DEF SchedTypeOK, ControlOf, MigLock, Goto, Lock, Free, Sending
<1>23. ASSUME MigMove(c) PROVE ControlOf(c)'
  BY <1>0, <1>23, MigSendSets DEF SchedTypeOK, ControlOf, MigMove, Local, Room
<1>24. ASSUME MigKeep(c) PROVE ControlOf(c)'
  BY <1>0, <1>24, MigSendSets DEF SchedTypeOK, ControlOf, MigKeep, Local, Room
<1>25. ASSUME MigUnlock(c) PROVE ControlOf(c)'
  BY <1>0, <1>25, MigIndexSets DEF SchedTypeOK, ControlOf, MigUnlock, Goto, Local, Unlock, Room
<1>26. ASSUME MigFinish(c) PROVE ControlOf(c)'
  BY <1>0, <1>26 DEF SchedTypeOK, ControlOf, MigFinish, Goto, Local, Sending
<1>27. ASSUME NEW w \in Chan, SleepCall(c, w) PROVE ControlOf(c)'
  BY <1>0, <1>27 DEF SchedTypeOK, ControlOf, SleepCall, Goto
<1>28. ASSUME NEW w \in Chan, SwitchSleep(c, w) PROVE ControlOf(c)'
  BY <1>0, <1>28 DEF SchedTypeOK, ControlOf, SwitchSleep, Goto, Leave, Lock, Free
<1>29. ASSUME NEW w \in Chan, WakeOne(c, w) PROVE ControlOf(c)'
  BY Zenon, <1>0, <1>29 DEF SchedTypeOK, ControlOf, WakeOne, TakeOff, Enter
<1>30. ASSUME NEW w \in Chan, WakeAll(c, w) PROVE ControlOf(c)'
  BY Zenon, <1>0, <1>30 DEF SchedTypeOK, ControlOf, WakeAll, TakeOff, Enter
<1>31. ASSUME NEW t \in Thread, Fork(c, t) PROVE ControlOf(c)'
  BY <1>0, <1>31 DEF SchedTypeOK, ControlOf, Fork, Goto
<1>32. ControlOf(c)'
  BY <1>1, <1>2, <1>3, <1>4, <1>5, <1>6, <1>7, <1>8, <1>9, <1>10, <1>11, <1>12,
     <1>13, <1>14, <1>15, <1>16, <1>17, <1>18, <1>19, <1>20, <1>21, <1>22, <1>23, <1>24,
     <1>25, <1>26, <1>27, <1>28, <1>29, <1>30, <1>31 DEF Continue, Start
<1>33. ASSUME NEW d \in CPU, d # c PROVE ControlOf(d)'
  <2>1. ControlOf(d) /\ pc'[d] = pc[d] /\ isidle'[d] = isidle[d] /\ list'[d] = list[d] /\ mig'[d] = mig[d]
    BY <1>33, OthersStay DEF Control, Others
  <2> QED
    BY <2>1 DEF ControlOf
<1> QED
  BY <1>32, <1>33 DEF Control

=============================================================================
