------------------------------- MODULE Sched -------------------------------
(***************************************************************************)
(* The thread system of thread/thread.c: run queues, the context switch,   *)
(* idling, wait channels, thread creation and exit, zombies, and migration *)
(* between processors.                                                     *)
(*                                                                         *)
(* The actors are the processors.  pc[c] = "run" is a processor executing  *)
(* its thread with interrupts on, "idle" one waiting in cpu_idle; an       *)
(* interrupt handler runs from either and returns there.  Everywhere else  *)
(* interrupts are off on c.  One step is what a processor does under one   *)
(* run queue or channel lock.                                              *)
(***************************************************************************)
EXTENDS Naturals, Sequences, FiniteSets, Functions

CONSTANTS
  NCPU,     \* the processors are 0..NCPU-1
  Thread,   \* thread structures; a destroyed one can be created again
  Chan,     \* wait channels
  NoCPU,    \* a free spinlock
  boot,     \* boot[c]: the thread c starts on
  sleepsOn  \* sleepsOn[t]: the channels that t goes to sleep on

CPU == 0..NCPU - 1

ASSUME SchedAssumption ==
  /\ NCPU \in Nat \ {0}
  /\ NoCPU \notin CPU
  /\ boot \in [CPU -> Thread]
  /\ sleepsOn \in [Thread -> SUBSET Chan]
  /\ IsInjective(boot)

VARIABLES
  pc,         \* pc[c]: where processor c is
  curthread,  \* curthread[c]: the thread on whose stack c runs
  isidle,     \* c_isidle
  runq,       \* c_runqueue
  rqlock,     \* holder of c_runqueue_lock
  zombies,    \* c_zombies
  line,       \* the interprocessor interrupt line of c is asserted
  list,       \* list[c]: a private list, of woken threads or of victims
  dest,       \* dest[c]: the processor c is about to make a thread runnable on
  mig,        \* mig[c]: the local variables of thread_consider_migration
  tcpu,       \* t_cpu
  t_state,    \* t_state, or "none" if the structure is free
  wchan,      \* wchan[w]: the threads sleeping on w, oldest first
  wclock      \* wclock[w]: holder of the channel's spinlock

queues == <<runq, rqlock, zombies>>
threads == <<tcpu, t_state>>
chans == <<wchan, wclock>>
vars == <<pc, curthread, isidle, queues, line, list, dest, mig, threads, chans>>

NoMig == [i |-> 0, my |-> 0, total |-> 0, send |-> 0, share |-> 0]

Init ==
  /\ pc = [c \in CPU |-> "run"]
  /\ curthread = boot
  /\ isidle = [c \in CPU |-> FALSE]
  /\ runq = [c \in CPU |-> << >>]
  /\ rqlock = [c \in CPU |-> NoCPU]
  /\ zombies = [c \in CPU |-> << >>]
  /\ line = [c \in CPU |-> FALSE]
  /\ list = [c \in CPU |-> << >>]
  /\ dest = [c \in CPU |-> c]
  /\ mig = [c \in CPU |-> NoMig]
  /\ tcpu = [t \in Thread |-> IF t \in Range(boot) THEN CHOOSE c \in CPU : boot[c] = t ELSE 0]
  /\ t_state = [t \in Thread |-> IF t \in Range(boot) THEN "run" ELSE "none"]
  /\ wchan = [w \in Chan |-> << >>]
  /\ wclock = [w \in Chan |-> NoCPU]

Goto(c, from, to) ==
  /\ pc[c] = from
  /\ pc' = [pc EXCEPT ![c] = to]

(* A call from the thread, or from a handler that interrupted the thread   *)
(* or cpu_idle.  cpu_idle returns after any interrupt.                     *)
Enter(c, to) ==
  /\ pc[c] \in {"run", "idle"}
  /\ pc' = [pc EXCEPT ![c] = to]

Back(c) == IF isidle[c] THEN "relock" ELSE "run"

Free(c) == rqlock[c] = NoCPU
Lock(c, d) == Free(d) /\ rqlock' = [rqlock EXCEPT ![d] = c]
Unlock(d) == rqlock' = [rqlock EXCEPT ![d] = NoCPU]

-----------------------------------------------------------------------------
(* thread_switch: putting the current thread in the right place.           *)

(* thread_yield, as a call of the thread. *)
YieldCall(c) ==
  /\ Goto(c, "run", "yield")
  /\ UNCHANGED <<curthread, isidle, queues, line, list, dest, mig, threads, chans>>

(* S_READY, when the timer interrupted the idle loop. *)
YieldIdle(c) ==
  /\ Goto(c, "yield", "relock")
  /\ isidle[c]
  /\ UNCHANGED <<curthread, isidle, queues, line, list, dest, mig, threads, chans>>

(* S_READY, with nothing else to run. *)
YieldNothing(c) ==
  /\ Goto(c, "yield", "run")
  /\ ~isidle[c] /\ Free(c) /\ runq[c] = << >>
  /\ UNCHANGED <<curthread, isidle, queues, line, list, dest, mig, threads, chans>>

(* The current thread leaves the processor in newstate; c is idle until    *)
(* it has found the next one.                                              *)
Leave(c, newstate) ==
  /\ ~isidle[c]
  /\ Lock(c, c)
  /\ t_state' = [t_state EXCEPT ![curthread[c]] = newstate]
  /\ isidle' = [isidle EXCEPT ![c] = TRUE]
  /\ UNCHANGED <<curthread, line, list, dest, mig, tcpu>>

SwitchReady(c) ==
  /\ Goto(c, "yield", "pick")
  /\ runq[c] # << >>
  /\ Leave(c, "ready")
  /\ runq' = [runq EXCEPT ![c] = Append(@, curthread[c])]
  /\ UNCHANGED <<zombies, chans>>

(* wchan_lock by a thread that is going to sleep. *)
SleepCall(c, w) ==
  /\ Goto(c, "run", "sleep")
  /\ w \in sleepsOn[curthread[c]]
  /\ wclock[w] = NoCPU
  /\ wclock' = [wclock EXCEPT ![w] = c]
  /\ UNCHANGED <<curthread, isidle, queues, line, list, dest, mig, threads, wchan>>

SwitchSleep(c, w) ==
  /\ Goto(c, "sleep", "pick")
  /\ wclock[w] = c
  /\ Leave(c, "sleep")
  /\ wchan' = [wchan EXCEPT ![w] = Append(@, curthread[c])]
  /\ wclock' = [wclock EXCEPT ![w] = NoCPU]
  /\ UNCHANGED <<runq, zombies>>

(* thread_exit, from where interrupts are off. *)
ExitCall(c) ==
  /\ Goto(c, "run", "exit")
  /\ UNCHANGED <<curthread, isidle, queues, line, list, dest, mig, threads, chans>>

SwitchZombie(c) ==
  /\ Goto(c, "exit", "pick")
  /\ Leave(c, "zombie")
  /\ zombies' = [zombies EXCEPT ![c] = Append(@, curthread[c])]
  /\ UNCHANGED <<runq, chans>>

-----------------------------------------------------------------------------
(* thread_switch: finding the next thread.                                 *)

(* Nothing to run: unlock the queue and idle, on the old thread's stack. *)
GoIdle(c) ==
  /\ Goto(c, "pick", "idle")
  /\ runq[c] = << >>
  /\ Unlock(c)
  /\ UNCHANGED <<curthread, isidle, runq, zombies, line, list, dest, mig, threads, chans>>

Relock(c) ==
  /\ Goto(c, "relock", "pick")
  /\ Lock(c, c)
  /\ UNCHANGED <<curthread, isidle, runq, zombies, line, list, dest, mig, threads, chans>>

(* Take the oldest runnable thread and switch to its stack. *)
Switch(c) ==
  /\ Goto(c, "pick", "tail")
  /\ runq[c] # << >>
  /\ runq' = [runq EXCEPT ![c] = Tail(@)]
  /\ curthread' = [curthread EXCEPT ![c] = Head(runq[c])]
  /\ isidle' = [isidle EXCEPT ![c] = FALSE]
  /\ UNCHANGED <<rqlock, zombies, line, list, dest, mig, threads, chans>>

(* The new thread, in thread_switch or thread_startup, unlocks the queue.  *)
SwitchTail(c) ==
  /\ Goto(c, "tail", "exorcise")
  /\ t_state' = [t_state EXCEPT ![curthread[c]] = "run"]
  /\ Unlock(c)
  /\ UNCHANGED <<curthread, isidle, runq, zombies, line, list, dest, mig, tcpu, chans>>

(* exorcise: destroy the zombies of this processor. *)
Exorcise(c) ==
  /\ Goto(c, "exorcise", "run")
  /\ t_state' = [t \in Thread |-> IF t \in Range(zombies[c]) THEN "none" ELSE t_state[t]]
  /\ tcpu' = [t \in Thread |-> IF t \in Range(zombies[c]) THEN 0 ELSE tcpu[t]]
  /\ zombies' = [zombies EXCEPT ![c] = << >>]
  /\ UNCHANGED <<curthread, isidle, runq, rqlock, line, list, dest, mig, chans>>

-----------------------------------------------------------------------------
(* Making threads runnable.                                                *)

(* thread_fork: the new thread starts on the forking thread's processor. *)
Fork(c, t) ==
  /\ Goto(c, "run", "ready")
  /\ t_state[t] = "none"
  /\ t_state' = [t_state EXCEPT ![t] = "ready"]
  /\ tcpu' = [tcpu EXCEPT ![t] = tcpu[curthread[c]]]
  /\ list' = [list EXCEPT ![c] = <<t>>]
  /\ UNCHANGED <<curthread, isidle, queues, line, dest, mig, chans>>

(* Faulty variant: the sleepers stay on the channel. *)
TakeOffInPlace(c, w, n) ==
  /\ Enter(c, "ready")
  /\ wclock[w] = NoCPU
  /\ list' = [list EXCEPT ![c] = SubSeq(wchan[w], 1, n)]
  /\ UNCHANGED <<curthread, isidle, queues, line, dest, mig, threads, wchan, wclock>>

(* wchan_wakeone and wchan_wakeall: under the channel's lock, move the     *)
(* oldest sleeper or all of them to a private list.                        *)
TakeOff(c, w, n) ==
  /\ Enter(c, "ready")
  /\ wclock[w] = NoCPU
  /\ list' = [list EXCEPT ![c] = SubSeq(wchan[w], 1, n)]
  /\ wchan' = [wchan EXCEPT ![w] = SubSeq(@, n + 1, Len(@))]
  /\ UNCHANGED <<curthread, isidle, queues, line, dest, mig, threads, wclock>>

WakeOne(c, w) == wchan[w] # << >> /\ TakeOff(c, w, 1)
WakeAll(c, w) == Len(wchan[w]) > 1 /\ TakeOff(c, w, Len(wchan[w]))

(* thread_make_runnable reads the target's processor before it locks that  *)
(* processor's queue.                                                      *)
ReadyTarget(c) ==
  /\ Goto(c, "ready", "post")
  /\ list[c] # << >>
  /\ dest' = [dest EXCEPT ![c] = tcpu[Head(list[c])]]
  /\ UNCHANGED <<curthread, isidle, queues, line, list, mig, threads, chans>>

(* Faulty variant: an idle processor is not interrupted. *)
ReadyPostQuietly(c) ==
  /\ Goto(c, "post", "ready")
  /\ Free(dest[c])
  /\ runq' = [runq EXCEPT ![dest[c]] = Append(@, Head(list[c]))]
  /\ list' = [list EXCEPT ![c] = Tail(@)]
  /\ dest' = [dest EXCEPT ![c] = c]
  /\ UNCHANGED <<curthread, isidle, rqlock, zombies, line, mig, threads, chans>>

(* Queue the target there, and interrupt that processor if it is idle. *)
ReadyPost(c) ==
  /\ Goto(c, "post", "ready")
  /\ Free(dest[c])
  /\ runq' = [runq EXCEPT ![dest[c]] = Append(@, Head(list[c]))]
  /\ line' = [line EXCEPT ![dest[c]] = @ \/ isidle[dest[c]]]
  /\ list' = [list EXCEPT ![c] = Tail(@)]
  /\ dest' = [dest EXCEPT ![c] = c]
  /\ UNCHANGED <<curthread, isidle, rqlock, zombies, mig, threads, chans>>

ReadyReturn(c) ==
  /\ Goto(c, "ready", Back(c))
  /\ list[c] = << >>
  /\ UNCHANGED <<curthread, isidle, queues, line, list, dest, mig, threads, chans>>

-----------------------------------------------------------------------------
(* Interrupts.                                                             *)

(* mainbus_interrupt calls interprocessor_interrupt, which has nothing to  *)
(* do for IPI_UNIDLE, and only then lowers the line.                       *)
TakeIpi(c) ==
  /\ line[c]
  /\ Enter(c, "ipi")
  /\ UNCHANGED <<curthread, isidle, queues, line, list, dest, mig, threads, chans>>

ClearIpi(c) ==
  /\ Goto(c, "ipi", Back(c))
  /\ line' = [line EXCEPT ![c] = FALSE]
  /\ UNCHANGED <<curthread, isidle, queues, list, dest, mig, threads, chans>>

(* hardclock: on some ticks consider migration; on every tick, yield. *)
Hardclock(c) ==
  /\ Enter(c, "yield") \/ Enter(c, "mig.count")
  /\ UNCHANGED <<curthread, isidle, queues, line, list, dest, mig, threads, chans>>

-----------------------------------------------------------------------------
(* thread_consider_migration, between the timer interrupt and the yield.   *)

Local(c, fields) == mig' = [mig EXCEPT ![c] = fields]

(* Count the threads on the queues, one queue at a time. *)
MigCount(c) ==
  LET m == mig[c]
      n == Len(runq[m.i])
  IN
  /\ pc[c] = "mig.count"
  /\ Free(m.i)
  /\ Local(c, [m EXCEPT !.i = m.i + 1, !.total = m.total + n,
                        !.my = IF m.i = c THEN n ELSE @])
  /\ pc' = [pc EXCEPT ![c] = IF m.i + 1 < NCPU THEN "mig.count" ELSE "mig.take"]
  /\ UNCHANGED <<curthread, isidle, queues, line, list, dest, threads, chans>>

OneShare(c) == (mig[c].total + NCPU - 1) \div NCPU

MigNotBusy(c) ==
  /\ Goto(c, "mig.take", "yield")
  /\ mig[c].my < OneShare(c)
  /\ Local(c, NoMig)
  /\ UNCHANGED <<curthread, isidle, queues, line, list, dest, threads, chans>>

(* Take my surplus from the tail of my queue. *)
MigTake(c) ==
  LET send == mig[c].my - OneShare(c)
      left == Len(runq[c]) - send
  IN
  /\ Goto(c, "mig.take", "mig.send")
  /\ mig[c].my >= OneShare(c)
  /\ Free(c)
  /\ Local(c, [mig[c] EXCEPT !.i = 0, !.send = send, !.share = OneShare(c)])
  /\ list' = [list EXCEPT ![c] = SubSeq(runq[c], left + 1, Len(runq[c]))]
  /\ runq' = [runq EXCEPT ![c] = SubSeq(@, 1, left)]
  /\ UNCHANGED <<curthread, isidle, rqlock, zombies, line, dest, threads, chans>>

Sending(c) == mig[c].i < NCPU /\ mig[c].send > 0

MigSkipSelf(c) ==
  /\ pc[c] = "mig.send" /\ Sending(c) /\ mig[c].i = c
  /\ Local(c, [mig[c] EXCEPT !.i = @ + 1])
  /\ UNCHANGED <<pc, curthread, isidle, queues, line, list, dest, threads, chans>>

MigLock(c) ==
  /\ Goto(c, "mig.send", "mig.move")
  /\ Sending(c) /\ mig[c].i # c
  /\ Lock(c, mig[c].i)
  /\ UNCHANGED <<curthread, isidle, runq, zombies, line, list, dest, mig, threads, chans>>

Room(c) == Len(runq[mig[c].i]) < mig[c].share /\ mig[c].send > 0

(* Faulty variants: the current thread is not passed over; t_cpu is not    *)
(* updated; the thread sent is not counted.                                *)
MigMoveAny(c) ==
  LET d == mig[c].i
      t == Head(list[c])
  IN
  /\ pc[c] = "mig.move" /\ Room(c)
  /\ tcpu' = [tcpu EXCEPT ![t] = d]
  /\ runq' = [runq EXCEPT ![d] = Append(@, t)]
  /\ line' = [line EXCEPT ![d] = @ \/ isidle[d]]
  /\ list' = [list EXCEPT ![c] = Tail(@)]
  /\ Local(c, [mig[c] EXCEPT !.send = @ - 1])
  /\ UNCHANGED <<pc, curthread, isidle, rqlock, zombies, dest, t_state, chans>>

MigMoveStaleCpu(c) ==
  LET d == mig[c].i
      t == Head(list[c])
  IN
  /\ pc[c] = "mig.move" /\ Room(c)
  /\ t # curthread[c]
  /\ runq' = [runq EXCEPT ![d] = Append(@, t)]
  /\ line' = [line EXCEPT ![d] = @ \/ isidle[d]]
  /\ list' = [list EXCEPT ![c] = Tail(@)]
  /\ Local(c, [mig[c] EXCEPT !.send = @ - 1])
  /\ UNCHANGED <<pc, curthread, isidle, rqlock, zombies, dest, threads, chans>>

MigMoveUncounted(c) ==
  LET d == mig[c].i
      t == Head(list[c])
  IN
  /\ pc[c] = "mig.move" /\ Room(c)
  /\ t # curthread[c]
  /\ tcpu' = [tcpu EXCEPT ![t] = d]
  /\ runq' = [runq EXCEPT ![d] = Append(@, t)]
  /\ line' = [line EXCEPT ![d] = @ \/ isidle[d]]
  /\ list' = [list EXCEPT ![c] = Tail(@)]
  /\ UNCHANGED <<pc, curthread, isidle, rqlock, zombies, dest, mig, t_state, chans>>

(* A thread is given to the other processor, which is interrupted if idle. *)
MigMove(c) ==
  LET d == mig[c].i
      t == Head(list[c])
  IN
  /\ pc[c] = "mig.move" /\ Room(c)
  /\ t # curthread[c]
  /\ tcpu' = [tcpu EXCEPT ![t] = d]
  /\ runq' = [runq EXCEPT ![d] = Append(@, t)]
  /\ line' = [line EXCEPT ![d] = @ \/ isidle[d]]
  /\ list' = [list EXCEPT ![c] = Tail(@)]
  /\ Local(c, [mig[c] EXCEPT !.send = @ - 1])
  /\ UNCHANGED <<pc, curthread, isidle, rqlock, zombies, dest, t_state, chans>>

(* Faulty variant: the thread passed over is not counted. *)
MigKeepUncounted(c) ==
  /\ pc[c] = "mig.move" /\ Room(c)
  /\ Head(list[c]) = curthread[c]
  /\ list' = [list EXCEPT ![c] = Append(Tail(@), Head(@))]
  /\ UNCHANGED <<pc, curthread, isidle, queues, line, dest, mig, threads, chans>>

(* The thread whose stack c idles on is passed over. *)
MigKeep(c) ==
  /\ pc[c] = "mig.move" /\ Room(c)
  /\ Head(list[c]) = curthread[c]
  /\ list' = [list EXCEPT ![c] = Append(Tail(@), Head(@))]
  /\ Local(c, [mig[c] EXCEPT !.send = @ - 1])
  /\ UNCHANGED <<pc, curthread, isidle, queues, line, dest, threads, chans>>

MigUnlock(c) ==
  /\ Goto(c, "mig.move", "mig.send")
  /\ ~Room(c)
  /\ Unlock(mig[c].i)
  /\ Local(c, [mig[c] EXCEPT !.i = @ + 1])
  /\ UNCHANGED <<curthread, isidle, runq, zombies, line, list, dest, threads, chans>>

(* Leftovers go back to my own queue. *)
MigFinish(c) ==
  /\ Goto(c, "mig.send", "yield")
  /\ ~Sending(c)
  /\ list[c] # << >> => Free(c)
  /\ runq' = [runq EXCEPT ![c] = @ \o list[c]]
  /\ list' = [list EXCEPT ![c] = << >>]
  /\ Local(c, NoMig)
  /\ UNCHANGED <<curthread, isidle, rqlock, zombies, line, dest, threads, chans>>

-----------------------------------------------------------------------------
(* What c does with interrupts off: it is bound to go on. *)
Continue(c) ==
  \/ YieldIdle(c) \/ YieldNothing(c) \/ SwitchReady(c) \/ SwitchZombie(c)
  \/ \E w \in Chan : SwitchSleep(c, w)
  \/ GoIdle(c) \/ Relock(c) \/ Switch(c) \/ SwitchTail(c) \/ Exorcise(c)
  \/ ReadyTarget(c) \/ ReadyPost(c) \/ ReadyReturn(c) \/ ClearIpi(c)
  \/ MigCount(c) \/ MigNotBusy(c) \/ MigTake(c) \/ MigSkipSelf(c) \/ MigLock(c)
  \/ MigMove(c) \/ MigKeep(c) \/ MigUnlock(c) \/ MigFinish(c)

(* What the running thread, or an interrupt, starts. *)
Start(c) ==
  \/ YieldCall(c) \/ ExitCall(c) \/ TakeIpi(c) \/ Hardclock(c)
  \/ \E w \in Chan : SleepCall(c, w) \/ WakeOne(c, w) \/ WakeAll(c, w)
  \/ \E t \in Thread : Fork(c, t)

Next == \E c \in CPU : Continue(c) \/ Start(c)

Spec == Init /\ [][Next]_vars

(* A processor goes on with what it does with interrupts off; polling a    *)
(* spinlock that is free again and again it gets it in the end, since the  *)
(* lock is held for microseconds and the other processor's next tick is    *)
(* 10 ms away.  It takes an interprocessor interrupt while its line is up. *)
(* The timer's request stays up until it is served, so the timer           *)
(* interrupts a processor that has interrupts on again and again.          *)
FairSpec ==
  /\ Spec
  /\ \A c \in CPU : SF_vars(Continue(c)) /\ WF_vars(TakeIpi(c)) /\ SF_vars(Hardclock(c))

-----------------------------------------------------------------------------
Running(t) == \E c \in CPU : curthread[c] = t /\ ~isidle[c]

(* Where threads are: executing on a processor, on one of its lists, or on *)
(* a wait channel.                                                         *)
Place == ({"cpu", "runq", "zombies", "list"} \X CPU) \cup ({"wchan"} \X Chan)

At(p) ==
  CASE p[1] = "cpu" -> IF isidle[p[2]] THEN << >> ELSE <<curthread[p[2]]>>
    [] p[1] = "runq" -> runq[p[2]]
    [] p[1] = "zombies" -> zombies[p[2]]
    [] p[1] = "list" -> list[p[2]]
    [] p[1] = "wchan" -> wchan[p[2]]

PlacesOf(t) == {p \in Place : t \in Range(At(p))}

(* Every thread is in exactly one place, once: running, on a run queue,    *)
(* asleep on a channel, a zombie, or in the hands of a processor that      *)
(* wakes or migrates it; and a free structure is nowhere.                  *)
InOnePlace ==
  /\ \A p \in Place : IsInjective(At(p))
  /\ \A t \in Thread :
       /\ \A p, q \in PlacesOf(t) : p = q
       /\ t_state[t] = "none" <=> PlacesOf(t) = {}

(* Two processors never execute on one stack, and none executes on a stack *)
(* that exorcise has freed.  An idle processor is still on the stack of    *)
(* the thread that left it, though that thread sleeps, waits to run again, *)
(* or is a zombie.                                                         *)
StacksApart ==
  /\ IsInjective(curthread)
  /\ \A c \in CPU : t_state[curthread[c]] # "none"

(* A processor's queue and its current thread belong to it: the assertion  *)
(* on t_cpu at the top of thread_switch, and what makes it sound for       *)
(* thread_make_runnable to read t_cpu before it locks that queue.          *)
BelongsToCpu ==
  \A c \in CPU :
    /\ tcpu[curthread[c]] = c
    /\ \A i \in DOMAIN runq[c] : tcpu[runq[c][i]] = c
    /\ pc[c] = "post" => tcpu[Head(list[c])] = dest[c]

(* No wakeup is missed by an idle processor: if there is a thread on its   *)
(* queue while it waits in cpu_idle, its interrupt line is up, whatever    *)
(* interprocessor interrupts were sent while it handled an earlier one.    *)
IdleIsInterrupted ==
  \A c \in CPU : pc[c] = "idle" /\ runq[c] # << >> => line[c]

(* Migration never removes a thread from an empty list: the queue is at    *)
(* least as long as when it was counted, and the victims are at least as   *)
(* many as are still to be sent.                                           *)
MigrationHasThreads ==
  \A c \in CPU :
    /\ pc[c] = "mig.take" => mig[c].my <= Len(runq[c])
    /\ pc[c] \in {"mig.send", "mig.move"} => mig[c].send <= Len(list[c])

(* A thread on a run queue gets to run, whatever is forked, woken, put to  *)
(* sleep and migrated meanwhile.                                           *)
GetsToRun(t) == (\E c \in CPU : t \in Range(runq[c])) ~> Running(t)
=============================================================================
