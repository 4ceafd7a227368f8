------------------------------ MODULE MCSched ------------------------------
(***************************************************************************)
(* Two processors; t0 and t1 are the threads they start on.  Two channels, *)
(* so that sleepers can be woken in another order than they went to sleep. *)
(***************************************************************************)
EXTENDS Sched, TLC

CONSTANTS
  t0, t1,
  watched,  \* a forked thread
  alone     \* a channel, for FewChan only

MCBoot == [c \in CPU |-> IF c = 0 THEN t0 ELSE t1]

(* Any thread sleeps anywhere; or t1 only wakes the others, the watched    *)
(* thread sleeps on one channel and the rest on any, which is the least    *)
(* for which threads are woken in another order than they slept.           *)
AnyChan == [t \in Thread |-> Chan]
FewChan == [t \in Thread |-> CASE t = t1 -> {} [] t = watched -> {alone} [] OTHER -> Chan]

Symmetry == Permutations(Chan)

(* A thread that thread_make_runnable or a migration has queued runs: no   *)
(* yield, sleep, exit, fork, wakeup or migration of the others keeps it    *)
(* waiting for ever.  One forked thread stands for all of them.            *)
ReadyThreadsRun == GetsToRun(watched)
=============================================================================
