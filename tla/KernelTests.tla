---------------------------- MODULE KernelTests ----------------------------
(***************************************************************************)
(* The menu's tests that start threads and collect them with a semaphore:  *)
(* tt1 and tt2 (test/threadtest.c), tt3 (test/tt3.c), sy2 (the lock test   *)
(* of test/synchtest.c), uw1 and uw2 (test/uw-tests.c, with the counters   *)
(* of vm/uw-vmstats.c).  Locks, spinlocks and semaphores are atomic here;  *)
(* what a thread does to shared variables under them is not: every load    *)
(* and every store is a step.  What the threads print, and the matrices of *)
(* tt3, are left out.                                                      *)
(***************************************************************************)
EXTENDS Naturals, Integers, Sequences, FiniteSets, SequencesExt

CONSTANTS
  TestThreads,   \* threads of one test, without the waker of tt3
  Loops,      \* NTESTLOOPS and NLOCKLOOPS; a multiple of 4
  NWaitchans  \* NWAITCHANS of tt3

VARIABLES
  test,       \* the command: "tt1", "tt3", "sy2", "uw1" or "uw2"
  w_pc,       \* w_pc[t]: where worker t is
  w_i,        \* w_i[t]: its loop counter
  reg,        \* reg[t]: the value it has loaded
  heldby,     \* holder of the lock of the test (testlock or stats_lock), or -1
  shared,     \* uw1: test_value; sy2: testval1 to testval3; uw2: stats_counts
  chan,       \* tt3, chan[t]: the wait channel sleeper t is on, or 0
  wakerdone,  \* tt3
  donecount,  \* count of the semaphore that main collects the threads with
  collected,  \* P calls main has returned from
  verdict     \* "running", "done", or "failed" when a check of the test fails

testvars == <<test, w_pc, w_i, reg, heldby, shared, chan, wakerdone,
              donecount, collected, verdict>>

Waker == TestThreads    \* only tt3 starts this one
Worker == 0..TestThreads - 1 \cup IF test = "tt3" THEN {Waker} ELSE {}

Stat == {"FAULT", "FREE", "REPLACE", "INVALIDATE", "RELOAD", "ZERO", "DISK",
         "ELF", "SWAPREAD", "SWAPWRITE"}

(* The calls of vmstats_inc that vmstats_thread makes in its i-th round. *)
Round(i) ==
  <<"FAULT", "FAULT", "FREE", "REPLACE">>
  \o (IF i % 2 = 0 THEN <<"INVALIDATE">> ELSE << >>) \o <<"RELOAD">>
  \o (IF i % 2 = 0 THEN <<"ZERO", "DISK">> ELSE << >>)
  \o (IF i % 4 = 0 THEN <<"ELF", "SWAPREAD">> ELSE << >>)
  \o (IF i % 8 = 0 THEN <<"SWAPWRITE">> ELSE << >>)

vmstats_thread == FlattenSeq([i \in 1..Loops |-> Round(i - 1)])

Locked == {"sy2", "uw1", "uw2"}
LoopsOf(t) == CASE test = "uw2" -> Len(vmstats_thread) [] test = "tt1" -> 0 [] OTHER -> Loops

inititems(command) ==
  /\ test = command
  /\ w_pc = [t \in Worker |-> "unborn"]
  /\ w_i = [t \in Worker |-> 0]
  /\ reg = [t \in Worker |-> 0]
  /\ heldby = -1
  /\ shared = CASE command = "uw1" -> 0
                [] command = "uw2" -> [s \in Stat |-> 0]
                [] OTHER -> <<0, 0, 0>>
  /\ chan = [t \in Worker |-> 0]
  /\ wakerdone = FALSE
  /\ donecount = 0 /\ collected = 0 /\ verdict = "running"

Run(t, from, to) ==
  /\ verdict = "running"
  /\ w_pc[t] = from
  /\ w_pc' = [w_pc EXCEPT ![t] = to]

-----------------------------------------------------------------------------
(* thread_fork, in order; then one P for every thread. *)
ForkWorker(t) ==
  /\ \A u \in Worker : u < t => w_pc[u] # "unborn"
  /\ Run(t, "unborn", "loop")
  /\ UNCHANGED <<test, w_i, reg, heldby, shared, chan, wakerdone, donecount, collected, verdict>>

(* Faulty variant: use_locks is 0. *)
LockUnused(t) ==
  /\ test \in Locked /\ w_i[t] < LoopsOf(t)
  /\ Run(t, "loop", "load")
  /\ UNCHANGED <<test, w_i, reg, heldby, shared, chan, wakerdone, donecount, collected, verdict>>

(* The head of a worker's loop: lock, or the V(donesem) that ends it. *)
Lock(t) ==
  /\ test \in Locked /\ w_i[t] < LoopsOf(t)
  /\ Run(t, "loop", "load")
  /\ heldby = -1
  /\ heldby' = t
  /\ UNCHANGED <<test, w_i, reg, shared, chan, wakerdone, donecount, collected, verdict>>

(* uw1 and uw2 load the variable they change; sy2 sets testval1. *)
Load(t) ==
  /\ Run(t, "load", "store")
  /\ reg' = [reg EXCEPT ![t] = CASE test = "uw1" -> shared
                                 [] test = "uw2" -> shared[vmstats_thread[w_i[t] + 1]]
                                 [] OTHER -> 0]
  /\ shared' = IF test = "sy2" THEN [shared EXCEPT ![1] = t] ELSE shared
  /\ UNCHANGED <<test, w_i, heldby, chan, wakerdone, donecount, collected, verdict>>

(* add_thread and sub_thread store one more or one less, _vmstats_inc one  *)
(* more; locktestthread sets testval2 and testval3.                        *)
Store(t) ==
  /\ Run(t, "store", IF test = "sy2" THEN "check" ELSE "unlock")
  /\ shared' = CASE test = "uw1" -> IF t < TestThreads \div 2 THEN reg[t] + 1 ELSE reg[t] - 1
                 [] test = "uw2" -> [shared EXCEPT ![vmstats_thread[w_i[t] + 1]] = reg[t] + 1]
                 [] OTHER -> <<shared[1], t * t, t % 3>>
  /\ reg' = [reg EXCEPT ![t] = 0]
  /\ UNCHANGED <<test, w_i, heldby, chan, wakerdone, donecount, collected, verdict>>

(* The six comparisons of locktestthread; any mismatch calls fail. *)
Check(t) ==
  /\ Run(t, "check", "unlock")
  /\ verdict' = IF /\ shared[2] = shared[1] * shared[1]
                   /\ shared[2] % 3 = (shared[3] * shared[3]) % 3
                   /\ shared[3] = shared[1] % 3
                   /\ shared = <<t, t * t, t % 3>>
                THEN verdict ELSE "failed"
  /\ UNCHANGED <<test, w_i, reg, heldby, shared, chan, wakerdone, donecount, collected>>

Unlock(t) ==
  /\ Run(t, "unlock", "loop")
  /\ heldby' = IF heldby = t THEN -1 ELSE heldby
  /\ w_i' = [w_i EXCEPT ![t] = @ + 1]
  /\ UNCHANGED <<test, reg, shared, chan, wakerdone, donecount, collected, verdict>>

Finish(t) ==
  /\ w_i[t] = LoopsOf(t)
  /\ test = "tt3" => t # Waker
  /\ Run(t, "loop", "exited")
  /\ donecount' = donecount + 1
  /\ UNCHANGED <<test, w_i, reg, heldby, shared, chan, wakerdone, collected, verdict>>

(* sleepalot_thread: lock a channel picked at random and sleep on it. *)
sleepalot_thread(t) ==
  /\ test = "tt3" /\ t # Waker /\ w_i[t] < Loops
  /\ Run(t, "loop", "asleep")
  /\ \E w \in 1..NWaitchans : chan' = [chan EXCEPT ![t] = w]
  /\ w_i' = [w_i EXCEPT ![t] = @ + 1]
  /\ UNCHANGED <<test, reg, heldby, shared, wakerdone, donecount, collected, verdict>>

(* waker_thread: WAKER_WAKES calls of wchan_wakeall between two looks at   *)
(* wakerdone, here one; the number does not matter to what can happen.     *)
waker_wakes ==
  /\ test = "tt3" /\ verdict = "running" /\ w_pc[Waker] = "loop"
  /\ ~wakerdone
  /\ \E w \in 1..NWaitchans :
       LET woken == {t \in Worker : chan[t] = w} IN
       /\ chan' = [t \in Worker |-> IF t \in woken THEN 0 ELSE chan[t]]
       /\ w_pc' = [t \in Worker |-> IF t \in woken THEN "loop" ELSE w_pc[t]]
  /\ UNCHANGED <<test, w_i, reg, heldby, shared, wakerdone, donecount, collected, verdict>>

waker_exits ==
  /\ test = "tt3" /\ wakerdone
  /\ Run(Waker, "loop", "exited")
  /\ donecount' = donecount + 1
  /\ UNCHANGED <<test, w_i, reg, heldby, shared, chan, wakerdone, collected, verdict>>

-----------------------------------------------------------------------------
(* Faulty variant: the waker is told to stop one thread too early. *)
CollectEarly ==
  /\ verdict = "running"
  /\ \A t \in Worker : w_pc[t] # "unborn"
  /\ donecount > 0
  /\ donecount' = donecount - 1
  /\ collected' = collected + 1
  /\ wakerdone' = (test = "tt3" /\ collected + 1 >= TestThreads - 1)
  /\ UNCHANGED <<test, w_pc, w_i, reg, heldby, shared, chan, verdict>>

(* main: P(donesem).  In tt3, finish tells the waker to stop when all the  *)
(* other threads are collected, and then waits for the waker.              *)
Collect ==
  /\ verdict = "running"
  /\ \A t \in Worker : w_pc[t] # "unborn"
  /\ donecount > 0
  /\ donecount' = donecount - 1
  /\ collected' = collected + 1
  /\ wakerdone' = (test = "tt3" /\ collected + 1 >= TestThreads)
  /\ UNCHANGED <<test, w_pc, w_i, reg, heldby, shared, chan, verdict>>

(* The last lines of the tests: uw1 asserts that the additions and the     *)
(* subtractions cancel out, vmstats_print warns unless the counters add up.*)
Conclude ==
  /\ verdict = "running" /\ collected = Cardinality(Worker)
  /\ LET s == shared
         ok == CASE test = "uw1" -> s = 0
                 [] test = "uw2" -> /\ s["FAULT"] = s["FREE"] + s["REPLACE"]
                                    /\ s["FAULT"] = s["DISK"] + s["ZERO"] + s["RELOAD"]
                                    /\ s["DISK"] = s["ELF"] + s["SWAPREAD"]
                 [] OTHER -> TRUE
     IN verdict' = IF ok THEN "done" ELSE "failed"
  /\ UNCHANGED <<test, w_pc, w_i, reg, heldby, shared, chan, wakerdone, donecount, collected>>

WorkerStep(t) ==
  \/ ForkWorker(t) \/ Lock(t) \/ Load(t) \/ Store(t) \/ Check(t) \/ Unlock(t)
  \/ Finish(t) \/ sleepalot_thread(t)

TestStep == (\E t \in Worker : WorkerStep(t)) \/ waker_wakes \/ waker_exits
            \/ Collect \/ Conclude

-----------------------------------------------------------------------------
(* No check of a test fails: locktestthread finds the values it stored,    *)
(* uw1's additions and subtractions cancel out, and uw2's counters add up  *)
(* as vmstats_print expects.  The waker of tt3 does not go away while a    *)
(* thread is still asleep on a channel only the waker would wake it from,  *)
(* and a test that is over leaves no thread and no unit of donesem behind  *)
(* for the next one.                                                       *)
TestsSucceed ==
  /\ verdict # "failed"
  /\ test = "tt3" /\ w_pc[Waker] = "exited" => \A t \in Worker : chan[t] = 0
  /\ verdict = "done" => donecount = 0 /\ \A t \in Worker : w_pc[t] = "exited"
=============================================================================
