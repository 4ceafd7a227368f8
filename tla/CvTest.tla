------------------------------- MODULE CvTest -------------------------------
(***************************************************************************)
(* The condition variable test of test/synchtest.c as a client of CondVar: *)
(* NTHREADS threads pass a turn (testval1) down from NTHREADS-1 to 0 and   *)
(* round again, waiting on one cv.  The measurement of the time spent in   *)
(* cv_wait is left out: the thread that wakes a waiter has spun for longer *)
(* than the limit since it acquired the lock the waiter released.          *)
(***************************************************************************)
EXTENDS CondVar

CONSTANTS
  NTHREADS,  \* User is 0..NTHREADS-1
  NCVLOOPS   \* how often each thread prints

ASSUME CvTestAssumption == NTHREADS \in Nat \ {0} /\ User = 0..(NTHREADS - 1)

VARIABLES
  testval1,  \* whose turn it is
  next,      \* next[t]: the call of cvtestthread that t makes next
  loops,     \* loops[t]: how often t has been through the loop
  done,      \* count of donesem
  awaited    \* P(donesem) calls main has returned from; then "clean"

client == <<testval1, next, loops, done, awaited>>
testvars == <<cvvars, client>>

TestInit ==
  /\ CvInit
  /\ testval1 = NTHREADS - 1
  /\ next = [t \in User |-> "acquire"]
  /\ loops = [t \in User |-> 0]
  /\ done = 0
  /\ awaited = 0

Then(t, from, to) ==
  /\ next[t] = from
  /\ next' = [next EXCEPT ![t] = to]

Acquire(t) ==
  /\ Then(t, "acquire", "test")
  /\ AcquireCall(t)
  /\ UNCHANGED <<cvonly, testval1, loops, done, awaited>>

(* while (testval1 != num) cv_wait(testcv, testlock); *)
CvWait(t) ==
  /\ Then(t, "test", "test")
  /\ lk_pc[t] = "in" /\ testval1 # t
  /\ WaitCall(t)
  /\ UNCHANGED <<testval1, loops, done, awaited>>

(* Faulty variant: "if" instead of "while" around cv_wait. *)
PrintAndPassUntested(t) ==
  /\ Then(t, "test", "release")
  /\ lk_pc[t] = "in"
  /\ testval1' = (testval1 + NTHREADS - 1) % NTHREADS
  /\ BroadcastCall(t)
  /\ UNCHANGED <<loops, done, awaited>>

(* The turn has come: print, pass it on, and broadcast. *)
PrintAndPass(t) ==
  /\ Then(t, "test", "release")
  /\ lk_pc[t] = "in" /\ testval1 = t
  /\ testval1' = (testval1 + NTHREADS - 1) % NTHREADS
  /\ BroadcastCall(t)
  /\ UNCHANGED <<loops, done, awaited>>

Release(t) ==
  /\ Then(t, "release", IF loops[t] + 1 = NCVLOOPS THEN "V" ELSE "acquire")
  /\ lk_pc[t] = "in"
  /\ ReleaseCall(t)
  /\ loops' = [loops EXCEPT ![t] = @ + 1]
  /\ UNCHANGED <<cvonly, testval1, done, awaited>>

(* Faulty variant: V(donesem) before lock_release has returned. *)
VAndExitEarly(t) ==
  /\ Then(t, "V", "exited")
  /\ done' = done + 1
  /\ UNCHANGED <<cvvars, testval1, loops, awaited>>

(* V(donesem); thread_exit() *)
VAndExit(t) ==
  /\ Then(t, "V", "exited")
  /\ lk_pc[t] = "out"
  /\ done' = done + 1
  /\ UNCHANGED <<cvvars, testval1, loops, awaited>>

cvtestthread(t) == Acquire(t) \/ CvWait(t) \/ PrintAndPass(t) \/ Release(t) \/ VAndExit(t)

(* P(donesem), NTHREADS times. *)
AwaitOne ==
  /\ awaited \in 0..NTHREADS - 1 /\ done > 0
  /\ awaited' = awaited + 1
  /\ done' = done - 1
  /\ UNCHANGED <<cvvars, testval1, next, loops>>

cleanitems ==
  /\ awaited = NTHREADS
  /\ awaited' = NTHREADS + 1
  /\ UNCHANGED <<cvvars, testval1, next, loops, done>>

CvTestStep(t) == (CvStep(t) /\ UNCHANGED client) \/ cvtestthread(t)

cvtest == AwaitOne \/ cleanitems

TestSpec == TestInit /\ [][cvtest \/ \E t \in User : CvTestStep(t)]_testvars

-----------------------------------------------------------------------------
(* How often t has printed. *)
Printed(t) == loops[t] + IF next[t] = "release" THEN 1 ELSE 0

(* "threads should print out in reverse order": in every state of the test *)
(* the number of times each thread has printed is as far as the turn says. *)
(* Thread t's print precedes that of t-1, so the counts of a higher and a  *)
(* lower thread differ by at most one, and testval1 is the boundary.       *)
ReverseOrder ==
  \A t, u \in User :
    t > u => Printed(t) = Printed(u) + IF u <= testval1 /\ testval1 < t THEN 1 ELSE 0

(* When main destroys the lock and the cv no thread is inside any of their *)
(* functions, nobody holds the lock (lock_destroy frees what holder points *)
(* to), and both channels are empty (wchan_destroy asserts it).            *)
DestroyIsSafe ==
  awaited = NTHREADS + 1 =>
    /\ \A t \in User : lk_pc[t] = "out" /\ next[t] = "exited"
    /\ holder = NoUser /\ lk_lock = NoUser
    /\ lk_threads = << >> /\ cv_threads = << >>

(* The test comes to its end: main's loop gets NTHREADS units of donesem.  *)
TestFinishes == <>(awaited = NTHREADS + 1)
=============================================================================
