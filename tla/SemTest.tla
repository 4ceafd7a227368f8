------------------------------ MODULE SemTest ------------------------------
(***************************************************************************)
(* The semaphore test of test/synchtest.c, as a client of Semaphore: the   *)
(* main thread drains testsem, forks the workers, lets them print one at a *)
(* time, restores testsem and destroys both semaphores.  The kernel menu   *)
(* can start the test again.                                               *)
(***************************************************************************)
EXTENDS Semaphore

CONSTANTS
  main, testsem, donesem,
  Rounds   \* bound: how often the menu runs the test

VARIABLES
  made,    \* made[t]: how many calls of its program t has made
  forked,  \* the workers thread_fork has started
  round,   \* how many tests have been started
  ptr      \* the static pointers: "null", "live", or "dangling" after a free

client == <<made, forked, round, ptr>>
testvars == <<vars, client>>

Workers == Thread \ {main}
NWorkers == Cardinality(Workers)

Call(name, s) == [op |-> name, sem |-> s]

semtestthread == <<Call("P", testsem), Call("V", donesem)>>

(* Faulty variants: all workers released at once; one V missing at the end. *)
semtestAllAtOnce ==
  <<Call("P", testsem), Call("P", testsem)>>
  \o [i \in 1..2 * NWorkers |-> IF i <= NWorkers THEN Call("V", testsem)
                                                 ELSE Call("P", donesem)]
  \o <<Call("V", testsem), Call("V", testsem)>>

semtestOneV ==
  <<Call("P", testsem), Call("P", testsem)>>
  \o [i \in 1..2 * NWorkers |-> IF i % 2 = 1 THEN Call("V", testsem)
                                             ELSE Call("P", donesem)]
  \o <<Call("V", testsem)>>

semtest ==
  <<Call("P", testsem), Call("P", testsem)>>
  \o [i \in 1..2 * NWorkers |-> IF i % 2 = 1 THEN Call("V", testsem)
                                             ELSE Call("P", donesem)]
  \o <<Call("V", testsem), Call("V", testsem)>>

Program(t) == IF t = main THEN semtest ELSE semtestthread
Done(t) == pc[t] = "run" /\ made[t] = Len(Program(t))

TestInit ==
  /\ Init
  /\ made = [t \in Thread |-> Len(Program(t))]
  /\ forked = Workers
  /\ round = 0
  /\ ptr = "null"

-----------------------------------------------------------------------------
(* The menu starts the test.  inititems creates the semaphores only when   *)
(* their pointers are null.  Main does not wait for the workers of the     *)
(* test before to exit: a worker that has made its last call is gone.      *)
inititems ==
  /\ round < Rounds
  /\ \A t \in Thread : Done(t)
  /\ ptr # "live"
  /\ round' = round + 1
  /\ ptr' = IF ptr = "null" THEN "live" ELSE ptr
  /\ made' = [t \in Thread |-> 0]
  /\ forked' = {}
  /\ UNCHANGED vars

(* The fork loop comes after the two P calls that drain testsem. *)
Fork ==
  /\ pc[main] = "run" /\ made[main] = 2
  /\ \E w \in Workers \ forked : forked' = forked \cup {w}
  /\ UNCHANGED <<vars, made, round, ptr>>

NextCall(t) ==
  /\ made[t] < Len(Program(t))
  /\ t # main => t \in forked
  /\ t = main /\ made[main] = 2 => forked = Workers
  /\ LET call == Program(t)[made[t] + 1] IN
     \/ call.op = "P" /\ PCall(t, call.sem)
     \/ call.op = "V" /\ VCall(t, call.sem)
  /\ made' = [made EXCEPT ![t] = @ + 1]
  /\ UNCHANGED <<forked, round, ptr>>

(* sem_destroy frees both semaphores and leaves the pointers as they are. *)
cleanitems ==
  /\ Done(main)
  /\ ptr = "live"
  /\ ptr' = "dangling"
  /\ UNCHANGED <<vars, made, forked, round>>

(* A call on freed memory is not followed any further. *)
ThreadStep(t) ==
  \/ ptr = "live" /\ Step(t) /\ UNCHANGED client
  \/ NextCall(t)
  \/ t = main /\ (Fork \/ cleanitems \/ inititems)

-----------------------------------------------------------------------------
(* A worker prints between its two calls.  semtestthread's comment: "Only  *)
(* one of these should print at a time."                                   *)
OnePrintsAtATime ==
  \A t, u \in Workers :
    made[t] = 1 /\ pc[t] = "run" /\ made[u] = 1 /\ pc[u] = "run" => t = u

(* In the first test P and V work on semaphores that exist: sem_destroy    *)
(* runs after the last of them has let go, although a worker's V still     *)
(* touches donesem after it has woken main.  This is all that holds:       *)
(* nothing is said of a test that is run again (RepeatedTestIsSafe).       *)
OnlyLiveSemaphores ==
  \A t \in Thread : pc[t] # "run" => ptr = "live" \/ round > 1

(* Every test, a repeated one too, works on semaphores that exist: main    *)
(* restores testsem "so we can run it again".  cleanitems does not reset   *)
(* the pointers, so a second test works on the freed semaphores.           *)
RepeatedTestIsSafe == \A t \in Thread : pc[t] # "run" => ptr = "live"

(* The first test finishes ("If this hangs, it's broken"), with testsem    *)
(* back at the count it was created with ("so we can run it again").       *)
Finishes ==
  <>[](ptr = "dangling" /\ sem_count[testsem] = InitialCount[testsem])
=============================================================================
