----------------------------- MODULE SynchTest -----------------------------
(***************************************************************************)
(* The menu's commands that start threads: sy1 the semaphore test          *)
(* (SemTest), sy3 the condition variable test (CvTest), sp2 the cat and    *)
(* mouse simulation (CatMouse), tt1, tt3, sy2, uw1 and uw2 the other tests *)
(* (KernelTests), and p, which runs a program (Process).  The menu runs    *)
(* one command at a time: it is chosen at the start, and the state of the  *)
(* others never changes.                                                   *)
(***************************************************************************)
EXTENDS Process, CatMouse, CvTest

CONSTANTS
  Command,   \* the commands to choose from
  Rounds,
  TestThreads, Loops, NWaitchans,
  main, testsem, donesem, NoThread, NoSem

VARIABLES
  command,
  s_pc, arg, sem_count, sem_lock, s_wc_lock, s_wc_threads, s_target,
  made, s_forked, round, ptr,
  test, w_pc, w_i, reg, heldby, shared, chan, wakerdone, donecount, collected,
  verdict

semvars == <<s_pc, arg, sem_count, sem_lock, s_wc_lock, s_wc_threads, s_target,
             made, s_forked, round, ptr>>
othervars == <<test, w_pc, w_i, reg, heldby, shared, chan, wakerdone,
               donecount, collected, verdict>>
(* vars are the variables of Process, testvars those of CvTest. *)
menuvars == <<command, semvars, testvars, catmousevars, othervars, vars>>

SY1 == INSTANCE SemTest
         WITH Thread <- User \cup {main}, Handler <- {},
              Sem <- {testsem, donesem}, MaxCount <- NTHREADS + 2,
              InitialCount <- [s \in {testsem, donesem} |-> IF s = testsem THEN 2 ELSE 0],
              pc <- s_pc, wc_lock <- s_wc_lock, wc_threads <- s_wc_threads,
              target <- s_target, forked <- s_forked

TT == INSTANCE KernelTests

Others == {"tt1", "tt3", "sy2", "uw1", "uw2"}

MenuInit ==
  /\ command \in Command
  /\ SY1!TestInit
  /\ TestInit
  /\ catmouse_init
  /\ TT!inititems(IF command \in Others THEN command ELSE "tt1")
  /\ Init

Sy1Step(t) ==
  /\ command = "sy1" /\ SY1!ThreadStep(t)
  /\ UNCHANGED <<command, testvars, catmousevars, othervars, vars>>
Sy3Step(t) ==
  /\ command = "sy3" /\ CvTestStep(t)
  /\ UNCHANGED <<command, semvars, catmousevars, othervars, vars>>
Sy3Main ==
  /\ command = "sy3" /\ cvtest
  /\ UNCHANGED <<command, semvars, catmousevars, othervars, vars>>
Sp2Step(c) ==
  /\ command = "sp2" /\ simulation(c)
  /\ UNCHANGED <<command, semvars, testvars, othervars, vars>>
Sp2Main ==
  /\ command = "sp2" /\ catmouse
  /\ UNCHANGED <<command, semvars, testvars, othervars, vars>>
OtherStep ==
  /\ command \in Others /\ TT!TestStep
  /\ UNCHANGED <<command, semvars, testvars, catmousevars, vars>>
ProgMenu ==
  /\ command = "p" /\ MenuStep
  /\ UNCHANGED <<command, semvars, testvars, catmousevars, othervars>>
ProgCall ==
  /\ command = "p" /\ common_prog
  /\ UNCHANGED <<command, semvars, testvars, catmousevars, othervars>>
ProgStep(t) ==
  /\ command = "p" /\ ThreadStep(t)
  /\ UNCHANGED <<command, semvars, testvars, catmousevars, othervars>>

MenuNext ==
  \/ \E t \in User \cup {main} : Sy1Step(t)
  \/ \E t \in User : Sy3Step(t)
  \/ Sy3Main
  \/ \E c \in Creature : Sp2Step(c)
  \/ Sp2Main
  \/ OtherStep
  \/ ProgCall
  \/ ProgMenu
  \/ \E t \in Thread : ProgStep(t)

(* Every processor keeps executing its thread: weak fairness of each       *)
(* thread's next step.  No thread polls a spinlock for ever, because the   *)
(* tests make finitely many calls.  A process that the bounds let fork no  *)
(* more can only exit.                                                     *)
MenuSpec ==
  /\ MenuInit /\ [][MenuNext]_menuvars
  /\ \A t \in User \cup {main} : WF_menuvars(Sy1Step(t))
  /\ \A t \in User : WF_menuvars(Sy3Step(t))
  /\ WF_menuvars(Sy3Main)
  /\ \A c \in Creature : WF_menuvars(Sp2Step(c))
  /\ WF_menuvars(Sp2Main)
  /\ WF_menuvars(ProgMenu)
  /\ \A t \in Thread : WF_menuvars(ProgStep(t))

-----------------------------------------------------------------------------
(* sy1: a worker prints between its two calls, and semtestthread's comment *)
(* says "Only one of these should print at a time."                        *)
OnePrintsAtATime == SY1!OnePrintsAtATime

(* sy1: in the first test P and V work on semaphores that exist:           *)
(* sem_destroy runs after the last of them has let go, although a worker's *)
(* V still touches donesem after it has woken main.  Nothing is said of a  *)
(* test that is run again: it works on freed semaphores, as the property   *)
(* below states and SynchTestAgain.cfg refutes.                            *)
OnlyLiveSemaphores == SY1!OnlyLiveSemaphores

(* sy1: a repeated test does not work on the semaphores that the test      *)
(* before it destroyed (semtest's "so we can run it again").               *)
RepeatedTestIsSafe == SY1!RepeatedTestIsSafe

(* sy1: the first test finishes ("If this hangs, it's broken"), with       *)
(* testsem back at the count it was created with ("so we can run it        *)
(* again").                                                                *)
SemTestFinishes == command = "sy1" => SY1!Finishes

(* sy3: the test comes to its end: main gets NTHREADS units of donesem.    *)
CvTestFinishes == command = "sy3" => TestFinishes

(* sp2: every mouse gets all its meals, unless the simulation panics.      *)
SimulationFeedsMice == command = "sp2" => MiceAreFed

(* tt1, tt3, sy2, uw1, uw2: no check of a test fails, the waker of tt3     *)
(* does not go away while a thread is asleep, and a test that is over      *)
(* leaves no thread and no unit of its semaphore behind.                   *)
TestsSucceed == TT!TestsSucceed
=============================================================================
