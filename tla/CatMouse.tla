------------------------------ MODULE CatMouse ------------------------------
(***************************************************************************)
(* The cat and mouse simulation of synchprobs: catmouse.c is the           *)
(* simulation, catmouse_synch.c decides who may eat at which bowl.  Locks  *)
(* and semaphores are atomic here (LockIsAtomic and AtomicSpec are checked *)
(* of their code); cv_wait is not, because a cat calls it without holding  *)
(* the lock: its lock_release does nothing, it sleeps, and the lock it     *)
(* acquires on waking makes it the holder.  Nobody waits on cv_mice, so    *)
(* the broadcast to it has no effect.  Each section under mutex or         *)
(* perf_mutex is one step.  bowl_locks has an entry for every bowl: the    *)
(* model covers the numbers of bowls for which the array, allocated one    *)
(* entry too short, fits the block kmalloc hands out.                      *)
(***************************************************************************)
EXTENDS Naturals, Sequences, FiniteSets

CONSTANTS NumBowls, NumCats, NumMice, NumLoops

ASSUME CatMouseAssumption ==
  NumBowls \in Nat \ {0} /\ NumCats \in Nat /\ NumMice \in Nat /\ NumLoops \in Nat

VARIABLES
  started,     \* how many simulation threads catmouse has forked
  at,          \* at[c]: where creature c is in its simulation
  bowl,        \* bowl[c]: the bowl it has chosen
  meals,       \* meals[c]: loops completed
  bowl_locks,  \* bowl_locks[b]: the creature that holds the lock of b, or 0
  cats,        \* the cats asleep on cv_cats
  sem,         \* count of globalCatMouseSem
  eating,      \* bowls[b]: 'c', 'm' or '-'
  finished,    \* count of CatMouseWait
  waited,      \* how many P(CatMouseWait) main has returned from
  panicked     \* whether cat_eat or mouse_eat has called panic

catmousevars == <<started, at, bowl, meals, bowl_locks, cats, sem, eating,
                  finished, waited, panicked>>

Bowl == 1..NumBowls
Cat == 1..NumCats
Mouse == NumCats + 1..NumCats + NumMice
Creature == Cat \cup Mouse

(* The n-th thread started: a cat and a mouse in turn, then whoever is left. *)
ForkOrder(n) ==
  LET pairs == IF NumCats < NumMice THEN NumCats ELSE NumMice IN
  CASE n > 2 * pairs -> IF NumCats > pairs THEN n - pairs ELSE NumCats + n - pairs
    [] n % 2 = 1 -> (n + 1) \div 2
    [] OTHER -> NumCats + n \div 2

catmouse_init ==
  /\ started = 0
  /\ at = [c \in Creature |-> "unborn"]
  /\ bowl = [c \in Creature |-> 0]
  /\ meals = [c \in Creature |-> 0]
  /\ bowl_locks = [b \in Bowl |-> 0]
  /\ cats = {}
  /\ sem = NumBowls
  /\ eating = [b \in Bowl |-> "-"]
  /\ finished = 0 /\ waited = 0 /\ panicked = FALSE

Go(c, from, to) ==
  /\ ~panicked
  /\ at[c] = from
  /\ at' = [at EXCEPT ![c] = to]

-----------------------------------------------------------------------------
(* catmouse(): fork everybody, then wait for each. *)
Fork ==
  /\ started < NumCats + NumMice
  /\ started' = started + 1
  /\ Go(ForkOrder(started + 1), "unborn", "sleep")
  /\ UNCHANGED <<bowl, meals, bowl_locks, cats, sem, eating, finished, waited, panicked>>

Await ==
  /\ ~panicked /\ started = NumCats + NumMice
  /\ finished > 0
  /\ finished' = finished - 1
  /\ waited' = waited + 1
  /\ UNCHANGED <<started, at, bowl, meals, bowl_locks, cats, sem, eating, panicked>>

(* The sleep ends and the creature picks one of the bowls at random. *)
ChooseBowl(c) ==
  /\ Go(c, "sleep", IF c \in Cat THEN "cv_wait" ELSE "acquire")
  /\ \E b \in Bowl : bowl' = [bowl EXCEPT ![c] = b]
  /\ UNCHANGED <<started, meals, bowl_locks, cats, sem, eating, finished, waited, panicked>>

(* cat_before_eating: a cat does not hold the lock yet, so it waits. *)
cv_wait_cats(c) ==
  /\ Go(c, "cv_wait", "asleep")
  /\ cats' = cats \cup {c}
  /\ UNCHANGED <<started, bowl, meals, bowl_locks, sem, eating, finished, waited, panicked>>

(* Faulty variant: the lock is not waited for. *)
lock_acquire_ignored(c) ==
  /\ Go(c, "acquire", "P")
  /\ bowl_locks' = [bowl_locks EXCEPT ![bowl[c]] = c]
  /\ UNCHANGED <<started, bowl, meals, cats, sem, eating, finished, waited, panicked>>

(* The lock_acquire of mouse_before_eating, and the one cv_wait ends with. *)
lock_acquire(c) ==
  /\ Go(c, "acquire", "P")
  /\ bowl_locks[bowl[c]] = 0
  /\ bowl_locks' = [bowl_locks EXCEPT ![bowl[c]] = c]
  /\ UNCHANGED <<started, bowl, meals, cats, sem, eating, finished, waited, panicked>>

P(c) ==
  /\ Go(c, "P", "before")
  /\ sem > 0
  /\ sem' = sem - 1
  /\ UNCHANGED <<started, bowl, meals, bowl_locks, cats, eating, finished, waited, panicked>>

Kind(c) == IF c \in Cat THEN "c" ELSE "m"

(* cat_eat and mouse_eat check the rules of the simulation first.  A panic *)
(* stops every processor.                                                  *)
StartEating(c) ==
  /\ Go(c, "before", "eating")
  /\ LET other == IF c \in Cat THEN "m" ELSE "c"
         bad == eating[bowl[c]] # "-" \/ \E b \in Bowl : eating[b] = other
     IN  /\ panicked' = bad
         /\ eating' = IF bad THEN eating ELSE [eating EXCEPT ![bowl[c]] = Kind(c)]
  /\ UNCHANGED <<started, bowl, meals, bowl_locks, cats, sem, finished, waited>>

StopEating(c) ==
  /\ Go(c, "eating", IF c \in Cat THEN "release" ELSE "V")
  /\ eating' = [eating EXCEPT ![bowl[c]] = "-"]
  /\ UNCHANGED <<started, bowl, meals, bowl_locks, cats, sem, finished, waited, panicked>>

(* cat_after_eating releases the lock and then does V; mouse_after_eating  *)
(* does V, releases the lock and then wakes the cats.                      *)
lock_release(c) ==
  /\ Go(c, "release", IF c \in Cat THEN "V" ELSE "broadcast")
  /\ bowl_locks' = [bowl_locks EXCEPT ![bowl[c]] = 0]
  /\ UNCHANGED <<started, bowl, meals, cats, sem, eating, finished, waited, panicked>>

(* Faulty variant: only mice give their unit back. *)
VByMiceOnly(c) ==
  /\ Go(c, "V", IF c \in Cat THEN "stats" ELSE "release")
  /\ sem' = IF c \in Cat THEN sem ELSE sem + 1
  /\ UNCHANGED <<started, bowl, meals, bowl_locks, cats, eating, finished, waited, panicked>>

V(c) ==
  /\ Go(c, "V", IF c \in Cat THEN "stats" ELSE "release")
  /\ sem' = sem + 1
  /\ UNCHANGED <<started, bowl, meals, bowl_locks, cats, eating, finished, waited, panicked>>

(* Every cat asleep goes on to the lock_acquire at the end of cv_wait. *)
cv_broadcast_cats(c) ==
  /\ ~panicked
  /\ at[c] = "broadcast"
  /\ at' = [d \in Creature |-> IF d = c THEN "stats"
                               ELSE IF d \in cats THEN "acquire" ELSE at[d]]
  /\ cats' = {}
  /\ UNCHANGED <<started, bowl, meals, bowl_locks, sem, eating, finished, waited, panicked>>

(* The statistics are updated, and the loop begins again or is over. *)
EndLoop(c) ==
  /\ Go(c, "stats", IF meals[c] + 1 < NumLoops THEN "sleep" ELSE "exit")
  /\ meals' = [meals EXCEPT ![c] = @ + 1]
  /\ UNCHANGED <<started, bowl, bowl_locks, cats, sem, eating, finished, waited, panicked>>

Finish(c) ==
  /\ Go(c, "exit", "gone")
  /\ finished' = finished + 1
  /\ UNCHANGED <<started, bowl, meals, bowl_locks, cats, sem, eating, waited, panicked>>

simulation(c) ==
  \/ ChooseBowl(c) \/ cv_wait_cats(c) \/ lock_acquire(c) \/ P(c)
  \/ StartEating(c) \/ StopEating(c)
  \/ lock_release(c) \/ V(c) \/ cv_broadcast_cats(c) \/ EndLoop(c) \/ Finish(c)

catmouse == Fork \/ Await

CatMouseSpec ==
  catmouse_init /\ [][catmouse \/ \E c \in Creature : simulation(c)]_catmousevars

-----------------------------------------------------------------------------
(* Nobody is ever let to a bowl where somebody else is eating: of the      *)
(* rules cat_eat and mouse_eat check, the one about a single bowl is kept  *)
(* with any number of bowls, though the waiting in cat_before_eating never *)
(* looks at the bowl.                                                      *)
BowlIsFree ==
  \A c \in Creature : at[c] = "before" => eating[bowl[c]] = "-"

(* The rule that cat_eat and mouse_eat panic about: no cat is let in while *)
(* a mouse is eating at any bowl, and no mouse while a cat is.             *)
CatsAndMiceApart == ~panicked

(* Every mouse gets all its meals, unless the simulation panics: mice wait *)
(* for a lock and a semaphore unit that their holders always give back.    *)
MiceAreFed == <>(panicked \/ \A m \in Mouse : meals[m] = NumLoops)
=============================================================================
