------------------------------ MODULE MCSynch ------------------------------
(***************************************************************************)
(* The synchronisation primitives side by side: semaphores (Semaphore),    *)
(* and the lock with the condition variable (CondVar).  They are checked   *)
(* in one run: which one moves is chosen at the start, and the state of    *)
(* the other never changes.                                                *)
(***************************************************************************)
EXTENDS Semaphore, CondVar, TLC

CONSTANT Part  \* the parts to choose from: "sem", "cv"

VARIABLE part

OneEach == [s \in Sem |-> 1]

SynchInit == part \in Part /\ Init /\ CvInit

SynchNext ==
  \/ part = "sem" /\ Next /\ UNCHANGED <<part, cvvars>>
  \/ part = "cv" /\ CvNext /\ UNCHANGED <<part, vars>>
  \* The users of the lock and the cv may leave everyone waiting.
  \/ part = "cv" /\ UNCHANGED <<part, vars, cvvars>>

SynchSpec == SynchInit /\ [][SynchNext]_<<part, vars, cvvars>>

Symmetry == Permutations(Thread \ Handler) \cup Permutations(Sem) \cup Permutations(User)
=============================================================================
