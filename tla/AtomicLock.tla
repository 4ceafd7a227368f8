----------------------------- MODULE AtomicLock -----------------------------
(***************************************************************************)
(* What include/synch.h promises of a sleep lock: acquiring waits until    *)
(* nobody holds the lock and takes it in one atomic step; releasing gives  *)
(* it up in one atomic step, and does nothing for a thread that is not the *)
(* holder.                                                                 *)
(***************************************************************************)
CONSTANTS Thread, NoThread

VARIABLES
  owner,  \* the thread that holds the lock, or NoThread
  at      \* at[t]: "out", "acquiring", "in", "releasing" or "released"

Init ==
  /\ owner = NoThread
  /\ at = [t \in Thread |-> "out"]

Move(t, from, to) ==
  /\ at[t] = from
  /\ at' = [at EXCEPT ![t] = to]

CallAcquire(t) == Move(t, "out", "acquiring") /\ UNCHANGED owner

Take(t) ==
  /\ Move(t, "acquiring", "in")
  /\ owner = NoThread
  /\ owner' = t

CallRelease(t) ==
  /\ Move(t, "in", "releasing") \/ Move(t, "out", "releasing")
  /\ UNCHANGED owner

Drop(t) ==
  /\ Move(t, "releasing", "released")
  /\ owner' = IF owner = t THEN NoThread ELSE owner

ReturnRelease(t) == Move(t, "released", "out") /\ UNCHANGED owner

Next ==
  \E t \in Thread :
    CallAcquire(t) \/ Take(t) \/ CallRelease(t) \/ Drop(t) \/ ReturnRelease(t)

Spec == Init /\ [][Next]_<<owner, at>>
=============================================================================
