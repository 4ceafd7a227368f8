-------------------------- MODULE AtomicSemaphore --------------------------
(***************************************************************************)
(* What include/synch.h promises of a semaphore: P waits until the count   *)
(* is greater than 0 and takes one, V adds one, each in one atomic step    *)
(* between its call and its return.                                        *)
(***************************************************************************)
EXTENDS Naturals

CONSTANTS Thread, Sem, InitialCount

VARIABLES
  count,  \* count[s]
  op      \* op[t]: the call t is in, as <<name, semaphore>>

None == <<"none">>

Init ==
  /\ count = InitialCount
  /\ op = [t \in Thread |-> None]

Call(t, name, s) ==
  /\ op[t] = None
  /\ op' = [op EXCEPT ![t] = <<name, s>>]
  /\ UNCHANGED count

Take(t, s) ==
  /\ op[t] = <<"P", s>>
  /\ count[s] > 0
  /\ count' = [count EXCEPT ![s] = @ - 1]
  /\ op' = [op EXCEPT ![t] = None]

Add(t, s) ==
  /\ op[t] = <<"V", s>>
  /\ count' = [count EXCEPT ![s] = @ + 1]
  /\ op' = [op EXCEPT ![t] = <<"V.done", s>>]

ReturnV(t, s) ==
  /\ op[t] = <<"V.done", s>>
  /\ op' = [op EXCEPT ![t] = None]
  /\ UNCHANGED count

Next ==
  \E t \in Thread, s \in Sem :
    Call(t, "P", s) \/ Call(t, "V", s) \/ Take(t, s) \/ Add(t, s) \/ ReturnV(t, s)

Spec == Init /\ [][Next]_<<count, op>>
=============================================================================
