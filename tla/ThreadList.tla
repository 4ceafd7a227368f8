----------------------------- MODULE ThreadList -----------------------------
(***************************************************************************)
(* The lists of threads of thread/threadlist.c: run queues, wait channels  *)
(* and zombies.  A list is doubly linked between two nodes of its own, a   *)
(* head and a tail; a thread has one node and is on one list at a time.    *)
(* The lists of pointers are kept beside the sequences they stand for.     *)
(***************************************************************************)
EXTENDS Integers, SequencesExt

CONSTANTS List, Thread, None

VARIABLES
  next, prev,  \* tln_next, tln_prev of every node (None: NULL)
  tl_count,
  lists,       \* the sequence of threads that each list stands for
  given,       \* what the last remhead or remtail returned
  wanted       \* what it should have returned

listvars == <<next, prev, tl_count, lists, given, wanted>>

Head_(tl) == <<tl, "head">>
Tail_(tl) == <<tl, "tail">>
Node == Thread \cup (List \X {"head", "tail"})

(* threadlist_init and threadlistnode_init *)
ListInit ==
  /\ next = [n \in Node |-> IF n \in {Head_(tl) : tl \in List} THEN Tail_(n[1]) ELSE None]
  /\ prev = [n \in Node |-> IF n \in {Tail_(tl) : tl \in List} THEN Head_(n[1]) ELSE None]
  /\ tl_count = [tl \in List |-> 0]
  /\ lists = [tl \in List |-> << >>] /\ given = None /\ wanted = None

Unlisted == {t \in Thread : next[t] = None /\ prev[t] = None}
isempty(tl) == tl_count[tl] = 0

insertafternode(onlist, t) ==
  /\ next' = [next EXCEPT ![t] = next[onlist], ![onlist] = t]
  /\ prev' = [prev EXCEPT ![t] = onlist, ![next[onlist]] = t]

insertbeforenode(t, onlist) ==
  /\ prev' = [prev EXCEPT ![t] = prev[onlist], ![onlist] = t]
  /\ next' = [next EXCEPT ![t] = onlist, ![prev[onlist]] = t]

removenode_oneway(n) ==  \* faulty variant: the way back is not mended
  /\ next' = [next EXCEPT ![prev[n]] = next[n], ![n] = None]
  /\ prev' = [prev EXCEPT ![n] = None]

removenode(n) ==
  /\ next' = [next EXCEPT ![prev[n]] = next[n], ![n] = None]
  /\ prev' = [prev EXCEPT ![next[n]] = prev[n], ![n] = None]

Grow(tl, i, t) ==
  /\ tl_count' = [tl_count EXCEPT ![tl] = @ + 1]
  /\ lists' = [lists EXCEPT ![tl] = InsertAt(@, i, t)] /\ UNCHANGED <<given, wanted>>

Shrink(tl, i) ==
  /\ tl_count' = [tl_count EXCEPT ![tl] = @ - 1]
  /\ lists' = [lists EXCEPT ![tl] = RemoveAt(@, i)] /\ wanted' = lists[tl][i]

addhead(tl, t) == insertafternode(Head_(tl), t) /\ Grow(tl, 1, t)
addtail(tl, t) == insertbeforenode(t, Tail_(tl)) /\ Grow(tl, Len(lists[tl]) + 1, t)

(* An empty list is known by its first node, which is then its tail. *)
remhead(tl) ==
  LET n == next[Head_(tl)] IN
  \/ next[n] = None /\ given' = None /\ wanted' = None /\ UNCHANGED <<next, prev, tl_count, lists>>
  \/ next[n] # None /\ removenode(n) /\ given' = n /\ Shrink(tl, 1)

remtail(tl) ==
  LET n == prev[Tail_(tl)] IN
  \/ prev[n] = None /\ given' = None /\ wanted' = None /\ UNCHANGED <<next, prev, tl_count, lists>>
  \/ prev[n] # None /\ removenode(n) /\ given' = n /\ Shrink(tl, Len(lists[tl]))

(* By a thread that is on the list. *)
insertafter(tl, i, t) == insertafternode(lists[tl][i], t) /\ Grow(tl, i + 1, t)
insertbefore(tl, i, t) == insertbeforenode(t, lists[tl][i]) /\ Grow(tl, i, t)
remove(tl, i) == removenode(lists[tl][i]) /\ given' = lists[tl][i] /\ Shrink(tl, i)

ListNext ==
  \E tl \in List :
    \/ \E t \in Unlisted : addhead(tl, t) \/ addtail(tl, t)
    \/ remhead(tl) \/ remtail(tl)
    \/ \E i \in DOMAIN lists[tl] :
         \/ \E t \in Unlisted : insertafter(tl, i, t) \/ insertbefore(tl, i, t)
         \/ remove(tl, i)

-----------------------------------------------------------------------------
(* The nodes of a list, its own two included. *)
Path(tl) == <<Head_(tl)>> \o lists[tl] \o <<Tail_(tl)>>

(* Whatever the operations of threadlist.c, in any order and on several    *)
(* lists: followed forwards or backwards from its own nodes, each list is  *)
(* the sequence it stands for; tl_count is its length, so that isempty and *)
(* the test in remhead agree; a thread is on no list exactly when its      *)
(* pointers are NULL, as threadlistnode_cleanup asserts; and remhead and   *)
(* remtail return the thread that was removed.                             *)
ListsAreSequences ==
  /\ \A tl \in List : LET p == Path(tl) IN
       /\ \A i \in 1..(Len(p) - 1) : next[p[i]] = p[i + 1] /\ prev[p[i + 1]] = p[i]
       /\ prev[Head_(tl)] = None /\ next[Tail_(tl)] = None
       /\ tl_count[tl] = Len(lists[tl]) /\ (isempty(tl) <=> next[next[Head_(tl)]] = None)
  /\ \A t \in Thread : t \in Unlisted <=> \A tl \in List : ~Contains(lists[tl], t)
  /\ given = wanted
=============================================================================
