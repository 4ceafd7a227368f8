----------------------------- MODULE FileTable -----------------------------
(***************************************************************************)
(* Open files: filetable_init, file_open and file_close of syscall/file.c, *)
(* sys_read and sys_write, and the copy of the table that sys_fork makes.  *)
(*                                                                         *)
(* A table and its spinlock belong to one thread, so what touches only the *)
(* table is one step.  The entries are reached from several tables after a *)
(* fork, each with its own copy of the spinlock, so reads and writes of an *)
(* entry are steps of their own.  File positions are left out, and so is   *)
(* what an access to a freed entry does: the access does not happen.       *)
(***************************************************************************)
EXTENDS Integers, FiniteSetsExt

CONSTANTS
  Thread,
  Entry,      \* memory for struct filetable_entry
  File,       \* vnodes other than the console's
  con,        \* the console's vnode
  NULL,
  OPEN_MAX,   \* at least 3
  MaxForks    \* bound: forks

Fd == 0 .. OPEN_MAX - 1
Vnode == File \cup {con}

VARIABLES
  table,      \* table[t]: t_filetable, its entries by descriptor
  heap,       \* the entries that are allocated
  entry,      \* entry[e]: filetable_vnode and filetable_count
  opens,      \* opens[v]: opens less closes of the vnode
  call,       \* call[t]: the system call t is in, its descriptor and register
  live,       \* the threads of the processes there are
  forks       \* history: how often a table has been copied

vars == <<table, heap, entry, opens, call, live, forks>>

NoTable == [fd \in Fd |-> NULL]
Idle == [op |-> "none", fd |-> 0, reg |-> 0]
Unused == [vnode |-> con, count |-> 0]

Init ==
  /\ table = [t \in Thread |-> NoTable]
  /\ heap = {}
  /\ entry = [e \in Entry |-> Unused]
  /\ opens = [v \in Vnode |-> 0]
  /\ call = [t \in Thread |-> Idle]
  /\ live = {}
  /\ forks = 0

(* kmalloc of an entry for vnode v, which vfs_open has opened. *)
NewEntry(e, v, count) ==
  /\ e \in Entry \ heap
  /\ heap' = heap \cup {e}
  /\ entry' = [entry EXCEPT ![e] = [vnode |-> v, count |-> count]]
  /\ opens' = [opens EXCEPT ![v] = @ + 1]

(* runprogram: descriptors 0, 1 and 2 share one entry for the console.     *)
(* The menu runs a program when there is no process.                       *)
filetable_init(t, e) ==
  /\ live = {} /\ live' = {t}
  /\ NewEntry(e, con, 3)
  /\ table' = [table EXCEPT ![t] = [fd \in Fd |-> IF fd < 3 THEN e ELSE NULL]]
  /\ UNCHANGED <<call, forks>>

(* The child gets a copy of the table; the counts stay. *)
sys_fork(t, u) ==
  /\ t \in live /\ call[t] = Idle
  /\ u \notin live /\ live' = live \cup {u}
  /\ table' = [table EXCEPT ![u] = table[t]]
  /\ forks < MaxForks /\ forks' = forks + 1
  /\ UNCHANGED <<heap, entry, opens, call>>

(* Nothing is closed; the table is left behind. *)
sys__exit(t) ==
  /\ t \in live /\ call[t] = Idle
  /\ live' = live \ {t}
  /\ table' = [table EXCEPT ![t] = NoTable]
  /\ UNCHANGED <<heap, entry, opens, call, forks>>

(* The lowest free descriptor; EMFILE when there is none. *)
file_open(t, e, v) ==
  LET free == {fd \in Fd : table[t][fd] = NULL} IN
  /\ t \in live /\ call[t] = Idle
  /\ free # {}
  /\ NewEntry(e, v, 1)
  /\ table' = [table EXCEPT ![t][Min(free)] = e]
  /\ UNCHANGED <<call, live, forks>>

(* A call on a descriptor begins: EBADF unless it is open.  file_close     *)
(* loads the count.  "io" is sys_read or sys_write: that sys_write keeps   *)
(* its own spinlock during the transfer makes no difference to others.     *)
Begin(t, op, fd) ==
  LET e == table[t][fd] IN
  /\ t \in live /\ call[t] = Idle
  /\ e # NULL /\ e \in heap
  /\ call' = [call EXCEPT ![t] = [op |-> op, fd |-> fd,
                                  reg |-> IF op = "close" THEN entry[e].count ELSE 0]]
  /\ UNCHANGED <<table, heap, entry, opens, live, forks>>

(* filetable_count-- is stored... *)
CloseStore(t) ==
  LET c == call[t]  e == table[t][c.fd] IN
  /\ c.op = "close" /\ e \in heap
  /\ entry' = [entry EXCEPT ![e].count = c.reg - 1]
  /\ call' = [call EXCEPT ![t].op = "test", ![t].reg = c.reg - 1]
  /\ UNCHANGED <<table, heap, opens, live, forks>>

(* ... and tested, from the register or from memory; at 0 the entry goes.  *)
CloseTest(t) ==
  LET c == call[t]  e == table[t][c.fd] IN
  /\ c.op = "test" /\ e \in heap
  /\ \E n \in {c.reg, entry[e].count} :
       IF n = 0
       THEN /\ opens' = [opens EXCEPT ![entry[e].vnode] = @ - 1]
            /\ heap' = heap \ {e}
            /\ entry' = [entry EXCEPT ![e] = Unused]
       ELSE UNCHANGED <<opens, heap, entry>>
  /\ table' = [table EXCEPT ![t][c.fd] = NULL]
  /\ call' = [call EXCEPT ![t] = Idle]
  /\ UNCHANGED <<live, forks>>

(* VOP_READ or VOP_WRITE returns, and the position in the entry advances   *)
(* unless it failed.                                                       *)
EndIO(t) ==
  /\ call[t].op = "io"
  /\ call' = [call EXCEPT ![t] = Idle]
  /\ UNCHANGED <<table, heap, entry, opens, live, forks>>

Next ==
  \E t \in Thread :
    \/ \E e \in Entry : filetable_init(t, e)
    \/ \E u \in Thread : sys_fork(t, u)
    \/ sys__exit(t)
    \/ \E e \in Entry, v \in Vnode : file_open(t, e, v)
    \/ \E op \in {"close", "io"}, fd \in Fd : Begin(t, op, fd)
    \/ CloseStore(t) \/ CloseTest(t) \/ EndIO(t)

Spec == Init /\ [][Next]_vars

-----------------------------------------------------------------------------
(* file_close frees an entry when "there is no other application using the *)
(* file": an open descriptor refers to an allocated entry whose vnode is   *)
(* open.                                                                   *)
DescriptorsUsable ==
  \A t \in Thread, fd \in Fd :
    LET e == table[t][fd] IN e # NULL => e \in heap /\ opens[entry[e].vnode] > 0
=============================================================================
