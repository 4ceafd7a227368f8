-------------------------------- MODULE Emu --------------------------------
(***************************************************************************)
(* emufs, the pass-through file system of dev/lamebus/emu.c: threads share *)
(* one device, which does one operation at a time and says with an         *)
(* interrupt that it has finished.  e_lock guards the device and           *)
(* vfs_biglock, which is recursive, the table of vnodes.                   *)
(*                                                                         *)
(* The device is external: it gives every file it opens a handle that is   *)
(* not in use, and may fail any operation.  What is read and written is    *)
(* left out.  Operations of emufs that neither use the device nor change   *)
(* the table (open, close, ioctl, fsync, and those that are refused) are   *)
(* not actions.                                                            *)
(***************************************************************************)
EXTENDS Integers, FiniteSets

CONSTANTS
  Thread,     \* the threads that use the file system
  NHANDLES,   \* handles of the device, EMU_ROOTHANDLE included
  Retries,    \* how often emu_close repeats a failed operation (10)
  MaxChunks,  \* bound on the EMU_MAXIO pieces of a read or write
  MaxOom,     \* bound on the failures of kmalloc in emufs_loadvnode
  None

ROOT == 0     \* EMU_ROOTHANDLE
Handle == 0..(NHANDLES - 1)

VARIABLES
  big,        \* vfs_biglock: [owner, depth]
  elock,      \* e_lock: its holder, or None
  esem,       \* count of e_sem
  e_result,   \* [code, by]: the result, and history: whose request it is of
  dev,        \* the device: [state, op, h, by, code], h being REG_HANDLE
  opened,     \* the handles that are open at the device
  vnodes,     \* ef_vnodes: handle -> vn_refcount, 0 if there is no vnode
  has,        \* has[t]: handle of the vnode that t has a reference to, or None
  th,         \* th[t]: [pc, op, h, tries, left]
  lost,       \* history: handles that the device would not close
  oom,        \* history: how often kmalloc failed in emufs_loadvnode
  confused    \* translate_err panicked, or a thread got another one's answer

emuvars == <<big, elock, esem, e_result, dev, opened, vnodes, has, th, lost, oom, confused>>

Idle == [pc |-> "idle", op |-> "none", h |-> ROOT, tries |-> 0, left |-> 0]
NoResult == [code |-> "none", by |-> None]
Quiet == [state |-> "idle", op |-> "none", h |-> ROOT, by |-> None, code |-> "none"]

(* config_emu and emufs_addtovfs: the root is loaded and stays. *)
EmuInit ==
  /\ big = [owner |-> None, depth |-> 0] /\ elock = None /\ esem = 0
  /\ e_result = NoResult /\ dev = Quiet /\ opened = {ROOT}
  /\ vnodes = [h \in Handle |-> IF h = ROOT THEN 1 ELSE 0]
  /\ has = [t \in Thread |-> None] /\ th = [t \in Thread |-> Idle]
  /\ lost = {} /\ oom = 0 /\ confused = FALSE

-----------------------------------------------------------------------------
MayBig(t) == big.owner \in {None, t}
TakeBig(t) == MayBig(t) /\ big' = [owner |-> t, depth |-> big.depth + 1]
(* Give up n levels of the lock. *)
Less(n) == [owner |-> IF big.depth = n THEN None ELSE big.owner, depth |-> big.depth - n]

Goto(t, rec) == th' = [th EXCEPT ![t] = rec]
At(t, pc) == ~confused /\ th[t].pc = pc

-----------------------------------------------------------------------------
(* emufs_getroot, called under vfs_biglock. *)
emufs_getroot(t) ==
  /\ At(t, "idle") /\ has[t] = None /\ MayBig(t)
  /\ vnodes' = [vnodes EXCEPT ![ROOT] = @ + 1]
  /\ has' = [has EXCEPT ![t] = ROOT]
  /\ UNCHANGED <<big, elock, esem, e_result, dev, opened, th, lost, oom, confused>>

(* VOP_LOOKUP comes with vfs_biglock held, VOP_CREAT does not. *)
emufs_lookup(t) ==
  /\ At(t, "idle") /\ has[t] = None /\ TakeBig(t)
  /\ Goto(t, [Idle EXCEPT !.pc = "elock", !.op = "OPEN"])
  /\ UNCHANGED <<elock, esem, e_result, dev, opened, vnodes, has, lost, oom, confused>>

emufs_creat(t) ==
  /\ At(t, "idle") /\ has[t] = None
  /\ \E op \in {"CREATE", "EXCLCREATE"} : Goto(t, [Idle EXCEPT !.pc = "elock", !.op = op])
  /\ UNCHANGED <<big, elock, esem, e_result, dev, opened, vnodes, has, lost, oom, confused>>

(* emufs_read and emufs_write go on piece by piece, emufs_getdirentry,     *)
(* emufs_stat and emufs_truncate are one operation of the device.          *)
emufs_io(t) ==
  /\ At(t, "idle") /\ has[t] # None
  /\ \E op \in {"READ", "READDIR", "WRITE", "GETSIZE", "TRUNC"}, n \in 1..MaxChunks :
       /\ op \notin {"READ", "WRITE"} => n = 1
       /\ Goto(t, [Idle EXCEPT !.pc = "elock", !.op = op, !.h = has[t], !.left = n])
  /\ UNCHANGED <<big, elock, esem, e_result, dev, opened, vnodes, has, lost, oom, confused>>

(* vnode_decref and, for the last reference, emufs_reclaim. *)
vnode_decref(t) ==
  /\ At(t, "idle") /\ has[t] # None /\ MayBig(t)
  /\ has' = [has EXCEPT ![t] = None]
  /\ IF vnodes[has[t]] > 1
     THEN /\ vnodes' = [vnodes EXCEPT ![has[t]] = @ - 1]
          /\ UNCHANGED <<big, th>>
     ELSE /\ big' = [owner |-> t, depth |-> big.depth + 2]
          /\ Goto(t, [Idle EXCEPT !.pc = "elock", !.op = "CLOSE", !.h = has[t]])
          /\ UNCHANGED vnodes
  /\ UNCHANGED <<elock, esem, e_result, dev, opened, lost, oom, confused>>

-----------------------------------------------------------------------------
(* Faulty variant: the device is used without e_lock. *)
NoLocking(t) ==
  /\ At(t, "elock")
  /\ Goto(t, [th[t] EXCEPT !.pc = "start"])
  /\ UNCHANGED <<big, elock, esem, e_result, dev, opened, vnodes, has, lost, oom, confused>>

lock_acquire(t) ==
  /\ At(t, "elock") /\ elock = None
  /\ elock' = t
  /\ Goto(t, [th[t] EXCEPT !.pc = "start"])
  /\ UNCHANGED <<big, esem, e_result, dev, opened, vnodes, has, lost, oom, confused>>

(* The registers are written, REG_OPER last.  emu_write first copies from  *)
(* the caller, which may fail.                                             *)
Closing == {"CLOSE", "UNDO_LOOKUP", "UNDO_CREAT"}
emu_wreg(t) ==
  /\ At(t, "start")
  /\ dev' = [state |-> "busy", h |-> th[t].h, by |-> t, code |-> "none",
             op |-> IF th[t].op \in Closing THEN "CLOSE" ELSE th[t].op]
  /\ Goto(t, [th[t] EXCEPT !.pc = "wait"])
  /\ UNCHANGED <<big, elock, esem, e_result, opened, vnodes, has, lost, oom, confused>>

emu_write_fails(t) ==
  /\ At(t, "start") /\ th[t].op = "WRITE"
  /\ elock' = None /\ Goto(t, Idle)
  /\ UNCHANGED <<big, esem, e_result, dev, opened, vnodes, has, lost, oom, confused>>

(* The device does what it is told, or fails. *)
Opens(op) == op \in {"OPEN", "CREATE", "EXCLCREATE"}
DeviceSucceeds ==
  /\ dev.state = "busy"
  /\ IF ~Opens(dev.op) /\ dev.h \notin opened
     THEN dev' = [dev EXCEPT !.state = "done", !.code = "BADHANDLE"] /\ UNCHANGED opened
     ELSE IF Opens(dev.op)
     THEN \E h \in Handle \ opened :
            /\ dev' = [dev EXCEPT !.state = "done", !.code = "SUCCESS", !.h = h]
            /\ opened' = opened \cup {h}
     ELSE /\ dev' = [dev EXCEPT !.state = "done", !.code = "SUCCESS"]
          /\ opened' = IF dev.op = "CLOSE" THEN opened \ {dev.h} ELSE opened
  /\ UNCHANGED <<big, elock, esem, e_result, vnodes, has, th, lost, oom, confused>>

DeviceFails ==
  /\ dev.state = "busy"
  /\ \E code \in {"MEDIA", "other"} : dev' = [dev EXCEPT !.state = "done", !.code = code]
  /\ UNCHANGED <<big, elock, esem, e_result, opened, vnodes, has, th, lost, oom, confused>>

emu_irq ==
  /\ dev.state = "done"
  /\ e_result' = [code |-> dev.code, by |-> dev.by]
  /\ dev' = [dev EXCEPT !.state = "idle", !.by = None, !.op = "none", !.code = "none"]
  /\ esem' = esem + 1
  /\ UNCHANGED <<big, elock, opened, vnodes, has, th, lost, oom, confused>>

-----------------------------------------------------------------------------
(* P(e_sem) and what follows it up to the release of e_lock. *)
emu_waitdone(t) ==
  /\ At(t, "wait") /\ esem > 0
  /\ esem' = esem - 1 /\ e_result' = NoResult
  /\ confused' = (e_result.by # t \/ e_result.code = "BADHANDLE")
  /\ UNCHANGED <<opened, has, oom>>

Ok == e_result.code = "SUCCESS"

(* emu_open: the new handle is read from REG_HANDLE.  When it fails,       *)
(* vfs_lookup gives vfs_biglock up.                                        *)
emu_open(t) ==
  /\ Opens(th[t].op) /\ emu_waitdone(t)
  /\ elock' = None
  /\ IF Ok THEN Goto(t, [th[t] EXCEPT !.pc = "load", !.h = dev.h]) /\ UNCHANGED big
     ELSE Goto(t, Idle) /\ big' = IF th[t].op = "OPEN" THEN Less(1) ELSE big
  /\ dev' = [dev EXCEPT !.h = ROOT]
  /\ UNCHANGED <<vnodes, lost>>

(* emu_close for emufs_reclaim, which holds both locks, and for a lookup   *)
(* or creat whose loadvnode failed, which takes only e_lock and ignores    *)
(* the result.                                                             *)
emu_close(t) ==
  /\ th[t].op \in Closing /\ emu_waitdone(t)
  /\ IF e_result.code = "MEDIA" /\ th[t].tries < Retries
     THEN /\ Goto(t, [th[t] EXCEPT !.pc = "start", !.tries = @ + 1])
          /\ UNCHANGED <<big, elock, vnodes, lost>>
     ELSE /\ elock' = None /\ Goto(t, Idle)
          /\ big' = CASE th[t].op = "CLOSE" -> Less(2)
                      [] th[t].op = "UNDO_LOOKUP" -> Less(1)
                      [] OTHER -> big
          /\ vnodes' = IF th[t].op = "CLOSE" /\ Ok THEN [vnodes EXCEPT ![th[t].h] = 0] ELSE vnodes
          /\ lost' = IF Ok THEN lost ELSE lost \cup {th[t].h}
  /\ dev' = [dev EXCEPT !.h = ROOT]

(* emu_doread, emu_write, emu_getsize, emu_trunc; uiomove may fail, and a  *)
(* read or write ends early when nothing was moved.                        *)
emu_iodone(t) ==
  /\ th[t].op \in {"READ", "READDIR", "WRITE", "GETSIZE", "TRUNC"} /\ emu_waitdone(t)
  /\ elock' = None
  /\ \E over \in {TRUE, ~Ok \/ th[t].left = 1} :
       Goto(t, IF over THEN Idle ELSE [th[t] EXCEPT !.pc = "elock", !.left = @ - 1])
  /\ dev' = [dev EXCEPT !.h = ROOT]
  /\ UNCHANGED <<big, vnodes, lost>>

-----------------------------------------------------------------------------
(* emufs_loadvnode: vfs_biglock, then e_lock, then all the rest. *)
load_biglock(t) ==
  /\ At(t, "load") /\ TakeBig(t)
  /\ Goto(t, [th[t] EXCEPT !.pc = "loading"])
  /\ UNCHANGED <<elock, esem, e_result, dev, opened, vnodes, has, lost, oom, confused>>

(* The levels of vfs_biglock that a call ends with: vfs_lookup has one.    *)
Outer(t) == IF th[t].op = "OPEN" THEN 1 ELSE 0

emufs_loadvnode(t) ==
  /\ At(t, "loading") /\ elock = None
  /\ vnodes' = [vnodes EXCEPT ![th[t].h] = @ + 1]
  /\ has' = [has EXCEPT ![t] = th[t].h]
  /\ big' = Less(1 + Outer(t)) /\ Goto(t, Idle)
  /\ UNCHANGED <<elock, esem, e_result, dev, opened, lost, oom, confused>>

(* The callers of a load that failed close the handle. *)
Undo(t) ==
  Goto(t, [th[t] EXCEPT !.pc = "elock",
                        !.op = IF Outer(t) = 1 THEN "UNDO_LOOKUP" ELSE "UNDO_CREAT"])

(* Faulty variant: the file stays open at the device. *)
loadvnode_forgets(t) ==
  /\ At(t, "loading") /\ elock = None /\ vnodes[th[t].h] = 0
  /\ big' = Less(1 + Outer(t)) /\ Goto(t, Idle)
  /\ UNCHANGED <<elock, esem, e_result, dev, opened, vnodes, has, lost, oom, confused>>

(* VOP_INIT or vnodearray_add fails: both locks are released. *)
loadvnode_fails(t) ==
  /\ At(t, "loading") /\ elock = None /\ vnodes[th[t].h] = 0
  /\ big' = Less(1) /\ Undo(t)
  /\ UNCHANGED <<elock, esem, e_result, dev, opened, vnodes, has, lost, oom, confused>>

(* kmalloc fails: vfs_biglock is not released. *)
loadvnode_oom(t) ==
  /\ At(t, "loading") /\ elock = None /\ vnodes[th[t].h] = 0
  /\ oom < MaxOom
  /\ oom' = oom + 1 /\ Undo(t)
  /\ UNCHANGED <<big, elock, esem, e_result, dev, opened, vnodes, has, lost, confused>>

EmuStep(t) ==
  \/ emufs_getroot(t) \/ emufs_lookup(t) \/ emufs_creat(t) \/ emufs_io(t) \/ vnode_decref(t)
  \/ lock_acquire(t) \/ emu_wreg(t) \/ emu_write_fails(t) \/ emu_open(t) \/ emu_close(t)
  \/ emu_iodone(t) \/ load_biglock(t) \/ emufs_loadvnode(t) \/ loadvnode_fails(t)
  \/ loadvnode_oom(t)

EmuNext == (\E t \in Thread : EmuStep(t)) \/ DeviceSucceeds \/ DeviceFails \/ emu_irq

-----------------------------------------------------------------------------
(* Every thread is woken for the answer to its own request, none is left   *)
(* over or lost, and the device is never asked about a handle that is not  *)
(* open (translate_err would panic): although lookups, reads and reclaims  *)
(* of all the threads go through one set of registers and one semaphore.   *)
AnswersMatch ==
  /\ ~confused
  /\ esem + (IF dev.state # "idle" THEN 1 ELSE 0)
       = Cardinality({t \in Thread : th[t].pc = "wait"})

(* When no call is in progress, e_lock is free, the device has exactly the *)
(* files of the vnodes in the table open (but for those it refused to      *)
(* close), reference counts are the references that threads have, and      *)
(* vfs_biglock is held once for every time that kmalloc failed in          *)
(* emufs_loadvnode, which then returns without releasing it: by all other  *)
(* paths, failing ones included, every level is given up.                  *)
NothingLeaks ==
  (\A t \in Thread : th[t].pc = "idle") /\ ~confused =>
    /\ big.depth = oom /\ elock = None
    /\ opened \ lost = {h \in Handle : vnodes[h] > 0} \ lost
    /\ \A h \in Handle \ lost :
         vnodes[h] = Cardinality({t \in Thread : has[t] = h}) + IF h = ROOT THEN 1 ELSE 0
=============================================================================
