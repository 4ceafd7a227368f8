-------------------------------- MODULE Vfs --------------------------------
(***************************************************************************)
(* The VFS layer of src/vfs: known devices and what is mounted on them,    *)
(* the reference and open counts of vnodes, path lookup, current           *)
(* directories, the boot file system, and the operations on paths, used by *)
(* processes and by the menu's thread, which also runs the file system     *)
(* tests, at the same time.                                                *)
(*                                                                         *)
(* Each call that a vfs_* function makes is one step: it runs under        *)
(* vfs_biglock, which is released between the calls.  So between any two   *)
(* steps of one thread another one may remove, rename, unmount or shut     *)
(* down.  The devices are con (a character device), lhd0 (a disk, on which *)
(* an sfs may be mounted) and emu0 (an emufs that is always there; only    *)
(* its root is used here).                                                 *)
(*                                                                         *)
(* A vnode is <<device, k>>: k = -1 is the device itself, 0 the root of    *)
(* the file system on it and k > 0 a file.                                 *)
(***************************************************************************)
EXTENDS Integers, FiniteSets, Sequences, FiniteSetsExt, SequencesExt

CONSTANTS
  User,     \* the processes
  menu,     \* the kernel's menu thread
  UserPath, \* how the paths of these operations start, a subset of Start
  Name,     \* file names
  NFiles,   \* how many files the sfs has room for
  MaxStuck, \* bound: vnodes that sfs_reclaim could not write back
  None      \* no vnode

Thread == User \cup {menu}
Vnode == {<<"con", -1>>, <<"lhd0", -1>>, <<"emu0", 0>>} \cup ({"lhd0"} \X (0..NFiles))
IsDir(v) == v[2] = 0
IsDevice(v) == v[2] = -1

VARIABLES
  mounted,   \* kd_fs of lhd0 is not NULL
  ref,       \* vn_refcount; 0 when the vnode is not in memory
  open,      \* vn_opencount
  dir,       \* the directory of the sfs: name -> k, or 0
  bootfs,    \* bootfs_vnode
  cwd,       \* p_cwd of each thread's process
  fd,        \* the file a process has open
  task,      \* where each thread is: [pc, refs, name, flags]
  stuck,     \* history: the vnodes whose VOP_RECLAIM failed
  booted,    \* "boot", "up" or "down" after shutdown
  panicked   \* an assertion failed or a freed vnode was used

vfsvars == <<mounted, ref, open, dir, bootfs, cwd, fd, task, stuck, booted, panicked>>

Idle == [pc |-> "idle", refs |-> << >>, name |-> "", flags |-> {}]

(* vfs_bootstrap and the device configuration have run: dev_create_vnode   *)
(* and emufs_addtovfs give the device vnodes and the root of emu0 a        *)
(* reference that is never dropped.                                        *)
Permanent(v) == IF IsDevice(v) \/ v = <<"emu0", 0>> THEN 1 ELSE 0
Init ==
  /\ mounted = FALSE /\ booted = "boot" /\ panicked = FALSE
  /\ ref = [v \in Vnode |-> Permanent(v)] /\ open = [v \in Vnode |-> 0]
  /\ dir = [n \in Name |-> 0]
  /\ bootfs = None /\ cwd = [t \in Thread |-> None] /\ fd = [t \in Thread |-> None]
  /\ task = [t \in Thread |-> Idle] /\ stuck = {}

-----------------------------------------------------------------------------
(* A call works on a record of the counts, with the vnodes it reclaimed,   *)
(* an error code and a vnode to hand back.                                 *)
S == [ref |-> ref, open |-> open, dir |-> dir, gone |-> {}, err |-> "ok", ret |-> None]
Then(s, F(_)) == IF s.err = "ok" THEN F(s) ELSE s
Err(s, e) == [s EXCEPT !.err = e]
Ret(s, v) == [s EXCEPT !.ret = v]

(* vnode_check: the vnode of a call must be one that is in memory. *)
Live(s, v) == s.ref[v] > 0 /\ (v[1] = "lhd0" /\ ~IsDevice(v) => mounted)

vnode_incref(s, v) ==
  IF ~Live(s, v) THEN Err(s, "panic") ELSE Ret([s EXCEPT !.ref[v] = @ + 1], v)

(* The last reference of an sfs vnode reclaims it, and vnode_cleanup       *)
(* asserts that it is not open; dev_reclaim does nothing.  sfs_reclaim may *)
(* fail: see Step.                                                         *)
vnode_decref(s, v) ==
  CASE ~Live(s, v) -> Err(s, "panic")
    [] s.ref[v] > 1 -> [s EXCEPT !.ref[v] = @ - 1]
    [] s.ref[v] = 1 /\ Live(s, v) ->
         IF IsDevice(v) THEN s
         ELSE IF s.open[v] # 0 THEN Err(s, "panic")
         ELSE [s EXCEPT !.ref[v] = 0, !.gone = @ \cup {v}]

vnode_incopen(s, v) == IF ~Live(s, v) THEN Err(s, "panic") ELSE [s EXCEPT !.open[v] = @ + 1]
vnode_decopen(s, v) ==
  IF ~Live(s, v) \/ s.open[v] = 0 THEN Err(s, "panic") ELSE [s EXCEPT !.open[v] = @ - 1]

(* sfs_getroot and sfs_loadvnode load a vnode or take one more reference;  *)
(* emufs_getroot takes one more reference.                                 *)
loadvnode(s, v) == Ret([s EXCEPT !.ref[v] = @ + 1], v)

(* vfs_getroot.  lhd0 answers to its name and to its volume name while it  *)
(* is mounted, and lhd0raw is the device itself.                           *)
vfs_getroot(s, devname) ==
  CASE devname = "emu0" -> loadvnode(s, <<"emu0", 0>>)
    [] devname = "con" -> vnode_incref(s, <<"con", -1>>)
    [] devname = "lhd0raw" -> vnode_incref(s, <<"lhd0", -1>>)
    [] devname = "lhd0" -> IF mounted THEN loadvnode(s, <<"lhd0", 0>>) ELSE Err(s, "ENXIO")
    [] devname = "vol" -> IF mounted THEN loadvnode(s, <<"lhd0", 0>>) ELSE Err(s, "ENODEV")
    [] OTHER -> Err(s, "ENODEV")

vfs_getcurdir(s, t) == IF cwd[t] = None THEN Err(s, "ENOENT") ELSE vnode_incref(s, cwd[t])

(* getdevice: where the lookup of a path starts.  "" is a relative path,   *)
(* "/" the boot file system, ":" the root of the current file system, the  *)
(* others are device names.                                                *)
Start == {"", "/", ":", "emu0", "con", "lhd0raw", "lhd0", "vol"}
getdevice(s, t, start) ==
  CASE start = "" -> vfs_getcurdir(s, t)
    [] start = "/" -> IF bootfs = None THEN Err(s, "ENOENT") ELSE vnode_incref(s, bootfs)
    [] start = ":" -> Then(vfs_getcurdir(s, t), LAMBDA u :
                        IF IsDevice(u.ret) THEN Err(u, "panic")
                        ELSE Ret(vnode_decref(loadvnode(u, <<u.ret[1], 0>>), u.ret), <<u.ret[1], 0>>))
    [] OTHER -> vfs_getroot(s, start)

(* Looking a name up in the vnode that getdevice gave; a device has none,  *)
(* nor has emu0 here.                                                      *)
VOP_LOOKUP(s, v, name) ==
  IF v = <<"lhd0", 0>> /\ s.dir[name] # 0 THEN loadvnode(s, <<"lhd0", s.dir[name]>>)
  ELSE Err(s, "ENOENT")

Decref(s, v) == LET u == vnode_decref(s, v) IN IF u.err = "panic" THEN u ELSE Err(u, s.err)

vfs_lookup(s, t, start, name) ==
  Then(getdevice(s, t, start), LAMBDA u :
    IF name = "" THEN u ELSE Decref(VOP_LOOKUP(u, u.ret, name), u.ret))

(* Faulty variant: the error of a lookup keeps the reference to where it started. *)
vfs_lookparent_leaks(s, t, start, name) ==
  Then(getdevice(s, t, start), LAMBDA u :
    IF name = "" \/ ~IsDir(u.ret) THEN Err(u, "EINVAL")
    ELSE Decref(vnode_incref(u, u.ret), u.ret))

vfs_lookparent(s, t, start, name) ==
  Then(getdevice(s, t, start), LAMBDA u :
    Decref(IF name = "" \/ ~IsDir(u.ret) THEN Err(u, "EINVAL") ELSE vnode_incref(u, u.ret), u.ret))

-----------------------------------------------------------------------------
(* The operations of the sfs on its directory; Sfs has them in full.  The  *)
(* host that serves emu0 refuses them here; Emu has the rest.              *)
Free(s) == {k \in 1..NFiles : s.ref[<<"lhd0", k>>] = 0 /\ \A n \in Name : s.dir[n] # k}
VOP_CREAT(s, d, name, excl) ==
  CASE ~Live(s, d) -> Err(s, "panic")
    [] d # <<"lhd0", 0>> -> Err(s, "EIO")
    [] s.dir[name] # 0 /\ excl -> Err(s, "EEXIST")
    [] s.dir[name] # 0 /\ ~excl -> loadvnode(s, <<"lhd0", s.dir[name]>>)
    [] s.dir[name] = 0 /\ Free(s) = {} -> Err(s, "ENOSPC")
    [] s.dir[name] = 0 /\ Free(s) # {} -> LET k == Min(Free(s)) IN loadvnode([s EXCEPT !.dir[name] = k], <<"lhd0", k>>)
VOP_REMOVE(s, d, name) ==
  CASE ~Live(s, d) -> Err(s, "panic")
    [] d # <<"lhd0", 0>> -> Err(s, "EIO")
    [] OTHER -> IF s.dir[name] = 0 THEN Err(s, "ENOENT") ELSE [s EXCEPT !.dir[name] = 0]
VOP_RENAME(s, d1, n1, d2, n2) ==
  CASE ~Live(s, d1) \/ ~Live(s, d2) -> Err(s, "panic")
    [] d1[1] # d2[1] -> Err(s, "EXDEV")
    [] d1 # <<"lhd0", 0>> -> Err(s, "EIO")
    [] s.dir[n1] = 0 -> Err(s, "ENOENT")
    [] s.dir[n2] # 0 -> Err(s, "EEXIST")
    [] OTHER -> [s EXCEPT !.dir[n2] = s.dir[n1], !.dir[n1] = 0]
VOP_LINK(s, d, name, file) ==
  CASE ~Live(s, d) \/ ~Live(s, file) -> Err(s, "panic")
    [] d[1] # file[1] \/ IsDevice(file) -> Err(s, "EXDEV")
    [] d # <<"lhd0", 0>> -> Err(s, "EIO")
    [] s.dir[name] # 0 -> Err(s, "EEXIST")
    [] OTHER -> [s EXCEPT !.dir[name] = file[2]]

-----------------------------------------------------------------------------
(* One step of thread t: what the call did, and where t is then.  If the   *)
(* truncation of an unlinked file or the write of an inode fails,          *)
(* sfs_reclaim leaves the vnode in its table with the count at 1, and      *)
(* vnode_decref prints a warning: the reference is nobody's.               *)
Step(t, s, next) ==
  /\ \E failed \in SUBSET s.gone :
       /\ Cardinality(stuck \cup failed) <= MaxStuck
       /\ ref' = [v \in Vnode |-> IF v \in failed THEN s.ref[v] + 1 ELSE s.ref[v]]
       /\ stuck' = stuck \cup failed
  /\ open' = s.open /\ dir' = s.dir
  /\ panicked' = (s.err = "panic")
  /\ task' = [task EXCEPT ![t] = next]
At(t, pc) == booted # "boot" /\ ~panicked /\ task[t].pc = pc
Task(pc, refs, name, flags) == [pc |-> pc, refs |-> refs, name |-> name, flags |-> flags]
Go(t, pc, refs) == [task[t] EXCEPT !.pc = pc, !.refs = refs]
First(t) == task[t].refs[1]
Prompt == At(menu, "idle") /\ fd[menu] = None /\ booted = "up"  \* the menu may take a command
NoFs == UNCHANGED <<mounted, bootfs, booted>>

(* The VOP_DECREFs at the end of an operation, one after the other. *)
Release(t) ==
  /\ At(t, "release")
  /\ LET rest == Tail(task[t].refs) IN
     Step(t, vnode_decref(S, First(t)), IF rest = << >> THEN Idle ELSE Go(t, "release", rest))
  /\ UNCHANGED <<cwd, fd>> /\ NoFs

(* vfs_open: without O_CREAT it looks the path up, with it it looks the    *)
(* parent up, creates, and lets go of the parent.                          *)
Flags == {{}, {"write", "creat"}, {"write", "creat", "excl"}, {"write", "trunc"}, {"trunc"}}
vfs_open(t) ==
  /\ At(t, "idle") /\ fd[t] = None
  /\ \E start \in UserPath, name \in Name \cup {""}, flags \in Flags :
       LET parent == "creat" \in flags
           s == IF parent THEN vfs_lookparent(S, t, start, name) ELSE vfs_lookup(S, t, start, name)
       IN Step(t, s, IF s.err # "ok" THEN Idle
                     ELSE Task(IF parent THEN "creat" ELSE "vop_open", <<s.ret>>,
                               IF parent THEN name ELSE "", flags))
  /\ UNCHANGED <<cwd, fd>> /\ NoFs

open_creat(t) ==
  /\ At(t, "creat")
  /\ LET s == VOP_CREAT(S, First(t), task[t].name, "excl" \in task[t].flags) IN
     Step(t, s, IF s.err # "ok" THEN Go(t, "release", <<First(t)>>)
                ELSE Task("creat_done", <<First(t), s.ret>>, "", task[t].flags \ {"excl"}))
  /\ UNCHANGED <<cwd, fd>> /\ NoFs

creat_done(t) ==
  /\ At(t, "creat_done")
  /\ Step(t, vnode_decref(S, First(t)), Go(t, "vop_open", Tail(task[t].refs)))
  /\ UNCHANGED <<cwd, fd>> /\ NoFs

(* VOP_OPEN: sfs_opendir refuses to write to a directory, dev_open all     *)
(* flags but those of reading and writing.                                 *)
vop_open(t) ==
  /\ At(t, "vop_open")
  /\ LET v == First(t)
         refused == \/ IsDir(v) /\ "write" \in task[t].flags
                    \/ IsDevice(v) /\ task[t].flags \cap {"creat", "trunc"} # {}
     IN Step(t, IF Live(S, v) THEN S ELSE Err(S, "panic"),
             Go(t, IF refused THEN "release" ELSE "incopen", task[t].refs))
  /\ UNCHANGED <<cwd, fd>> /\ NoFs

open_incopen(t) ==
  /\ At(t, "incopen")
  /\ LET trunc == "trunc" \in task[t].flags IN
     /\ Step(t, vnode_incopen(S, First(t)), IF trunc THEN Go(t, "trunc", task[t].refs) ELSE Idle)
     /\ fd' = IF trunc THEN fd ELSE [fd EXCEPT ![t] = First(t)]
  /\ UNCHANGED cwd /\ NoFs

(* O_TRUNC needs write access; VOP_TRUNCATE itself may fail. *)
open_trunc(t) ==
  /\ At(t, "trunc")
  /\ \E fails \in BOOLEAN :
       /\ "write" \notin task[t].flags => fails
       /\ Step(t, IF Live(S, First(t)) THEN S ELSE Err(S, "panic"),
                IF fails THEN Go(t, "decopen", task[t].refs) ELSE Idle)
       /\ fd' = IF fails THEN fd ELSE [fd EXCEPT ![t] = First(t)]
  /\ UNCHANGED cwd /\ NoFs

Decopen(t) ==
  /\ At(t, "decopen")
  /\ Step(t, vnode_decopen(S, First(t)), Go(t, "release", task[t].refs))
  /\ UNCHANGED <<cwd, fd>> /\ NoFs

vfs_close(t) ==
  /\ At(t, "idle") /\ fd[t] # None
  /\ Step(t, vnode_decopen(S, fd[t]), Task("release", <<fd[t]>>, "", {}))
  /\ fd' = [fd EXCEPT ![t] = None]
  /\ UNCHANGED cwd /\ NoFs

-----------------------------------------------------------------------------
(* vfs_remove, and vfs_mkdir, vfs_rmdir and vfs_symlink, which fail with   *)
(* EUNIMP once the parent is found: lookparent, the operation, VOP_DECREF. *)
(* vfs_rename and vfs_link look two paths up before they act.              *)
Parent(t, pc) ==
  /\ At(t, "idle") /\ fd[t] = None
  /\ \E start \in UserPath, name \in Name \cup {""} :
       LET s == vfs_lookparent(S, t, start, name) IN
       Step(t, s, IF s.err # "ok" THEN Idle ELSE Task(pc, <<s.ret>>, name, {}))
  /\ UNCHANGED <<cwd, fd>> /\ NoFs

vfs_remove(t) == Parent(t, "remove")
vfs_mkdir(t) == Parent(t, "release")
vfs_rename(t) == Parent(t, "rename_to")

remove_name(t) ==
  /\ At(t, "remove")
  /\ Step(t, VOP_REMOVE(S, First(t), task[t].name), Task("release", <<First(t)>>, "", {}))
  /\ UNCHANGED <<cwd, fd>> /\ NoFs

vfs_link(t) ==
  /\ At(t, "idle") /\ fd[t] = None
  /\ \E start \in UserPath, name \in Name :
       LET s == vfs_lookup(S, t, start, name) IN
       Step(t, s, IF s.err # "ok" THEN Idle ELSE Task("link_to", <<s.ret>>, "", {}))
  /\ UNCHANGED <<cwd, fd>> /\ NoFs

(* The second path: the flag carries the new name to the operation. *)
SecondPath(t, pc, act) ==
  /\ At(t, pc)
  /\ \E start \in UserPath, name \in Name \cup {""} :
       LET s == vfs_lookparent(S, t, start, name) IN
       Step(t, s, IF s.err # "ok" THEN Task("release", task[t].refs, "", {})
                  ELSE Task(act, <<s.ret, First(t)>>, task[t].name, {name}))
  /\ UNCHANGED <<cwd, fd>> /\ NoFs
rename_to(t) == SecondPath(t, "rename_to", "rename")
link_to(t) == SecondPath(t, "link_to", "link")

rename_or_link(t) ==
  /\ task[t].pc \in {"rename", "link"} /\ At(t, task[t].pc)
  /\ LET old == task[t].refs[2]
         new == CHOOSE n \in task[t].flags : TRUE
         s == IF task[t].pc = "rename" THEN VOP_RENAME(S, old, task[t].name, First(t), new)
              ELSE VOP_LINK(S, First(t), new, old)
     IN Step(t, s, Task("release", task[t].refs, "", {}))
  /\ UNCHANGED <<cwd, fd>> /\ NoFs

-----------------------------------------------------------------------------
(* Current directories: cd (vfs_chdir and vfs_setcurdir) and pwd           *)
(* (vfs_getcwd) of the menu, and those that processes inherit and drop.    *)
vfs_chdir ==
  /\ Prompt
  /\ \E start \in Start, name \in Name \cup {""} :
       LET s == vfs_lookup(S, menu, start, name) IN
       Step(menu, s, IF s.err # "ok" THEN Idle ELSE Task("setcurdir", <<s.ret>>, "", {}))
  /\ UNCHANGED <<cwd, fd>> /\ NoFs

vfs_setcurdir ==
  /\ At(menu, "setcurdir")
  /\ LET v == First(menu) IN
     IF ~IsDir(v) THEN Step(menu, S, Go(menu, "release", <<v>>))
     ELSE Step(menu, vnode_incref(S, v), Go(menu, "setcwd", <<v>>))
  /\ UNCHANGED <<cwd, fd>> /\ NoFs

setcwd ==
  /\ At(menu, "setcwd")
  /\ LET v == First(menu)
         old == IF cwd[menu] = None THEN << >> ELSE <<cwd[menu]>>
     IN /\ cwd' = [cwd EXCEPT ![menu] = v]
        /\ Step(menu, S, Go(menu, "release", old \o <<v>>))
  /\ UNCHANGED fd /\ NoFs

vfs_getcwd ==
  /\ Prompt /\ cwd[menu] # None
  /\ LET s == vfs_getcurdir(S, menu) IN Step(menu, s, Task("cwdname", <<s.ret>>, "", {}))
  /\ UNCHANGED <<cwd, fd>> /\ NoFs

(* It asserts that the directory is of a file system and that the file     *)
(* system has a name: the volume's, or its device's (vfs_getdevname).      *)
cwdname ==
  /\ At(menu, "cwdname")
  /\ LET v == First(menu) IN
     Step(menu, IF IsDevice(v) \/ ~Live(S, v) THEN Err(S, "panic") ELSE S, Go(menu, "release", <<v>>))
  /\ UNCHANGED <<cwd, fd>> /\ NoFs

proc_inherit(t) ==
  /\ At(t, "idle") /\ Prompt
  /\ cwd[t] = None /\ cwd[menu] # None
  /\ Step(t, vnode_incref(S, cwd[menu]), Idle)
  /\ cwd' = [cwd EXCEPT ![t] = cwd[menu]]
  /\ UNCHANGED fd /\ NoFs

proc_destroy(t) ==
  /\ At(t, "idle") /\ fd[t] = None /\ cwd[t] # None
  /\ Step(t, vnode_decref(S, cwd[t]), Idle)
  /\ cwd' = [cwd EXCEPT ![t] = None]
  /\ UNCHANGED fd /\ NoFs

(* vfs_setbootfs, all of it under vfs_biglock: chdir to the device's root, *)
(* get the current directory and change bootfs_vnode.                      *)
setbootfs(dev) ==
  Then(vfs_lookup(S, menu, dev, ""), LAMBDA u :
    LET v == u.ret IN
    IF ~IsDir(v) THEN Err(vnode_decref(u, v), "ENOTDIR")
    ELSE LET Drop(s, old) == IF old = None THEN s ELSE vnode_decref(s, old)
             chdir == vnode_decref(Drop(vnode_incref(u, v), cwd[menu]), v)
         IN Ret(Drop(vnode_incref(chdir, v), bootfs), v))

vfs_setbootfs ==
  /\ ~panicked /\ task[menu] = Idle /\ fd[menu] = None /\ booted \in {"boot", "up"}
  /\ \E dev \in IF booted = "boot" THEN {"emu0"} ELSE Start \ {"", "/", ":"} :
       LET s == setbootfs(dev) IN
       /\ Step(menu, s, Idle)
       /\ bootfs' = IF s.err = "ok" THEN s.ret ELSE bootfs
       /\ cwd' = IF s.err = "ok" THEN [cwd EXCEPT ![menu] = s.ret] ELSE cwd
  /\ booted' = "up"
  /\ UNCHANGED <<mounted, fd>>

(* cmd_mount and cmd_unmount; sfs_unmount refuses while a vnode is loaded. *)
vfs_mount ==
  /\ Prompt /\ ~mounted
  /\ mounted' = TRUE
  /\ UNCHANGED <<ref, open, dir, bootfs, cwd, fd, task, stuck, booted, panicked>>

(* Faulty variant: a file system is busy only while a file is open. *)
BusyIfOpen == \E k \in 0..NFiles : open[<<"lhd0", k>>] > 0

Busy == \E k \in 0..NFiles : ref[<<"lhd0", k>>] > 0
vfs_unmount ==
  /\ Prompt /\ mounted
  /\ mounted' = Busy
  /\ UNCHANGED <<ref, open, dir, bootfs, cwd, fd, task, stuck, booted, panicked>>

(* shutdown: vfs_clearbootfs, vfs_clearcurdir, vfs_unmountall.  Processes  *)
(* may still be in the middle of something.                                *)
vfs_clearbootfs ==
  /\ Prompt
  /\ booted' = "down" /\ bootfs' = None
  /\ Step(menu, IF bootfs = None THEN S ELSE vnode_decref(S, bootfs), Task("clearcurdir", << >>, "", {}))
  /\ UNCHANGED <<mounted, cwd, fd>>

vfs_clearcurdir ==
  /\ At(menu, "clearcurdir")
  /\ cwd' = [cwd EXCEPT ![menu] = None]
  /\ Step(menu, IF cwd[menu] = None THEN S ELSE vnode_decref(S, cwd[menu]),
          Task("unmountall", << >>, "", {}))
  /\ UNCHANGED fd /\ NoFs

vfs_unmountall ==
  /\ At(menu, "unmountall")
  /\ mounted' = (mounted /\ Busy)
  /\ Step(menu, S, Task("halted", << >>, "", {}))
  /\ UNCHANGED <<bootfs, cwd, fd, booted>>

PathStep(t) ==
  \/ vfs_open(t) \/ open_creat(t) \/ creat_done(t) \/ vop_open(t) \/ open_incopen(t)
  \/ open_trunc(t) \/ Decopen(t) \/ vfs_close(t) \/ vfs_remove(t) \/ remove_name(t)
  \/ vfs_mkdir(t) \/ vfs_rename(t) \/ rename_to(t) \/ vfs_link(t) \/ link_to(t)
  \/ rename_or_link(t) \/ Release(t)

MenuStep ==
  \/ vfs_chdir \/ vfs_setcurdir \/ setcwd \/ vfs_getcwd \/ cwdname \/ vfs_setbootfs
  \/ vfs_mount \/ vfs_unmount \/ vfs_clearbootfs \/ vfs_clearcurdir \/ vfs_unmountall

Next == MenuStep \/ (\E t \in Thread : PathStep(t))
        \/ \E t \in User : proc_inherit(t) \/ proc_destroy(t)
Spec == Init /\ [][Next]_vfsvars

-----------------------------------------------------------------------------
(* The references to v: bootfs_vnode, the current directories, the open    *)
(* files and the local variables of operations in progress.                *)
Holders(v) ==
  Cardinality({t \in Thread : cwd[t] = v}) + Cardinality({t \in Thread : fd[t] = v})
  + (IF bootfs = v THEN 1 ELSE 0)
  + Cardinality({<<t, i>> \in Thread \X (1..3) : i \in DOMAIN task[t].refs /\ task[t].refs[i] = v})
  + Cardinality({t \in Thread : task[t].pc = "setcwd" /\ First(t) = v})

(* Wherever the threads are in their operations, the reference count of    *)
(* every vnode is exactly the number of references there are to it, and    *)
(* its open count the number of opens: a count too high would keep a file  *)
(* system busy for ever, one too low frees a vnode in use.  A vnode that   *)
(* sfs_reclaim could not write back, once, has one reference more than     *)
(* there is anyone to drop, and is never freed.                            *)
RefsCounted ==
  ~panicked => \A v \in Vnode :
    /\ ref[v] = Holders(v) + Permanent(v) + (IF v \in stuck THEN 1 ELSE 0)
    /\ open[v] = Cardinality({t \in Thread : fd[t] = v})
                 + Cardinality({t \in Thread : task[t].pc \in {"trunc", "decopen"} /\ First(t) = v})

(* No thread ever uses a vnode that was freed or whose file system was     *)
(* unmounted meanwhile, and no assertion of the VFS layer fails: what a    *)
(* thread found in one call is still there in the next.                    *)
NothingDangles == ~panicked
=============================================================================
