------------------------------ MODULE Storage ------------------------------
(***************************************************************************)
(* The two layers of the file system side by side: sfs with its disk (Sfs) *)
(* and the VFS layer with its threads (Vfs).  They are checked in one run: *)
(* which one moves is chosen at the start, and the state of the other      *)
(* never changes.                                                          *)
(***************************************************************************)
EXTENDS Sfs, TLC

CONSTANTS
  Layer,     \* the layers to choose from: "vfs", "sfs"
  User, menu, UserPath, NFiles, MaxStuck, None,
  Path       \* the Name of Vfs

VARIABLES
  layer,
  v_mounted, ref, open, dir, bootfs, cwd, fd, task, stuck, booted, v_panicked

vfsvars == <<v_mounted, ref, open, dir, bootfs, cwd, fd, task, stuck, booted, v_panicked>>

V == INSTANCE Vfs WITH Name <- Path, mounted <- v_mounted, panicked <- v_panicked

StorageInit == layer \in Layer /\ V!Init /\ Init

StorageNext ==
  \/ layer = "vfs" /\ V!Next /\ UNCHANGED <<layer, vars>>
  \/ layer = "sfs" /\ Next /\ UNCHANGED <<layer, vfsvars>>

(* sfs only ever compares names. *)
NameSymmetry == Permutations(Name)

StorageSpec == StorageInit /\ [][StorageNext]_<<layer, vfsvars, vars>>

-----------------------------------------------------------------------------
(* The reference and open counts of every vnode are exactly the references *)
(* and opens there are, whatever the threads are in the middle of, with    *)
(* one more for a vnode that sfs_reclaim failed to write back.             *)
RefsCounted == V!RefsCounted

(* No thread uses a vnode that was freed or whose file system was          *)
(* unmounted since it found it, and no assertion of the VFS layer fails.   *)
NothingDangles == V!NothingDangles
=============================================================================
