-------------------------------- MODULE Sfs --------------------------------
(***************************************************************************)
(* The Simple File System of src/fs/sfs on one disk.  Every vnode and file *)
(* system operation runs from beginning to end under vfs_biglock, so each  *)
(* is one action; what can go wrong inside it is a read from the disk or a *)
(* kmalloc that fails.  An operation is a chain of operators that pass on  *)
(* a record S, the state it works on, with an error code `err' and a       *)
(* result `ret'; the fallible step number `fail' of the chain fails.       *)
(*                                                                         *)
(* A unit of file data stands for a directory entry's worth of bytes: a    *)
(* block holds BLOCKSIZE of them, and a directory entry is one.  The unit  *)
(* of zeros is << >>, a value v written to a file is <<v>>, and an entry  *)
(* is <<name, inode number>>.                                              *)
(***************************************************************************)
EXTENDS Integers, FiniteSets, Sequences, FiniteSetsExt, SequencesExt

CONSTANTS
  Name,         \* file names
  Value,        \* what is written to files
  Zeros,        \* the contents of a block of zeros
  NBLOCKS,      \* sp_nblocks
  BLOCKSIZE,    \* SFS_BLOCKSIZE in units
  NDIRECT,      \* SFS_NDIRECT
  DBPERIDB,     \* SFS_DBPERIDB
  Offsets,      \* the offsets and
  Lengths,      \* the lengths of the writes that are tried
  MaxOps,       \* bound on the operations that change names or contents
  MaxHeld,      \* bound on the references held to a file; one to the directory
  MaxFaults     \* bound on the failures of a behaviour

SB == 0          \* SFS_SB_LOCATION
ROOT == 1        \* SFS_ROOT_LOCATION
MAP == 2         \* SFS_MAP_LOCATION
READ == <<"read", "read", "read">>
Block == 0..(NBLOCKS - 1)

VARIABLES
  disk,         \* what is on the platter, by block
  mounted,      \* the file system is mounted
  freemap,      \* sfs_freemap: the blocks marked in use
  freemapdirty, \* sfs_freemapdirty
  vnodes,       \* sfs_vnodes: inode number -> sfs_vnode, for those loaded
  held,         \* the references that the callers hold, by inode number
  faults,       \* history: how many operations met a failure
  panicked,     \* the kernel has called panic
  ops           \* how many operations have changed names or contents

vars == <<disk, mounted, freemap, freemapdirty, vnodes, held, faults, panicked, ops>>

(* struct sfs_inode, and what a block of zeros is when read as an inode,   *)
(* an indirect block or data.                                              *)
NoInode == [type |-> "INVAL", size |-> 0, links |-> 0,
            direct |-> [k \in 0..(NDIRECT - 1) |-> 0], indirect |-> 0]
AsInode(c) == IF c = Zeros THEN NoInode ELSE c
AsIndirect(c) == IF c = Zeros THEN [k \in 0..(DBPERIDB - 1) |-> 0] ELSE c
AsData(c) == IF c = Zeros THEN [k \in 0..(BLOCKSIZE - 1) |-> << >>] ELSE c

(* What mksfs leaves on the disk: a root directory without entries. *)
MkSfs ==
  [b \in Block |-> CASE b = ROOT -> [NoInode EXCEPT !.type = "DIR", !.links = 1]
                     [] b = MAP -> {SB, ROOT, MAP}
                     [] OTHER -> Zeros]

Init ==
  /\ disk = MkSfs /\ mounted = FALSE /\ freemap = {} /\ freemapdirty = FALSE
  /\ vnodes = << >> /\ held = [b \in Block |-> 0] /\ faults = 0 /\ panicked = FALSE
  /\ ops = 0

-----------------------------------------------------------------------------
(* Chaining: the state an operation starts from, a step that follows only  *)
(* if the one before succeeded, a step that follows in any case, failing,  *)
(* panicking and handing back.                                             *)
S(f) == [disk |-> disk, map |-> freemap, mapdirty |-> freemapdirty, vn |-> vnodes,
         n |-> 0, fail |-> f, err |-> "ok", ret |-> 0, pos |-> 0, buf |-> << >>,
         ents |-> << >>, slot |-> -1]
Then(s, F(_)) == IF s.err = "ok" THEN F(s) ELSE s
After(s, F(_)) == F(s)
Err(s, e) == [s EXCEPT !.err = e]
Ret(s, v) == [s EXCEPT !.ret = v]
Ok(s) == [s EXCEPT !.err = "ok"]
May(s, e) == [s EXCEPT !.n = @ + 1, !.err = IF s.n + 1 = s.fail THEN e ELSE "ok"]

kmalloc(s) == May(s, "ENOMEM")
sfs_rblock(s, b) == Then(May(s, "EIO"), LAMBDA t : Ret(t, t.disk[b]))
(* sfs_rwblock does not report a failed write: see Lhd.  Writes succeed.   *)
sfs_wblock(s, b, c) == [s EXCEPT !.disk[b] = c]

Inode(s, ino) == s.vn[ino].i
SetInode(s, ino, i) == [s EXCEPT !.vn[ino].i = i, !.vn[ino].dirty = TRUE]
AddLinks(s, ino, d) == SetInode(s, ino, [Inode(s, ino) EXCEPT !.links = @ + d])

sfs_sync_inode(s, ino) ==
  IF s.vn[ino].dirty THEN [sfs_wblock(s, ino, Inode(s, ino)) EXCEPT !.vn[ino].dirty = FALSE]
  ELSE s

(* bitmap_alloc hands out the lowest block; it is cleared before use. *)
sfs_balloc(s) ==
  LET free == Block \ s.map IN
  IF free = {} THEN Err(s, "ENOSPC")
  ELSE LET b == Min(free) IN
       Ret(sfs_wblock([s EXCEPT !.map = @ \cup {b}, !.mapdirty = TRUE], b, Zeros), b)

(* bitmap_unmark asserts that the bit is set. *)
sfs_bfree(s, b) ==
  IF b \notin s.map THEN Err(s, "panic")
  ELSE [s EXCEPT !.map = @ \ {b}, !.mapdirty = TRUE]

sfs_bused(s, b) == IF b # 0 /\ b \notin s.map THEN Err(s, "panic") ELSE Ret(s, b)

-----------------------------------------------------------------------------
(* sfs_bmap: the disk block of a block of a file, allocated if need be.    *)
bmap_direct(s, ino, fb, doalloc) ==
  LET i == Inode(s, ino) IN
  IF i.direct[fb] = 0 /\ doalloc
  THEN Then(sfs_balloc(s), LAMBDA t : SetInode(t, ino, [i EXCEPT !.direct[fb] = t.ret]))
  ELSE Ret(s, i.direct[fb])

(* The contents of the indirect block, which is allocated if need be. *)
bmap_idbuf(s, ino) ==
  LET i == Inode(s, ino) IN
  IF i.indirect = 0
  THEN Then(sfs_balloc(s), LAMBDA t :
         Ret(SetInode(t, ino, [i EXCEPT !.indirect = t.ret]), AsIndirect(Zeros)))
  ELSE Then(sfs_rblock(s, i.indirect), LAMBDA t : Ret(t, AsIndirect(t.ret)))

bmap_indirect(s, ino, k, doalloc) ==
  IF k >= DBPERIDB THEN Err(s, "EFBIG")
  ELSE IF Inode(s, ino).indirect = 0 /\ ~doalloc THEN Ret(s, 0)
  ELSE Then(bmap_idbuf(s, ino), LAMBDA t :
         LET idbuf == t.ret IN
         IF idbuf[k] # 0 \/ ~doalloc THEN Ret(t, idbuf[k])
         ELSE Then(sfs_balloc(t), LAMBDA u :
                Ret(sfs_wblock(u, Inode(u, ino).indirect, [idbuf EXCEPT ![k] = u.ret]), u.ret)))

sfs_bmap(s, ino, fb, doalloc) ==
  Then(IF fb < NDIRECT THEN bmap_direct(s, ino, fb, doalloc)
       ELSE bmap_indirect(s, ino, fb - NDIRECT, doalloc),
       LAMBDA t : sfs_bused(t, t.ret))

(* One block's worth of a transfer, from unit `skip' of the block on; val  *)
(* is the unit written, or READ.  A whole block is written without being  *)
(* read first (sfs_blockio), part of one is read, changed and written back *)
(* (sfs_partialio).                                                        *)
IoBlock(s, ino, skip, len, val) ==
  LET reading == val = READ IN
  Then(sfs_bmap(s, ino, s.pos \div BLOCKSIZE, ~reading), LAMBDA t :
    LET b == t.ret IN
    Then(CASE b = 0 -> Ret(t, Zeros)
           [] b # 0 /\ ~reading /\ len = BLOCKSIZE -> t
           [] OTHER -> sfs_rblock(t, b),
         LAMBDA u :
           LET old == AsData(u.ret)
               new == [k \in 0..(BLOCKSIZE - 1) |->
                         IF k \in skip..(skip + len - 1) THEN val ELSE old[k]]
           IN IF reading
              THEN [u EXCEPT !.pos = @ + len, !.buf = @ \o [k \in 1..len |-> old[skip + k - 1]]]
              ELSE sfs_wblock([u EXCEPT !.pos = @ + len], b, IF len = BLOCKSIZE
                     THEN [k \in 0..(BLOCKSIZE - 1) |-> val] ELSE new)))

(* How sfs_io cuts off..(off + len - 1) into blocks: a leading partial     *)
(* block, whole blocks, a trailing partial block; <<skip, length>> each.   *)
Pieces(off, len) ==
  LET blkoff == off % BLOCKSIZE
      lead == IF blkoff = 0 THEN 0 ELSE Min({BLOCKSIZE - blkoff, len})
      rest == len - lead
      tail == rest % BLOCKSIZE
  IN (IF lead > 0 THEN <<<<blkoff, lead>>>> ELSE << >>)
     \o [k \in 1..(rest \div BLOCKSIZE) |-> <<0, BLOCKSIZE>>]
     \o (IF tail > 0 THEN <<<<0, tail>>>> ELSE << >>)

sfs_io(s, ino, off, len, val) ==
  LET size == Inode(s, ino).size
      amount == IF val # READ THEN len ELSE Max({0, Min({len, size - off})})
  IN After(FoldLeft(LAMBDA u, p : Then(u, LAMBDA v : IoBlock(v, ino, p[1], p[2], val)),
                    [s EXCEPT !.pos = off, !.buf = << >>], Pieces(off, amount)),
           LAMBDA t : IF val # READ /\ t.pos > size
                      THEN SetInode(t, ino, [Inode(t, ino) EXCEPT !.size = t.pos]) ELSE t)

-----------------------------------------------------------------------------
(* sfs_readdir for every slot there is (sfs_dir_nentries). *)
ReadEntries(s) ==
  FoldLeft(LAMBDA u, k : Then(u, LAMBDA v : Then(sfs_io(v, ROOT, k - 1, 1, READ),
             LAMBDA x : [x EXCEPT !.ents = Append(@, x.buf[1])])),
           [s EXCEPT !.ents = << >>], [k \in 1..Inode(s, ROOT).size |-> k])

(* sfs_dir_findname: ENOENT with the last empty slot, or -1; or the slot   *)
(* of the name and its inode number.                                       *)
sfs_dir_findname(s, name) ==
  Then(ReadEntries(s), LAMBDA t :
    LET hits == {k \in DOMAIN t.ents : Len(t.ents[k]) = 2 /\ t.ents[k][1] = name}
        empty == {k \in DOMAIN t.ents : t.ents[k] = << >>}
    IN CASE Cardinality(hits) > 1 -> Err(t, "panic")
         [] hits = {} -> Err([t EXCEPT !.slot = Max({k - 1 : k \in empty} \cup {-1})], "ENOENT")
         [] OTHER -> LET k == Max(hits) IN Ret([t EXCEPT !.slot = k - 1], t.ents[k][2]))

sfs_writedir(s, entry, slot) == [sfs_io(s, ROOT, slot, 1, entry) EXCEPT !.slot = slot]

(* Faulty variant: a name that is taken gets a second entry. *)
sfs_dir_link_again(s, name, ino) ==
  After(sfs_dir_findname(s, name), LAMBDA t :
    IF t.err \in {"ok", "ENOENT"}
    THEN sfs_writedir(Ok(t), <<name, ino>>, Inode(t, ROOT).size) ELSE t)

sfs_dir_link(s, name, ino) ==
  After(sfs_dir_findname(s, name), LAMBDA t :
    CASE t.err = "ok" -> Err(t, "EEXIST")
      [] t.err = "ENOENT" -> sfs_writedir(Ok(t), <<name, ino>>,
                               IF t.slot < 0 THEN Inode(t, ROOT).size ELSE t.slot)
      [] OTHER -> t)

sfs_dir_unlink(s, slot) == sfs_writedir(s, << >>, slot)

(* sfs_loadvnode: the vnode in the table, or a new one read from the disk. *)
NewVnode(t, ino, forcetype) ==
  LET i == AsInode(t.ret)
      v == [i |-> IF forcetype # "INVAL" THEN [i EXCEPT !.type = forcetype] ELSE i,
            dirty |-> forcetype # "INVAL", ref |-> 1]
  IN IF \/ forcetype # "INVAL" /\ i.type # "INVAL"
        \/ v.i.type = "INVAL"
     THEN Err(t, "panic")
     ELSE Then(kmalloc(t), LAMBDA u :
            Ret([u EXCEPT !.vn = [b \in DOMAIN @ \cup {ino} |-> IF b = ino THEN v ELSE @[b]]], ino))

sfs_loadvnode(s, ino, forcetype) ==
  CASE \E b \in DOMAIN s.vn : b \notin s.map -> Err(s, "panic")
    [] ino \in DOMAIN s.vn /\ forcetype # "INVAL" -> Err(s, "panic")
    [] ino \in DOMAIN s.vn -> Ret([s EXCEPT !.vn[ino].ref = @ + 1], ino)
    [] OTHER -> Then(kmalloc(s), LAMBDA t : Then(sfs_bused(t, ino), LAMBDA u :
                  Then(sfs_rblock(u, ino), LAMBDA v : NewVnode(v, ino, forcetype))))

sfs_lookonce(s, name) ==
  Then(sfs_dir_findname(s, name), LAMBDA t : Then(sfs_loadvnode(t, t.ret, "INVAL"), LAMBDA u :
    IF Inode(u, u.ret).links = 0 THEN Err(u, "panic") ELSE u))

sfs_makeobj(s, type) == Then(sfs_balloc(s), LAMBDA t : sfs_loadvnode(t, t.ret, type))

FreeAll(s, blocks) == FoldLeft(LAMBDA u, b : Then(u, LAMBDA v : sfs_bfree(v, b)),
                               s, SelectSeq(blocks, LAMBDA b : b # 0))

(* sfs_truncate; the comparisons with blocklen are those of the code. *)
truncate_indirect(s, ino, blocklen) ==
  LET i == Inode(s, ino) IN
  IF ~(blocklen < NDIRECT + DBPERIDB - 1 /\ i.indirect # 0) THEN s
  ELSE Then(sfs_rblock(s, i.indirect), LAMBDA t :
    LET idbuf == AsIndirect(t.ret)
        past == {j \in DOMAIN idbuf : blocklen < NDIRECT + j}
        kept == [j \in DOMAIN idbuf |-> IF j \in past THEN 0 ELSE idbuf[j]]
        gone == [k \in 1..DBPERIDB |-> IF k - 1 \in past THEN idbuf[k - 1] ELSE 0]
    IN Then(FreeAll(t, gone), LAMBDA u :
         IF \A j \in DOMAIN kept : kept[j] = 0
         THEN Then(FreeAll(u, <<i.indirect>>), LAMBDA v :
                SetInode(v, ino, [i EXCEPT !.indirect = 0]))
         ELSE IF kept # idbuf THEN sfs_wblock(u, i.indirect, kept) ELSE u))

(* Faulty variant: the direct blocks are freed and stay in the inode. *)
sfs_truncate_keeps(s, ino, len) ==
  LET blocklen == (len + BLOCKSIZE - 1) \div BLOCKSIZE
      i == Inode(s, ino)
      past == [k \in 1..NDIRECT |-> IF k - 1 >= blocklen THEN i.direct[k - 1] ELSE 0]
  IN Then(Then(FreeAll(s, past), LAMBDA v : truncate_indirect(v, ino, blocklen)),
          LAMBDA v : SetInode(v, ino, [Inode(v, ino) EXCEPT !.size = len]))

sfs_truncate(s, ino, len) ==
  LET blocklen == (len + BLOCKSIZE - 1) \div BLOCKSIZE
      i == Inode(s, ino)
      past == [k \in 1..NDIRECT |-> IF k - 1 >= blocklen THEN i.direct[k - 1] ELSE 0]
      kept == [k \in DOMAIN i.direct |-> IF k >= blocklen THEN 0 ELSE i.direct[k]]
  IN Then(FreeAll(s, past), LAMBDA t :
       Then(truncate_indirect(IF kept = i.direct THEN t
                              ELSE SetInode(t, ino, [i EXCEPT !.direct = kept]), ino, blocklen),
            LAMBDA v : SetInode(v, ino, [Inode(v, ino) EXCEPT !.size = len])))

(* Faulty variant: the inode of a removed file is not freed. *)
sfs_reclaim_leaks(s, ino) ==
  Then(IF Inode(s, ino).links = 0 THEN sfs_truncate(s, ino, 0) ELSE s, LAMBDA t :
    [sfs_sync_inode(t, ino) EXCEPT !.vn = [b \in DOMAIN @ \ {ino} |-> @[b]]])

sfs_reclaim(s, ino) ==
  LET orphan == Inode(s, ino).links = 0 IN
  Then(IF orphan THEN sfs_truncate(s, ino, 0) ELSE s, LAMBDA t :
    After(sfs_sync_inode(t, ino), LAMBDA u :
      Then(IF orphan THEN sfs_bfree(u, ino) ELSE u,
           LAMBDA v : [v EXCEPT !.vn = [b \in DOMAIN @ \ {ino} |-> @[b]]])))

(* VOP_DECREF: the last reference reclaims the vnode.  An error of reclaim *)
(* is only printed: the caller goes on with the result it had.             *)
vnode_decref(s, ino) ==
  IF s.vn[ino].ref > 1 THEN [s EXCEPT !.vn[ino].ref = @ - 1]
  ELSE After(sfs_reclaim(Ok(s), ino), LAMBDA t : IF t.err = "panic" THEN t ELSE Err(t, s.err))

-----------------------------------------------------------------------------
(* The operations.  MaxSteps bounds the number of the step that fails, and *)
(* is enough for a rename, which reads the directory twice; a failure is   *)
(* chosen only where the operation gets that far.                          *)
MaxSteps == 4 * (Cardinality(Name) + 1)
Changes == ops < MaxOps /\ ops' = ops + 1
Fault == {0} \cup IF faults < MaxFaults THEN 1..MaxSteps ELSE {}

Running == mounted /\ ~panicked
Commit(s) ==
  /\ s.n >= s.fail
  /\ disk' = s.disk /\ freemap' = s.map /\ freemapdirty' = s.mapdirty /\ vnodes' = s.vn
  /\ faults' = IF s.fail > 0 THEN faults + 1 ELSE faults
  /\ panicked' = (s.err = "panic")
  /\ UNCHANGED mounted
Keep(s) == Commit(s) /\ UNCHANGED held
(* The operation hands its caller a reference to the vnode it returns. *)
Hand(s) ==
  /\ Commit(s)
  /\ held' = IF s.err = "ok" THEN [held EXCEPT ![s.ret] = @ + 1] ELSE held
  /\ \A b \in Block : held'[b] <= IF b = ROOT THEN 1 ELSE MaxHeld

sfs_getroot ==
  /\ Running /\ UNCHANGED ops
  /\ \E f \in Fault : Hand(After(sfs_loadvnode(S(f), ROOT, "INVAL"), LAMBDA s :
       IF s.err = "ok" THEN s ELSE Err(s, "panic")))

(* VOP_INCREF, by anyone who has a reference; sfs_lookparent does it to    *)
(* the directory.                                                          *)
vnode_incref(i) ==
  /\ Running /\ UNCHANGED ops /\ held[i] > 0
  /\ Hand(Ret([S(0) EXCEPT !.vn[i].ref = @ + 1], i))

VOP_DECREF(i) ==
  /\ Running /\ UNCHANGED ops /\ held[i] > 0
  /\ \E f \in Fault : Commit(vnode_decref(S(f), i))
  /\ held' = [held EXCEPT ![i] = @ - 1]

(* On demand, and by sfs_close at the last close. *)
sfs_fsync(i) == Running /\ UNCHANGED ops /\ held[i] > 0 /\ Keep(sfs_sync_inode(S(0), i))

(* Operations on the root directory, by a caller that has its vnode. *)
InRoot == Running /\ held[ROOT] > 0

sfs_lookup(n) == InRoot /\ UNCHANGED ops /\ \E f \in Fault : Hand(sfs_lookonce(S(f), n))

creat(s, n, excl) ==
  After(sfs_dir_findname(s, n), LAMBDA t :
    CASE t.err = "ok" -> IF excl THEN Err(t, "EEXIST") ELSE sfs_loadvnode(t, t.ret, "INVAL")
      [] t.err = "ENOENT" ->
           Then(sfs_makeobj(Ok(t), "FILE"), LAMBDA u : After(sfs_dir_link(u, n, u.ret), LAMBDA v :
             LET ino == u.ret IN
             IF v.err # "ok" THEN vnode_decref(v, ino)
             ELSE Ret(AddLinks(v, ino, 1), ino)))
      [] OTHER -> t)
sfs_creat(n) == InRoot /\ Changes /\ \E f \in Fault, excl \in BOOLEAN : Hand(creat(S(f), n, excl))

sfs_link(n, i) ==
  /\ InRoot /\ held[i] > 0 /\ i # ROOT /\ Changes
  /\ \E f \in Fault : Keep(Then(sfs_dir_link(S(f), n, i), LAMBDA t :
       AddLinks(t, i, 1)))

sfs_remove(n) ==
  /\ InRoot /\ Changes
  /\ \E f \in Fault : Keep(Then(sfs_lookonce(S(f), n), LAMBDA t :
       vnode_decref(Then(sfs_dir_unlink(t, t.slot), LAMBDA u :
                      AddLinks(u, t.ret, -1)), t.ret)))

(* sfs_rename links the new name, then unlinks the old one; if that fails  *)
(* it takes the new name away again (puke_harder), and gives up if that    *)
(* fails too.                                                              *)
puke_harder(s, g1, slot2) ==
  After(sfs_dir_unlink(Ok(s), slot2), LAMBDA t :
    IF t.err # "ok" THEN Err(t, "panic") ELSE vnode_decref(Err(AddLinks(t, g1, -1), s.err), g1))

rename(s, n1, n2) ==
  Then(sfs_lookonce(s, n1), LAMBDA t : After(sfs_dir_link(t, n2, t.ret), LAMBDA u :
    LET g1 == t.ret IN
    IF u.err # "ok" THEN vnode_decref(u, g1)
    ELSE After(sfs_dir_unlink(AddLinks(u, g1, 1), t.slot), LAMBDA v :
           IF v.err = "ok" THEN vnode_decref(AddLinks(v, g1, -1), g1)
           ELSE puke_harder(v, g1, u.slot))))
sfs_rename(n1, n2) == InRoot /\ Changes /\ \E f \in Fault : Keep(rename(S(f), n1, n2))

sfs_write(i, off, len, v) ==
  /\ Running /\ held[i] > 0 /\ i # ROOT /\ Changes
  /\ \E f \in Fault : Keep(sfs_io(S(f), i, off, len, <<v>>))

(* VOP_TRUNCATE with length 0, the only one that the kernel asks for. *)
VOP_TRUNCATE(i) ==
  /\ Running /\ held[i] > 0 /\ i # ROOT /\ Changes
  /\ \E f \in Fault : Keep(sfs_truncate(S(f), i, 0))

-----------------------------------------------------------------------------
(* sfs_sync; the superblock is never dirty. *)
sync(s) ==
  After(FoldLeft(LAMBDA u, i : sfs_sync_inode(u, i), s, SetToSeq(DOMAIN s.vn)), LAMBDA t :
    IF t.mapdirty THEN [sfs_wblock(t, MAP, t.map) EXCEPT !.mapdirty = FALSE] ELSE t)
sfs_sync == Running /\ UNCHANGED ops /\ Keep(sync(S(0)))

(* sfs_domount: three allocations, the superblock and the free map.  Each  *)
(* error path frees what there is, and the file system is not mounted.     *)
sfs_domount ==
  /\ ~mounted /\ ~panicked
  /\ \E f \in Fault :
       LET s == Then(kmalloc(S(f)), LAMBDA t : Then(kmalloc(t), LAMBDA u :
                Then(sfs_rblock(u, SB), LAMBDA v : Then(kmalloc(v), LAMBDA w : sfs_rblock(w, MAP)))))
       IN /\ s.n >= s.fail
          /\ mounted' = (s.err = "ok")
          /\ freemap' = IF s.err = "ok" THEN s.ret ELSE {}
          /\ faults' = IF f > 0 THEN faults + 1 ELSE faults
  /\ UNCHANGED <<disk, freemapdirty, vnodes, held, panicked, ops>>

(* vfs_unmount: sfs_sync, then sfs_unmount, which refuses with EBUSY while *)
(* a vnode is loaded.                                                      *)
vfs_unmount ==
  /\ Running
  /\ LET s == sync(S(0)) IN
     IF DOMAIN s.vn # {} THEN Keep(s)
     ELSE /\ mounted' = FALSE /\ freemap' = {} /\ disk' = s.disk /\ freemapdirty' = s.mapdirty
          /\ UNCHANGED <<vnodes, held, faults, panicked>>
  /\ UNCHANGED ops

Next ==
  \/ sfs_getroot \/ sfs_sync \/ sfs_domount \/ vfs_unmount
  \/ \E i \in Block : \/ vnode_incref(i) \/ VOP_DECREF(i) \/ sfs_fsync(i) \/ VOP_TRUNCATE(i)
  \/ \E n \in Name : sfs_lookup(n) \/ sfs_creat(n) \/ sfs_remove(n)
  \/ \E n \in Name, i \in Block : sfs_link(n, i)
  \/ \E n1, n2 \in Name : sfs_rename(n1, n2)
  \/ \E i \in Block, off \in Offsets, len \in Lengths, v \in Value : sfs_write(i, off, len, v)

Spec == Init /\ [][Next]_vars

-----------------------------------------------------------------------------
(* The state as the callers may observe it: an inode is the one in memory  *)
(* if it is loaded, the one on the disk if not.                            *)
InodeOf(ino) == IF ino \in DOMAIN vnodes THEN vnodes[ino].i ELSE AsInode(disk[ino])
InUse == IF mounted THEN freemap ELSE disk[MAP]

(* <<file, index, block>> for every block a file uses: index -1 is the     *)
(* inode, -2 the indirect block, the others are blocks of the file.        *)
Pointers(ino) ==
  LET i == InodeOf(ino)
      idbuf == AsIndirect(disk[i.indirect])
  IN {<<ino, -1, ino>>, <<ino, -2, i.indirect>>}
     \cup {<<ino, k, i.direct[k]>> : k \in DOMAIN i.direct}
     \cup (IF i.indirect = 0 THEN {}
           ELSE {<<ino, NDIRECT + k, idbuf[k]>> : k \in DOMAIN idbuf})

DataOf(ino) ==
  LET i == InodeOf(ino)
      idbuf == AsIndirect(IF i.indirect = 0 THEN Zeros ELSE disk[i.indirect])
      blocks == [k \in 0..(NDIRECT + DBPERIDB - 1) |->
                   LET b == IF k < NDIRECT THEN i.direct[k] ELSE idbuf[k - NDIRECT]
                   IN AsData(IF b = 0 THEN Zeros ELSE disk[b])]
  IN [k \in 1..i.size |-> blocks[(k - 1) \div BLOCKSIZE][(k - 1) % BLOCKSIZE]]

Entries == {e \in Range(DataOf(ROOT)) : Len(e) = 2}
Files == {e[2] : e \in Entries}
Owned == {x \in UNION {Pointers(i) : i \in {ROOT} \cup Files \cup DOMAIN vnodes} : x[3] # 0}

(* Whatever failed on the way, no block belongs to two files, to one file  *)
(* twice or to the file system itself as well, and every block of a file   *)
(* that can be reached is marked in use: sfs_balloc never hands it out.    *)
BlocksOwnedOnce ==
  LET owned == Owned
      blocks == {x[3] : x \in owned}
  IN Cardinality(blocks) = Cardinality(owned) /\ blocks \subseteq InUse \ {SB, MAP}

(* As long as nothing has failed: exactly the blocks of reachable files    *)
(* are marked in use, so that space is never lost, also after an unmount;  *)
(* a link count is the number of entries that name the file; a vnode is    *)
(* loaded as often as it is referenced; and no consistency check panics.   *)
NothingLost ==
  faults = 0 =>
    /\ ~panicked
    /\ InUse = {SB, MAP} \cup {x[3] : x \in Owned}
    /\ LET root == DataOf(ROOT) IN
       \A i \in (Files \cup DOMAIN vnodes) \ {ROOT} :
         InodeOf(i).links = Cardinality({k \in DOMAIN root : Len(root[k]) = 2 /\ root[k][2] = i})
    /\ \A i \in Block : held[i] = IF i \in DOMAIN vnodes THEN vnodes[i].ref ELSE 0

(* FlatFs, with the names and files that the blocks and vnodes stand for. *)
Flat == INSTANCE FlatFs WITH
  Ino <- Block, Root <- ROOT, NoFile <- 0,
  names <- LET es == Entries IN
           [n \in Name |-> IF \E e \in es : e[1] = n THEN (CHOOSE e \in es : e[1] = n)[2] ELSE 0],
  data <- LET files == Files IN
          [i \in Block |-> IF i # ROOT /\ (i \in files \/ held[i] > 0) THEN DataOf(i) ELSE << >>]

(* The whole of sfs, with its caches, its allocation of blocks and its     *)
(* unmounting and mounting again, does what FlatFs promises: no operation  *)
(* changes a file other than the one it is about, a rename is atomic, a    *)
(* removed file lives until its last reference goes, and what was written  *)
(* is there after the file system was unmounted.                           *)
ImplementsFlatFs == Flat!FlatSpec
=============================================================================
