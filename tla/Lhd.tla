-------------------------------- MODULE Lhd --------------------------------
(***************************************************************************)
(* The disk driver, dev/lamebus/lhd.c, and the two ways to it: sfs_rwblock *)
(* (fs/sfs/sfs_io.c), one sector at a time, which repeats what failed, and *)
(* reads and writes of the raw device (vfs/device.c), which do not.        *)
(*                                                                         *)
(* lh_clear admits one thread at a time; lh_done is raised by the          *)
(* interrupt handler.  What is left of a request is its uio: uiomove moves *)
(* a sector and advances it.                                               *)
(***************************************************************************)
EXTENDS Integers, FiniteSets

CONSTANTS
  Thread,
  NSECT,      \* d_blocks
  MaxLen,     \* bound on the sectors of a request
  MaxTries,   \* how often sfs_rwblock retries (10)
  MaxErrors,  \* bound on the media errors of a behaviour
  NoData      \* no data, no request

ASSUME LhdAssumption ==
  /\ NSECT \in Nat \ {0} /\ MaxLen \in Nat /\ MaxTries \in Nat /\ MaxErrors \in Nat
  /\ NoData \notin Thread

VARIABLES
  clear,      \* count of lh_clear
  done,       \* count of lh_done
  lh_result,  \* [code, by]: by is history
  stat,       \* LHD_REG_STAT and LHD_REG_SECT: [state, rw, sect, by]
  buf,        \* the buffer on the card
  platter,    \* what is on the disk, by sector
  io,         \* io[t]: [pc, api, rw, off, resid, tries, res]
  errors,     \* how many media errors there have been
  untrue      \* history: a write was reported as done and is not on the disk

lhdvars == <<clear, done, lh_result, stat, buf, platter, io, errors, untrue>>

Free == [pc |-> "idle", api |-> "raw", rw |-> "READ", off |-> 0, resid |-> 0,
         tries |-> 0, res |-> "OK"]
NoResult == [code |-> "OK", by |-> NoData]
IDLE == [state |-> "IDLE", rw |-> "READ", sect |-> 0, by |-> NoData]

(* config_lhd *)
LhdInit ==
  /\ clear = 1 /\ done = 0 /\ lh_result = NoResult /\ stat = IDLE /\ buf = NoData
  /\ platter = [s \in 0..(NSECT - 1) |-> NoData]
  /\ io = [t \in Thread |-> Free] /\ errors = 0 /\ untrue = FALSE

Set(t, rec) == io' = [io EXCEPT ![t] = rec]

-----------------------------------------------------------------------------
(* sfs_rblock and sfs_wblock are called under vfs_biglock. *)
sfs_rwblock(t) ==
  /\ io[t].pc = "idle" /\ \A u \in Thread : io[u].pc # "idle" => io[u].api = "raw"
  /\ \E rw \in {"READ", "WRITE"}, off \in 0..(NSECT - 1) :
       Set(t, [Free EXCEPT !.pc = "loop", !.api = "sfs", !.rw = rw, !.off = off, !.resid = 1])
  /\ UNCHANGED <<clear, done, lh_result, stat, buf, platter, errors, untrue>>

(* dev_read and dev_write; lhd_io refuses what ends past the disk. *)
dev_io(t) ==
  /\ io[t].pc = "idle"
  /\ \E rw \in {"READ", "WRITE"}, off \in 0..NSECT, len \in 1..MaxLen :
       /\ off + len <= NSECT
       /\ Set(t, [Free EXCEPT !.pc = "loop", !.api = "raw", !.rw = rw, !.off = off, !.resid = len])
  /\ UNCHANGED <<clear, done, lh_result, stat, buf, platter, errors, untrue>>

(* Faulty variant: nobody waits for the device to be clear. *)
NoClear(t) ==
  /\ io[t].pc = "loop" /\ io[t].resid > 0
  /\ Set(t, [io[t] EXCEPT !.pc = "start"])
  /\ UNCHANGED <<clear, done, lh_result, stat, buf, platter, errors, untrue>>

P_clear(t) ==
  /\ io[t].pc = "loop" /\ io[t].resid > 0 /\ clear > 0
  /\ clear' = clear - 1
  /\ Set(t, [io[t] EXCEPT !.pc = "start"])
  /\ UNCHANGED <<done, lh_result, stat, buf, platter, errors, untrue>>

(* A write moves the caller's sector to the card: its uio is one sector    *)
(* shorter from then on.  For a user's buffer uiomove may fail.            *)
lhd_start(t) ==
  /\ io[t].pc = "start"
  /\ buf' = IF io[t].rw = "WRITE" THEN t ELSE buf
  /\ stat' = [state |-> "WORKING", rw |-> io[t].rw, sect |-> io[t].off, by |-> t]
  /\ Set(t, IF io[t].rw = "WRITE" THEN [io[t] EXCEPT !.pc = "wait", !.off = @ + 1, !.resid = @ - 1]
            ELSE [io[t] EXCEPT !.pc = "wait"])
  /\ UNCHANGED <<clear, done, lh_result, platter, errors, untrue>>

uiomove_fails(t) ==
  /\ io[t].pc = "start" /\ io[t].api = "raw" /\ io[t].rw = "WRITE"
  /\ clear' = clear + 1 /\ Set(t, Free)
  /\ UNCHANGED <<done, lh_result, stat, buf, platter, errors, untrue>>

(* The disk. *)
Transfer ==
  /\ stat.state = "WORKING"
  /\ stat' = [stat EXCEPT !.state = "OK"]
  /\ IF stat.rw = "WRITE" THEN platter' = [platter EXCEPT ![stat.sect] = buf] /\ UNCHANGED buf
     ELSE buf' = platter[stat.sect] /\ UNCHANGED platter
  /\ UNCHANGED <<clear, done, lh_result, io, errors, untrue>>

MediaError ==
  /\ stat.state = "WORKING" /\ errors < MaxErrors
  /\ stat' = [stat EXCEPT !.state = "MEDIA"] /\ errors' = errors + 1
  /\ UNCHANGED <<clear, done, lh_result, buf, platter, io, untrue>>

lhd_irq ==
  /\ stat.state \in {"OK", "MEDIA"}
  /\ lh_result' = [code |-> IF stat.state = "OK" THEN "OK" ELSE "EIO", by |-> stat.by]
  /\ stat' = IDLE /\ done' = done + 1
  /\ UNCHANGED <<clear, buf, platter, io, errors, untrue>>

(* The request of t after a sector: an error ends it, and the data of a    *)
(* read advance its uio.                                                   *)
Completed(t, res) ==
  CASE res # "OK" -> [io[t] EXCEPT !.pc = "return", !.res = res]
    [] io[t].rw = "READ" /\ res = "OK" -> [io[t] EXCEPT !.pc = "loop", !.off = @ + 1, !.resid = @ - 1]
    [] OTHER -> [io[t] EXCEPT !.pc = "loop"]

(* P(lh_done), the result, the data of a read, which go to the caller and  *)
(* may fail to if it is a user, and V(lh_clear).                           *)
P_done(t) ==
  /\ io[t].pc = "wait" /\ done > 0
  /\ done' = done - 1 /\ clear' = clear + 1 /\ lh_result' = NoResult
  /\ \E res \in {lh_result.code} \cup
                 IF lh_result.code = "OK" /\ io[t].api = "raw" /\ io[t].rw = "READ" THEN {"EFAULT"} ELSE {} :
       Set(t, Completed(t, res))
  /\ UNCHANGED <<stat, buf, platter, errors, untrue>>

lhd_io_returns(t) ==
  /\ io[t].pc = "loop" /\ io[t].resid = 0
  /\ Set(t, [io[t] EXCEPT !.pc = "return", !.res = "OK"])
  /\ UNCHANGED <<clear, done, lh_result, stat, buf, platter, errors, untrue>>

(* sfs_rwblock calls lhd_io again with the same uio after an error. *)
retry(t) ==
  /\ io[t].pc = "return" /\ io[t].api = "sfs" /\ io[t].res = "EIO" /\ io[t].tries < MaxTries
  /\ Set(t, [io[t] EXCEPT !.pc = "loop", !.tries = @ + 1])
  /\ UNCHANGED <<clear, done, lh_result, stat, buf, platter, errors, untrue>>

Return(t) ==
  /\ io[t].pc = "return"
  /\ io[t].api = "sfs" /\ io[t].res = "EIO" => io[t].tries = MaxTries
  /\ untrue' = (/\ io[t].rw = "WRITE" /\ io[t].res = "OK"
                /\ platter[io[t].off - 1] = NoData)
  /\ Set(t, Free)
  /\ UNCHANGED <<clear, done, lh_result, stat, buf, platter, errors>>

LhdStep(t) ==
  \/ sfs_rwblock(t) \/ dev_io(t) \/ P_clear(t) \/ lhd_start(t) \/ uiomove_fails(t)
  \/ P_done(t) \/ lhd_io_returns(t) \/ retry(t) \/ Return(t)

LhdNext == (\E t \in Thread : LhdStep(t)) \/ Transfer \/ MediaError \/ lhd_irq

LhdSpec == LhdInit /\ [][LhdNext]_lhdvars

-----------------------------------------------------------------------------
(* The threads' requests do not mix, also when some of them fail and are   *)
(* repeated: one thread at a time is between lh_clear and its V, the       *)
(* result it is woken for is that of its own request, and the data it then *)
(* takes from the card are those of the sector it asked for.               *)
RequestsApart ==
  /\ clear + Cardinality({t \in Thread : io[t].pc \in {"start", "wait"}}) = 1
  /\ \A t \in Thread : io[t].pc = "wait" =>
       IF done > 0 THEN lh_result.by = t ELSE stat.by = t /\ stat.state # "IDLE"
  /\ \A t \in Thread : io[t].pc = "wait" /\ io[t].rw = "READ" /\ done > 0
       /\ lh_result.code = "OK" => buf = platter[io[t].off]

(* sfs_rwblock repeats what failed ("I/O error, retrying"): when it        *)
(* reports that a sector was written, something was written there.         *)
WritesHappen == ~untrue
=============================================================================
