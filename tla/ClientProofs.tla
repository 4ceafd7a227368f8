----------------------------- MODULE ClientProofs -----------------------------
(***************************************************************************)
(* Two clients of semaphores and locks: the disk driver keeps the requests *)
(* of its threads apart (Lhd), for any number of threads, sectors and      *)
(* media errors, and the cats and mice do not meet at a bowl (CatMouse),   *)
(* for any number of them and of bowls.                                    *)
(***************************************************************************)
EXTENDS Lhd, CatMouse, FiniteSetTheorems, TLAPS

(* The types of a request, of the registers of the card, and of lh_result. *)
Requests == [pc : {"idle", "loop", "start", "wait", "return"}, api : {"raw", "sfs"},
             rw : {"READ", "WRITE"}, off : Nat, resid : Nat, tries : Nat,
             res : {"OK", "EIO", "EFAULT"}]

Status == [state : {"IDLE", "WORKING", "OK", "MEDIA"}, rw : {"READ", "WRITE"}, sect : Nat,
           by : Thread \cup {NoData}]

Results == [code : {"OK", "EIO"}, by : Thread \cup {NoData}]

LhdTypeOK ==
  /\ clear \in Nat /\ done \in Nat
  /\ lh_result \in Results
  /\ stat \in Status
  /\ io \in [Thread -> Requests]

(* A request ends on the disk, and its loop starts a sector only if one is *)
(* left.                                                                   *)
OnDisk ==
  \A t \in Thread :
    /\ io[t].off + io[t].resid <= NSECT
    /\ io[t].pc = "start" => io[t].resid > 0
    /\ io[t].pc = "wait" /\ io[t].rw = "READ" => io[t].resid > 0

Inside(t) == io[t].pc \in {"start", "wait"}

(* Nobody is inside, and the disk is idle; *)
Clear == clear = 1 /\ done = 0 /\ stat.state = "IDLE" /\ \A t \in Thread : ~Inside(t)

(* or t alone is, and has not told the disk yet, *)
Starting(t) == io[t].pc = "start" /\ done = 0 /\ stat.state = "IDLE"

(* the disk is at work on the request of t, or has finished it, *)
Working(t) ==
  /\ io[t].pc = "wait" /\ done = 0 /\ stat.state # "IDLE" /\ stat.by = t /\ stat.rw = io[t].rw
  /\ io[t].rw = "READ" => stat.sect = io[t].off /\ (stat.state = "OK" => buf = platter[io[t].off])

(* or the result is there for t to take. *)
Done(t) ==
  /\ io[t].pc = "wait" /\ done = 1 /\ stat.state = "IDLE" /\ lh_result.by = t
  /\ io[t].rw = "READ" /\ lh_result.code = "OK" => buf = platter[io[t].off]

Alone(t) ==
  /\ clear = 0 /\ \A u \in Thread : Inside(u) => u = t
  /\ Starting(t) \/ Working(t) \/ Done(t)

OneInside == Clear \/ \E t \in Thread : Alone(t)

DiskInv == LhdTypeOK /\ OnDisk /\ OneInside

-----------------------------------------------------------------------------
(* The invariant holds after config_lhd. *)
LEMMA Initially == LhdInit => DiskInv
<1> SUFFICES ASSUME LhdInit PROVE DiskInv
  OBVIOUS
<1>1. LhdTypeOK
  BY DEF LhdInit, LhdTypeOK, Requests, Status, Results, Free, NoResult, IDLE
<1>2. OnDisk
  BY LhdAssumption DEF LhdInit, OnDisk, Free
<1>3. Clear
  BY DEF LhdInit, Clear, Inside, Free, IDLE
<1> QED
  BY <1>1, <1>2, <1>3 DEF DiskInv, OneInside

-----------------------------------------------------------------------------
(* What Set does, for a request that ends on the disk. *)
LEMMA Kept ==
  ASSUME LhdTypeOK, OnDisk, NEW t \in Thread, NEW r \in Requests, Set(t, r),
         r.off + r.resid <= NSECT, r.pc = "start" => r.resid > 0,
         r.pc = "wait" /\ r.rw = "READ" => r.resid > 0
  PROVE  /\ io' \in [Thread -> Requests] /\ OnDisk'
         /\ io'[t] = r /\ \A u \in Thread : u # t => io'[u] = io[u]
<1>1. /\ io' \in [Thread -> Requests]
      /\ io'[t] = r /\ \A u \in Thread : u # t => io'[u] = io[u]
  BY DEF LhdTypeOK, Set
<1> QED
  BY <1>1 DEF OnDisk

(* The fields of a request. *)
LEMMA Fields ==
  ASSUME LhdTypeOK, OnDisk, NEW t \in Thread
  PROVE  /\ io[t] \in Requests /\ io[t].off \in Nat /\ io[t].resid \in Nat /\ io[t].tries \in Nat
         /\ io[t].api \in {"raw", "sfs"} /\ io[t].rw \in {"READ", "WRITE"}
         /\ io[t].off + io[t].resid <= NSECT
         /\ io[t].pc = "start" => io[t].resid > 0
         /\ io[t].pc = "wait" /\ io[t].rw = "READ" => io[t].resid > 0
<1>1. io[t] \in Requests
  BY DEF LhdTypeOK
<1> QED
  BY <1>1 DEF Requests, OnDisk

(* A new request is one for sectors of the disk. *)
LEMMA NewRequest ==
  ASSUME LhdTypeOK, OnDisk, NEW t \in Thread, sfs_rwblock(t) \/ dev_io(t)
  PROVE  /\ io' \in [Thread -> Requests] /\ OnDisk'
         /\ io'[t].pc = "loop" /\ \A u \in Thread : u # t => io'[u] = io[u]
<1>1. ASSUME NEW api \in {"raw", "sfs"}, NEW rw \in {"READ", "WRITE"}, NEW off \in Nat, NEW len \in Nat,
             off + len <= NSECT,
             Set(t, [Free EXCEPT !.pc = "loop", !.api = api, !.rw = rw, !.off = off, !.resid = len])
      PROVE  /\ io' \in [Thread -> Requests] /\ OnDisk'
             /\ io'[t].pc = "loop" /\ \A u \in Thread : u # t => io'[u] = io[u]
  <2> DEFINE r == [Free EXCEPT !.pc = "loop", !.api = api, !.rw = rw, !.off = off, !.resid = len]
  <2>1. r \in Requests /\ r.pc = "loop" /\ r.off = off /\ r.resid = len
    BY Zenon DEF Free, Requests
  <2>2. Set(t, r)
    BY <1>1
  <2> HIDE DEF r
  <2> QED
    BY <1>1, <2>1, <2>2, Kept
<1>2. CASE sfs_rwblock(t)
  <2>1. PICK rw \in {"READ", "WRITE"}, off \in 0..(NSECT - 1) :
          Set(t, [Free EXCEPT !.pc = "loop", !.api = "sfs", !.rw = rw, !.off = off, !.resid = 1])
    BY Zenon, <1>2 DEF sfs_rwblock
  <2>2. off \in Nat /\ off + 1 <= NSECT
    BY LhdAssumption
  <2> QED
    BY Zenon, <1>1, <2>1, <2>2
<1>3. CASE dev_io(t)
  <2>1. PICK rw \in {"READ", "WRITE"}, off \in 0..NSECT, len \in 1..MaxLen :
          /\ off + len <= NSECT
          /\ Set(t, [Free EXCEPT !.pc = "loop", !.api = "raw", !.rw = rw, !.off = off, !.resid = len])
    BY Zenon, <1>3 DEF dev_io
  <2>2. off \in Nat /\ len \in Nat
    BY LhdAssumption
  <2> QED
    BY Zenon, <1>1, <2>1, <2>2
<1> QED
  BY <1>2, <1>3

(* A step that changes where t is in its request, and nothing else of it. *)
LEMMA GoesTo ==
  ASSUME LhdTypeOK, OnDisk, NEW t \in Thread, NEW to \in {"start", "wait"},
         io[t].resid > 0, Set(t, [io[t] EXCEPT !.pc = to])
  PROVE  /\ io' \in [Thread -> Requests] /\ OnDisk'
         /\ io'[t].pc = to /\ io'[t].rw = io[t].rw /\ io'[t].off = io[t].off
         /\ \A u \in Thread : u # t => io'[u] = io[u]
<1> DEFINE r == [io[t] EXCEPT !.pc = to]
<1>1. /\ r \in Requests /\ r.pc = to /\ r.rw = io[t].rw /\ r.off = io[t].off
      /\ r.resid = io[t].resid
  BY Zenon, Fields DEF Requests
<1>2. Set(t, r)
  OBVIOUS
<1> HIDE DEF r
<1> QED
  BY <1>1, <1>2, Fields, Kept

(* The same for a step that has moved a sector. *)
LEMMA Advances ==
  ASSUME LhdTypeOK, OnDisk, NEW t \in Thread, NEW to \in {"wait", "loop"},
         io[t].resid > 0, to = "wait" => io[t].rw = "WRITE",
         Set(t, [io[t] EXCEPT !.pc = to, !.off = @ + 1, !.resid = @ - 1])
  PROVE  /\ io' \in [Thread -> Requests] /\ OnDisk'
         /\ io'[t].pc = to /\ io'[t].rw = io[t].rw
         /\ \A u \in Thread : u # t => io'[u] = io[u]
<1> DEFINE off == io[t].off + 1
           resid == io[t].resid - 1
           r == [io[t] EXCEPT !.pc = to, !.off = off, !.resid = resid]
<1>1. off \in Nat /\ resid \in Nat /\ off + resid <= NSECT
  BY Fields, LhdAssumption
<1>2. Set(t, r)
  OBVIOUS
<1> HIDE DEF off, resid
<1>3. r \in Requests /\ r.pc = to /\ r.rw = io[t].rw /\ r.off = off /\ r.resid = resid
  BY Zenon, <1>1, Fields DEF Requests
<1> HIDE DEF r
<1> QED
  BY <1>1, <1>2, <1>3, Kept

(* And for one that leaves the sector loop or goes round in it. *)
LEMMA GoesOut ==
  ASSUME LhdTypeOK, OnDisk, NEW t \in Thread, NEW r \in Requests, Set(t, r),
         r.pc \notin {"start", "wait"},
         r = Free \/ (r.off = io[t].off /\ r.resid = io[t].resid)
  PROVE  /\ io' \in [Thread -> Requests] /\ OnDisk'
         /\ io'[t] = r /\ \A u \in Thread : u # t => io'[u] = io[u]
<1>1. r.off + r.resid <= NSECT
  BY Fields, LhdAssumption DEF Free
<1> QED
  BY <1>1, Kept

(* The record of a thread without a request. *)
LEMMA FreeIs == Free \in Requests /\ Free.pc = "idle"
  BY DEF Free, Requests

(* The record that retry leaves. *)
LEMMA TriesAgain ==
  ASSUME LhdTypeOK, OnDisk, NEW t \in Thread
  PROVE  LET r == [io[t] EXCEPT !.pc = "loop", !.tries = @ + 1] IN
         r \in Requests /\ r.pc = "loop" /\ r.off = io[t].off /\ r.resid = io[t].resid
<1> DEFINE n == io[t].tries + 1
<1>1. n \in Nat
  BY Fields
<1> HIDE DEF n
<1>2. LET r == [io[t] EXCEPT !.pc = "loop", !.tries = n] IN
      r \in Requests /\ r.pc = "loop" /\ r.off = io[t].off /\ r.resid = io[t].resid
  BY Zenon, <1>1, Fields DEF Requests
<1> QED
  BY <1>2 DEF n

-----------------------------------------------------------------------------
(* Who is inside, when something shows that somebody is. *)
LEMMA WhoIsInside ==
  ASSUME OneInside, NEW t \in Thread, Inside(t)
  PROVE  Alone(t)
  BY DEF OneInside, Clear, Alone

(* The disk works for the thread that is inside. *)
LEMMA DiskWorks ==
  ASSUME OneInside, stat.state # "IDLE"
  PROVE  \E t \in Thread : Alone(t) /\ Working(t)
  BY DEF OneInside, Clear, Alone, Starting, Done

(* A step of a thread that stays outside disturbs nobody. *)
LEMMA Outside ==
  ASSUME OneInside, NEW t \in Thread, ~Inside(t), ~Inside(t)',
         \A u \in Thread : u # t => io'[u] = io[u],
         UNCHANGED <<clear, done, lh_result, stat, buf, platter>>
  PROVE  OneInside'
<1>1. CASE Clear
  BY <1>1 DEF Clear, Inside, OneInside
<1>2. ASSUME NEW u \in Thread, Alone(u) PROVE Alone(u)'
  <2>1. u # t /\ io'[u] = io[u]
    BY <1>2 DEF Alone, Starting, Working, Done, Inside
  <2>2. \A v \in Thread : Inside(v)' => v = u
    BY <1>2 DEF Alone, Inside
  <2> QED
    BY <1>2, <2>1, <2>2 DEF Alone, Starting, Working, Done
<1> QED
  BY <1>1, <1>2 DEF OneInside

(* P(lh_clear) lets a thread in only if nobody is. *)
LEMMA Enters ==
  ASSUME DiskInv, NEW t \in Thread, P_clear(t)
  PROVE  DiskInv'
<1>0. LhdTypeOK /\ OnDisk /\ OneInside
  BY DEF DiskInv
<1>1. /\ io' \in [Thread -> Requests] /\ OnDisk' /\ io'[t].pc = "start"
      /\ \A u \in Thread : u # t => io'[u] = io[u]
  BY Zenon, <1>0, GoesTo DEF P_clear
<1>2. Clear
  BY <1>0 DEF P_clear, OneInside, Alone
<1>3. clear' = 0 /\ UNCHANGED <<done, lh_result, stat, buf, platter>>
  BY <1>2 DEF P_clear, Clear
<1>4. Alone(t)'
  BY <1>1, <1>2, <1>3 DEF Alone, Starting, Clear, Inside
<1> QED
  BY <1>0, <1>1, <1>3, <1>4 DEF DiskInv, LhdTypeOK, OneInside

(* The disk is told of the request of the thread that is inside. *)
LEMMA Starts ==
  ASSUME DiskInv, NEW t \in Thread, lhd_start(t)
  PROVE  DiskInv'
<1>0. LhdTypeOK /\ OnDisk /\ OneInside
  BY DEF DiskInv
<1>1. io[t].pc = "start" /\ io[t].resid > 0 /\ UNCHANGED <<clear, done, lh_result, platter>>
  BY <1>0, Fields DEF lhd_start
<1>2. Alone(t) /\ Starting(t)
  BY <1>0, <1>1, WhoIsInside DEF Inside, Alone, Starting, Working, Done
<1>3. /\ io' \in [Thread -> Requests] /\ OnDisk' /\ io'[t].pc = "wait" /\ io'[t].rw = io[t].rw
      /\ io[t].rw = "READ" => io'[t].off = io[t].off
      /\ \A u \in Thread : u # t => io'[u] = io[u]
  <2>1. CASE io[t].rw = "WRITE"
    <3>1. Set(t, [io[t] EXCEPT !.pc = "wait", !.off = @ + 1, !.resid = @ - 1])
      BY <2>1 DEF lhd_start
    <3> QED
      BY Zenon, <1>0, <1>1, <2>1, <3>1, Advances
  <2>2. CASE io[t].rw # "WRITE"
    <3>1. Set(t, [io[t] EXCEPT !.pc = "wait"])
      BY <2>2 DEF lhd_start
    <3> QED
      BY Zenon, <1>0, <1>1, <3>1, GoesTo
  <2> QED
    BY <2>1, <2>2
<1>4. /\ stat' \in Status /\ stat'.state = "WORKING" /\ stat'.rw = io[t].rw
      /\ stat'.sect = io[t].off /\ stat'.by = t
  BY <1>0, Fields DEF lhd_start, Status
<1>5. Working(t)'
  BY <1>1, <1>2, <1>3, <1>4 DEF Working, Starting
<1>6. Alone(t)'
  BY <1>1, <1>2, <1>3, <1>5 DEF Alone, Inside
<1> QED
  BY <1>0, <1>1, <1>3, <1>4, <1>6 DEF DiskInv, LhdTypeOK, OneInside

(* A thread whose buffer fails before the disk is told of its request      *)
(* leaves the disk idle.                                                   *)
LEMMA GivesUp ==
  ASSUME DiskInv, NEW t \in Thread, uiomove_fails(t)
  PROVE  DiskInv'
<1>0. LhdTypeOK /\ OnDisk /\ OneInside
  BY DEF DiskInv
<1>1. /\ io' \in [Thread -> Requests] /\ OnDisk' /\ io'[t].pc = "idle"
      /\ \A u \in Thread : u # t => io'[u] = io[u]
  <2>1. Set(t, Free)
    BY DEF uiomove_fails
  <2>2. Free \in Requests /\ Free.pc = "idle"
    BY FreeIs
  <2> QED
    BY <1>0, <2>1, <2>2, GoesOut
<1>2. Alone(t) /\ Starting(t)
  BY <1>0, WhoIsInside DEF uiomove_fails, Inside, Alone, Starting, Working, Done
<1>3. clear' = 1 /\ UNCHANGED <<done, lh_result, stat, buf, platter>>
  BY <1>2 DEF uiomove_fails, Alone
<1>4. Clear'
  BY <1>1, <1>2, <1>3 DEF Clear, Alone, Starting, Inside
<1> QED
  BY <1>0, <1>1, <1>3, <1>4 DEF DiskInv, LhdTypeOK, OneInside

(* A thread that has been woken takes its result and lets the next one in. *)
LEMMA Takes ==
  ASSUME DiskInv, NEW t \in Thread, P_done(t)
  PROVE  DiskInv'
<1>0. LhdTypeOK /\ OnDisk /\ OneInside
  BY DEF DiskInv
<1>1. io[t].pc = "wait" /\ done > 0
  BY DEF P_done
<1>2. Alone(t) /\ Done(t)
  BY <1>0, <1>1, WhoIsInside DEF Inside, Alone, Starting, Working, Done
<1>3. clear' = 1 /\ done' = 0 /\ lh_result' = NoResult /\ UNCHANGED <<stat, buf, platter>>
  BY <1>2 DEF P_done, Alone, Done
<1>4. /\ io' \in [Thread -> Requests] /\ OnDisk' /\ io'[t].pc \in {"loop", "return"}
      /\ \A u \in Thread : u # t => io'[u] = io[u]
  <2>1. PICK res \in {"OK", "EIO", "EFAULT"} : Set(t, Completed(t, res))
    <3> DEFINE Codes == {lh_result.code} \cup IF io[t].api = "raw" /\ io[t].rw = "READ" THEN {"EFAULT"} ELSE {}
    <3>1. Codes \subseteq {"OK", "EIO", "EFAULT"}
      <4>1. lh_result.code \in {"OK", "EIO"}
        BY <1>0 DEF LhdTypeOK, Results
      <4> QED
        BY <4>1
    <3>2. \E res \in Codes : Set(t, Completed(t, res))
      BY Zenon DEF P_done
    <3> HIDE DEF Codes
    <3> QED
      BY Zenon, <3>1, <3>2
  <2>2. CASE res # "OK"
    <3>1. Set(t, [io[t] EXCEPT !.pc = "return", !.res = res])
      BY <2>1, <2>2 DEF Completed
    <3> DEFINE r == [io[t] EXCEPT !.pc = "return", !.res = res]
    <3>2. r \in Requests /\ r.pc = "return" /\ r.off = io[t].off /\ r.resid = io[t].resid
      BY Zenon, <1>0, Fields DEF Requests
    <3>3. Set(t, r)
      BY <3>1
    <3> HIDE DEF r
    <3> QED
      BY <1>0, <3>2, <3>3, GoesOut
  <2>3. CASE res = "OK" /\ io[t].rw = "READ"
    <3>1. Set(t, [io[t] EXCEPT !.pc = "loop", !.off = @ + 1, !.resid = @ - 1]) /\ io[t].resid > 0
      BY <1>0, <1>1, <2>1, <2>3, Fields DEF Completed
    <3> QED
      BY Zenon, <1>0, <3>1, Advances
  <2>4. CASE res = "OK" /\ io[t].rw # "READ"
    <3>1. Set(t, [io[t] EXCEPT !.pc = "loop"])
      BY <2>1, <2>4 DEF Completed
    <3> DEFINE r == [io[t] EXCEPT !.pc = "loop"]
    <3>2. r \in Requests /\ r.pc = "loop" /\ r.off = io[t].off /\ r.resid = io[t].resid
      BY Zenon, <1>0, Fields DEF Requests
    <3>3. Set(t, r)
      BY <3>1
    <3> HIDE DEF r
    <3> QED
      BY <1>0, <3>2, <3>3, GoesOut
  <2> QED
    BY <2>2, <2>3, <2>4
<1>5. Clear'
  BY <1>2, <1>3, <1>4 DEF Clear, Alone, Done, Inside
<1>6. lh_result' \in Results
  BY <1>3 DEF NoResult, Results
<1> QED
  BY <1>0, <1>3, <1>4, <1>5, <1>6 DEF DiskInv, LhdTypeOK, OneInside

(* The steps of threads that are outside. *)
LEMMA Elsewhere ==
  ASSUME DiskInv, NEW t \in Thread,
         sfs_rwblock(t) \/ dev_io(t) \/ lhd_io_returns(t) \/ retry(t) \/ Return(t)
  PROVE  DiskInv'
<1>0. LhdTypeOK /\ OnDisk /\ OneInside
  BY DEF DiskInv
<1>1. ~Inside(t) /\ UNCHANGED <<clear, done, lh_result, stat, buf, platter>>
  BY Zenon DEF sfs_rwblock, dev_io, lhd_io_returns, retry, Return, Inside
<1>2. /\ io' \in [Thread -> Requests] /\ OnDisk' /\ io'[t].pc \notin {"start", "wait"}
      /\ \A u \in Thread : u # t => io'[u] = io[u]
  <2>0. ASSUME NEW r \in Requests, Set(t, r), r.pc \notin {"start", "wait"},
               r = Free \/ (r.off = io[t].off /\ r.resid = io[t].resid)
        PROVE  /\ io' \in [Thread -> Requests] /\ OnDisk' /\ io'[t].pc \notin {"start", "wait"}
               /\ \A u \in Thread : u # t => io'[u] = io[u]
    BY <1>0, <2>0, GoesOut
  <2>1. CASE sfs_rwblock(t) \/ dev_io(t)
    BY <1>0, <2>1, NewRequest
  <2>2. CASE lhd_io_returns(t)
    <3> DEFINE r == [io[t] EXCEPT !.pc = "return", !.res = "OK"]
    <3>1. r \in Requests /\ r.pc = "return" /\ r.off = io[t].off /\ r.resid = io[t].resid
      BY Zenon, <1>0, Fields DEF Requests
    <3>2. Set(t, r)
      BY <2>2 DEF lhd_io_returns
    <3> HIDE DEF r
    <3> QED
      BY <2>0, <3>1, <3>2
  <2>3. CASE retry(t)
    <3> DEFINE r == [io[t] EXCEPT !.pc = "loop", !.tries = @ + 1]
    <3>1. r \in Requests /\ r.pc = "loop" /\ r.off = io[t].off /\ r.resid = io[t].resid
      BY Zenon, <1>0, TriesAgain
    <3>2. Set(t, r)
      BY <2>3 DEF retry
    <3> HIDE DEF r
    <3> QED
      BY <2>0, <3>1, <3>2
  <2>4. CASE Return(t)
    <3>1. Free \in Requests /\ Free.pc = "idle"
      BY FreeIs
    <3>2. Set(t, Free)
      BY <2>4 DEF Return
    <3> QED
      BY <2>0, <3>1, <3>2
  <2> QED
    BY Zenon, <2>1, <2>2, <2>3, <2>4
<1>3. OneInside'
  BY <1>0, <1>1, <1>2, Outside DEF Inside
<1> QED
  BY <1>0, <1>1, <1>2, <1>3 DEF DiskInv, LhdTypeOK

-----------------------------------------------------------------------------
(* The disk and its interrupt handler serve the thread that is inside. *)
LEMMA DiskStep ==
  ASSUME DiskInv, Transfer \/ MediaError \/ lhd_irq
  PROVE  DiskInv'
<1>0. LhdTypeOK /\ OnDisk /\ OneInside
  BY DEF DiskInv
<1>1. stat.state # "IDLE" /\ clear' = clear /\ io' = io
  BY DEF Transfer, MediaError, lhd_irq
<1>2. PICK t \in Thread : Alone(t) /\ Working(t)
  BY <1>0, <1>1, DiskWorks
<1>3. \A u \in Thread : Inside(u)' => u = t
  BY <1>1, <1>2 DEF Alone, Inside
<1>4. OnDisk'
  BY <1>0, <1>1 DEF OnDisk
<1>5. stat \in Status /\ stat.by \in Thread \cup {NoData}
  BY <1>0 DEF LhdTypeOK, Status
<1>6. CASE Transfer \/ MediaError
  <2>1. PICK s \in {"OK", "MEDIA"} :
          /\ stat' = [stat EXCEPT !.state = s]
          /\ io[t].rw = "READ" /\ s = "OK" => buf' = platter[stat.sect] /\ platter' = platter
    BY <1>2, <1>6 DEF Transfer, MediaError, Working
  <2>2. /\ stat' \in Status /\ stat'.state = s /\ stat'.by = stat.by /\ stat'.rw = stat.rw
        /\ stat'.sect = stat.sect
    BY <1>5, <2>1 DEF Status
  <2>3. UNCHANGED <<done, lh_result>>
    BY <1>6 DEF Transfer, MediaError
  <2>4. Working(t)'
    BY <1>1, <1>2, <2>1, <2>2, <2>3 DEF Working
  <2> QED
    BY <1>0, <1>1, <1>2, <1>3, <1>4, <2>2, <2>3, <2>4 DEF DiskInv, LhdTypeOK, OneInside, Alone
<1>7. CASE lhd_irq
  <2>1. /\ stat' = IDLE /\ done' = 1 /\ UNCHANGED <<buf, platter>>
        /\ lh_result' = [code |-> IF stat.state = "OK" THEN "OK" ELSE "EIO", by |-> stat.by]
    BY <1>2, <1>7 DEF lhd_irq, Working
  <2>2. /\ lh_result' \in Results /\ lh_result'.by = t
        /\ lh_result'.code = "OK" => stat.state = "OK"
    BY <1>2, <1>5, <2>1 DEF Results, Working
  <2>3. stat' \in Status /\ stat'.state = "IDLE"
    BY <2>1 DEF Status, IDLE
  <2>4. Done(t)'
    BY <1>1, <1>2, <2>1, <2>2, <2>3 DEF Working, Done
  <2> QED
    BY <1>0, <1>1, <1>2, <1>3, <1>4, <2>1, <2>2, <2>3, <2>4 DEF DiskInv, LhdTypeOK, OneInside, Alone
<1> QED
  BY <1>6, <1>7

(* Every step keeps the invariant, *)
LEMMA Step == DiskInv /\ [LhdNext]_lhdvars => DiskInv'
<1> SUFFICES ASSUME DiskInv, [LhdNext]_lhdvars PROVE DiskInv'
  OBVIOUS
<1>1. ASSUME NEW t \in Thread, LhdStep(t) PROVE DiskInv'
  BY Zenon, <1>1, Elsewhere, Enters, Starts, GivesUp, Takes DEF LhdStep
<1>2. CASE Transfer \/ MediaError \/ lhd_irq
  BY <1>2, DiskStep
<1>3. CASE UNCHANGED lhdvars
  BY <1>3 DEF lhdvars, DiskInv, LhdTypeOK, OnDisk, OneInside, Clear, Alone, Starting, Working, Done, Inside
<1> QED
  BY <1>1, <1>2, <1>3 DEF LhdNext

(* which therefore always holds. *)
LEMMA Inductive == LhdSpec => []DiskInv
  BY Initially, Step, PTL DEF LhdSpec

-----------------------------------------------------------------------------
(* One thread at a time is between P(lh_clear) and V(lh_clear) in lhd_io,  *)
(* the result that lhd_irq wakes it for is that of its own request, and    *)
(* the data it takes from the card are those of the sector it asked for,   *)
(* whatever fails and is repeated meanwhile.                               *)
THEOREM RequestsKeptApart == LhdSpec => []RequestsApart
<1>1. ASSUME DiskInv PROVE RequestsApart
  <2> DEFINE In == {t \in Thread : io[t].pc \in {"start", "wait"}}
  <2>0. clear \in Nat /\ OneInside
    BY <1>1 DEF DiskInv, LhdTypeOK
  <2>1. clear + Cardinality(In) = 1
    <3>1. CASE Clear
      <4>1. In = {} /\ clear = 1
        BY <3>1 DEF Clear, Inside
      <4> QED
        BY <4>1, FS_EmptySet
    <3>2. ASSUME NEW t \in Thread, Alone(t) PROVE clear + Cardinality(In) = 1
      <4>1. In = {t} /\ clear = 0
        BY <3>2 DEF Alone, Starting, Working, Done, Inside
      <4>2. Cardinality({t}) = 1
        BY FS_Singleton
      <4> HIDE DEF In
      <4> QED
        BY <4>1, <4>2
    <3> HIDE DEF In
    <3> QED
      BY <2>0, <3>1, <3>2 DEF OneInside
  <2>2. ASSUME NEW t \in Thread, io[t].pc = "wait"
        PROVE  /\ IF done > 0 THEN lh_result.by = t ELSE stat.by = t /\ stat.state # "IDLE"
               /\ io[t].rw = "READ" /\ done > 0 /\ lh_result.code = "OK" => buf = platter[io[t].off]
    <3>1. Alone(t)
      BY <2>0, <2>2, WhoIsInside DEF Inside
    <3> QED
      BY <2>2, <3>1 DEF Alone, Starting, Working, Done
  <2> QED
    BY <2>1, <2>2 DEF RequestsApart
<1> QED
  BY <1>1, Inductive, PTL

(* lhd_io never asks the disk for a sector that it does not have, though   *)
(* it checks the bounds once, before its loop, and sfs_rwblock calls it    *)
(* again with a uio that an earlier try has moved on.                      *)
SectorsExist ==
  \A t \in Thread : io[t].pc = "start" => io[t].off \in 0..(NSECT - 1)

(* Every sector that lhd_io asks the disk for exists. *)
THEOREM RequestsOnDisk == LhdSpec => []SectorsExist
<1>1. ASSUME DiskInv PROVE SectorsExist
  <2>1. LhdTypeOK /\ OnDisk
    BY <1>1 DEF DiskInv
  <2> QED
    BY <2>1, Fields, LhdAssumption DEF SectorsExist
<1> QED
  BY <1>1, Inductive, PTL

-----------------------------------------------------------------------------
(* sp2.  A creature has a bowl from ChooseBowl on, and holds its lock      *)
(* until lock_release, which a cat calls before V and a mouse after it.    *)
Places == {"unborn", "sleep", "cv_wait", "asleep", "acquire", "P", "before", "eating", "release", "V", "broadcast",
           "stats", "exit", "gone"}
Holding(c) == {"P", "before", "eating", "release"} \cup IF c \in Cat THEN {} ELSE {"V"}

CatTypeOK ==
  /\ at \in [Creature -> Places]
  /\ bowl \in [Creature -> Nat]
  /\ bowl_locks \in [Bowl -> Nat]
  /\ eating \in [Bowl -> {"-", "c", "m"}]
  /\ \A c \in cats : c \in Creature /\ at[c] = "asleep"

BowlsHeld ==
  /\ \A c \in Creature : at[c] \notin {"unborn", "sleep"} => bowl[c] \in Bowl
  /\ \A c \in Creature : at[c] \in Holding(c) => bowl_locks[bowl[c]] = c

(* Whoever is marked in bowls[] is between the two halves of cat_eat or    *)
(* mouse_eat, or one of them has panicked.                                 *)
EatersEat == \A b \in Bowl : eating[b] # "-" => \E c \in Creature : at[c] = "eating" /\ bowl[c] = b

BowlInv == CatTypeOK /\ BowlsHeld /\ EatersEat

LEMMA CatsStart == catmouse_init => BowlInv
  BY CatMouseAssumption DEF catmouse_init, BowlInv, CatTypeOK, BowlsHeld, EatersEat, Places, Holding

(* A step of c between two places that keeps the bowls, and the locks of   *)
(* the creatures that hold one.                                            *)
LEMMA BowlsKept ==
  ASSUME BowlInv, CatTypeOK', eating' = eating,
         \A d \in Creature : at'[d] \notin {"unborn", "sleep"} => bowl'[d] \in Bowl,
         \A d \in Creature :
           at'[d] \in Holding(d) => at[d] \in Holding(d) /\ bowl'[d] = bowl[d] /\ bowl_locks'[bowl[d]] = bowl_locks[bowl[d]],
         \A d \in Creature : at[d] = "eating" => at'[d] = "eating" /\ bowl'[d] = bowl[d]
  PROVE  BowlInv'
<1>1. BowlsHeld'
  BY DEF BowlInv, BowlsHeld
<1>2. EatersEat'
  BY DEF BowlInv, EatersEat
<1> QED
  BY <1>1, <1>2 DEF BowlInv

LEMMA CatTypeKept ==
  ASSUME BowlInv, catmouse \/ \E c \in Creature : simulation(c)
  PROVE  CatTypeOK'
<1>1. CatTypeOK /\ BowlsHeld
  BY DEF BowlInv
<1> USE DEF CatTypeOK, Places, Go
<1>2. CASE catmouse
  BY <1>1, <1>2 DEF catmouse, Fork, Await
<1>3. ASSUME NEW c \in Creature, simulation(c) PROVE CatTypeOK'
  <2>1. c \in Nat
    BY CatMouseAssumption DEF Creature, Cat, Mouse
  <2>2. CASE ChooseBowl(c)
    BY <1>1, <2>2, CatMouseAssumption DEF ChooseBowl, Bowl
  <2>3. CASE cv_wait_cats(c)
    BY <1>1, <2>3 DEF cv_wait_cats
  <2>4. CASE lock_acquire(c)
    BY Zenon, <1>1, <2>1, <2>4 DEF lock_acquire
  <2>5. CASE P(c) \/ V(c)
    BY <1>1, <2>5 DEF P, V
  <2>6. CASE StartEating(c)
    BY Zenon, <1>1, <2>6 DEF StartEating, Kind
  <2>7. CASE StopEating(c)
    BY Zenon, <1>1, <2>7 DEF StopEating
  <2>8. CASE lock_release(c)
    BY Zenon, <1>1, <2>8 DEF lock_release
  <2>9. CASE cv_broadcast_cats(c)
    BY <1>1, <2>9 DEF cv_broadcast_cats
  <2>10. CASE EndLoop(c) \/ Finish(c)
    BY <1>1, <2>10 DEF EndLoop, Finish
  <2> QED
    BY Zenon, <1>3, <2>2, <2>3, <2>4, <2>5, <2>6, <2>7, <2>8, <2>9, <2>10 DEF simulation
<1> QED
  BY <1>2, <1>3

LEMMA BowlsMain ==
  ASSUME BowlInv, CatTypeOK', catmouse
  PROVE  BowlInv'
<1>1. CatTypeOK /\ BowlsHeld /\ EatersEat
  BY DEF BowlInv
<1>2. /\ eating' = eating /\ bowl' = bowl /\ bowl_locks' = bowl_locks
      /\ \A d \in Creature : at'[d] \in {at[d], "sleep"} /\ (at[d] = "eating" => at'[d] = at[d])
  BY <1>1 DEF CatTypeOK, Go, catmouse, Fork, Await
<1>3. \A d \in Creature : at'[d] \in Holding(d) => at'[d] = at[d]
  BY <1>2 DEF Holding
<1> QED
  BY <1>1, <1>2, <1>3, BowlsKept DEF BowlsHeld

LEMMA BowlsPlain ==
  ASSUME BowlInv, CatTypeOK', NEW c \in Creature, 
         ChooseBowl(c) \/ cv_wait_cats(c) \/ P(c) \/ V(c) \/ EndLoop(c) \/ Finish(c)
  PROVE  BowlInv'
<1>1. CatTypeOK /\ BowlsHeld /\ EatersEat
  BY DEF BowlInv
<1>2. /\ eating' = eating /\ bowl_locks' = bowl_locks
      /\ \A d \in Creature : d # c => at'[d] = at[d] /\ bowl'[d] = bowl[d]
      /\ at[c] # "eating"
      /\ \/ bowl'[c] \in Bowl /\ at'[c] \in {"cv_wait", "acquire"}
         \/ /\ bowl'[c] = bowl[c] /\ at[c] \notin {"unborn", "sleep"}
            /\ \/ at'[c] \in {"asleep", "stats", "sleep", "exit", "gone"}
               \/ at[c] = "P" /\ at'[c] = "before"
               \/ at[c] = "V" /\ c \notin Cat /\ at'[c] = "release"
  BY <1>1 DEF CatTypeOK, Go, ChooseBowl, cv_wait_cats, P, V, EndLoop, Finish
<1>3. at'[c] \in Holding(c) => at[c] \in Holding(c) /\ bowl'[c] = bowl[c]
  BY <1>2 DEF Holding
<1>4. at'[c] \notin {"unborn", "sleep"} => bowl'[c] \in Bowl
  BY <1>1, <1>2 DEF BowlsHeld
<1> QED
  BY <1>1, <1>2, <1>3, <1>4, BowlsKept DEF BowlsHeld

LEMMA BowlsAcquire ==
  ASSUME BowlInv, CatTypeOK', NEW c \in Creature, lock_acquire(c)
  PROVE  BowlInv'
<1>1. CatTypeOK /\ BowlsHeld /\ EatersEat
  BY DEF BowlInv
<1>2. /\ eating' = eating /\ bowl' = bowl /\ at[c] = "acquire" /\ at'[c] = "P"
      /\ \A d \in Creature : d # c => at'[d] = at[d]
      /\ bowl_locks[bowl[c]] = 0 /\ bowl[c] \in Bowl
      /\ bowl_locks'[bowl[c]] = c /\ \A b \in Bowl : b # bowl[c] => bowl_locks'[b] = bowl_locks[b]
  BY <1>1 DEF CatTypeOK, BowlsHeld, Go, lock_acquire
<1>3. \A d \in Creature : d # 0
  BY CatMouseAssumption DEF Creature, Cat, Mouse
<1>4. \A d \in Creature : at[d] \in Holding(d) => bowl[d] # bowl[c]
  BY <1>1, <1>2, <1>3 DEF BowlsHeld
<1>5. \A d \in Creature : at[d] \in Holding(d) => bowl[d] \in Bowl
  BY <1>1 DEF BowlsHeld, Holding
<1>6. BowlsHeld'
  BY <1>1, <1>2, <1>4, <1>5 DEF BowlsHeld
<1>7. EatersEat'
  BY <1>1, <1>2 DEF EatersEat
<1> QED
  BY <1>1, <1>6, <1>7 DEF BowlInv

LEMMA BowlsStart ==
  ASSUME BowlInv, CatTypeOK', NEW c \in Creature, StartEating(c)
  PROVE  BowlInv'
<1>1. CatTypeOK /\ BowlsHeld /\ EatersEat
  BY DEF BowlInv
<1>2. /\ bowl' = bowl /\ bowl_locks' = bowl_locks /\ at[c] = "before" /\ at'[c] = "eating"
      /\ \A d \in Creature : d # c => at'[d] = at[d]
      /\ \A b \in Bowl : b # bowl[c] => eating'[b] = eating[b]
  BY <1>1 DEF CatTypeOK, Go, StartEating
<1>3. BowlsHeld'
  BY <1>1, <1>2 DEF BowlsHeld, Holding
<1>4. EatersEat'
  BY <1>1, <1>2 DEF EatersEat
<1> QED
  BY <1>1, <1>3, <1>4 DEF BowlInv

LEMMA BowlsStop ==
  ASSUME BowlInv, CatTypeOK', NEW c \in Creature, StopEating(c)
  PROVE  BowlInv'
<1>1. CatTypeOK /\ BowlsHeld /\ EatersEat
  BY DEF BowlInv
<1>2. /\ bowl' = bowl /\ bowl_locks' = bowl_locks /\ at[c] = "eating"
      /\ at'[c] = IF c \in Cat THEN "release" ELSE "V"
      /\ \A d \in Creature : d # c => at'[d] = at[d]
      /\ bowl[c] \in Bowl /\ eating'[bowl[c]] = "-"
      /\ \A b \in Bowl : b # bowl[c] => eating'[b] = eating[b]
  BY <1>1 DEF CatTypeOK, BowlsHeld, Go, StopEating
<1>3. BowlsHeld'
  BY <1>1, <1>2 DEF BowlsHeld, Holding
<1>4. EatersEat'
  BY <1>1, <1>2 DEF EatersEat
<1> QED
  BY <1>1, <1>3, <1>4 DEF BowlInv

LEMMA BowlsRelease ==
  ASSUME BowlInv, CatTypeOK', NEW c \in Creature, lock_release(c)
  PROVE  BowlInv'
<1>1. CatTypeOK /\ BowlsHeld /\ EatersEat
  BY DEF BowlInv
<1>2. /\ eating' = eating /\ bowl' = bowl /\ at[c] = "release" /\ at'[c] = IF c \in Cat THEN "V" ELSE "broadcast"
      /\ \A d \in Creature : d # c => at'[d] = at[d]
      /\ \A b \in Bowl : b # bowl[c] => bowl_locks'[b] = bowl_locks[b]
  BY <1>1 DEF CatTypeOK, Go, lock_release
<1>3. at[c] \in Holding(c) /\ at'[c] \notin Holding(c)
  BY <1>2 DEF Holding
<1>4. \A d \in Creature : at'[d] \in Holding(d) => at[d] \in Holding(d) /\ bowl[d] # bowl[c] /\ bowl[d] \in Bowl
  <2>1. \A d \in Creature : at[d] \in Holding(d) => bowl[d] \in Bowl
    BY <1>1 DEF BowlsHeld, Holding
  <2> QED
    BY <1>1, <1>2, <1>3, <2>1 DEF BowlsHeld
<1>5. \A d \in Creature : at'[d] \notin {"unborn", "sleep"} => bowl'[d] \in Bowl
  BY <1>1, <1>2 DEF BowlsHeld
<1> QED
  BY <1>1, <1>2, <1>4, <1>5, BowlsKept

LEMMA BowlsBroadcast ==
  ASSUME BowlInv, CatTypeOK', NEW c \in Creature, cv_broadcast_cats(c)
  PROVE  BowlInv'
<1>1. CatTypeOK /\ BowlsHeld /\ EatersEat
  BY DEF BowlInv
<1>2. /\ eating' = eating /\ bowl' = bowl /\ bowl_locks' = bowl_locks /\ at[c] = "broadcast"
      /\ \A d \in Creature : \/ at'[d] = at[d]
                             \/ at[d] = "broadcast" /\ at'[d] = "stats"
                             \/ at[d] = "asleep" /\ at'[d] = "acquire"
  BY <1>1 DEF CatTypeOK, cv_broadcast_cats
<1>3. \A d \in Creature : at'[d] \in Holding(d) => at[d] \in Holding(d)
  BY <1>2 DEF Holding
<1>4. \A d \in Creature : at'[d] \notin {"unborn", "sleep"} => bowl'[d] \in Bowl
  BY <1>1, <1>2 DEF BowlsHeld
<1>5. \A d \in Creature : at[d] = "eating" => at'[d] = "eating"
  BY <1>2
<1> QED
  BY <1>1, <1>2, <1>3, <1>4, <1>5, BowlsKept

LEMMA CatsStep ==
  ASSUME BowlInv, catmouse \/ \E c \in Creature : simulation(c)
  PROVE  BowlInv'
<1>1. CatTypeOK'
  BY CatTypeKept
<1> QED
  BY Zenon, <1>1, BowlsMain, BowlsPlain, BowlsAcquire, BowlsStart, BowlsStop, BowlsRelease, BowlsBroadcast DEF simulation

(* Whoever is let to a bowl by cat_before_eating or mouse_before_eating    *)
(* finds nobody eating there: it alone holds the bowl's lock, however many *)
(* bowls, cats and mice there are.                                         *)
THEOREM BowlsAreFree == CatMouseSpec => []BowlIsFree
<1>1. BowlInv => BowlIsFree
  BY DEF BowlInv, BowlsHeld, EatersEat, BowlIsFree, Holding, CatTypeOK
<1>2. BowlInv /\ [catmouse \/ \E c \in Creature : simulation(c)]_catmousevars => BowlInv'
  <2>1. BowlInv /\ UNCHANGED catmousevars => BowlInv'
    BY DEF BowlInv, CatTypeOK, BowlsHeld, EatersEat, catmousevars
  <2> QED
    BY <2>1, CatsStep
<1> QED
  BY <1>1, <1>2, CatsStart, PTL DEF CatMouseSpec
=============================================================================
