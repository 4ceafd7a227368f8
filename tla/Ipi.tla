-------------------------------- MODULE Ipi --------------------------------
(***************************************************************************)
(* Interprocessor interrupts: ipi_send, ipi_broadcast, ipi_tlbshootdown    *)
(* and interprocessor_interrupt of thread/thread.c, with the two callers   *)
(* that matter for their locks, thread_make_runnable and thread_shutdown,  *)
(* and the interrupt line of the system board.                             *)
(*                                                                         *)
(* The run queue itself is in module Sched; here a processor is just idle  *)
(* or not (c_isidle, under its run queue lock).  The code never looks at   *)
(* the mapping a shootdown names, so a shootdown is told from others by    *)
(* its place in the order of the posts since the last handling.            *)
(***************************************************************************)
EXTENDS Integers, Sequences

CONSTANTS
  CPU,               \* the processors
  boss,              \* the processor that shuts the system down
  NoCPU,             \* a free spinlock
  TLBSHOOTDOWN_MAX,  \* size of the shootdown table
  MaxPosts,          \* bound: shootdowns posted to a processor between two handlings
  Shutdown           \* whether boss may call thread_shutdown

TLBSHOOTDOWN_ALL == -1

VARIABLES
  pc,           \* pc[c]: where processor c is
  to,           \* to[c]: the processor c is sending to, or NoCPU
  left,         \* the processors ipi_broadcast has still to send to
  rqlock,       \* holder of c_runqueue_lock
  ipilock,      \* holder of c_ipi_lock
  isidle,       \* c_isidle
  pending,      \* c_ipi_pending, as a set of codes
  line,         \* the interprocessor interrupt line of c is up
  shootdown,    \* c_shootdown
  numshootdown, \* c_numshootdown
  posted        \* posted[c]: how many shootdowns were posted to c since the last handling

locks == <<rqlock, ipilock>>
tlb == <<shootdown, numshootdown, posted>>
vars == <<pc, to, left, locks, isidle, pending, line, tlb>>

Init ==
  /\ pc = [c \in CPU |-> "run"]
  /\ to = [c \in CPU |-> NoCPU]
  /\ left = {}
  /\ rqlock = [c \in CPU |-> NoCPU]
  /\ ipilock = [c \in CPU |-> NoCPU]
  /\ isidle = [c \in CPU |-> FALSE]
  /\ pending = [c \in CPU |-> {}]
  /\ line = [c \in CPU |-> FALSE]
  /\ shootdown = [c \in CPU |-> << >>]
  /\ numshootdown = [c \in CPU |-> 0]
  /\ posted = [c \in CPU |-> 0]

Goto(c, from, to_) ==
  /\ pc[c] = from
  /\ pc' = [pc EXCEPT ![c] = to_]

(* Under the target's IPI lock: set the bit and raise the line. *)
Signal(d, code) ==
  /\ ipilock[d] = NoCPU
  /\ pending' = [pending EXCEPT ![d] = @ \cup {code}]
  /\ line' = [line EXCEPT ![d] = TRUE]

-----------------------------------------------------------------------------
(* Senders *)

(* thread_make_runnable holds the run queue lock of an idle target... *)
MakeRunnable(c, d) ==
  /\ Goto(c, "run", "send")
  /\ d # c /\ rqlock[d] = NoCPU /\ isidle[d]
  /\ rqlock' = [rqlock EXCEPT ![d] = c]
  /\ to' = [to EXCEPT ![c] = d]
  /\ UNCHANGED <<left, ipilock, isidle, pending, line, tlb>>

(* ... while it calls ipi_send. *)
SendUnidle(c) ==
  /\ Goto(c, "send", "run")
  /\ Signal(to[c], "UNIDLE")
  /\ rqlock' = [rqlock EXCEPT ![to[c]] = NoCPU]
  /\ to' = [to EXCEPT ![c] = NoCPU]
  /\ UNCHANGED <<left, ipilock, isidle, tlb>>

(* The table after a post: the entry at the count is written. *)
Entered(d) ==
  IF numshootdown[d] \in 0..TLBSHOOTDOWN_MAX - 1
  THEN Append(SubSeq(shootdown[d], 1, numshootdown[d]), posted[d] + 1)
  ELSE shootdown[d]

(* With the count at TLBSHOOTDOWN_ALL the entry written is that before the *)
(* table, where c_ipi_pending and the lk_holder of c_runqueue_lock are.    *)
(* The address of a page has none of the bits of the IPI codes, so the     *)
(* requests pending are gone.  Whoever is holding the run queue lock fails *)
(* the assertion of spinlock_release; the target's own holds, in           *)
(* thread_switch, are one step here, so it may be in one.                  *)
BeforeTable(d) ==
  /\ pending' = [pending EXCEPT ![d] = {"TLBSHOOTDOWN"}]
  /\ \/ rqlock[d] = NoCPU /\ UNCHANGED pc
     \/ \E h \in CPU :
          /\ rqlock[d] = h \/ (rqlock[d] = NoCPU /\ h = d /\ pc[d] \in {"run", "relock"})
          /\ pc' = [pc EXCEPT ![h] = "panic"]

(* Faulty variant: a full table stays as it is. *)
ipi_tlbshootdownDropped(c, d) ==
  /\ pc[c] = "run" /\ d # c
  /\ posted[d] < MaxPosts
  /\ Signal(d, "TLBSHOOTDOWN")
  /\ shootdown' = [shootdown EXCEPT ![d] = Entered(d)]
  /\ numshootdown' = [numshootdown EXCEPT ![d] =
       IF @ = TLBSHOOTDOWN_MAX THEN @ ELSE @ + 1]
  /\ posted' = [posted EXCEPT ![d] = @ + 1]
  /\ UNCHANGED <<pc, to, left, locks, isidle>>

ipi_tlbshootdown(c, d) ==
  /\ pc[c] = "run" /\ d # c
  /\ posted[d] < MaxPosts
  /\ ipilock[d] = NoCPU
  /\ IF numshootdown[d] = TLBSHOOTDOWN_ALL THEN BeforeTable(d)
     ELSE pending' = [pending EXCEPT ![d] = @ \cup {"TLBSHOOTDOWN"}] /\ UNCHANGED pc
  /\ line' = [line EXCEPT ![d] = TRUE]
  /\ shootdown' = [shootdown EXCEPT ![d] = Entered(d)]
  /\ numshootdown' = [numshootdown EXCEPT ![d] =
       IF @ = TLBSHOOTDOWN_MAX THEN TLBSHOOTDOWN_ALL ELSE @ + 1]
  /\ posted' = [posted EXCEPT ![d] = @ + 1]
  /\ UNCHANGED <<to, left, locks, isidle>>

(* thread_shutdown: ipi_broadcast(IPI_OFFLINE), then interrupts off. *)
ShutdownCall ==
  /\ Shutdown
  /\ Goto(boss, "run", "broadcast")
  /\ left' = CPU \ {boss}
  /\ UNCHANGED <<to, locks, isidle, pending, line, tlb>>

SendOffline(d) ==
  /\ pc[boss] = "broadcast" /\ d \in left
  /\ Signal(d, "OFFLINE")
  /\ left' = left \ {d}
  /\ UNCHANGED <<pc, to, locks, isidle, tlb>>

ShutdownDone ==
  /\ Goto(boss, "broadcast", "off")
  /\ left = {}
  /\ UNCHANGED <<to, left, locks, isidle, pending, line, tlb>>

-----------------------------------------------------------------------------
(* Idling, as thread_switch does it: c_isidle changes under the run queue  *)
(* lock, and after any interrupt the queue is looked at again.             *)

GoIdle(c) ==
  /\ Goto(c, "run", "idle")
  /\ rqlock[c] = NoCPU
  /\ isidle' = [isidle EXCEPT ![c] = TRUE]
  /\ UNCHANGED <<to, left, locks, pending, line, tlb>>

OtherInterrupt(c) ==
  /\ Goto(c, "idle", "relock")
  /\ UNCHANGED <<to, left, locks, isidle, pending, line, tlb>>

Relock(c) ==
  /\ rqlock[c] = NoCPU
  /\ \/ Goto(c, "relock", "run") /\ isidle' = [isidle EXCEPT ![c] = FALSE]
     \/ Goto(c, "relock", "idle") /\ UNCHANGED isidle
  /\ UNCHANGED <<to, left, locks, pending, line, tlb>>

-----------------------------------------------------------------------------
(* mainbus_interrupt *)

Interrupt(c) ==
  /\ Goto(c, "run", "handler") \/ Goto(c, "idle", "handler")
  /\ line[c]
  /\ UNCHANGED <<to, left, locks, isidle, pending, line, tlb>>

(* The shootdowns whose mappings the handler invalidates. *)
Invalidated(c) ==
  IF numshootdown[c] = TLBSHOOTDOWN_ALL THEN 1..posted[c]
  ELSE {shootdown[c][i] : i \in 1..numshootdown[c]}

(* interprocessor_interrupt without an offline request. *)
Handle(c) ==
  /\ Goto(c, "handler", "clear")
  /\ ipilock[c] = NoCPU
  /\ "OFFLINE" \notin pending[c]
  /\ IF "TLBSHOOTDOWN" \in pending[c]
     THEN /\ posted' = [posted EXCEPT ![c] = 0]
          /\ numshootdown' = [numshootdown EXCEPT ![c] = 0]
          /\ shootdown' = [shootdown EXCEPT ![c] = << >>]
     ELSE UNCHANGED tlb
  /\ pending' = [pending EXCEPT ![c] = {}]
  /\ UNCHANGED <<to, left, locks, isidle, line>>

(* With one: keep the IPI lock, pass through the run queue lock, halt. *)
HandleOffline(c) ==
  /\ Goto(c, "handler", "offline")
  /\ ipilock[c] = NoCPU
  /\ "OFFLINE" \in pending[c]
  /\ ipilock' = [ipilock EXCEPT ![c] = c]
  /\ UNCHANGED <<to, left, rqlock, isidle, pending, line, tlb>>

Halt(c) ==
  /\ Goto(c, "offline", "halted")
  /\ rqlock[c] = NoCPU
  /\ UNCHANGED <<to, left, locks, isidle, pending, line, tlb>>

(* lamebus_clear_ipi, after the handler. *)
ClearIpi(c) ==
  /\ Goto(c, "clear", IF isidle[c] THEN "relock" ELSE "run")
  /\ line' = [line EXCEPT ![c] = FALSE]
  /\ UNCHANGED <<to, left, locks, isidle, pending, tlb>>

-----------------------------------------------------------------------------
Step(c) ==
  \/ SendUnidle(c) \/ Relock(c) \/ Interrupt(c)
  \/ Handle(c) \/ HandleOffline(c) \/ Halt(c) \/ ClearIpi(c)
  \/ c = boss /\ (ShutdownDone \/ \E d \in CPU : SendOffline(d))

Next ==
  \/ \E c \in CPU : Step(c) \/ GoIdle(c) \/ OtherInterrupt(c)
  \/ \E c, d \in CPU : MakeRunnable(c, d) \/ ipi_tlbshootdown(c, d)
  \/ ShutdownCall

(* A processor goes on with a call or a handler it is in, and takes an     *)
(* interrupt whose line stays up.                                          *)
Spec == Init /\ [][Next]_vars /\ \A c \in CPU : WF_vars(Step(c))

-----------------------------------------------------------------------------
(* How many of the posts the table has forgotten: with the count at        *)
(* TLBSHOOTDOWN_ALL one more post takes it to 0, and so every              *)
(* TLBSHOOTDOWN_MAX + 2 posts.                                             *)
Forgotten(c) == posted[c] - (posted[c] % (TLBSHOOTDOWN_MAX + 2))

(* What was posted to a processor and not handled yet, its next handling   *)
(* will invalidate: it is in the table, or the count says "all".  That is  *)
(* so of up to TLBSHOOTDOWN_MAX + 1 posts.  The post after them wipes the  *)
(* mark: it is lost with all before it, and the posts that follow it are   *)
(* covered again.                                                          *)
ShootdownsCovered ==
  \A c \in CPU : (Forgotten(c) + 1)..posted[c] \subseteq Invalidated(c)

(* Nothing posted is ever lost (cpu.h: "If c_numshootdown is -1            *)
(* (TLBSHOOTDOWN_ALL), all mappings should be invalidated."): what         *)
(* ShootdownsCovered would be if the mark stayed.                          *)
NoShootdownLost == \A c \in CPU : 1..posted[c] \subseteq Invalidated(c)

(* A request to go offline or to invalidate mappings is one the target     *)
(* will be interrupted for: the line stays up until the handler has seen   *)
(* the bit (cpu.h: "interprocessor_interrupt is called on the target CPU   *)
(* when an IPI is received.").  IPI_UNIDLE needs less: a processor that    *)
(* comes back from any interrupt looks at its run queue again.             *)
RequestsAreSeen == \A c \in CPU : pending[c] \subseteq {"UNIDLE"} \/ line[c]

(* A processor that has seen the request to go offline halts (thread.c:    *)
(* "At system shutdown, ask the other CPUs to switch off.").               *)
OfflineHalts == \A c \in CPU : pc[c] = "offline" ~> pc[c] = "halted"
=============================================================================
