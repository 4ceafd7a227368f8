---------------------------- MODULE ConsoleProofs ----------------------------
(***************************************************************************)
(* The console's driver keeps the rule of the serial port and the order of *)
(* the input (Console), for any number of writers, readers and pollers,    *)
(* any size of its buffer and any amount of input and output, on any bus   *)
(* (Lamebus). The inductive invariant has a part for the port and its      *)
(* lock, one for the permission to write and one for the input; every step *)
(* is shown to keep each.                                                  *)
(***************************************************************************)
EXTENDS Console, FiniteSetTheorems, TLAPS

HandlerPCs == {"idle", "enter", "handler", "reload"}
PortPCs == {"start", "input", "inputV"}

(* The interrupt handler is in the bus's part or in the port's. *)
IcOK == /\ ic = [pc |-> ic.pc, slot |-> ic.slot, dthis |-> ic.dthis]
        /\ ic.pc \in HandlerPCs \cup PortPCs

(* ls_lock and the port *)
Pols == [pc : {"idle", "begin", "busy", "send", "wait", "complete"}, irqpending : BOOLEAN]
PortTypes ==
  /\ lserlock \in Poller \cup {None}
  /\ wbusy \in BOOLEAN /\ sending \in BOOLEAN /\ wirq \in BOOLEAN
  /\ pol \in [Poller -> Pols]

(* When ls_lock is free, the port is busy exactly when a character is on   *)
(* its way or its interrupt is pending; a poller that has the lock has put *)
(* aside whether the port was busy.                                        *)
Waiting == (sending /\ ~wirq) \/ (~sending /\ wirq)
PolOK(p) ==
  /\ pol[p].pc \in {"busy", "send", "wait"} <=> lserlock = p
  /\ lserlock = p => (pol[p].irqpending <=> wbusy)
  /\ pol[p].pc = "busy" => wbusy /\ Waiting
  /\ pol[p].pc = "send" => ~sending /\ ~wirq
  /\ pol[p].pc = "wait" => Waiting
FreeOK == lserlock = None => (wbusy /\ Waiting) \/ (~wbusy /\ ~sending /\ ~wirq)
PortInv == FreeOK /\ \A p \in Poller : PolOK(p)
PortOK == PortTypes /\ PortInv

Wrs == [pc : {"idle", "P", "send", "end"}, n : Int]
WriteTypes ==
  wsem \in Nat /\ seen \in [write : BOOLEAN, char : Nat] /\ wr \in [Writer \cup {Boot} -> Wrs]

Sends == {w \in DOMAIN wr : wr[w].pc = "send"}
Permits == wsem + Cardinality(Sends) + (IF wbusy THEN 1 ELSE 0) + (IF seen.write THEN 1 ELSE 0)
PermitInv == Permits = 1 /\ (seen.write => ic.pc = "start") /\ dead # "NotClearToWrite"
WriteOK == WriteTypes /\ PermitInv

Rds == [pc : {"idle", "P", "take", "advance"}, n : Int, ch : Nat]
ReadTypes ==
  /\ rlock \in Reader \cup {None} /\ rsem \in Nat /\ rirq \in Nat /\ typed \in Nat
  /\ ring \in [0..(SIZE - 1) -> Nat] /\ head \in 0..(SIZE - 1) /\ tail \in 0..(SIZE - 1)
  /\ rd \in [Reader -> Rds]
  /\ taken \in Seq(Nat) /\ got \in Seq(Nat)

ReadInv ==
  \A r \in Reader :
    /\ rd[r].pc # "idle" <=> rlock = r
    /\ rd[r].pc = "advance" => rd[r].ch = ring[tail]
ReadOK == ReadTypes /\ ReadInv /\ InputInOrder

ConInv == IcOK /\ PortOK /\ WriteOK /\ ReadOK

-----------------------------------------------------------------------------
(* The steps of the bus leave the port's part of the handler alone. *)
LEMMA BusSteps ==
  ASSUME IcOK, BusNext, dead # "NotClearToWrite"
  PROVE  /\ IcOK'
         /\ ic'.pc \in PortPCs \/ ic.pc \in PortPCs => ic' = ic
         /\ dead' # "NotClearToWrite"
<1> USE DEF HandlerPCs, PortPCs
<1>1. CASE autoconf_lamebus
  <2>1. ic' = ic
    BY Zenon, <1>1 DEF autoconf_lamebus, lamebus_probe, attach_fails, lamebus_mark, lamebus_attach_interrupt,
         config, config_fails, tryattach_child, child_fails, skip_child
  <2>2. dead' = dead \/ dead' = "assertion"
    BY Zenon, <1>1 DEF autoconf_lamebus, lamebus_probe, attach_fails, lamebus_mark, lamebus_attach_interrupt,
         config, config_fails, tryattach_child, child_fails, skip_child
  <2> QED
    BY Zenon, <2>1, <2>2 DEF IcOK
<1>2. CASE \E s \in Slot : Asserts(s) \/ Transient(s)
  BY Zenon, <1>2 DEF Asserts, Transient, IcOK
<1>3. CASE mainbus_interrupt
  BY Zenon, <1>3 DEF mainbus_interrupt, IcOK, NotInInterrupt
<1>4. CASE lamebus_interrupt
  <2>1. PICK from, d0 : Scan(from, d0) /\ ic.pc \in {"enter", "reload"}
    BY Zenon, <1>4 DEF lamebus_interrupt
  <2>2. /\ ic' = NotInInterrupt \/ \E s, n : ic' = [pc |-> "handler", slot |-> s, dthis |-> n]
        /\ dead' \in {dead, "deadlock", "duds", None}
    BY Zenon, <2>1 DEF Scan, KprintfLocked
  <2>3. dead' # "NotClearToWrite"
    BY <2>2, ConsoleAssumption
  <2>4. CASE ic' = NotInInterrupt
    BY Zenon, <2>1, <2>3, <2>4 DEF IcOK, NotInInterrupt
  <2>5. CASE \E s, n : ic' = [pc |-> "handler", slot |-> s, dthis |-> n]
    <3>1. PICK s, n : ic' = [pc |-> "handler", slot |-> s, dthis |-> n]
      BY Zenon, <2>5
    <3>2. ic'.pc = "handler" /\ ic'.slot = s /\ ic'.dthis = n
      BY <3>1
    <3> QED
      BY Zenon, <2>1, <2>3, <3>1, <3>2 DEF IcOK
  <2> QED
    BY Zenon, <2>2, <2>4, <2>5
<1>5. CASE handler
  BY Zenon, <1>5 DEF handler, IcOK
<1> QED
  BY Zenon, <1>1, <1>2, <1>3, <1>4, <1>5 DEF BusNext

(* The initial states satisfy the invariant. *)
LEMMA Initially == ConsoleInit => ConInv
<1> SUFFICES ASSUME ConsoleInit PROVE ConInv
  OBVIOUS
<1>1. IcOK /\ dead # "NotClearToWrite"
  BY ConsoleAssumption DEF ConsoleInit, BusInit, IcOK, NotInInterrupt, HandlerPCs, PortPCs
<1>2. PortOK
  <2>1. pol \in [Poller -> Pols]
    BY DEF ConsoleInit, Pols
  <2>2. \A p \in Poller : pol[p].pc = "idle" /\ lserlock # p
    BY ConsoleAssumption DEF ConsoleInit
  <2> QED
    BY Zenon, <2>1, <2>2 DEF ConsoleInit, PortOK, PortTypes, PortInv, FreeOK, PolOK
<1>3. WriteOK
  <2>1. Sends = {}
    BY DEF ConsoleInit, Sends
  <2>2. WriteTypes
    BY DEF ConsoleInit, WriteTypes, Wrs, Nothing
  <2> QED
    BY <1>1, <2>1, <2>2, FS_EmptySet DEF ConsoleInit, WriteOK, PermitInv, Permits, Nothing
<1>4. ReadTypes
  BY ConsoleAssumption DEF ConsoleInit, ReadTypes, Rds
<1>5. ReadInv
  BY ConsoleAssumption DEF ConsoleInit, ReadInv
<1>6. InputInOrder
  <2>1. (head - tail + SIZE) % SIZE = 0
    BY ConsoleAssumption DEF ConsoleInit
  <2>2. Ring = << >>
    BY <2>1 DEF Ring
  <2>3. {r \in Reader : rd[r].pc \in {"take", "advance"}} = {}
    BY DEF ConsoleInit
  <2>4. ic.pc # "inputV" /\ taken = << >> /\ got = << >> /\ rsem = 0
    BY DEF ConsoleInit, BusInit, NotInInterrupt
  <2> QED
    BY <2>2, <2>3, <2>4, FS_EmptySet DEF InputInOrder
<1> QED
  BY <1>1, <1>2, <1>3, <1>4, <1>5, <1>6 DEF ConInv, ReadOK

-----------------------------------------------------------------------------
(* The port *)

(* A step that leaves the port and the pollers alone keeps the port's      *)
(* part.                                                                   *)
LEMMA PortKept ==
  ASSUME PortOK, UNCHANGED <<lserlock, wbusy, sending, wirq, pol>>
  PROVE  PortOK'
  BY Zenon DEF PortOK, PortTypes, PortInv, Waiting, FreeOK, PolOK

(* What PolStep does. *)
LEMMA PolSet ==
  ASSUME PortTypes, NEW p \in Poller, NEW x \in Pols, PolStep(p, x)
  PROVE  /\ pol' \in [Poller -> Pols] /\ pol'[p] = x
         /\ \A q \in Poller : q # p => pol'[q] = pol[q]
  BY DEF PolStep, PortTypes

(* A poller that goes on keeps the irqpending it put aside. *)
LEMMA PolGoes ==
  ASSUME PortTypes, NEW p \in Poller, NEW to \in {"idle", "begin", "busy", "send", "wait", "complete"},
         PolStep(p, [pol[p] EXCEPT !.pc = to])
  PROVE  /\ pol' \in [Poller -> Pols] /\ pol'[p].pc = to /\ pol'[p].irqpending = pol[p].irqpending
         /\ \A q \in Poller : q # p => pol'[q] = pol[q]
<1>1. pol[p] \in Pols
  BY DEF PortTypes
<1>2. /\ [pol[p] EXCEPT !.pc = to] \in Pols
      /\ [pol[p] EXCEPT !.pc = to].pc = to
      /\ [pol[p] EXCEPT !.pc = to].irqpending = pol[p].irqpending
  BY <1>1 DEF Pols
<1> QED
  BY Zenon, <1>2, PolSet

(* A step of a poller that has ls_lock, or takes it, is of no account to   *)
(* the others.                                                             *)
LEMMA OtherPollers ==
  ASSUME PortOK, NEW p \in Poller, lserlock \in {p, None}, lserlock' \in {p, None},
         \A q \in Poller : q # p => pol'[q] = pol[q]
  PROVE  \A q \in Poller : q # p => PolOK(q)'
  BY Zenon, ConsoleAssumption DEF PortOK, PortInv, PolOK

(* The steps of a poller. *)
LEMMA PollerStep ==
  ASSUME PortOK, NEW p \in Poller,
         \/ lser_startpolling(p) \/ con_io_polled(p) \/ writepolled_begins(p) \/ poll_until_idle(p)
         \/ writepolled_sends(p) \/ writepolled_ends(p) \/ lser_endpolling(p) \/ con_io_polled_ends(p)
  PROVE  PortOK'
<1>0. pol[p] \in Pols /\ PortTypes /\ FreeOK /\ PolOK(p) /\ None # p
  BY Zenon, ConsoleAssumption DEF PortOK, PortTypes, PortInv
<1>1. CASE lser_startpolling(p) \/ lser_endpolling(p) \/ con_io_polled(p) \/ con_io_polled_ends(p)
  <2>1. PICK to \in {"begin", "idle"} : PolStep(p, [pol[p] EXCEPT !.pc = to])
    BY Zenon, <1>1 DEF lser_startpolling, lser_endpolling, con_io_polled, con_io_polled_ends
  <2>2. UNCHANGED <<lserlock, wbusy, sending, wirq>> /\ pol[p].pc \in {"idle", "complete"}
    BY Zenon, <1>1 DEF lser_startpolling, lser_endpolling, con_io_polled, con_io_polled_ends
  <2>3. PortTypes'
    BY Zenon, <1>0, <2>1, <2>2, PolGoes DEF PortTypes
  <2>4. pol'[p].pc = to /\ \A q \in Poller : q # p => pol'[q] = pol[q]
    BY Zenon, <1>0, <2>1, PolGoes
  <2>5. PolOK(p)' /\ FreeOK'
    BY <1>0, <2>2, <2>4 DEF PolOK, FreeOK, Waiting
  <2>6. \A q \in Poller : q # p => PolOK(q)'
    BY Zenon, <2>2, <2>4 DEF PortOK, PortInv, PolOK, Waiting
  <2> QED
    BY Zenon, <2>3, <2>5, <2>6 DEF PortOK, PortInv
<1>2. CASE writepolled_begins(p)
  <2> DEFINE x == [pol[p] EXCEPT !.pc = IF wbusy THEN "busy" ELSE "send", !.irqpending = wbusy]
  <2>1. x \in Pols /\ x.pc = (IF wbusy THEN "busy" ELSE "send") /\ x.irqpending = wbusy
    BY Zenon, <1>0 DEF Pols, PortTypes
  <2>2. lserlock' = p /\ lserlock = None /\ UNCHANGED <<wbusy, sending, wirq>> /\ PolStep(p, x)
    BY Zenon, <1>2 DEF writepolled_begins
  <2> HIDE DEF x
  <2>3. PortTypes' /\ pol'[p] = x /\ \A q \in Poller : q # p => pol'[q] = pol[q]
    BY <1>0, <2>1, <2>2, PolSet DEF PortTypes
  <2>4. PolOK(p)' /\ FreeOK'
    BY <1>0, <2>1, <2>2, <2>3 DEF PolOK, FreeOK, Waiting
  <2> QED
    BY Zenon, <2>2, <2>3, <2>4, OtherPollers DEF PortOK, PortInv
<1>3. CASE poll_until_idle(p)
  <2>1. /\ PolStep(p, [pol[p] EXCEPT !.pc = "send"]) /\ UNCHANGED <<lserlock, wbusy, sending>>
        /\ pol[p].pc = "busy" /\ wirq /\ wirq' = FALSE
    BY Zenon, <1>3 DEF poll_until_idle
  <2>2. /\ PortTypes' /\ pol'[p].pc = "send" /\ pol'[p].irqpending = pol[p].irqpending
        /\ \A q \in Poller : q # p => pol'[q] = pol[q]
    BY Zenon, <1>0, <2>1, PolGoes DEF PortTypes
  <2>3. lserlock = p /\ PolOK(p)' /\ FreeOK'
    BY <1>0, <2>1, <2>2 DEF PolOK, FreeOK, Waiting
  <2> QED
    BY Zenon, <2>1, <2>2, <2>3, OtherPollers DEF PortOK, PortInv
<1>4. CASE writepolled_sends(p)
  <2>1. /\ PolStep(p, [pol[p] EXCEPT !.pc = "wait"]) /\ UNCHANGED <<lserlock, wbusy, wirq>>
        /\ pol[p].pc = "send" /\ sending' = TRUE
    BY Zenon, <1>4 DEF writepolled_sends
  <2>2. /\ PortTypes' /\ pol'[p].pc = "wait" /\ pol'[p].irqpending = pol[p].irqpending
        /\ \A q \in Poller : q # p => pol'[q] = pol[q]
    BY Zenon, <1>0, <2>1, PolGoes DEF PortTypes
  <2>3. lserlock = p /\ PolOK(p)' /\ FreeOK'
    BY <1>0, <2>1, <2>2 DEF PolOK, FreeOK, Waiting
  <2> QED
    BY Zenon, <2>1, <2>2, <2>3, OtherPollers DEF PortOK, PortInv
<1>5. CASE writepolled_ends(p)
  <2> DEFINE x == [pc |-> "complete", irqpending |-> FALSE]
  <2>1. x \in Pols /\ x.pc = "complete" /\ pol[p].irqpending \in BOOLEAN
    BY <1>0 DEF Pols
  <2>2. /\ lserlock' = None /\ UNCHANGED <<wbusy, sending>> /\ wirq' = pol[p].irqpending
        /\ pol[p].pc = "wait" /\ wirq /\ PolStep(p, x)
    BY Zenon, <1>5 DEF writepolled_ends
  <2> HIDE DEF x
  <2>3. PortTypes' /\ pol'[p] = x /\ \A q \in Poller : q # p => pol'[q] = pol[q]
    BY <1>0, <2>1, <2>2, PolSet DEF PortTypes
  <2>4. lserlock = p /\ PolOK(p)' /\ FreeOK'
    BY Zenon, <1>0, <2>1, <2>2, <2>3 DEF PolOK, FreeOK, Waiting
  <2> QED
    BY Zenon, <2>2, <2>3, <2>4, OtherPollers DEF PortOK, PortInv
<1> QED
  BY Zenon, <1>1, <1>2, <1>3, <1>4, <1>5

(* Every step keeps the rule of the port (lser_irq, lser_write,            *)
(* lser_writepolled).                                                      *)
LEMMA PortStep ==
  ASSUME PortOK, WriteOK, ConsoleStep
  PROVE  PortOK'
<1>1. CASE flush_delay_buf \/ con_start \/ con_input \/ con_input_V \/ Typed
  BY Zenon, <1>1, PortKept DEF flush_delay_buf, con_start, con_input, Store, con_input_V, Typed
<1>2. ASSUME NEW w \in Writer \cup {Boot},
             con_io_write(w) \/ kprintf(w) \/ kgets_echo(w) \/ putch_intr(w) \/ write_ends(w)
      PROVE  PortOK'
  BY Zenon, <1>2, PortKept DEF con_io_write, kprintf, kgets_echo, Writes, putch_intr, write_ends
<1>3. ASSUME NEW r \in Reader,
             con_io_read(r) \/ kgets(r) \/ getch_intr(r) \/ getch_takes(r) \/ getch_advances(r)
      PROVE  PortOK'
  BY Zenon, <1>3, PortKept DEF con_io_read, kgets, Reads, getch_intr, getch_takes, getch_advances
<1>4. ASSUME NEW w \in Writer \cup {Boot}, lser_write(w)
      PROVE  PortOK'
  <2>1. /\ lserlock = None /\ UNCHANGED <<lserlock, wirq, pol>>
        /\ (wbusy /\ UNCHANGED <<wbusy, sending>>) \/ (~wbusy /\ wbusy' /\ sending' /\ wbusy' = TRUE /\ sending' = TRUE)
    BY <1>4 DEF lser_write
  <2>2. \A p \in Poller : PolOK(p)'
    BY Zenon, <2>1, ConsoleAssumption DEF PortOK, PortInv, PolOK
  <2>3. PortTypes' /\ FreeOK'
    <3>1. PortTypes /\ FreeOK
      BY DEF PortOK, PortInv
    <3>2. PortTypes'
      BY Zenon, <2>1, <3>1 DEF PortTypes
    <3>3. CASE wbusy
      <4>1. wbusy' = wbusy /\ sending' = sending /\ wirq' = wirq
        BY <2>1, <3>3
      <4>2. FreeOK'
        BY <2>1, <3>1, <3>3, <4>1 DEF FreeOK, Waiting
      <4> QED
        BY <3>2, <4>2
    <3>4. CASE ~wbusy
      <4>1. ~sending /\ ~wirq
        BY Zenon, <2>1, <3>1, <3>4 DEF FreeOK
      <4> QED
        BY Zenon, <2>1, <3>2, <3>4, <4>1 DEF FreeOK, Waiting
    <3> QED
      BY <3>3, <3>4
  <2> QED
    BY Zenon, <2>2, <2>3 DEF PortOK, PortInv
<1>5. CASE Sent
  <2>1. sending /\ sending' = FALSE /\ wirq' = TRUE /\ UNCHANGED <<lserlock, wbusy, pol>>
    BY <1>5 DEF Sent
  <2> QED
    BY Zenon, <2>1, ConsoleAssumption DEF PortOK, PortTypes, PortInv, FreeOK, PolOK, Waiting
<1>6. CASE lser_irq
  <2>1. /\ lserlock = None /\ UNCHANGED <<lserlock, sending, pol>>
        /\ wbusy' = (wbusy /\ ~wirq) /\ wirq' = FALSE
    BY <1>6 DEF lser_irq
  <2> QED
    BY Zenon, <2>1, ConsoleAssumption DEF PortOK, PortTypes, PortInv, FreeOK, PolOK, Waiting
<1> QED
  BY Zenon, <1>1, <1>2, <1>3, <1>4, <1>5, <1>6, PollerStep DEF ConsoleStep

-----------------------------------------------------------------------------
(* Writing *)

(* A step that leaves the writers and the port alone keeps the writers'    *)
(* part.                                                                   *)
LEMMA WriteKept ==
  ASSUME WriteOK, UNCHANGED <<wsem, wr, wbusy, seen, dead>>,
         ic' = ic \/ ic.pc # "start"
  PROVE  WriteOK'
  BY Zenon DEF WriteOK, WriteTypes, PermitInv, Permits, Sends

(* The threads about to write are finitely many. *)
LEMMA SendsFinite ==
  ASSUME WriteTypes
  PROVE  IsFiniteSet(Sends) /\ Cardinality(Sends) \in Nat
<1>1. IsFiniteSet(Writer \cup {Boot})
  BY FS_AddElement, ConsoleAssumption
<1>2. Sends \subseteq Writer \cup {Boot}
  BY DEF Sends, WriteTypes
<1> QED
  BY <1>1, <1>2, FS_Subset, FS_CardinalityType

(* A step of a thread changes the set of threads about to write by itself. *)
LEMMA SendsChange ==
  ASSUME WriteTypes, NEW w \in Writer \cup {Boot}, NEW x \in Wrs, wr' = [wr EXCEPT ![w] = x]
  PROVE  /\ wr' \in [Writer \cup {Boot} -> Wrs]
         /\ (x.pc = "send" <=> wr[w].pc = "send") => Cardinality(Sends') = Cardinality(Sends)
         /\ x.pc = "send" /\ wr[w].pc # "send" => Cardinality(Sends') = Cardinality(Sends) + 1
         /\ x.pc # "send" /\ wr[w].pc = "send" => Cardinality(Sends') = Cardinality(Sends) - 1
<1>1. wr' \in [Writer \cup {Boot} -> Wrs] /\ wr'[w] = x /\ \A u \in Writer \cup {Boot} : u # w => wr'[u] = wr[u]
  BY DEF WriteTypes
<1>2. DOMAIN wr = Writer \cup {Boot} /\ DOMAIN wr' = Writer \cup {Boot}
  BY <1>1 DEF WriteTypes
<1>3. CASE x.pc = "send" <=> wr[w].pc = "send"
  <2>1. Sends' = Sends
    BY Zenon, <1>1, <1>2, <1>3 DEF Sends
  <2> QED
    BY <1>1, <1>3, <2>1
<1>4. CASE x.pc = "send" /\ wr[w].pc # "send"
  <2>1. Sends' = Sends \cup {w} /\ w \notin Sends
    BY <1>1, <1>2, <1>4 DEF Sends
  <2> QED
    BY Zenon, <1>1, <1>4, <2>1, SendsFinite, FS_AddElement
<1>5. CASE x.pc # "send" /\ wr[w].pc = "send"
  <2>1. Sends' = Sends \ {w} /\ w \in Sends
    BY <1>1, <1>2, <1>5 DEF Sends
  <2> QED
    BY Zenon, <1>1, <1>5, <2>1, SendsFinite, FS_RemoveElement
<1> QED
  BY <1>3, <1>4, <1>5

(* The steps of a writing thread, the flushing of the delayed output at    *)
(* boot among them.                                                        *)
LEMMA WriterStep ==
  ASSUME WriteOK, PortOK, NEW w \in Writer \cup {Boot},
         \/ con_io_write(w) \/ kprintf(w) \/ kgets_echo(w)
         \/ putch_intr(w) \/ lser_write(w) \/ write_ends(w) \/ flush_delay_buf
  PROVE  WriteOK'
<1>0. /\ WriteTypes /\ wr[w] \in Wrs /\ wr[Boot] \in Wrs /\ Boot \in Writer \cup {Boot}
      /\ wsem \in Nat /\ wbusy \in BOOLEAN /\ seen.write \in BOOLEAN
      /\ Cardinality(Sends) \in Nat /\ PermitInv
  BY SendsFinite DEF WriteOK, WriteTypes, PortOK, PortTypes
<1>1. CASE con_io_write(w) \/ kprintf(w) \/ kgets_echo(w)
  <2>1. PICK n \in 1..2 : wr' = [wr EXCEPT ![w] = [pc |-> "P", n |-> n]]
    BY Zenon, <1>1 DEF con_io_write, kprintf, kgets_echo, Writes
  <2>2. UNCHANGED <<wsem, wbusy, seen, ic, dead>> /\ wr[w].pc = "idle"
    BY Zenon, <1>1 DEF con_io_write, kprintf, kgets_echo, Writes, busvars
  <2> DEFINE x == [pc |-> "P", n |-> n]
  <2>x. x \in Wrs /\ x.pc # "send"
    BY DEF Wrs
  <2> HIDE DEF x
  <2>3. wr' \in [Writer \cup {Boot} -> Wrs] /\ Cardinality(Sends') = Cardinality(Sends)
    <3>1. wr' = [wr EXCEPT ![w] = x] /\ wr[w].pc # "send"
      BY <2>1, <2>2 DEF x
    <3> QED
      BY Zenon, <1>0, <3>1, <2>x, SendsChange
  <2> QED
    BY <1>0, <2>2, <2>3 DEF WriteOK, WriteTypes, PermitInv, Permits
<1>2. CASE putch_intr(w)
  <2>1. /\ wsem > 0 /\ wsem' = wsem - 1 /\ UNCHANGED <<wbusy, seen, ic, dead>>
        /\ wr[w].pc = "P" /\ wr' = [wr EXCEPT ![w].pc = "send"]
    BY Zenon, <1>2 DEF putch_intr, busvars
  <2>2. wr' = [wr EXCEPT ![w] = [wr[w] EXCEPT !.pc = "send"]] /\ [wr[w] EXCEPT !.pc = "send"] \in Wrs
    BY <1>0, <2>1 DEF Wrs
  <2>3. wr' \in [Writer \cup {Boot} -> Wrs] /\ Cardinality(Sends') = Cardinality(Sends) + 1
    BY Zenon, <1>0, <2>1, <2>2, SendsChange DEF Wrs
  <2> QED
    BY <1>0, <2>1, <2>3 DEF WriteOK, WriteTypes, PermitInv, Permits
<1>3. CASE lser_write(w)
  <2>1. w \in Sends /\ wr[w].pc = "send"
    BY <1>0, <1>3 DEF lser_write, Sends, WriteTypes
  <2>2. Cardinality(Sends) # 0
    BY <1>0, <2>1, SendsFinite, FS_EmptySet
  <2>3. ~wbusy
    BY <1>0, <2>2 DEF PermitInv, Permits
  <2>4. /\ wbusy' = TRUE /\ UNCHANGED <<wsem, seen, ic, dead>>
        /\ wr' = [wr EXCEPT ![w] = [pc |-> IF wr[w].n = 1 THEN "end" ELSE "P", n |-> wr[w].n - 1]]
    BY <1>3, <2>3 DEF lser_write
  <2>5. [pc |-> IF wr[w].n = 1 THEN "end" ELSE "P", n |-> wr[w].n - 1] \in Wrs
    BY <1>0 DEF Wrs
  <2>6. wr' \in [Writer \cup {Boot} -> Wrs] /\ Cardinality(Sends') = Cardinality(Sends) - 1
    BY Zenon, <1>0, <2>1, <2>4, <2>5, SendsChange
  <2> QED
    BY <1>0, <2>3, <2>4, <2>6 DEF WriteOK, WriteTypes, PermitInv, Permits
<1>4. CASE write_ends(w)
  <2>1. /\ UNCHANGED <<wsem, wbusy, seen, ic, dead>>
        /\ wr[w].pc = "end" /\ wr' = [wr EXCEPT ![w].pc = "idle"]
    BY Zenon, <1>4 DEF write_ends, busvars
  <2>2. wr' = [wr EXCEPT ![w] = [wr[w] EXCEPT !.pc = "idle"]] /\ [wr[w] EXCEPT !.pc = "idle"] \in Wrs
    BY <1>0, <2>1 DEF Wrs
  <2>3. wr' \in [Writer \cup {Boot} -> Wrs] /\ Cardinality(Sends') = Cardinality(Sends)
    BY Zenon, <1>0, <2>1, <2>2, SendsChange DEF Wrs
  <2> QED
    BY <1>0, <2>1, <2>3 DEF WriteOK, WriteTypes, PermitInv, Permits
<1>5. CASE flush_delay_buf
  <2>1. /\ UNCHANGED <<wsem, wbusy, seen, ic, dead>>
        /\ \/ wr' = wr
           \/ wr[Boot].pc = "idle" /\ wr' = [wr EXCEPT ![Boot] = [pc |-> "P", n |-> 2]]
    BY Zenon, <1>5 DEF flush_delay_buf
  <2>2. CASE wr' = wr
    BY Zenon, <2>1, <2>2, WriteKept
  <2>3. CASE wr[Boot].pc = "idle" /\ wr' = [wr EXCEPT ![Boot] = [pc |-> "P", n |-> 2]]
    <3> DEFINE x == [pc |-> "P", n |-> 2]
    <3>x. x \in Wrs /\ x.pc # "send"
      BY DEF Wrs
    <3>0. wr' = [wr EXCEPT ![Boot] = x] /\ wr[Boot].pc # "send"
      BY <2>3
    <3> HIDE DEF x
    <3>1. wr' \in [Writer \cup {Boot} -> Wrs] /\ Cardinality(Sends') = Cardinality(Sends)
      BY Zenon, <1>0, <3>0, <3>x, SendsChange
    <3> QED
      BY <1>0, <2>1, <3>1 DEF WriteOK, WriteTypes, PermitInv, Permits
  <2> QED
    BY <2>1, <2>2, <2>3
<1> QED
  BY Zenon, <1>1, <1>2, <1>3, <1>4, <1>5

(* Every step keeps the one permission to write (putch_intr, lser_write,   *)
(* con_start).                                                             *)
LEMMA WriteStep ==
  ASSUME WriteOK, PortOK, ReadTypes, IcOK, ConsoleStep
  PROVE  WriteOK'
<1>1. CASE con_input_V \/ Typed \/ Sent
  <2>1. UNCHANGED <<wsem, wr, wbusy, seen, dead>> /\ (ic' = ic \/ ic.pc # "start")
    BY Zenon, <1>1 DEF con_input_V, Typed, Sent, busBut_line, busBut_irq
  <2> QED
    BY Zenon, <2>1, WriteKept
<1>2. ASSUME NEW p \in Poller,
             \/ lser_startpolling(p) \/ con_io_polled(p) \/ writepolled_begins(p) \/ poll_until_idle(p)
             \/ writepolled_sends(p) \/ writepolled_ends(p) \/ lser_endpolling(p) \/ con_io_polled_ends(p)
      PROVE  WriteOK'
  <2>1. UNCHANGED <<wsem, wr, wbusy, seen, dead, ic>>
    BY Zenon, <1>2 DEF lser_startpolling, writepolled_begins, poll_until_idle, writepolled_sends,
         writepolled_ends, lser_endpolling, con_io_polled, con_io_polled_ends, busBut_line, busvars
  <2> QED
    BY Zenon, <2>1, WriteKept
<1>3. ASSUME NEW r \in Reader,
             con_io_read(r) \/ kgets(r) \/ getch_intr(r) \/ getch_takes(r) \/ getch_advances(r)
      PROVE  WriteOK'
  <2>1. UNCHANGED <<wsem, wr, wbusy, seen, dead, ic>>
    BY Zenon, <1>3 DEF con_io_read, kgets, Reads, getch_intr, getch_takes, getch_advances, busvars
  <2> QED
    BY Zenon, <2>1, WriteKept
<1>4. CASE con_input
  <2>1. /\ UNCHANGED <<wsem, wr, wbusy, dead>> /\ seen' = Nothing /\ ic.pc = "input"
    BY Zenon, <1>4 DEF con_input, Store, busBut_irq
  <2>2. Sends' = Sends /\ seen.write = FALSE /\ seen'.write = FALSE
    BY <2>1 DEF Sends, WriteOK, WriteTypes, PermitInv, Nothing
  <2>3. WriteTypes'
    BY <2>1 DEF WriteOK, WriteTypes, Nothing
  <2> QED
    BY <2>1, <2>2, <2>3 DEF WriteOK, PermitInv, Permits
<1>5. CASE lser_irq
  <2>1. /\ UNCHANGED <<wsem, wr, dead>> /\ seen' = [write |-> wirq, char |-> rirq]
        /\ ic.pc = "handler" /\ ic' = [ic EXCEPT !.pc = "start"]
        /\ wbusy' = (wbusy /\ ~wirq) /\ lserlock = None
    BY Zenon, <1>5 DEF lser_irq, busBut_irq
  <2>2. Sends' = Sends /\ seen.write = FALSE /\ seen'.write = wirq /\ Cardinality(Sends) \in Nat
    BY <2>1, SendsFinite DEF Sends, WriteOK, WriteTypes, PermitInv
  <2>3. WriteTypes'
    BY <2>1 DEF WriteOK, WriteTypes, PortOK, PortTypes, ReadTypes
  <2>4. wirq => wbusy
    BY <2>1 DEF PortOK, PortInv, FreeOK, Waiting
  <2>5. ic'.pc = "start"
    BY Zenon, <2>1 DEF IcOK
  <2>6. wbusy \in BOOLEAN /\ wirq \in BOOLEAN /\ wsem \in Nat
    BY DEF PortOK, PortTypes, WriteOK, WriteTypes
  <2>7. Permits' = Permits
    <3>1. CASE wirq
      <4>1. wbusy /\ ~wbusy' /\ seen'.write
        BY Zenon, <2>1, <2>2, <2>4, <3>1
      <4> QED
        BY <2>1, <2>2, <2>6, <4>1 DEF Permits
    <3>2. CASE ~wirq
      <4>1. (wbusy' <=> wbusy) /\ ~seen'.write
        BY Zenon, <2>1, <2>2, <2>6, <3>2
      <4> QED
        BY <2>1, <2>2, <2>6, <4>1 DEF Permits
    <3> QED
      BY <3>1, <3>2
  <2> QED
    BY <2>1, <2>3, <2>5, <2>7 DEF WriteOK, PermitInv
<1>6. CASE con_start
  <2>1. /\ UNCHANGED <<wr, wbusy, dead>> /\ wsem' = wsem + (IF seen.write THEN 1 ELSE 0)
        /\ seen' = [seen EXCEPT !.write = FALSE]
    BY Zenon, <1>6 DEF con_start, busBut_irq
  <2>2. /\ Sends' = Sends /\ seen'.write = FALSE /\ Cardinality(Sends) \in Nat
        /\ seen' \in [write : BOOLEAN, char : Nat] /\ seen.write \in BOOLEAN /\ wsem \in Nat
    BY Zenon, <2>1, SendsFinite DEF Sends, WriteOK, WriteTypes
  <2>3. WriteTypes'
    BY <2>1, <2>2 DEF WriteOK, WriteTypes
  <2>4. wbusy \in BOOLEAN
    BY DEF PortOK, PortTypes
  <2>5. Permits' = Permits
    BY <2>1, <2>2, <2>4 DEF Permits
  <2> QED
    BY <2>1, <2>2, <2>3, <2>5 DEF WriteOK, PermitInv
<1>7. CASE flush_delay_buf
  BY <1>7, WriterStep
<1> QED
  BY Zenon, <1>1, <1>2, <1>3, <1>4, <1>5, <1>6, <1>7, WriterStep DEF ConsoleStep

-----------------------------------------------------------------------------
(* Reading *)

PCs == HandlerPCs \cup PortPCs

(* The ring without the operator %. *)
Index == 0..(SIZE - 1)
Wrap(x) == IF x >= SIZE THEN x - SIZE ELSE x
Fill(h, t) == IF h >= t THEN h - t ELSE h - t + SIZE
RingOf(rg, h, t) == [i \in 1..Fill(h, t) |-> rg[Wrap(t + (i - 1))]]

Takers == {r \in Reader : rd[r].pc \in {"take", "advance"}}

(* Sequences of the same elements are equal. *)
LEMMA SameElements ==
  ASSUME NEW s \in Seq(Nat), NEW t \in Seq(Nat), Len(s) = Len(t), \A i \in 1..Len(s) : s[i] = t[i]
  PROVE  s = t
<1>1. s = [i \in 1..Len(s) |-> s[i]] /\ t = [i \in 1..Len(t) |-> t[i]]
  OBVIOUS
<1> QED
  BY <1>1

(* Elements of two sequences one after the other. *)
LEMMA Concat ==
  ASSUME NEW s \in Seq(Nat), NEW t \in Seq(Nat)
  PROVE  /\ s \o t \in Seq(Nat) /\ Len(s \o t) = Len(s) + Len(t)
         /\ \A i \in 1..(Len(s) + Len(t)) : (s \o t)[i] = IF i <= Len(s) THEN s[i] ELSE t[i - Len(s)]
  OBVIOUS

(* The handler goes on within the port's part. *)
LEMMA IcSet ==
  ASSUME IcOK, NEW x \in PCs, ic' = [ic EXCEPT !.pc = x]
  PROVE  IcOK' /\ ic'.pc = x
<1>1. PICK s, n : ic = [pc |-> ic.pc, slot |-> s, dthis |-> n]
  BY Zenon DEF IcOK
<1>2. ic' = [pc |-> x, slot |-> s, dthis |-> n]
  BY <1>1
<1>3. ic'.pc = x /\ ic'.slot = s /\ ic'.dthis = n
  BY <1>2
<1> QED
  BY Zenon, <1>2, <1>3 DEF IcOK, PCs

(* Indices go round. *)
LEMMA Around ==
  ASSUME NEW x \in 0..(2 * SIZE - 1)
  PROVE  x % SIZE = Wrap(x) /\ Wrap(x) \in Index
<1>1. SIZE \in Nat \ {0}
  BY ConsoleAssumption
<1>2. CASE x \in 0..(SIZE - 1)
  BY <1>1, <1>2 DEF Wrap, Index
<1>3. CASE x \in SIZE..(2 * SIZE - 1)
  BY <1>1, <1>3 DEF Wrap, Index
<1> QED
  BY <1>1, <1>2, <1>3

(* The content of the ring, its length and its elements. *)
LEMMA RingIs ==
  ASSUME NEW rg \in [Index -> Nat], NEW h \in Index, NEW t \in Index
  PROVE  /\ Fill(h, t) \in Index
         /\ [i \in 1..((h - t + SIZE) % SIZE) |-> rg[(t + i - 1) % SIZE]] = RingOf(rg, h, t)
         /\ RingOf(rg, h, t) \in Seq(Nat) /\ Len(RingOf(rg, h, t)) = Fill(h, t)
<1>0. SIZE \in Nat \ {0}
  BY ConsoleAssumption
<1>1. Fill(h, t) \in Index
  BY <1>0 DEF Index, Fill
<1>2. (h - t + SIZE) % SIZE = Fill(h, t)
  <2>1. h - t + SIZE \in 0..(2 * SIZE - 1) /\ Wrap(h - t + SIZE) = Fill(h, t)
    BY <1>0 DEF Index, Fill, Wrap
  <2> QED
    BY <2>1, Around
<1>3. ASSUME NEW i \in 1..Fill(h, t)
      PROVE  (t + i - 1) % SIZE = Wrap(t + (i - 1)) /\ Wrap(t + (i - 1)) \in Index
  <2>1. t + i - 1 = t + (i - 1) /\ t + (i - 1) \in 0..(2 * SIZE - 1)
    BY <1>0, <1>1 DEF Index
  <2> QED
    BY <2>1, Around
<1>4. RingOf(rg, h, t) \in [1..Fill(h, t) -> Nat]
  BY <1>3 DEF RingOf
<1>5. Fill(h, t) \in Nat
  BY <1>0, <1>1 DEF Index
<1> QED
  BY <1>1, <1>2, <1>3, <1>4, <1>5 DEF RingOf

(* A character is put at the end of the ring, and taken from its front. *)
LEMMA Put ==
  ASSUME NEW rg \in [Index -> Nat], NEW h \in Index, NEW t \in Index, NEW c \in Nat,
         Wrap(h + 1) # t
  PROVE  /\ RingOf([rg EXCEPT ![h] = c], Wrap(h + 1), t) = Append(RingOf(rg, h, t), c)
         /\ h # t => [rg EXCEPT ![h] = c][t] = rg[t]
<1> DEFINE rg1 == [rg EXCEPT ![h] = c]
           R == RingOf(rg, h, t)
           R1 == RingOf(rg1, Wrap(h + 1), t)
           n == Fill(h, t)
<1>0. SIZE \in Nat \ {0}
  BY ConsoleAssumption
<1>1. rg1 \in [Index -> Nat] /\ rg1[h] = c /\ \A j \in Index : j # h => rg1[j] = rg[j]
  OBVIOUS
<1>2. Wrap(h + 1) \in Index /\ Fill(Wrap(h + 1), t) = n + 1 /\ n \in Nat
  BY <1>0 DEF Index, Wrap, Fill
<1>3. R \in Seq(Nat) /\ Len(R) = n
  BY RingIs
<1>4. R1 \in Seq(Nat) /\ Len(R1) = n + 1
  <2> HIDE DEF rg1, n
  <2> QED
    BY <1>1, <1>2, RingIs
<1>5. \A i \in 1..n : /\ Wrap(t + (i - 1)) # h /\ Wrap(t + (i - 1)) \in Index
                      /\ i \in 1..Fill(Wrap(h + 1), t)
  BY <1>0, <1>2 DEF Index, Wrap, Fill
<1>6. Wrap(t + ((n + 1) - 1)) = h /\ n + 1 \in 1..Fill(Wrap(h + 1), t)
  BY <1>0, <1>2 DEF Index, Wrap, Fill
<1>7. \A i \in 1..n : R1[i] = R[i]
  <2> HIDE DEF rg1
  <2> QED
    BY <1>1, <1>5 DEF RingOf
<1>8. R1[n + 1] = c
  <2> HIDE DEF rg1
  <2> QED
    BY <1>1, <1>6 DEF RingOf
<1>9. R1 = Append(R, c)
  <2> HIDE DEF R, R1, n, rg1
  <2>1. Append(R, c) \in Seq(Nat) /\ Len(Append(R, c)) = Len(R1)
    BY <1>2, <1>3, <1>4
  <2>2. \A i \in 1..Len(R1) : R1[i] = Append(R, c)[i]
    BY <1>2, <1>3, <1>4, <1>7, <1>8
  <2> QED
    BY Zenon, <1>4, <2>1, <2>2, SameElements
<1> QED
  BY Zenon, <1>1, <1>9

(* Advancing cs_gotchars_tail drops the first character of the ring. *)
LEMMA TakeFirst ==
  ASSUME NEW rg \in [Index -> Nat], NEW h \in Index, NEW t \in Index, h # t
  PROVE  /\ RingOf(rg, h, Wrap(t + 1)) \in Seq(Nat) /\ Wrap(t + 1) \in Index
         /\ RingOf(rg, h, t) = <<rg[t]>> \o RingOf(rg, h, Wrap(t + 1))
<1> DEFINE R == RingOf(rg, h, t)
           R1 == RingOf(rg, h, Wrap(t + 1))
           n == Fill(h, Wrap(t + 1))
           one == <<rg[t]>>
<1>0. SIZE \in Nat \ {0}
  BY ConsoleAssumption
<1>1. Wrap(t + 1) \in Index /\ Fill(h, t) = n + 1 /\ n \in Nat /\ Wrap(t + (1 - 1)) = t
  BY <1>0 DEF Index, Wrap, Fill
<1>2. R \in Seq(Nat) /\ Len(R) = n + 1 /\ R1 \in Seq(Nat) /\ Len(R1) = n
  <2>1. R \in Seq(Nat) /\ Len(R) = Fill(h, t)
    BY RingIs
  <2>2. R1 \in Seq(Nat) /\ Len(R1) = n
    BY <1>1, RingIs
  <2> QED
    BY <1>1, <2>1, <2>2
<1>3. one \in Seq(Nat) /\ Len(one) = 1 /\ one[1] = rg[t]
  OBVIOUS
<1>4. R[1] = rg[t]
  <2>1. 1 \in 1..Fill(h, t)
    BY <1>1
  <2> QED
    BY <1>1, <2>1 DEF RingOf
<1>5. ASSUME NEW i \in 1..n
      PROVE  R1[i] = R[i + 1]
  <2>1. Wrap(Wrap(t + 1) + (i - 1)) = Wrap(t + ((i + 1) - 1)) /\ i + 1 \in 1..Fill(h, t)
    BY <1>0, <1>1 DEF Index, Wrap, Fill
  <2> QED
    BY <2>1 DEF RingOf
<1>6. R = one \o R1
  <2> HIDE DEF R, R1, one, n
  <2>1. one \o R1 \in Seq(Nat) /\ Len(one \o R1) = n + 1
    <3>1. one \o R1 \in Seq(Nat) /\ Len(one \o R1) = Len(one) + Len(R1)
      BY Zenon, <1>2, <1>3, Concat
    <3> QED
      BY <1>1, <1>2, <1>3, <3>1
  <2>2. ASSUME NEW i \in 1..(n + 1)
        PROVE  R[i] = (one \o R1)[i]
    <3>0. i \in 1..(Len(one) + Len(R1))
      BY <1>1, <1>2, <1>3
    <3>1. (one \o R1)[i] = IF i <= Len(one) THEN one[i] ELSE R1[i - Len(one)]
      BY Zenon, <1>2, <1>3, <3>0, Concat
    <3>2. CASE i = 1
      BY <1>3, <1>4, <3>1, <3>2
    <3>3. CASE i # 1
      <4>1. i - 1 \in 1..n /\ (i - 1) + 1 = i /\ ~(i <= 1)
        BY <1>1, <3>3
      <4>2. R1[i - 1] = R[(i - 1) + 1]
        BY <1>5, <4>1
      <4> QED
        BY <1>3, <3>1, <4>1, <4>2
    <3> QED
      BY Zenon, <3>2, <3>3
  <2> QED
    BY Zenon, <1>2, <2>1, <2>2, SameElements
<1> QED
  BY <1>1, <1>2, <1>6

(* At most one reader, the holder of con_userlock_read, takes a character. *)
LEMMA TakersAre ==
  ASSUME ReadTypes, ReadInv
  PROVE  /\ Cardinality(Takers) \in Nat
         /\ rlock = None => Cardinality(Takers) = 0
         /\ \A r \in Reader : rlock = r =>
               /\ rd[r].pc \in {"take", "advance"} => Cardinality(Takers) = 1
               /\ rd[r].pc \notin {"take", "advance"} => Cardinality(Takers) = 0
<1>1. rlock = None => Cardinality(Takers) = 0
  <2> SUFFICES ASSUME rlock = None PROVE Cardinality(Takers) = 0
    OBVIOUS
  <2>1. Takers = {}
    BY ConsoleAssumption DEF Takers, ReadInv
  <2> QED
    BY <2>1, FS_EmptySet
<1>2. ASSUME NEW r \in Reader, rlock = r, rd[r].pc \in {"take", "advance"}
      PROVE  Cardinality(Takers) = 1
  <2>1. Takers = {r}
    BY <1>2 DEF Takers, ReadInv
  <2> QED
    BY <2>1, FS_Singleton
<1>3. ASSUME NEW r \in Reader, rlock = r, rd[r].pc \notin {"take", "advance"}
      PROVE  Cardinality(Takers) = 0
  <2>1. Takers = {}
    BY <1>3 DEF Takers, ReadInv
  <2> QED
    BY <2>1, FS_EmptySet
<1>4. rlock \in Reader \cup {None}
  BY DEF ReadTypes
<1> QED
  BY <1>1, <1>2, <1>3, <1>4

(* A step that leaves the input alone keeps the readers' part. *)
LEMMA ReadKept ==
  ASSUME ReadOK, UNCHANGED <<rlock, rsem, ring, head, tail, rd, taken, got>>,
         rirq' \in Nat, typed' \in Nat,
         ic'.pc = "inputV" <=> ic.pc = "inputV"
  PROVE  ReadOK'
<1>1. ReadTypes'
  BY DEF ReadOK, ReadTypes
<1>2. ReadInv'
  BY DEF ReadOK, ReadInv
<1>3. Ring' = Ring
  BY DEF Ring
<1>4. InputInOrder'
  BY <1>3 DEF ReadOK, InputInOrder
<1> QED
  BY <1>1, <1>2, <1>4 DEF ReadOK

(* A step of the reader that holds the lock. *)
LEMMA RdSet ==
  ASSUME ReadTypes, ReadInv, NEW r \in Reader, NEW x \in Rds, rd' = [rd EXCEPT ![r] = x],
         rlock \in {r, None}, rlock' \in {r, None}, x.pc # "idle" <=> rlock' = r,
         UNCHANGED ring, tail' = tail \/ x.pc # "advance",
         x.pc = "advance" => x.ch = ring[tail]
  PROVE  rd' \in [Reader -> Rds] /\ rd'[r] = x /\ ReadInv'
<1>1. rd' \in [Reader -> Rds] /\ rd'[r] = x /\ \A q \in Reader : q # r => rd'[q] = rd[q]
  BY DEF ReadTypes
<1>2. \A q \in Reader : q # r => rlock # q /\ rlock' # q /\ rd[q].pc = "idle"
  BY ConsoleAssumption DEF ReadInv
<1> QED
  BY <1>1, <1>2 DEF ReadInv

(* cs_rsem and the readers count the ring, before and after. *)
LEMMA Counts ==
  ASSUME InputInOrder
  PROVE  rsem + Cardinality(Takers) + (IF ic.pc = "inputV" THEN 1 ELSE 0) = Len(Ring)
  BY DEF InputInOrder, Takers

(* The content of the ring now, and its length. *)
LEMMA RingNow ==
  ASSUME ReadTypes
  PROVE  /\ Ring = RingOf(ring, head, tail) /\ Ring \in Seq(Nat) /\ Len(Ring) = Fill(head, tail)
         /\ Len(Ring) \in Nat /\ (Len(Ring) # 0 => head # tail)
<1>1. ring \in [Index -> Nat] /\ head \in Index /\ tail \in Index
  BY DEF ReadTypes, Index
<1>2. Ring = RingOf(ring, head, tail) /\ Ring \in Seq(Nat) /\ Len(Ring) = Fill(head, tail)
  <2>1. /\ [i \in 1..((head - tail + SIZE) % SIZE) |-> ring[(tail + i - 1) % SIZE]] = RingOf(ring, head, tail)
        /\ RingOf(ring, head, tail) \in Seq(Nat) /\ Len(RingOf(ring, head, tail)) = Fill(head, tail)
    BY Zenon, <1>1, RingIs
  <2> QED
    BY Zenon, <2>1 DEF Ring
<1> QED
  BY <1>1, <1>2, ConsoleAssumption DEF Fill, Index

(* Sequences *)
LEMMA Associates ==
  ASSUME NEW s \in Seq(Nat), NEW t \in Seq(Nat), NEW c \in Nat
  PROVE  /\ Append(s \o t, c) = s \o Append(t, c)
         /\ Append(s, c) \o t = s \o (<<c>> \o t)
<1>1. /\ Append(s \o t, c) \in Seq(Nat) /\ s \o Append(t, c) \in Seq(Nat)
      /\ Len(Append(s \o t, c)) = Len(s \o Append(t, c))
      /\ \A i \in 1..Len(Append(s \o t, c)) : Append(s \o t, c)[i] = (s \o Append(t, c))[i]
  OBVIOUS
<1>2. /\ Append(s, c) \o t \in Seq(Nat) /\ s \o (<<c>> \o t) \in Seq(Nat)
      /\ Len(Append(s, c) \o t) = Len(s \o (<<c>> \o t))
      /\ \A i \in 1..Len(Append(s, c) \o t) : (Append(s, c) \o t)[i] = (s \o (<<c>> \o t))[i]
  OBVIOUS
<1> QED
  BY Zenon, <1>1, <1>2, SameElements

(* con_input *)
LEMMA InputStep ==
  ASSUME ReadOK, WriteTypes, IcOK, con_input
  PROVE  ReadOK'
<1>0. /\ ReadTypes /\ ReadInv /\ InputInOrder /\ seen.char \in Nat
      /\ ring \in [Index -> Nat] /\ head \in Index /\ tail \in Index
  BY DEF ReadOK, ReadTypes, WriteTypes, Index
<1>1. UNCHANGED <<rlock, rsem, tail, rd, got, rirq, typed>> /\ ic.pc = "input"
  BY Zenon DEF con_input, Store
<1>2. CASE (head + 1) % SIZE = tail
  <2>1. UNCHANGED <<ring, head, taken>> /\ ic' = [ic EXCEPT !.pc = "reload"]
    BY Zenon, <1>2 DEF con_input, Store
  <2>2. ic'.pc = "reload"
    BY <2>1, IcSet DEF PCs, HandlerPCs
  <2>3. rirq' \in Nat /\ typed' \in Nat
    BY <1>0, <1>1 DEF ReadTypes
  <2> QED
    BY <1>1, <2>1, <2>2, <2>3, ReadKept
<1>3. CASE (head + 1) % SIZE # tail
  <2>1. /\ ring' = [ring EXCEPT ![head] = seen.char] /\ head' = (head + 1) % SIZE
        /\ taken' = Append(taken, seen.char) /\ ic' = [ic EXCEPT !.pc = "inputV"]
    BY Zenon, <1>3 DEF con_input, Store
  <2>2. ic'.pc = "inputV"
    BY <2>1, IcSet DEF PCs, PortPCs
  <2>3. head' = Wrap(head + 1) /\ Wrap(head + 1) \in Index
    <3>1. head + 1 \in 0..(2 * SIZE - 1)
      BY <1>0, ConsoleAssumption DEF Index
    <3> QED
      BY <2>1, <3>1, Around
  <2>4. /\ RingOf(ring', head', tail) = Append(RingOf(ring, head, tail), seen.char)
        /\ head # tail => ring'[tail] = ring[tail]
    <3>1. Wrap(head + 1) # tail
      BY <1>3, <2>1, <2>3
    <3>2. /\ RingOf([ring EXCEPT ![head] = seen.char], Wrap(head + 1), tail)
                = Append(RingOf(ring, head, tail), seen.char)
          /\ head # tail => [ring EXCEPT ![head] = seen.char][tail] = ring[tail]
      BY Zenon, <1>0, <3>1, Put
    <3> QED
      BY Zenon, <2>1, <2>3, <3>2
  <2>5. ring' \in [Index -> Nat] /\ head' \in Index /\ tail' \in Index
    BY <1>0, <1>1, <2>1, <2>3
  <2>6. ReadTypes'
    BY <1>0, <1>1, <2>1, <2>5 DEF ReadTypes, Index
  <2>7. Ring = RingOf(ring, head, tail) /\ Ring \in Seq(Nat) /\ Len(Ring) \in Nat
    BY <1>0, RingNow
  <2>8. Ring' = RingOf(ring', head', tail')
    BY <2>5, RingIs DEF Ring
  <2>9. Ring' = Append(Ring, seen.char)
    BY <1>1, <2>4, <2>7, <2>8
  <2>10. Len(Ring') = Len(Ring) + 1
    BY <1>0, <2>7, <2>9
  <2>11. ReadInv'
    <3>1. \A r \in Reader : rd[r].pc = "advance" => Cardinality(Takers) = 1
      BY <1>0, TakersAre DEF ReadInv
    <3>2. \A r \in Reader : rd[r].pc = "advance" => Len(Ring) # 0
      BY <1>0, <1>1, <3>1, Counts, RingNow DEF ReadTypes
    <3>3. \A r \in Reader : rd[r].pc = "advance" => ring'[tail] = ring[tail]
      BY <1>0, <2>4, <3>2, RingNow
    <3> QED
      BY <1>0, <1>1, <3>3 DEF ReadInv
  <2>12. taken' = got' \o Ring'
    <3>1. taken = got \o Ring /\ got \in Seq(Nat) /\ got' = got /\ taken' = Append(taken, seen.char)
      BY <1>0, <1>1, <2>1 DEF InputInOrder, ReadTypes
    <3>2. Append(got \o Ring, seen.char) = got \o Append(Ring, seen.char)
      BY Zenon, <1>0, <2>7, <3>1, Associates
    <3> QED
      BY Zenon, <2>9, <3>1, <3>2
  <2>13. InputInOrder'
    <3>1. Takers' = Takers /\ Cardinality(Takers) \in Nat
      BY <1>0, <1>1, TakersAre DEF Takers
    <3>2. rsem + Cardinality(Takers) + 0 = Len(Ring)
      BY <1>0, <1>1, Counts
    <3>3. rsem' + Cardinality(Takers') + 1 = Len(Ring')
      BY <1>0, <1>1, <2>7, <2>10, <3>1, <3>2 DEF ReadTypes
    <3> QED
      BY <2>2, <2>12, <3>3 DEF InputInOrder, Takers
  <2> QED
    BY <2>6, <2>11, <2>13 DEF ReadOK
<1> QED
  BY <1>2, <1>3

(* The reader takes the character it has found. *)
LEMMA AdvanceStep ==
  ASSUME ReadOK, NEW r \in Reader, getch_advances(r)
  PROVE  ReadOK'
<1>0. /\ ReadTypes /\ ReadInv /\ InputInOrder /\ rd[r] \in Rds
      /\ ring \in [Index -> Nat] /\ head \in Index /\ tail \in Index
  BY DEF ReadOK, ReadTypes, Index
<1>1. /\ UNCHANGED <<rsem, ring, head, taken, rirq, typed, ic>> /\ rd[r].pc = "advance"
      /\ tail' = (tail + 1) % SIZE /\ got' = Append(got, rd[r].ch)
  BY Zenon DEF getch_advances, busvars
<1> DEFINE left == IF rd[r].n > 0 THEN rd[r].n - 1 ELSE 0
<1>2. PICK ends \in BOOLEAN :
        /\ rd' = [rd EXCEPT ![r] = [pc |-> IF ends THEN "idle" ELSE "P", n |-> left, ch |-> 0]]
        /\ rlock' = IF ends THEN None ELSE rlock
  BY Zenon DEF getch_advances
<1>3. rlock = r /\ rd[r].ch = ring[tail] /\ Cardinality(Takers) = 1 /\ rsem \in Nat
  BY <1>0, <1>1, TakersAre DEF ReadInv, ReadTypes
<1>4. Len(Ring) # 0 /\ head # tail
  BY <1>0, <1>3, Counts, RingNow
<1>5. tail' = Wrap(tail + 1) /\ Wrap(tail + 1) \in Index
  <2>1. tail + 1 \in 0..(2 * SIZE - 1)
    BY <1>0, ConsoleAssumption DEF Index
  <2> QED
    BY <1>1, <2>1, Around
<1>6. Ring = RingOf(ring, head, tail) /\ Ring \in Seq(Nat) /\ Len(Ring) \in Nat
  BY <1>0, RingNow
<1>7. Ring' = RingOf(ring, head, tail')
  <2>1. ring' \in [Index -> Nat] /\ head' \in Index /\ tail' \in Index
    BY <1>0, <1>1, <1>5
  <2>2. Ring' = RingOf(ring', head', tail')
    BY <2>1, RingIs DEF Ring
  <2> QED
    BY <1>1, <2>2
<1>8. Ring' \in Seq(Nat) /\ Ring = <<ring[tail]>> \o Ring'
  BY Zenon, <1>0, <1>4, <1>5, <1>6, <1>7, TakeFirst
<1>9. Len(Ring) = 1 + Len(Ring') /\ ring[tail] \in Nat
  BY <1>0, <1>8
<1> DEFINE x == [pc |-> IF ends THEN "idle" ELSE "P", n |-> left, ch |-> 0]
<1>10. x \in Rds /\ x.pc \in {"idle", "P"} /\ (x.pc # "idle" <=> ~ends)
  BY <1>0 DEF Rds
<1>11. rd' = [rd EXCEPT ![r] = x]
  BY <1>2
<1> HIDE DEF x
<1>12. rlock \in {r, None} /\ rlock' \in {r, None} /\ (x.pc # "idle" <=> rlock' = r)
  BY <1>2, <1>3, <1>10, ConsoleAssumption
<1>13. rd' \in [Reader -> Rds] /\ rd'[r] = x /\ ReadInv'
  BY Zenon, <1>0, <1>1, <1>10, <1>11, <1>12, RdSet
<1>14. ReadTypes'
  BY <1>0, <1>1, <1>3, <1>5, <1>9, <1>12, <1>13 DEF ReadTypes, Index
<1>15. taken' = got' \o Ring'
  <2>1. taken = got \o (<<ring[tail]>> \o Ring') /\ got \in Seq(Nat)
    BY <1>0, <1>8 DEF InputInOrder, ReadTypes
  <2>2. got' = Append(got, ring[tail])
    BY <1>1, <1>3
  <2> QED
    <3>1. Append(got, ring[tail]) \o Ring' = got \o (<<ring[tail]>> \o Ring')
      BY SMTT(30), <1>8, <1>9, <2>1, Associates
    <3> QED
      BY <1>1, <2>1, <2>2, <3>1
<1>16. Takers' = {}
  BY <1>0, <1>3, <1>10, <1>11, <1>13 DEF Takers, ReadInv, ReadTypes
<1>17. rsem' + Cardinality(Takers') + (IF ic'.pc = "inputV" THEN 1 ELSE 0) = Len(Ring')
  <2>1. rsem + 1 + (IF ic.pc = "inputV" THEN 1 ELSE 0) = 1 + Len(Ring')
    BY <1>0, <1>3, <1>9, Counts
  <2>2. Len(Ring') \in Nat /\ Cardinality(Takers') = 0
    BY <1>8, <1>16, FS_EmptySet
  <2> QED
    BY <1>1, <1>3, <2>1, <2>2
<1> QED
  BY <1>13, <1>14, <1>15, <1>17 DEF ReadOK, InputInOrder, Takers

(* A reader moves to x, having taken k permissions from cs_rsem. *)
LEMMA ReaderMoves ==
  ASSUME ReadOK, NEW r \in Reader, NEW x \in Rds, NEW k \in {0, 1},
         UNCHANGED <<ring, head, tail, taken, got, rirq, typed, ic>>,
         rd' = [rd EXCEPT ![r] = x], x.pc # "idle", rlock \in {r, None}, rlock' = r,
         x.pc = "advance" => x.ch = ring[tail],
         rsem' \in Nat, rsem' = rsem - k,
         Cardinality(Takers) = (IF x.pc \in {"take", "advance"} THEN 1 ELSE 0) - k
  PROVE  ReadOK'
<1>0. ReadTypes /\ ReadInv /\ InputInOrder /\ rsem \in Nat /\ Len(Ring) \in Nat
  BY Zenon, RingNow DEF ReadOK, ReadTypes
<1>2. Ring' = Ring
  BY DEF Ring
<1>6. rd' \in [Reader -> Rds] /\ rd'[r] = x /\ ReadInv'
  BY Zenon, <1>0, RdSet
<1>7. ReadTypes'
  BY <1>0, <1>6 DEF ReadTypes
<1>8. Cardinality(Takers') = IF x.pc \in {"take", "advance"} THEN 1 ELSE 0
  <2>1. \A q \in Reader : rd'[q].pc # "idle" => q = r
    BY <1>6 DEF ReadInv
  <2>2. CASE x.pc \in {"take", "advance"}
    <3>1. Takers' = {r}
      BY <1>6, <2>1, <2>2 DEF Takers
    <3> QED
      BY Zenon, <2>2, <3>1, FS_Singleton
  <2>3. CASE x.pc \notin {"take", "advance"}
    <3>1. Takers' = {}
      BY <1>6, <2>1, <2>3 DEF Takers
    <3> QED
      BY <2>3, <3>1, FS_EmptySet
  <2> QED
    BY <2>2, <2>3
<1>9. rsem' + Cardinality(Takers') + (IF ic'.pc = "inputV" THEN 1 ELSE 0) = Len(Ring')
  <2>1. rsem + Cardinality(Takers) + (IF ic.pc = "inputV" THEN 1 ELSE 0) = Len(Ring)
    BY <1>0, Counts
  <2> QED
    BY <1>0, <1>2, <1>8, <2>1
<1>10. taken' = got' \o Ring'
  BY <1>0, <1>2 DEF InputInOrder
<1> QED
  BY <1>6, <1>7, <1>9, <1>10 DEF ReadOK, InputInOrder, Takers

(* A reader begins a read, gets a permission from cs_rsem, finds its      *)
(* character.                                                             *)
LEMMA ReaderStep ==
  ASSUME ReadOK, NEW r \in Reader, con_io_read(r) \/ kgets(r) \/ getch_intr(r) \/ getch_takes(r)
  PROVE  ReadOK'
<1>0. /\ ReadTypes /\ ReadInv /\ rd[r] \in Rds /\ rsem \in Nat
      /\ rd \in [Reader -> Rds] /\ ring[tail] \in Nat
  BY Zenon, RingNow DEF ReadOK, ReadTypes
<1>1. UNCHANGED <<ring, head, tail, taken, got, rirq, typed, ic>>
  BY Zenon DEF con_io_read, kgets, Reads, getch_intr, getch_takes, busvars
<1>2. CASE con_io_read(r) \/ kgets(r)
  <2>0. PICK n \in 0..2 : Reads(r, n)
    BY <1>2 DEF con_io_read, kgets
  <2>1. rd' = [rd EXCEPT ![r] = [pc |-> "P", n |-> n, ch |-> 0]]
    BY Zenon, <2>0 DEF Reads
  <2>2. rlock = None /\ rlock' = r /\ rsem' = rsem
    BY Zenon, <2>0 DEF Reads
  <2>3. Cardinality(Takers) = 0 - 0 /\ rsem' \in Nat /\ rsem' = rsem - 0
    BY <1>0, <2>2, TakersAre
  <2> DEFINE x == [pc |-> "P", n |-> n, ch |-> 0]
  <2>4. x \in Rds /\ x.pc = "P" /\ rd' = [rd EXCEPT ![r] = x]
    BY <2>1 DEF Rds
  <2> HIDE DEF x
  <2>5. x.pc \notin {"take", "advance"} /\ x.pc # "idle"
    BY <2>4
  <2> QED
    BY Zenon, <1>1, <2>2, <2>3, <2>4, <2>5, ReaderMoves
<1>3. CASE getch_intr(r)
  <2>1. /\ rd[r].pc = "P" /\ rsem > 0 /\ rsem' = rsem - 1 /\ rlock' = rlock
        /\ rd' = [rd EXCEPT ![r].pc = "take"]
    BY Zenon, <1>3 DEF getch_intr
  <2>2. rlock = r
    BY <1>0, <2>1 DEF ReadInv
  <2>3. Cardinality(Takers) = 1 - 1 /\ rsem' \in Nat
    BY <1>0, <2>1, <2>2, TakersAre
  <2> DEFINE x == [rd[r] EXCEPT !.pc = "take"]
  <2>4. x \in Rds /\ x.pc = "take" /\ rd' = [rd EXCEPT ![r] = x]
    BY <1>0, <2>1 DEF Rds
  <2> HIDE DEF x
  <2> QED
    BY Zenon, <1>1, <2>1, <2>2, <2>3, <2>4, ReaderMoves
<1>4. CASE getch_takes(r)
  <2>1. /\ rd[r].pc = "take" /\ rsem' = rsem /\ rlock' = rlock
        /\ rd' = [rd EXCEPT ![r].pc = "advance", ![r].ch = ring[tail]]
    BY Zenon, <1>4 DEF getch_takes
  <2>2. rlock = r
    BY <1>0, <2>1 DEF ReadInv
  <2>3. Cardinality(Takers) = 1 - 0 /\ rsem' \in Nat /\ rsem' = rsem - 0
    BY <1>0, <2>1, <2>2, TakersAre
  <2> DEFINE x == [rd[r] EXCEPT !.pc = "advance", !.ch = ring[tail]]
  <2>4. rd' = [rd EXCEPT ![r] = x]
    BY Zenon, <1>0, <2>1
  <2>5. x \in Rds /\ x.pc = "advance" /\ x.ch = ring[tail]
    BY Zenon, <1>0 DEF Rds
  <2> HIDE DEF x
  <2> QED
    BY Zenon, <1>1, <2>1, <2>2, <2>3, <2>4, <2>5, ReaderMoves
<1> QED
  BY Zenon, <1>2, <1>3, <1>4

(* Every step keeps the order of the input (con_input, getch_intr). *)
LEMMA ReadStep ==
  ASSUME ReadOK, WriteTypes, IcOK, ConsoleStep
  PROVE  ReadOK' /\ IcOK'
<1>0. rirq \in Nat /\ typed \in Nat /\ rsem \in Nat
  BY DEF ReadOK, ReadTypes
<1>1. CASE flush_delay_buf \/ Sent
  <2>1. UNCHANGED <<rlock, rsem, ring, head, tail, rd, taken, got, rirq, typed, ic>>
    BY Zenon, <1>1 DEF flush_delay_buf, Sent, busBut_line
  <2> QED
    BY Zenon, <1>0, <2>1, ReadKept DEF IcOK
<1>2. ASSUME NEW w \in Writer \cup {Boot},
             \/ con_io_write(w) \/ kprintf(w) \/ kgets_echo(w)
             \/ putch_intr(w) \/ lser_write(w) \/ write_ends(w)
      PROVE  ReadOK' /\ IcOK'
  <2>1. UNCHANGED <<rlock, rsem, ring, head, tail, rd, taken, got, rirq, typed, ic>>
    BY Zenon, <1>2 DEF con_io_write, kprintf, kgets_echo, Writes, putch_intr, lser_write, write_ends, busvars
  <2> QED
    BY Zenon, <1>0, <2>1, ReadKept DEF IcOK
<1>3. ASSUME NEW p \in Poller,
             \/ lser_startpolling(p) \/ con_io_polled(p) \/ writepolled_begins(p) \/ poll_until_idle(p)
             \/ writepolled_sends(p) \/ writepolled_ends(p) \/ lser_endpolling(p) \/ con_io_polled_ends(p)
      PROVE  ReadOK' /\ IcOK'
  <2>1. UNCHANGED <<rlock, rsem, ring, head, tail, rd, taken, got, rirq, typed, ic>>
    BY Zenon, <1>3 DEF lser_startpolling, writepolled_begins, poll_until_idle, writepolled_sends,
         writepolled_ends, lser_endpolling, con_io_polled, con_io_polled_ends, busBut_line, busvars
  <2> QED
    BY Zenon, <1>0, <2>1, ReadKept DEF IcOK
<1>4. CASE Typed
  <2>1. /\ UNCHANGED <<rlock, rsem, ring, head, tail, rd, taken, got, ic>>
        /\ rirq' = typed + 1 /\ typed' = typed + 1
    BY Zenon, <1>4 DEF Typed, busBut_line
  <2>2. rirq' \in Nat /\ typed' \in Nat
    BY <1>0, <2>1
  <2> QED
    BY Zenon, <2>1, <2>2, ReadKept DEF IcOK
<1>5. CASE lser_irq
  <2>1. /\ UNCHANGED <<rlock, rsem, ring, head, tail, rd, taken, got, typed>>
        /\ rirq' = 0 /\ ic.pc = "handler" /\ ic' = [ic EXCEPT !.pc = "start"]
    BY Zenon, <1>5 DEF lser_irq
  <2>2. IcOK' /\ ic'.pc = "start" /\ rirq' \in Nat
    BY <2>1, IcSet DEF PCs, PortPCs
  <2> QED
    BY <1>0, <2>1, <2>2, ReadKept
<1>6. CASE con_start
  <2>1. /\ UNCHANGED <<rlock, rsem, ring, head, tail, rd, taken, got, typed, rirq>>
        /\ ic.pc = "start" /\ ic' = [ic EXCEPT !.pc = IF seen.char = 0 THEN "reload" ELSE "input"]
    BY Zenon, <1>6 DEF con_start
  <2>2. PICK y \in {"reload", "input"} : ic' = [ic EXCEPT !.pc = y]
    BY <2>1
  <2>3. IcOK' /\ ic'.pc = y
    BY <2>2, IcSet DEF PCs, PortPCs, HandlerPCs
  <2> QED
    BY <1>0, <2>1, <2>2, <2>3, ReadKept
<1>7. CASE con_input
  <2>1. PICK y \in {"reload", "inputV"} : ic' = [ic EXCEPT !.pc = y]
    BY Zenon, <1>7 DEF con_input, Store
  <2>2. IcOK'
    BY <2>1, IcSet DEF PCs, PortPCs, HandlerPCs
  <2> QED
    BY <1>7, <2>2, InputStep
<1>8. CASE con_input_V
  <2>1. /\ UNCHANGED <<rlock, ring, head, tail, rd, taken, got, typed, rirq>>
        /\ ic.pc = "inputV" /\ ic' = [ic EXCEPT !.pc = "reload"] /\ rsem' = rsem + 1
    BY Zenon, <1>8 DEF con_input_V
  <2>2. IcOK' /\ ic'.pc = "reload"
    BY <2>1, IcSet DEF PCs, HandlerPCs
  <2>3. Ring' = Ring /\ Takers' = Takers
    BY <2>1 DEF Ring, Takers
  <2>4. ReadTypes' /\ ReadInv'
    BY <1>0, <2>1 DEF ReadOK, ReadTypes, ReadInv
  <2>5. Cardinality(Takers) \in Nat
    BY TakersAre DEF ReadOK
  <2>6. rsem + Cardinality(Takers) + 1 = Len(Ring)
    BY <2>1, Counts DEF ReadOK
  <2>7. rsem' + Cardinality(Takers') + 0 = Len(Ring')
    BY <1>0, <2>1, <2>3, <2>5, <2>6
  <2>8. taken' = got' \o Ring'
    BY <2>1, <2>3 DEF ReadOK, InputInOrder
  <2> QED
    BY <2>2, <2>4, <2>7, <2>8 DEF ReadOK, InputInOrder, Takers
<1>9. ASSUME NEW r \in Reader,
             con_io_read(r) \/ kgets(r) \/ getch_intr(r) \/ getch_takes(r) \/ getch_advances(r)
      PROVE  ReadOK' /\ IcOK'
  <2>1. ic' = ic
    BY Zenon, <1>9 DEF con_io_read, kgets, Reads, getch_intr, getch_takes, getch_advances, busvars
  <2>2. IcOK'
    BY Zenon, <2>1 DEF IcOK
  <2> QED
    BY Zenon, <1>9, <2>2, ReaderStep, AdvanceStep
<1> QED
  BY Zenon, <1>1, <1>2, <1>3, <1>4, <1>5, <1>6, <1>7, <1>8, <1>9 DEF ConsoleStep

-----------------------------------------------------------------------------
(* Every step keeps the inductive invariant. *)
LEMMA ConsoleInductive ==
  ASSUME ConInv, [ConsoleNext]_<<busvars, convars>>
  PROVE  ConInv'
<1>0. IcOK /\ PortOK /\ WriteOK /\ ReadOK /\ WriteTypes /\ ReadTypes /\ dead # "NotClearToWrite"
  BY Zenon DEF ConInv, WriteOK, ReadOK, PermitInv
<1>1. CASE ConsoleStep
  BY Zenon, <1>0, <1>1, PortStep, WriteStep, ReadStep DEF ConInv
<1>2. CASE BusNext /\ UNCHANGED convars
  <2>1. /\ IcOK' /\ dead' # "NotClearToWrite"
        /\ ic'.pc \in PortPCs \/ ic.pc \in PortPCs => ic' = ic
    BY Zenon, <1>0, <1>2, BusSteps
  <2>2. /\ UNCHANGED <<wlock, rlock, wsem, rsem, ring, head, tail, wbusy, lserlock, sending, wirq, rirq>>
        /\ UNCHANGED <<seen, wr, rd, pol, typed, written, taken, got>>
    BY Zenon, <1>2 DEF convars
  <2>3. PortOK'
    BY Zenon, <1>0, <2>2, PortKept
  <2>4. ic'.pc = "inputV" <=> ic.pc = "inputV"
    BY <2>1 DEF PortPCs
  <2>5. ReadOK'
    BY <1>0, <2>2, <2>4, ReadKept DEF ReadTypes
  <2>6. WriteTypes' /\ Permits' = Permits
    BY Zenon, <1>0, <2>2 DEF WriteTypes, Permits, Sends
  <2>7. seen'.write => ic'.pc = "start"
    BY <1>0, <2>1, <2>2 DEF WriteOK, PermitInv, PortPCs
  <2> QED
    BY Zenon, <1>0, <2>1, <2>3, <2>5, <2>6, <2>7 DEF ConInv, WriteOK, PermitInv
<1>3. CASE UNCHANGED <<busvars, convars>>
  <2>1. /\ UNCHANGED <<wlock, rlock, wsem, rsem, ring, head, tail, wbusy, lserlock, sending, wirq, rirq>>
        /\ UNCHANGED <<seen, wr, rd, pol, typed, written, taken, got>> /\ UNCHANGED <<ic, dead>>
    BY Zenon, <1>3 DEF convars, busvars
  <2>2. ReadOK'
    BY <1>0, <2>1, ReadKept DEF ReadTypes
  <2>3. WriteOK' /\ PortOK' /\ IcOK'
    BY Zenon, <1>0, <2>1, PortKept, WriteKept DEF IcOK
  <2> QED
    BY <2>2, <2>3 DEF ConInv
<1> QED
  BY Zenon, <1>1, <1>2, <1>3 DEF ConsoleNext

(* The inductive invariant holds throughout. *)
LEMMA ConsoleAlways == ConsoleSpec => []ConInv
  BY Initially, ConsoleInductive, PTL DEF ConsoleSpec

(* lser_write never finds the port busy, there is one permission to write  *)
(* among cs_wsem, the threads, the port and its interrupt, and a busy port *)
(* interrupts once its lock is free: also when lser_writepolled comes      *)
(* between the character of a thread and its interrupt, whose place the    *)
(* irqpending it puts aside takes.                                         *)
THEOREM WritersAlternate == ConsoleSpec => []OutputGoesOn
<1>1. ConInv => OutputGoesOn
  <2> SUFFICES ASSUME ConInv PROVE OutputGoesOn
    OBVIOUS
  <2>1. Permits = 1 /\ dead # "NotClearToWrite"
    BY DEF ConInv, WriteOK, PermitInv
  <2>2. wbusy /\ lserlock = None => sending \/ wirq
    BY Zenon DEF ConInv, PortOK, PortInv, FreeOK, Waiting
  <2> QED
    BY Zenon, <2>1, <2>2 DEF OutputGoesOn, Permits, Sends
<1> QED
  BY <1>1, ConsoleAlways, PTL

(* What readers get through getch_intr is what con_input put in the ring,  *)
(* in order and without loss, and cs_rsem counts what is left of it,       *)
(* however the ring wraps around and however full it is.                   *)
THEOREM ReadersGetWhatWasTyped == ConsoleSpec => []InputInOrder
<1>1. ConInv => InputInOrder
  BY DEF ConInv, ReadOK
<1> QED
  BY <1>1, ConsoleAlways, PTL
=============================================================================
