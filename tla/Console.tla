------------------------------ MODULE Console ------------------------------
(***************************************************************************)
(* The console (dev/generic/console.c) on a serial port                    *)
(* (dev/lamebus/lser.c, con_lser.c) of the bus of module Lamebus.          *)
(*                                                                         *)
(* Threads write a character at a time, each after a P of cs_wsem, which   *)
(* the port's interrupt raises; code that may not sleep writes by polling. *)
(* The interrupt handler puts what is typed into a ring buffer, from which *)
(* readers take it after a P of cs_rsem.                                   *)
(***************************************************************************)
EXTENDS Lamebus

CONSTANTS
  Writer, Reader,  \* threads in con_io, kprintf or kgets that write and read
  Poller,          \* code with interrupts off that writes, on another CPU
  SIZE,            \* CONSOLE_INPUT_BUFFER_SIZE
  Newline,         \* which of the characters typed are newlines
  MaxTraffic       \* bound on what is typed and written

ASSUME ConsoleAssumption ==
  /\ IsFiniteSet(Writer) /\ SIZE \in Nat \ {0}
  /\ None \notin Reader \cup Poller \cup {"NotClearToWrite"}

VARIABLES
  wlock,           \* who has con_userlock_write, kprintf_lock, kprintf_spinlock
  rlock,           \* who has con_userlock_read, or is in kgets
  wsem, rsem,      \* counts of cs_wsem and cs_rsem
  ring, head, tail,\* cs_gotchars
  wbusy, lserlock, \* ls_wbusy, and the holder of ls_lock
  sending, wirq,   \* the port: a character is on its way out, or is out
  rirq,            \* the character that has come in, 0: none
  seen,            \* what lser_irq has found: [write, char]
  wr,              \* wr[w]: [pc, n], n characters still to write
  rd,              \* rd[r]: [pc, n, ch]
  pol,             \* pol[p]: [pc, irqpending]
  typed, written,  \* how many characters were typed, and how many writes began
  taken, got       \* history: the characters put in the ring, those read

convars == <<wlock, rlock, wsem, rsem, ring, head, tail, wbusy, lserlock, sending, wirq, rirq,
             seen, wr, rd, pol, typed, written, taken, got>>

(* The ways to the port.  kgets takes no lock, but only the menu calls it. *)
OutLock == {"con_userlock_write", "kprintf_lock", "kprintf_spinlock", "kgets"}

Boot == "boot"
Nothing == [write |-> FALSE, char |-> 0]

ConsoleInit ==
  /\ BusInit
  /\ wlock = [k \in OutLock |-> None] /\ rlock = None /\ wsem = 1 /\ rsem = 0
  /\ ring = [i \in 0..(SIZE - 1) |-> 0] /\ head = 0 /\ tail = 0
  /\ wbusy = FALSE /\ lserlock = None /\ sending = FALSE /\ wirq = FALSE /\ rirq = 0
  /\ seen = Nothing
  /\ wr = [w \in Writer \cup {Boot} |-> [pc |-> "idle", n |-> 0]]
  /\ rd = [r \in Reader |-> [pc |-> "idle", n |-> 0, ch |-> 0]]
  /\ pol = [p \in Poller |-> [pc |-> "idle", irqpending |-> FALSE]]
  /\ typed = 0 /\ written = 0 /\ taken = <<>> /\ got = <<>>

Up == dead = None /\ boot.pc = "done" /\ the["con"] # None
port == the["con"]

(* The port's interrupt line. *)
Line(w, r) == line' = IF w \/ r # 0 THEN line \cup {port} ELSE line \ {port}
busBut_line == <<machine, inuse, irqfuncs, nextunit, the, irqe, duds, ic, boot, faults, dead>>

-----------------------------------------------------------------------------
(* Writing *)

(* A thread writes one or two characters, in con_io, in kprintf or, in     *)
(* kgets, as an echo of what was typed.                                    *)
Writes(w, k) ==
  /\ Up /\ w \in Writer /\ wr[w].pc = "idle" /\ wlock[k] = None
  /\ written + typed < MaxTraffic
  /\ wlock' = [wlock EXCEPT ![k] = w] /\ written' = written + 1
  /\ \E n \in 1..2 : wr' = [wr EXCEPT ![w] = [pc |-> "P", n |-> n]]
  /\ UNCHANGED <<busvars, rlock, wsem, rsem, ring, head, tail, wbusy, lserlock, sending, wirq, rirq,
                 seen, rd, pol, typed, taken, got>>

con_io_write(w) == Writes(w, "con_userlock_write")
kprintf(w) == Writes(w, "kprintf_lock")
kgets_echo(w) == Writes(w, "kgets")

Unlock(w) == wlock' = [k \in OutLock |-> IF wlock[k] = w THEN None ELSE wlock[k]]

(* The messages printed before there was a console. *)
flush_delay_buf ==
  /\ Booting("flush")
  /\ IF wr[Boot].pc = "idle" THEN wr' = [wr EXCEPT ![Boot] = [pc |-> "P", n |-> 2]] /\ UNCHANGED boot
     ELSE /\ wr[Boot].pc = "end" /\ wr' = wr
          /\ boot' = [boot EXCEPT !.pc = "child"]
  /\ UNCHANGED <<machine, inuse, irqfuncs, nextunit, the, line, irqe, duds, ic, faults, dead,
                 wlock, rlock, wsem, rsem, ring, head, tail, wbusy, lserlock, sending, wirq, rirq,
                 seen, rd, pol, typed, written, taken, got>>

(* The boot thread waits while its CPU is in the handler. *)
Runs(w) == dead = None /\ (w = Boot => ic.pc = "idle")

putch_intr(w) ==
  /\ Runs(w) /\ wr[w].pc = "P" /\ wsem > 0
  /\ wsem' = wsem - 1 /\ wr' = [wr EXCEPT ![w].pc = "send"]
  /\ UNCHANGED <<busvars, wlock, rlock, rsem, ring, head, tail, wbusy, lserlock, sending, wirq, rirq,
                 seen, rd, pol, typed, written, taken, got>>

lser_write(w) ==
  /\ Runs(w) /\ wr[w].pc = "send" /\ lserlock = None
  /\ IF wbusy THEN dead' = "NotClearToWrite" /\ UNCHANGED <<wbusy, sending, wr>>
     ELSE /\ wbusy' = TRUE /\ sending' = TRUE /\ UNCHANGED dead
          /\ wr' = [wr EXCEPT ![w] = [pc |-> IF @.n = 1 THEN "end" ELSE "P", n |-> @.n - 1]]
  /\ UNCHANGED <<machine, inuse, irqfuncs, nextunit, the, line, irqe, duds, ic, boot, faults,
                 wlock, rlock, wsem, rsem, ring, head, tail, lserlock, wirq, rirq,
                 seen, rd, pol, typed, written, taken, got>>

write_ends(w) ==
  /\ dead = None /\ w # Boot /\ wr[w].pc = "end"
  /\ Unlock(w) /\ wr' = [wr EXCEPT ![w].pc = "idle"]
  /\ UNCHANGED <<busvars, rlock, wsem, rsem, ring, head, tail, wbusy, lserlock, sending, wirq, rirq,
                 seen, rd, pol, typed, written, taken, got>>

(* The port has sent a character. *)
Sent ==
  /\ dead = None /\ sending
  /\ sending' = FALSE /\ wirq' = TRUE /\ Line(TRUE, rirq)
  /\ UNCHANGED <<busBut_line, wlock, rlock, wsem, rsem, ring, head, tail, wbusy, lserlock, rirq,
                 seen, wr, rd, pol, typed, written, taken, got>>

-----------------------------------------------------------------------------
(* Writing by polling *)

PolStep(p, rec) == pol' = [pol EXCEPT ![p] = rec]

(* kprintf with interrupts off: the port's interrupt is masked meanwhile. *)
lser_startpolling(p) ==
  /\ Up /\ pol[p].pc = "idle" /\ written + typed < MaxTraffic
  /\ wlock["kprintf_spinlock"] = None /\ wlock' = [wlock EXCEPT !["kprintf_spinlock"] = p]
  /\ irqe' = irqe \ {port} /\ PolStep(p, [pol[p] EXCEPT !.pc = "begin"])
  /\ written' = written + 1
  /\ UNCHANGED <<machine, inuse, irqfuncs, nextunit, the, line, duds, ic, boot, faults, dead, rlock,
                 wsem, rsem, ring, head, tail, wbusy, lserlock, sending, wirq, rirq,
                 seen, wr, rd, typed, taken, got>>

(* con_io for sys_write, which holds a spinlock: putch polls, and nothing  *)
(* is masked.                                                              *)
con_io_polled(p) ==
  /\ Up /\ pol[p].pc = "idle" /\ written + typed < MaxTraffic
  /\ wlock["con_userlock_write"] = None /\ wlock' = [wlock EXCEPT !["con_userlock_write"] = p]
  /\ PolStep(p, [pol[p] EXCEPT !.pc = "begin"])
  /\ written' = written + 1
  /\ UNCHANGED <<busvars, rlock, wsem, rsem, ring, head, tail, wbusy, lserlock, sending, wirq, rirq,
                 seen, wr, rd, typed, taken, got>>

(* ls_lock is taken; a busy port is waited for and its condition cleared. *)
writepolled_begins(p) ==
  /\ dead = None /\ pol[p].pc = "begin" /\ lserlock = None
  /\ lserlock' = p
  /\ PolStep(p, [pol[p] EXCEPT !.pc = IF wbusy THEN "busy" ELSE "send", !.irqpending = wbusy])
  /\ UNCHANGED <<busvars, wlock, rlock, wsem, rsem, ring, head, tail, wbusy, sending, wirq, rirq,
                 seen, wr, rd, typed, written, taken, got>>

poll_until_idle(p) ==
  /\ dead = None /\ pol[p].pc = "busy" /\ wirq
  /\ wirq' = FALSE /\ Line(FALSE, rirq) /\ PolStep(p, [pol[p] EXCEPT !.pc = "send"])
  /\ UNCHANGED <<busBut_line, wlock, rlock, wsem, rsem, ring, head, tail, wbusy, lserlock, sending,
                 rirq, seen, wr, rd, typed, written, taken, got>>

writepolled_sends(p) ==
  /\ dead = None /\ pol[p].pc = "send"
  /\ sending' = TRUE /\ PolStep(p, [pol[p] EXCEPT !.pc = "wait"])
  /\ UNCHANGED <<busvars, wlock, rlock, wsem, rsem, ring, head, tail, wbusy, lserlock, wirq, rirq,
                 seen, wr, rd, typed, written, taken, got>>

(* Faulty variant: the ready condition is always cleared. *)
poll_clears_ready(p) ==
  /\ dead = None /\ pol[p].pc = "wait" /\ wirq
  /\ wirq' = FALSE
  /\ Line(wirq', rirq) /\ lserlock' = None
  /\ PolStep(p, [pc |-> "complete", irqpending |-> FALSE])
  /\ UNCHANGED <<busBut_line, wlock, rlock, wsem, rsem, ring, head, tail, wbusy, sending, rirq,
                 seen, wr, rd, typed, written, taken, got>>

(* The ready condition is left for the handler if a thread's character was *)
(* on its way.                                                             *)
writepolled_ends(p) ==
  /\ dead = None /\ pol[p].pc = "wait" /\ wirq
  /\ wirq' = pol[p].irqpending
  /\ Line(wirq', rirq) /\ lserlock' = None
  /\ PolStep(p, [pc |-> "complete", irqpending |-> FALSE])
  /\ UNCHANGED <<busBut_line, wlock, rlock, wsem, rsem, ring, head, tail, wbusy, sending, rirq,
                 seen, wr, rd, typed, written, taken, got>>

lser_endpolling(p) ==
  /\ dead = None /\ pol[p].pc = "complete" /\ wlock["kprintf_spinlock"] = p
  /\ irqe' = irqe \cup {port} /\ PolStep(p, [pol[p] EXCEPT !.pc = "idle"]) /\ Unlock(p)
  /\ UNCHANGED <<machine, inuse, irqfuncs, nextunit, the, line, duds, ic, boot, faults, dead, rlock,
                 wsem, rsem, ring, head, tail, wbusy, lserlock, sending, wirq, rirq,
                 seen, wr, rd, typed, written, taken, got>>

con_io_polled_ends(p) ==
  /\ dead = None /\ pol[p].pc = "complete" /\ wlock["con_userlock_write"] = p
  /\ PolStep(p, [pol[p] EXCEPT !.pc = "idle"]) /\ Unlock(p)
  /\ UNCHANGED <<busvars, rlock, wsem, rsem, ring, head, tail, wbusy, lserlock, sending, wirq, rirq,
                 seen, wr, rd, typed, written, taken, got>>

-----------------------------------------------------------------------------
(* The handler *)

busBut_irq == <<machine, inuse, irqfuncs, nextunit, the, irqe, duds, boot, faults, dead>>

lser_irq ==
  /\ dead = None /\ ic.pc = "handler" /\ machine[ic.slot] = "lser" /\ lserlock = None
  /\ wbusy' = (wbusy /\ ~wirq) /\ wirq' = FALSE /\ rirq' = 0
  /\ seen' = [write |-> wirq, char |-> rirq]
  /\ line' = line \ {ic.slot} /\ ic' = [ic EXCEPT !.pc = "start"]
  /\ UNCHANGED <<busBut_irq, wlock, rlock, wsem, rsem, ring, head, tail, lserlock, sending,
                 wr, rd, pol, typed, written, taken, got>>

con_start ==
  /\ dead = None /\ ic.pc = "start"
  /\ wsem' = wsem + IF seen.write THEN 1 ELSE 0
  /\ ic' = [ic EXCEPT !.pc = IF seen.char = 0 THEN "reload" ELSE "input"]
  /\ seen' = [seen EXCEPT !.write = FALSE]
  /\ UNCHANGED <<busBut_irq, line, wlock, rlock, rsem, ring, head, tail, wbusy, lserlock, sending,
                 wirq, rirq, wr, rd, pol, typed, written, taken, got>>

Store(drop) ==
  /\ dead = None /\ ic.pc = "input"
  /\ IF drop THEN ic' = [ic EXCEPT !.pc = "reload"] /\ UNCHANGED <<ring, head, taken>>
     ELSE /\ ring' = [ring EXCEPT ![head] = seen.char] /\ head' = (head + 1) % SIZE
          /\ taken' = Append(taken, seen.char)
          /\ ic' = [ic EXCEPT !.pc = "inputV"]
  /\ seen' = Nothing
  /\ UNCHANGED <<busBut_irq, line, wlock, rlock, wsem, rsem, tail, wbusy, lserlock, sending, wirq,
                 rirq, wr, rd, pol, typed, written, got>>

(* Faulty variant: a full buffer is not noticed. *)
con_input_overruns == Store(FALSE)

con_input == Store((head + 1) % SIZE = tail)

con_input_V ==
  /\ dead = None /\ ic.pc = "inputV"
  /\ rsem' = rsem + 1 /\ ic' = [ic EXCEPT !.pc = "reload"]
  /\ UNCHANGED <<busBut_irq, line, wlock, rlock, wsem, ring, head, tail, wbusy, lserlock, sending,
                 wirq, rirq, seen, wr, rd, pol, typed, written, taken, got>>

-----------------------------------------------------------------------------
(* Reading *)

Typed ==
  /\ Up /\ rirq = 0 /\ written + typed < MaxTraffic
  /\ typed' = typed + 1 /\ rirq' = typed + 1 /\ Line(TRUE, typed + 1)
  /\ UNCHANGED <<busBut_line, wlock, rlock, wsem, rsem, ring, head, tail, wbusy, lserlock, sending,
                 wirq, seen, wr, rd, pol, written, taken, got>>

(* con_io reads up to a newline or until it has n characters, kgets (with  *)
(* n = 0) up to a newline.  kgets does not take con_userlock_read; the     *)
(* menu calls it only while no process is left that could (MenuWaits of    *)
(* Process).                                                               *)
Reads(r, n) ==
  /\ Up /\ rd[r].pc = "idle" /\ rlock = None
  /\ rlock' = r /\ rd' = [rd EXCEPT ![r] = [pc |-> "P", n |-> n, ch |-> 0]]
  /\ UNCHANGED <<busvars, wlock, wsem, rsem, ring, head, tail, wbusy, lserlock, sending, wirq, rirq,
                 seen, wr, pol, typed, written, taken, got>>

con_io_read(r) == \E n \in 1..2 : Reads(r, n)
kgets(r) == Reads(r, 0)

getch_intr(r) ==
  /\ dead = None /\ rd[r].pc = "P" /\ rsem > 0
  /\ rsem' = rsem - 1 /\ rd' = [rd EXCEPT ![r].pc = "take"]
  /\ UNCHANGED <<busvars, wlock, rlock, wsem, ring, head, tail, wbusy, lserlock, sending, wirq, rirq,
                 seen, wr, pol, typed, written, taken, got>>

getch_takes(r) ==
  /\ dead = None /\ rd[r].pc = "take"
  /\ rd' = [rd EXCEPT ![r].pc = "advance", ![r].ch = ring[tail]]
  /\ UNCHANGED <<busvars, wlock, rlock, wsem, rsem, ring, head, tail, wbusy, lserlock, sending, wirq,
                 rirq, seen, wr, pol, typed, written, taken, got>>

(* The character goes to the reader, or is lost when con_io's uiomove      *)
(* fails; the read ends at a newline.                                      *)
getch_advances(r) ==
  /\ dead = None /\ rd[r].pc = "advance"
  /\ tail' = (tail + 1) % SIZE /\ got' = Append(got, rd[r].ch)
  /\ \E fault \in {FALSE, rd[r].n > 0} :
       LET ends == fault \/ rd[r].ch \in Newline \/ rd[r].n = 1
       IN /\ rd' = [rd EXCEPT ![r] = [pc |-> IF ends THEN "idle" ELSE "P",
                                          n |-> IF @.n > 0 THEN @.n - 1 ELSE 0, ch |-> 0]]
          /\ rlock' = IF ends THEN None ELSE rlock
  /\ UNCHANGED <<busvars, wlock, wsem, rsem, ring, head, wbusy, lserlock, sending, wirq, rirq,
                 seen, wr, pol, typed, written, taken>>

-----------------------------------------------------------------------------
ConsoleStep ==
  \/ flush_delay_buf
  \/ \E w \in Writer \cup {Boot} : \/ con_io_write(w) \/ kprintf(w) \/ kgets_echo(w)
                                \/ putch_intr(w) \/ lser_write(w) \/ write_ends(w)
  \/ \E p \in Poller : \/ lser_startpolling(p) \/ con_io_polled(p) \/ writepolled_begins(p)
                       \/ poll_until_idle(p) \/ writepolled_sends(p) \/ writepolled_ends(p)
                       \/ lser_endpolling(p) \/ con_io_polled_ends(p)
  \/ Sent \/ lser_irq \/ con_start \/ con_input \/ con_input_V \/ Typed
  \/ \E r \in Reader : con_io_read(r) \/ kgets(r) \/ getch_intr(r) \/ getch_takes(r) \/ getch_advances(r)

ConsoleNext == ConsoleStep \/ (BusNext /\ UNCHANGED convars)

ConsoleSpec == ConsoleInit /\ [][ConsoleNext]_<<busvars, convars>>

-----------------------------------------------------------------------------
(* Output goes on and never breaks the rule of the port ("It's the job of  *)
(* the driver attached to us to not write until we call ls->ls_start",     *)
(* lser_write), also when polled output comes between a thread's character *)
(* and its interrupt: there is one permission to write, which is cs_wsem,  *)
(* a thread or the handler, or the port is busy; and a busy port whose     *)
(* lock is free will interrupt.                                            *)
OutputGoesOn ==
  LET sends == {w \in DOMAIN wr : wr[w].pc = "send"}
  IN /\ dead # "NotClearToWrite"
     /\ wsem + Cardinality(sends) + (IF wbusy THEN 1 ELSE 0) + (IF seen.write THEN 1 ELSE 0) = 1
     /\ wbusy /\ lserlock = None => sending \/ wirq

(* The characters in the ring, oldest first. *)
Ring == [i \in 1..((head - tail + SIZE) % SIZE) |-> ring[(tail + i - 1) % SIZE]]

(* Input is kept in order: what readers have got, followed by what is in   *)
(* the ring (con_input, getch_intr), is what was put there, however full   *)
(* the ring is, and cs_rsem counts the characters nobody is taking.        *)
InputInOrder ==
  /\ taken = got \o Ring
  /\ rsem + Cardinality({r \in Reader : rd[r].pc \in {"take", "advance"}})
          + (IF ic.pc = "inputV" THEN 1 ELSE 0) = Len(Ring)
=============================================================================
