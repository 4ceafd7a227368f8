------------------------------ MODULE Lamebus ------------------------------
(***************************************************************************)
(* The system bus (dev/lamebus/lamebus.c), the configuration of the        *)
(* devices on it at boot (the generated autoconf.c, the *_att.c files, the *)
(* attachments of con, beep, rtclock and random) and the dispatch of their *)
(* interrupts on the boot CPU.                                             *)
(*                                                                         *)
(* What runs under ls_lock without leaving it is one step.  Interrupts are *)
(* on while devices are configured, so the handler and the configuration   *)
(* alternate; they share a CPU, so configuration stands still meanwhile.   *)
(***************************************************************************)
EXTENDS Integers, Sequences, FiniteSets, FiniteSetsExt

CONSTANTS
  NSlots,     \* LB_NSLOTS without the slot of the controller
  Machines,   \* what may be in the slots: "old" is a device whose revision
              \* no driver supports, "net" one that has no driver
  MaxDuds,    \* 10000 in the code
  MaxFaults,  \* bound on the allocations that fail while booting
  None

Slot == 0..(NSlots - 1)

(* autoconf_lamebus: the drivers in the order they are tried. *)
Driver == <<"emu", "ltrace", "ltimer", "lrandom", "lhd", "lser">>
Kind == {Driver[i] : i \in 1..Len(Driver)}

(* autoconf_X: the devices tried on top of one that was found. *)
autoconf_ltimer == <<"beep", "rtclock">>
autoconf_lrandom == <<"random">>
autoconf_lser == <<"con">>
Children == [d \in Kind |-> CASE d = "ltimer" -> autoconf_ltimer [] d = "lrandom" -> autoconf_lrandom
                               [] d = "lser" -> autoconf_lser [] OTHER -> <<>>]
Abstract == {"beep", "rtclock", "random", "con"}

(* attach_X_to_lamebus: whether the device gets an interrupt handler. *)
attach_emu == TRUE
attach_ltrace == FALSE
attach_ltimer == TRUE
attach_lrandom == FALSE
attach_lhd == TRUE
attach_lser == TRUE
Interrupting == {d \in Kind : CASE d = "emu" -> attach_emu [] d = "ltrace" -> attach_ltrace
                                [] d = "ltimer" -> attach_ltimer [] d = "lrandom" -> attach_lrandom
                                [] d = "lhd" -> attach_lhd [] d = "lser" -> attach_lser}

(* config_X: how it may end; "late" is a failure after the_X is set, when  *)
(* the name does not enter the table of devices (vfs_adddev).              *)
config_emu == {"ok", "fails"}
config_ltrace == {"ok"}
config_ltimer == {"ok"}
config_lrandom == {"ok"}
config_lhd == {"ok", "fails"}
config_lser == {"ok"}
config_beep == {"ok"}
config_rtclock == {"ok"}
config_random == {"ok", "late"}
config_con == {"ok", "fails", "late"}
Config == [d \in Kind \cup Abstract |->
  CASE d = "emu" -> config_emu [] d = "ltrace" -> config_ltrace [] d = "ltimer" -> config_ltimer
    [] d = "lrandom" -> config_lrandom [] d = "lhd" -> config_lhd [] d = "lser" -> config_lser
    [] d = "beep" -> config_beep [] d = "rtclock" -> config_rtclock
    [] d = "random" -> config_random [] d = "con" -> config_con]

VARIABLES
  machine,    \* machine[s]: the device in slot s
  inuse,      \* ls_slotsinuse
  irqfuncs,   \* ls_irqfuncs and ls_devdata: [drv, unit] or None
  nextunit,   \* nextunit_X
  the,        \* the_console, the_beep, the_clock, the_random: a slot or None
  line,       \* the slots asserting their interrupt (CTLREG_IRQS)
  irqe,       \* the slots whose interrupts are enabled (CTLREG_IRQE)
  duds,       \* the static counter of lamebus_interrupt
  ic,         \* lamebus_interrupt on the boot CPU: [pc, slot, dthis]
  boot,       \* autoconf_lamebus: [pc, k, unit, slot, child]
  faults,
  dead        \* why the kernel stopped, or None

busvars == <<machine, inuse, irqfuncs, nextunit, the, line, irqe, duds, ic, boot, faults, dead>>

NotInInterrupt == [pc |-> "idle", slot |-> 0, dthis |-> 0]

(* lamebus_init; mainbus_bootstrap turns interrupts on. *)
BusInit ==
  /\ machine \in Machines
  /\ inuse = {} /\ irqfuncs = [s \in Slot |-> None]
  /\ nextunit = [d \in Kind \cup Abstract |-> 0] /\ the = [a \in Abstract |-> None]
  /\ line = {} /\ irqe = Slot /\ duds = 0 /\ ic = NotInInterrupt
  /\ boot = [pc |-> "probe", k |-> 1, unit |-> 0, slot |-> 0, child |-> 1]
  /\ faults = 0 /\ dead = None

-----------------------------------------------------------------------------
(* Configuration *)

Booting(pc) == dead = None /\ ic.pc = "idle" /\ boot.pc = pc
drv == Driver[boot.k]

(* The next kind of device, when tryattach_X_to_lamebus did not return 0. *)
NextDriver ==
  IF boot.k = Len(Driver) THEN [boot EXCEPT !.pc = "done"]
  ELSE [pc |-> "probe", k |-> boot.k + 1, unit |-> nextunit[Driver[boot.k + 1]],
        slot |-> 0, child |-> 1]

CanFail == faults < MaxFaults
Fault == CanFail /\ faults' = faults + 1

(* Faulty variant: the revision of the device is not looked at. *)
probe_any_revision ==
  /\ Booting("probe")
  /\ LET found == {s \in Slot \ inuse : machine[s] \in {drv, "old"}}
     IN boot' = IF found = {} THEN NextDriver ELSE [boot EXCEPT !.pc = "mark", !.slot = Min(found)]
  /\ UNCHANGED <<machine, inuse, irqfuncs, nextunit, the, line, irqe, duds, ic, faults, dead>>

lamebus_probe ==
  /\ Booting("probe")
  /\ LET found == {s \in Slot \ inuse : machine[s] = drv}
     IN boot' = IF found = {} THEN NextDriver ELSE [boot EXCEPT !.pc = "mark", !.slot = Min(found)]
  /\ UNCHANGED <<machine, inuse, irqfuncs, nextunit, the, line, irqe, duds, ic, faults, dead>>

(* kmalloc of the softc fails: the slot is not taken. *)
attach_fails ==
  /\ Booting("mark") /\ Fault /\ boot' = NextDriver
  /\ UNCHANGED <<machine, inuse, irqfuncs, nextunit, the, line, irqe, duds, ic, dead>>

lamebus_mark ==
  /\ Booting("mark")
  /\ inuse' = inuse \cup {boot.slot}
  /\ boot' = [boot EXCEPT !.pc = IF drv \in Interrupting THEN "attach" ELSE "config"]
  /\ UNCHANGED <<machine, irqfuncs, nextunit, the, line, irqe, duds, ic, faults, dead>>

lamebus_attach_interrupt ==
  /\ Booting("attach")
  /\ irqfuncs' = [irqfuncs EXCEPT ![boot.slot] = [drv |-> drv, unit |-> boot.unit]]
  /\ boot' = [boot EXCEPT !.pc = "config"]
  /\ UNCHANGED <<machine, inuse, nextunit, the, line, irqe, duds, ic, faults, dead>>

config ==
  /\ Booting("config")
  /\ nextunit' = [nextunit EXCEPT ![drv] = boot.unit + 1]
  /\ boot' = [boot EXCEPT !.pc = "child", !.child = 1]
  /\ UNCHANGED <<machine, inuse, irqfuncs, the, line, irqe, duds, ic, faults, dead>>

(* The device is not cleaned up. *)
config_fails ==
  /\ Booting("config") /\ "fails" \in Config[drv] /\ Fault /\ boot' = NextDriver
  /\ UNCHANGED <<machine, inuse, irqfuncs, nextunit, the, line, irqe, duds, ic, dead>>

(* autoconf_X: child devices, unit 0 of each kind and no other; a new      *)
(* console prints what was kept for it.                                    *)
child == Children[drv][boot.child]
HasChild == boot.child <= Len(Children[drv])
Wanted == HasChild /\ nextunit[child] <= 0

tryattach_child ==
  /\ Booting("child") /\ Wanted
  /\ IF the[child] # None
     THEN dead' = "assertion" /\ UNCHANGED <<nextunit, the, boot>>
     ELSE /\ the' = [the EXCEPT ![child] = boot.slot]
          /\ nextunit' = [nextunit EXCEPT ![child] = 1]
          /\ boot' = [boot EXCEPT !.child = @ + 1, !.pc = IF child = "con" THEN "flush" ELSE "child"]
          /\ UNCHANGED dead
  /\ UNCHANGED <<machine, inuse, irqfuncs, line, irqe, duds, ic, faults>>

(* An allocation fails in attach_X_to_Y or in config_X. *)
child_fails ==
  /\ Booting("child") /\ Wanted /\ the[child] = None /\ Fault
  /\ \E placed \in {FALSE} \cup {late \in {TRUE} : "late" \in Config[child]} :
       /\ the' = IF placed THEN [the EXCEPT ![child] = boot.slot] ELSE the
       /\ boot' = [boot EXCEPT !.child = @ + 1,
                               !.pc = IF placed /\ child = "con" THEN "flush" ELSE "child"]
  /\ UNCHANGED <<machine, inuse, irqfuncs, nextunit, line, irqe, duds, ic, dead>>

skip_child ==
  /\ Booting("child") /\ ~Wanted
  /\ boot' = IF HasChild THEN [boot EXCEPT !.child = @ + 1]
             ELSE [boot EXCEPT !.pc = "probe", !.unit = @ + 1]
  /\ UNCHANGED <<machine, inuse, irqfuncs, nextunit, the, line, irqe, duds, ic, faults, dead>>

autoconf_lamebus ==
  \/ lamebus_probe \/ attach_fails \/ lamebus_mark \/ lamebus_attach_interrupt
  \/ config \/ config_fails \/ tryattach_child \/ child_fails \/ skip_child

-----------------------------------------------------------------------------
(* Interrupts *)

(* A device whose driver is ready interrupts, or one without a driver, and *)
(* that one may also stop doing so by itself.  A serial port does so on    *)
(* its own account (module Console).                                       *)
Asserts(s) ==
  /\ dead = None /\ s \notin line /\ machine[s] # "lser"
  /\ machine[s] = "net" \/ (irqfuncs[s] # None /\ (boot.slot = s => boot.pc \notin {"attach", "config"}))
  /\ line' = line \cup {s}
  /\ UNCHANGED <<machine, inuse, irqfuncs, nextunit, the, irqe, duds, ic, boot, faults, dead>>

Transient(s) ==
  /\ dead = None /\ s \in line /\ machine[s] = "net"
  /\ line' = line \ {s}
  /\ UNCHANGED <<machine, inuse, irqfuncs, nextunit, the, irqe, duds, ic, boot, faults, dead>>

(* The CPU takes the interrupt before lamebus_interrupt reads which slots  *)
(* it comes from.                                                          *)
mainbus_interrupt ==
  /\ dead = None /\ ic.pc = "idle" /\ line \cap irqe # {}
  /\ ic' = [NotInInterrupt EXCEPT !.pc = "enter"]
  /\ UNCHANGED <<machine, inuse, irqfuncs, nextunit, the, line, irqe, duds, boot, faults, dead>>

(* kprintf under ls_lock: once there is a console on a serial port it asks *)
(* for ls_lock again, to mask the interrupt of the port.                   *)
KprintfLocked == IF the["con"] = None THEN None ELSE "deadlock"

(* From slot `from' on: duds up to the first slot that has a handler, or   *)
(* to the end of the pass.                                                 *)
Scan(from, d0) ==
  LET ready == {s \in line : s >= from /\ s \in inuse /\ irqfuncs[s] # None}
      upto  == IF ready = {} THEN NSlots ELSE Min(ready)
      d     == Cardinality({s \in line : s >= from /\ s < upto})
      all   == duds + d0 + d
      this  == ic.dthis + d0 + d
      clean == this = 0 /\ all > 0
  IN IF ready # {}
     THEN /\ ic' = [pc |-> "handler", slot |-> upto, dthis |-> this]
          /\ duds' = all /\ UNCHANGED dead
     ELSE /\ ic' = NotInInterrupt
          /\ duds' = IF clean THEN 0 ELSE all
          /\ dead' = IF (d0 > 0 \/ clean) /\ KprintfLocked # None THEN KprintfLocked
                     ELSE IF ~clean /\ all > MaxDuds THEN "duds" ELSE None

lamebus_interrupt ==
  /\ dead = None
  /\ \/ ic.pc = "enter" /\ Scan(0, IF line = {} THEN 1 ELSE 0)
     \/ ic.pc = "reload" /\ Scan(ic.slot + 1, 0)
  /\ UNCHANGED <<machine, inuse, irqfuncs, nextunit, the, line, irqe, boot, faults>>

(* emu_irq, ltimer_irq and lhd_irq acknowledge the interrupt. *)
handler ==
  /\ dead = None /\ ic.pc = "handler" /\ machine[ic.slot] # "lser"
  /\ line' = line \ {ic.slot} /\ ic' = [ic EXCEPT !.pc = "reload"]
  /\ UNCHANGED <<machine, inuse, irqfuncs, nextunit, the, irqe, duds, boot, faults, dead>>

BusNext ==
  \/ autoconf_lamebus
  \/ \E s \in Slot : Asserts(s) \/ Transient(s)
  \/ mainbus_interrupt \/ lamebus_interrupt \/ handler

-----------------------------------------------------------------------------
(* The units of kind d are numbered by slot; what a stands on. *)
Ordered(d) == LET at == {s \in Slot : machine[s] = d}
              IN \A s \in at : irqfuncs[s] # None =>
                   irqfuncs[s] = [drv |-> d, unit |-> Cardinality({t \in at : t < s})]
Below(a) == CHOOSE d \in Kind : \E i \in 1..Len(Children[d]) : Children[d][i] = a

(* Configuration finds what there is: when it has ended and nothing failed *)
(* (tryattach_X_to_lamebus), exactly the devices some driver supports have *)
(* one, the units of a kind are numbered in the order of their slots, each *)
(* abstract device stands on unit 0 of its kind, and on the way there      *)
(* every handler was that of the device in the slot it is called for,      *)
(* interrupts or not.                                                      *)
DevicesAttached ==
  /\ \A d \in Kind : Ordered(d)
  /\ dead = "assertion" => faults > 0
  /\ boot.pc = "done" /\ faults = 0 =>
       /\ inuse = {s \in Slot : machine[s] \in Kind}
       /\ \A s \in inuse : machine[s] \in Interrupting <=> irqfuncs[s] # None
       /\ \A d \in Kind : nextunit[d] = Cardinality({s \in Slot : machine[s] = d})
       /\ \A a \in Abstract : LET at == {s \in Slot : machine[s] = Below(a)}
                              IN the[a] = IF at = {} THEN None ELSE Min(at)

(* An interrupt nobody caused is survived ("We could just return now, but  *)
(* instead we'll continue ahead"): the handler does not wait for the lock  *)
(* that it holds.                                                          *)
StraysSurvived == dead # "deadlock"
=============================================================================
