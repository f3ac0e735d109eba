-------------------------------- MODULE Apic --------------------------------
(***************************************************************************)
(* Interrupt hardware as crates/apic programs it, and the dispatch of      *)
(* crates/cpu/src/idt.rs: each CPU's local APIC (software enable, timer,   *)
(* pending and in-service vectors), the I/O APIC's redirection entries,    *)
(* the legacy PIC, and the handlers of kernel/src/main.rs.  CPUs are named *)
(* by their APIC ids.  A CPU's interrupt flag and the handler it is in are *)
(* one value: "off", "on", or the handler's next step.                     *)
(***************************************************************************)
EXTENDS Integers, Sequences, SequencesExt

CONSTANTS CpuIds, Bsp,
          Gsis,            \* global system interrupts
          MinTicks, MaxTicks, \* sanity bounds of the calibration
          CalTicks         \* what the calibration may measure

TIMER     == 32
KEYBOARD  == 33
VIRTIO    == 64
RESCHED   == 251
SHOOTDOWN == 252
LEGACY    == 9             \* IRQ1 of a PIC at its power-on base

VARIABLES lapic,    \* [on, timer]: SVR enable, the timer's LVT and count
          irr, isr, \* pending and in-service vectors
          flag,     \* "off", "on", or the step of the running handler
          handlers, \* HANDLERS: the vectors with a registered handler
          redir,    \* GSI -> redirection entry
          pic,      \* whether the PIC is masked
          ticks     \* LAPIC_TICKS_PER_MS

avars == <<lapic, irr, isr, flag, handlers, redir, pic, ticks>>

Masked == [vec |-> 0, dest |-> Bsp, low |-> FALSE, level |-> FALSE]

\* the firmware leaves the boot CPU's local APIC enabled, a CPU after INIT has
\* it software-disabled
AInit ==
  /\ lapic = [c \in CpuIds |-> [on |-> c = Bsp, timer |-> "masked"]]
  /\ irr = [c \in CpuIds |-> {}] /\ isr = [c \in CpuIds |-> {}]
  /\ flag = [c \in CpuIds |-> "off"]
  /\ handlers = {}
  /\ redir = [g \in Gsis |-> Masked]
  /\ pic = FALSE
  /\ ticks = 0

(* --------------------------- the local APIC -------------------------- *)

(* Mutant of InitLapic: the x2APIC branch leaves the spurious register. *)
InitLapicNoSvr(c) == lapic' = [lapic EXCEPT ![c].timer = "masked"]

\* init_lapic, then init_bsp and init_ap: enabled, accepting every priority,
\* timer masked and stopped
InitLapic(c) == lapic' = [lapic EXCEPT ![c] = [on |-> TRUE, timer |-> "masked"]]

\* a software-disabled local APIC swallows fixed vectors
Accept(pending, c, vec) == IF lapic[c].on THEN pending \cup {vec} ELSE pending

\* send_ipi to the other CPUs: write_icr with the shorthand
SendOthers(c, vec) == irr' = [d \in CpuIds |-> IF d = c THEN irr[d] ELSE Accept(irr[d], d, vec)]

\* calibrate_timer; FALSE is its panic
Calibrated(t) == t \in MinTicks..MaxTicks

\* set_timer_oneshot: refuses an uncalibrated timer
Arm(l, c) == [l EXCEPT ![c].timer = IF ticks > 0 THEN "armed" ELSE "panic"]

\* the armed timer runs out
TimerFires(c) ==
  /\ lapic[c].timer = "armed"
  /\ lapic' = [lapic EXCEPT ![c].timer = "expired"]
  /\ irr' = [irr EXCEPT ![c] = Accept(@, c, TIMER)]
  /\ UNCHANGED <<isr, flag, handlers, redir, pic, ticks>>

(* ---------------------------- the I/O APIC --------------------------- *)

\* IoApicList::push and IsoList::push: what does not fit is ignored
PushCapped(list, e, cap) == IF Len(list) < cap THEN Append(list, e) ELSE list

\* decode_iso_flags
ActiveLow(flags) == flags % 4 = 3
LevelTriggered(flags) == (flags \div 4) % 4 = 3

\* resolve_isa_irq: the first override for the line, or the ISA defaults
ResolveIsaIrq(irq, isos) ==
  LET mine == SelectSeq(isos, LAMBDA e : e.irq = irq)
  IN IF mine = <<>> THEN [gsi |-> irq, low |-> FALSE, level |-> FALSE]
     ELSE [gsi |-> mine[1].gsi, low |-> ActiveLow(mine[1].flags), level |-> LevelTriggered(mine[1].flags)]

\* owns_gsi with redir_entry_count of the version register
OwnsGsi(a, gsi) == gsi >= a.base /\ gsi < a.base + a.count

\* init_keyboard_irq_routing and route_irq; no owner, no route
Routed(gsi, ioapics) == \E i \in 1..Len(ioapics) : OwnsGsi(ioapics[i], gsi)
RouteIrq(irq, vec, isos, ioapics) ==
  LET r == ResolveIsaIrq(irq, isos)
  IN IF Routed(r.gsi, ioapics)
     THEN [redir EXCEPT ![r.gsi] = [vec |-> vec, dest |-> Bsp, low |-> r.low, level |-> r.level]]
     ELSE redir

\* the keyboard raises its line, wired as the firmware wired it; an unmasked
\* PIC delivers it as well
KeyLine(wire) ==
  /\ LET e == redir[wire.gsi]
         hit == e.vec # 0 /\ e.low = wire.low /\ e.level = wire.level
     IN irr' = [c \in CpuIds |->
                  (IF hit /\ c = e.dest THEN Accept(irr[c], c, e.vec) ELSE irr[c])
                  \cup (IF c = Bsp /\ ~pic THEN {LEGACY} ELSE {})]
  /\ UNCHANGED <<lapic, isr, flag, handlers, redir, pic, ticks>>

(* ----------------------------- dispatch ------------------------------ *)

Register(vecs) == handlers' = handlers \cup vecs

\* an interrupt gate: interrupts go off.  While a vector is in service no other
\* is delivered (the model has one priority class).
Take(c, vec) ==
  /\ flag[c] = "on" /\ isr[c] = {} /\ vec \in irr[c]
  /\ irr' = [irr EXCEPT ![c] = @ \ {vec}]
  /\ isr' = [isr EXCEPT ![c] = {vec}]
  /\ flag' = [flag EXCEPT ![c] = IF vec \in handlers THEN "eoi" ELSE "iret"]
  /\ UNCHANGED <<lapic, handlers, redir, pic, ticks>>

(* Mutant of Eoi: the timer handler switches threads first, and the end of *)
(* interrupt waits until this thread runs again.                           *)
EoiAfterSwitch(c) ==
  /\ flag[c] = "eoi"
  /\ flag' = [flag EXCEPT ![c] = "on"]
  /\ isr' = IF isr[c] = {TIMER} THEN isr ELSE [isr EXCEPT ![c] = {}]
  /\ UNCHANGED <<lapic, irr, handlers, redir, pic, ticks>>

\* eoi(), the first statement of every handler
Eoi(c) ==
  /\ flag[c] = "eoi"
  /\ isr' = [isr EXCEPT ![c] = {}]
  /\ flag' = [flag EXCEPT ![c] = IF isr[c] = {TIMER} THEN "rearm" ELSE "iret"]
  /\ UNCHANGED <<lapic, irr, handlers, redir, pic, ticks>>

\* timer_handler: set_timer_oneshot(1) before schedule
Rearm(c) ==
  /\ flag[c] = "rearm"
  /\ lapic' = Arm(lapic, c)
  /\ flag' = [flag EXCEPT ![c] = "iret"]
  /\ UNCHANGED <<irr, isr, handlers, redir, pic, ticks>>

\* the handler schedules or returns, and some thread goes on with interrupts
\* on; default_handler only returns
Leave(c) ==
  /\ flag[c] = "iret"
  /\ flag' = [flag EXCEPT ![c] = "on"]
  /\ UNCHANGED <<lapic, irr, isr, handlers, redir, pic, ticks>>

ANext(wire) ==
  \/ KeyLine(wire)
  \/ \E c \in CpuIds : TimerFires(c) \/ Eoi(c) \/ Rearm(c) \/ Leave(c) \/ \E vec \in irr[c] : Take(c, vec)
=============================================================================
