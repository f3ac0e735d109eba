------------------------------- MODULE BringUp -------------------------------
(***************************************************************************)
(* Boot on all CPUs: kernel_main (kernel/src/main.rs) on the boot CPU,     *)
(* parse_madt, start_aps and ap_entry_rust (crates/smp/src), init_cpu      *)
(* (crates/cpu/src: one GDT for all CPUs, a TSS each), and the interrupts  *)
(* of Apic from then on.  One trampoline page serves every CPU in turn: it *)
(* holds the stack of the CPU being started.                               *)
(***************************************************************************)
EXTENDS Apic, FiniteSets

CONSTANTS Firmware,   \* RSDP records: what the firmware may describe
          MAX_CPUS, MAX_IOAPICS, MAX_ISOS,
          Answering,  \* the sets of CPUs that may answer SIPI at all
          PromptAps   \* a CPU that comes up does so before the time-out

VARIABLES rsdp,      \* the firmware of this boot
          answers,   \* the CPUs that answer SIPI
          bsp,       \* [at, next, id, target, started, madt]: kernel_main's locals
          table,     \* CPU_TABLE: cpu id -> [apic, online, stack]
          count,     \* CPU_COUNT
          tramp,     \* the stack patched into the trampoline page
          gdt,       \* whose TSS the shared GDT describes (-1: none)
          ap,        \* APIC id -> [at, id, stack, tss]
          ready,     \* AP_READY_COUNT
          scheds,    \* SCHED_CPU_COUNT, 0 until SCHEDULER_READY
          started    \* SCHEDULER_STARTED

bvars == <<rsdp, answers, bsp, table, count, tramp, gdt, ap, ready, scheds, started>>

(* ---------------------------- parse_madt ----------------------------- *)

\* push_cpu_bsp_first: the boot CPU swaps with whoever is first
PushCpu(cpus, id) ==
  IF Len(cpus) >= MAX_CPUS THEN cpus
  ELSE IF id = Bsp /\ cpus # <<>> THEN [Append(cpus, cpus[1]) EXCEPT ![1] = id]
  ELSE Append(cpus, id)

Nothing == [cpus |-> <<>>, ioapics |-> <<>>, isos |-> <<>>]

\* MADT_LAPIC_LEN, MADT_X2APIC_LEN, MADT_IOAPIC_LEN and MADT_ISO_LEN
EntryLen == [lapic |-> 8, x2apic |-> 16, ioapic |-> 12, iso |-> 10]

\* parse_lapic_entry and parse_x2apic_entry: a usable CPU
ParseCpu(cpus, e) == IF e.usable THEN PushCpu(cpus, e.apic) ELSE cpus

\* parse_ioapic_entry and parse_iso_entry: the routing
ParseIoApic(e) == [base |-> e.base, count |-> e.count]
ParseIso(e) == [irq |-> e.irq, gsi |-> e.gsi, flags |-> e.flags]

\* one entry, skipped when it is of another type or shorter than its type
ParseEntry(info, e) ==
  IF e.typ \notin DOMAIN EntryLen \/ e.len < EntryLen[e.typ] THEN info
  ELSE CASE e.typ \in {"lapic", "x2apic"} -> [info EXCEPT !.cpus = ParseCpu(@, e)]
         [] e.typ = "ioapic" -> [info EXCEPT !.ioapics = PushCapped(@, ParseIoApic(e), MAX_IOAPICS)]
         [] e.typ = "iso" -> [info EXCEPT !.isos = PushCapped(@, ParseIso(e), MAX_ISOS)]

\* the whole table is walked up to the first entry that is too short or runs
\* over the end
Walked(t) ==
  LET End(i) == 44 + FoldLeft(LAMBDA a, e : a + e.len, 0, SubSeq(t.entries, 1, i))
      good == {n \in 0..Len(t.entries) : \A i \in 1..n : t.entries[i].len >= 2 /\ End(i) <= t.len}
  IN SubSeq(t.entries, 1, CHOOSE n \in good : \A m \in good : m <= n)

\* find_table_in_sdt
ApicTables(sdt, sig) ==
  IF sdt.sig = sig THEN SelectSeq(sdt.tables, LAMBDA t : t.sig = "APIC") ELSE <<>>

\* find_madt: the XSDT of a revision 2 RSDP first, then the RSDT
Madts(r) == (IF r.rev >= 2 /\ r.len >= 36 THEN ApicTables(r.xsdt, "XSDT") ELSE <<>>) \o ApicTables(r.rsdt, "RSDT")

ParseMadt(r) ==
  IF ~r.valid \/ Madts(r) = <<>> THEN Nothing
  ELSE FoldLeft(ParseEntry, Nothing, Walked(Madts(r)[1]))

(* ------------------------------ cpuinfo ------------------------------ *)

\* register_cpu: an id out of range is dropped silently
RegisterCpu(id, apic, stack) ==
  IF id >= MAX_CPUS THEN UNCHANGED <<table, count>>
  ELSE /\ table' = [table EXCEPT ![id] = [apic |-> apic, online |-> FALSE, stack |-> stack]]
       /\ count' = IF count < id + 1 THEN id + 1 ELSE count

\* apic_id_to_cpu_id: the first entry with this APIC id
CpuIdsOf(apic) == {id \in 0..count - 1 : table[id].apic = apic}

(* --------------------------- the boot CPU ---------------------------- *)

NoCpu == [apic |-> -1, online |-> FALSE, stack |-> 0]

BInit ==
  /\ AInit
  /\ rsdp \in Firmware /\ answers \in Answering
  /\ bsp = [at |-> "cpu", next |-> 1, id |-> 1, target |-> 0, started |-> 0, madt |-> Nothing]
  /\ table = [id \in 0..MAX_CPUS - 1 |-> NoCpu] /\ count = 0
  /\ tramp = 0 /\ gdt = -1
  /\ ap = [c \in CpuIds |-> [at |-> "off", id |-> -1, stack |-> 0, tss |-> -1]]
  /\ ready = 0 /\ scheds = 0 /\ started = FALSE

At(from, to) == bsp.at = from /\ bsp' = [bsp EXCEPT !.at = to]

\* init_cpu(0), init_bsp and disable_pic, whose initialisation words also clear
\* what the PIC had latched
InitBsp ==
  /\ At("cpu", "timer")
  /\ gdt' = 0 /\ ap' = [ap EXCEPT ![Bsp].tss = 0, ![Bsp].id = 0]
  /\ InitLapic(Bsp) /\ pic' = TRUE /\ irr' = [irr EXCEPT ![Bsp] = @ \ {LEGACY}]
  /\ UNCHANGED <<isr, flag, handlers, redir, ticks, rsdp, answers, table, count, tramp, ready, scheds, started>>

Calibrate ==
  /\ Register({TIMER})
  /\ \E t \in CalTicks : ticks' = (IF Calibrated(t) THEN t ELSE 0) /\ At("timer", IF Calibrated(t) THEN "madt" ELSE "panic")
  /\ UNCHANGED <<lapic, irr, isr, flag, redir, pic, rsdp, answers, table, count, tramp, gdt, ap, ready, scheds, started>>

\* parse_madt, and the boot CPU's own entry in the table
Discover ==
  /\ bsp.at = "madt" /\ bsp' = [bsp EXCEPT !.at = "aps", !.madt = ParseMadt(rsdp)]
  /\ table' = [table EXCEPT ![0] = [apic |-> Bsp, online |-> TRUE, stack |-> 0]] /\ count' = 1
  /\ UNCHANGED <<avars, rsdp, answers, tramp, gdt, ap, ready, scheds, started>>

Target == bsp.madt.cpus[bsp.next]
Done == bsp.next > Len(bsp.madt.cpus)

\* start_aps, one CPU: allocate_ap_stack (the stack is named after the cpu id),
\* register_cpu, install_trampoline_for_stack, ready_target, send_init
StartAp ==
  /\ bsp.at = "aps" /\ ~Done /\ Target # Bsp
  /\ RegisterCpu(bsp.id, Target, bsp.id)
  /\ tramp' = bsp.id
  /\ bsp' = [bsp EXCEPT !.at = "sipi", !.target = ready + 1]
  /\ ap' = IF Target \in answers THEN [ap EXCEPT ![Target].at = "init"] ELSE ap
  /\ UNCHANGED <<avars, rsdp, answers, gdt, ready, scheds, started>>

SkipBsp ==
  /\ bsp.at = "aps" /\ ~Done /\ Target = Bsp
  /\ bsp' = [bsp EXCEPT !.next = @ + 1]
  /\ UNCHANGED <<avars, rsdp, answers, table, count, tramp, gdt, ap, ready, scheds, started>>

\* send_sipi, twice; a CPU that already runs ignores it
Sipi ==
  /\ bsp.at \in {"sipi", "sipi2"} /\ bsp' = [bsp EXCEPT !.at = IF @ = "sipi" THEN "sipi2" ELSE "ready"]
  /\ ap' = IF ap[Target].at = "init" THEN [ap EXCEPT ![Target].at = "tramp"] ELSE ap
  /\ UNCHANGED <<avars, rsdp, answers, table, count, tramp, gdt, ready, scheds, started>>

\* wait_for_ready: the count is reached, or the spins run out
ApCounted == bsp.at = "ready" /\ ready >= bsp.target
TimeOut == bsp.at = "ready" /\ ready < bsp.target /\ (PromptAps => Target \notin answers \/ ap[Target].at = "panic")
NextAp ==
  /\ ApCounted \/ TimeOut
  /\ bsp' = [bsp EXCEPT !.at = "aps", !.next = @ + 1, !.id = @ + 1, !.started = IF ApCounted THEN @ + 1 ELSE @]
  /\ UNCHANGED <<avars, rsdp, answers, table, count, tramp, gdt, ap, ready, scheds, started>>

\* all that were counted are ready; virtio's handler, then its MSI-X vector
Devices ==
  /\ Done /\ ready >= bsp.started /\ At("aps", "sched") /\ Register({VIRTIO})
  /\ UNCHANGED <<lapic, irr, isr, flag, redir, pic, ticks, rsdp, answers, table, count, tramp, gdt, ap, ready, scheds, started>>

\* kernel_sched::init for the CPUs counted online, the reschedule kick
InitSched ==
  /\ At("sched", "kbd") /\ scheds' = ready + 1 /\ Register({RESCHED})
  /\ UNCHANGED <<lapic, irr, isr, flag, redir, pic, ticks, rsdp, answers, table, count, tramp, gdt, ap, ready, started>>

InitKeyboard ==
  /\ At("kbd", "proc") /\ Register({KEYBOARD})
  /\ redir' = RouteIrq(1, KEYBOARD, bsp.madt.isos, bsp.madt.ioapics)
  /\ UNCHANGED <<lapic, irr, isr, flag, pic, ticks, rsdp, answers, table, count, tramp, gdt, ap, ready, scheds, started>>

\* kernel_proc::init, init_fs and the first process
InitProc ==
  /\ At("proc", "go") /\ Register({SHOOTDOWN})
  /\ UNCHANGED <<lapic, irr, isr, flag, redir, pic, ticks, rsdp, answers, table, count, tramp, gdt, ap, ready, scheds, started>>

\* SCHEDULER_STARTED, the first tick, and the first thread with interrupts on
Go ==
  /\ At("go", "run") /\ started' = TRUE
  /\ lapic' = Arm(lapic, Bsp) /\ flag' = [flag EXCEPT ![Bsp] = "on"]
  /\ UNCHANGED <<irr, isr, handlers, redir, pic, ticks, rsdp, answers, table, count, tramp, gdt, ap, ready, scheds>>

\* resched_kick, and the IPIs of a shootdown
Kick(vec) ==
  /\ bsp.at = "run" /\ flag[Bsp] = "on" /\ SendOthers(Bsp, vec)
  /\ UNCHANGED <<lapic, isr, flag, handlers, redir, pic, ticks, bvars>>

(* -------------------------- the other CPUs --------------------------- *)

ApStep(c, from, r) == ap[c].at = from /\ ap' = [ap EXCEPT ![c] = r]

\* the trampoline loads the stack that is patched in now
Trampoline(c) ==
  /\ ApStep(c, "tramp", [ap[c] EXCEPT !.at = "entry", !.stack = tramp])
  /\ UNCHANGED <<avars, rsdp, answers, bsp, table, count, tramp, gdt, ready, scheds, started>>

\* ap_entry_rust: init_ap, then its cpu id, or the panic of expect
ApEntry(c) ==
  /\ ApStep(c, "entry", [ap[c] EXCEPT !.at = IF CpuIdsOf(c) = {} THEN "panic" ELSE "gdt",
                         !.id = IF CpuIdsOf(c) = {} THEN -1 ELSE CHOOSE i \in CpuIdsOf(c) : \A j \in CpuIdsOf(c) : i <= j])
  /\ InitLapic(c)
  /\ UNCHANGED <<irr, isr, flag, handlers, redir, pic, ticks, rsdp, answers, bsp, table, count, tramp, gdt, ready, scheds, started>>

\* init_cpu: init_gdt_mut rebuilds the one GDT, init_tss patches its TSS
\* descriptor and loads it
ApGdt(c) ==
  /\ ApStep(c, "gdt", [ap[c] EXCEPT !.at = "tss"]) /\ gdt' = -1
  /\ UNCHANGED <<avars, rsdp, answers, bsp, table, count, tramp, ready, scheds, started>>

ApTss(c) ==
  /\ ApStep(c, "tss", [ap[c] EXCEPT !.at = "ltr"]) /\ gdt' = ap[c].id
  /\ UNCHANGED <<avars, rsdp, answers, bsp, table, count, tramp, ready, scheds, started>>

ApLtr(c) ==
  /\ ApStep(c, "ltr", [ap[c] EXCEPT !.at = IF gdt = -1 THEN "panic" ELSE "online", !.tss = gdt])
  /\ UNCHANGED <<avars, rsdp, answers, bsp, table, count, tramp, gdt, ready, scheds, started>>

\* init_ap once more, set_cpu_online, AP_READY_COUNT
ApOnline(c) ==
  /\ ApStep(c, "online", [ap[c] EXCEPT !.at = "spin"])
  /\ InitLapic(c) /\ table' = [table EXCEPT ![ap[c].id].online = TRUE] /\ ready' = ready + 1
  /\ UNCHANGED <<irr, isr, flag, handlers, redir, pic, ticks, rsdp, answers, bsp, count, tramp, gdt, scheds, started>>

\* both flags seen: sti, idle_loop
ApIdle(c) ==
  /\ started /\ scheds > 0
  /\ ApStep(c, "spin", [ap[c] EXCEPT !.at = "idle"])
  /\ flag' = [flag EXCEPT ![c] = "on"]
  /\ UNCHANGED <<lapic, irr, isr, handlers, redir, pic, ticks, rsdp, answers, bsp, table, count, tramp, gdt, ready, scheds, started>>

BNext ==
  \/ InitBsp \/ Calibrate \/ Discover \/ StartAp \/ SkipBsp \/ Sipi \/ NextAp
  \/ Devices \/ InitSched \/ InitKeyboard \/ InitProc \/ Go
  \/ \E vec \in {RESCHED, SHOOTDOWN} : Kick(vec)
  \/ \E c \in CpuIds : \/ Trampoline(c) \/ ApEntry(c) \/ ApGdt(c) \/ ApTss(c) \/ ApLtr(c)
                       \/ ApOnline(c) \/ ApIdle(c)
  \/ ANext(rsdp.wire) /\ UNCHANGED bvars

BSpec == BInit /\ [][BNext]_<<avars, bvars>>

(* ---------------------------- properties ----------------------------- *)

\* A CPU that takes interrupts has what they need: its own stack and TSS, an
\* enabled local APIC, which would otherwise swallow every reschedule and
\* shootdown IPI, and an initialised run queue ("this AP has CPU, IDT, LAPIC, and
\* scheduler state initialized before interrupts are enabled", ap_entry).  The
\* last holds only when every CPU before it in the MADT came up: cpu ids go by
\* position, and kernel_sched::init covers as many ids as there are CPUs online.
ApReady ==
  \A c \in CpuIds \ {Bsp} : flag[c] # "off" =>
    /\ ap[c].stack = ap[c].id /\ ap[c].tss = ap[c].id /\ table[ap[c].id].apic = c
    /\ lapic[c].on /\ started
    /\ (\A id \in 1..ap[c].id - 1 : table[id].online) => ap[c].id < scheds

\* No interrupt is left in service by a CPU that goes on with interrupts on, for
\* nothing would be delivered to it again; and the boot CPU always has its next
\* tick coming.
NoDeafCpu ==
  /\ \A c \in CpuIds : flag[c] = "on" => isr[c] = {}
  /\ flag[Bsp] = "on" => lapic[Bsp].timer = "armed" \/ TIMER \in irr[Bsp]
=============================================================================
