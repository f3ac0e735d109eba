------------------------------ MODULE Shootdown ------------------------------
(***************************************************************************)
(* Translations cached by several CPUs: crates/proc/src/shootdown.rs (the  *)
(* active-CPU masks, the request, the IPI handler), process.rs             *)
(* (activate_address_space), address_space.rs (the order PTE change,       *)
(* snapshot, shootdown; PCIDs given back by drop_ref),                     *)
(* crates/memory/src/pcid.rs and crates/paging/src/tlb.rs.  A TLB entry is *)
(* tagged with a PCID; the processor may cache a translation of the loaded *)
(* space at any moment, INVLPG drops one page of the current PCID, a CR3   *)
(* load drops the entries of the PCID it loads.  A page table entry is a   *)
(* number no other entry ever had.                                         *)
(***************************************************************************)
EXTENDS Integers, FiniteSets, FiniteSetsExt

CONSTANTS Cpus, ASpaces, VPages, MAX_PCID,
          Initiators,   \* CPUs that change mappings: user threads run on CPU 0
          MaxVal        \* bound: page table entries written

VARIABLES loaded,      \* CPU_CURRENT_AS and CR3 of each CPU, 0 at boot
          tlb,         \* its cached translations
          mask,        \* ActiveCpuMask of each space
          pcid,        \* of each space, 0 when there is no such space
          pte, last,   \* page tables, and the last number used in one
          at, aim,     \* what each CPU does in the kernel, and its argument
          active,      \* the active mask read by an initiator
          request,     \* PENDING_SHOOTDOWN: targets, remaining, page
          serialize,   \* the holder of SHOOTDOWN_SERIALIZE, 0 when free
          ipi          \* CPUs with an IPI not taken yet

tvars == <<loaded, tlb, mask, pcid, pte, last, at, aim, active, request, serialize, ipi>>

TInit ==
  /\ loaded = [c \in Cpus |-> 0] /\ tlb = [c \in Cpus |-> {}]
  /\ mask = [s \in ASpaces |-> {}] /\ pcid = [s \in ASpaces |-> 0]
  /\ pte = [s \in ASpaces |-> [v \in VPages |-> 0]] /\ last = 0
  /\ at = [c \in Cpus |-> "run"] /\ aim = [c \in Cpus |-> 0]
  /\ active = [c \in Cpus |-> {}]
  /\ request = [targets |-> {}, remaining |-> 0, virt |-> 0]
  /\ serialize = 0 /\ ipi = {}

Move(c, l, x) == at' = [at EXCEPT ![c] = l] /\ aim' = [aim EXCEPT ![c] = x]

(* ---------------------------- the processor -------------------------- *)

Of(c, v) == {e \in tlb[c] : e.pcid = pcid[loaded[c]] /\ e.virt = v}

Fill(c, v) ==
  /\ loaded[c] # 0 /\ Of(c, v) = {}
  /\ tlb' = [tlb EXCEPT ![c] = @ \cup {[pcid |-> pcid[loaded[c]], virt |-> v, val |-> pte[loaded[c]][v]]}]
  /\ UNCHANGED <<loaded, mask, pcid, pte, last, at, aim, active, request, serialize, ipi>>

\* flush_page on the CPU itself (INVLPG)
FlushPage(c, v) == tlb' = [tlb EXCEPT ![c] = @ \ (IF loaded[c] = 0 THEN {} ELSE Of(c, v))]

(* ----------------------- address spaces and PCIDs -------------------- *)

FreePcids == {x \in 1..(MAX_PCID - 1) : \A s \in ASpaces : pcid[s] # x}

\* AddressSpace::new: the lowest free PCID, and never 0; without one, a panic.
\* With CR4.PCIDE off every space has PCID 0 and every CR3 load drops all; that
\* machine, on which nothing is kept from one space to the next, is left out.
PcidAlloc == Min(FreePcids)

NewSpace(s) ==
  /\ pcid[s] = 0 /\ FreePcids # {} /\ last + Cardinality(VPages) <= MaxVal
  /\ pcid' = [pcid EXCEPT ![s] = PcidAlloc]
  /\ pte' = [pte EXCEPT ![s] = [v \in VPages |-> last + v]]
  /\ last' = last + Cardinality(VPages)
  /\ UNCHANGED <<loaded, tlb, mask, at, aim, active, request, serialize, ipi>>

\* drop_ref of the last reference: nobody has the space loaded any more
DropRef(s) ==
  /\ pcid[s] # 0 /\ \A c \in Cpus : loaded[c] # s /\ (at[c] \in {"mark", "load"} => aim[c] # s)
  /\ pcid' = [pcid EXCEPT ![s] = 0]
  /\ UNCHANGED <<loaded, tlb, mask, pte, last, at, aim, active, request, serialize, ipi>>

(* Mutant of ActivateMark: the mark comes with the CR3 load's second half. *)
ActivateMarkLater(c, s) ==
  /\ at[c] = "run" /\ pcid[s] # 0 /\ loaded[c] # s
  /\ Move(c, "mark", s)
  /\ UNCHANGED <<loaded, tlb, mask, pcid, pte, last, active, request, serialize, ipi>>

\* activate_address_space: mark the new space, load CR3, unmark the old one
ActivateMark(c, s) ==
  /\ at[c] = "run" /\ pcid[s] # 0 /\ loaded[c] # s
  /\ mask' = [mask EXCEPT ![s] = @ \cup {c}]
  /\ Move(c, "mark", s)
  /\ UNCHANGED <<loaded, tlb, pcid, pte, last, active, request, serialize, ipi>>

ActivateLoad(c) ==
  /\ at[c] = "mark"
  /\ loaded' = [loaded EXCEPT ![c] = aim[c]]
  /\ tlb' = [tlb EXCEPT ![c] = {e \in @ : e.pcid # pcid[aim[c]]}]
  /\ Move(c, "load", loaded[c])
  /\ UNCHANGED <<mask, pcid, pte, last, active, request, serialize, ipi>>

ActivateUnmark(c) ==
  /\ at[c] = "load"
  /\ mask' = IF aim[c] = 0 THEN mask ELSE [mask EXCEPT ![aim[c]] = @ \ {c}]
  /\ Move(c, "run", 0)
  /\ UNCHANGED <<loaded, tlb, pcid, pte, last, active, request, serialize, ipi>>

(* ------------------------------ shootdown ---------------------------- *)

\* a page table entry of the running space changes (unmap_pages,
\* resolve_cow_fault_inner, clone_user_half_cow, unmap_file_pages)
Remap(c, v) ==
  /\ c \in Initiators /\ at[c] = "run" /\ loaded[c] # 0 /\ last < MaxVal
  /\ pte' = [pte EXCEPT ![loaded[c]][v] = last + 1] /\ last' = last + 1
  /\ Move(c, "changed", v)
  /\ UNCHANGED <<loaded, tlb, mask, pcid, active, request, serialize, ipi>>

Snapshot(c) ==
  /\ at[c] = "changed"
  /\ active' = [active EXCEPT ![c] = mask[loaded[c]]]
  /\ Move(c, "snapshot", aim[c])
  /\ UNCHANGED <<loaded, tlb, mask, pcid, pte, last, request, serialize, ipi>>

\* shootdown_page: flush here; without remote CPUs that is all (remote_targets)
FlushLocal(c) ==
  /\ at[c] = "snapshot"
  /\ FlushPage(c, aim[c])
  /\ active' = [active EXCEPT ![c] = @ \ {c}]
  /\ IF active[c] \ {c} = {} THEN Move(c, "run", 0) ELSE Move(c, "post", aim[c])
  /\ UNCHANGED <<loaded, mask, pcid, pte, last, request, serialize, ipi>>

\* the serialising lock, then the request
Post(c) ==
  /\ at[c] = "post" /\ serialize = 0
  /\ serialize' = c
  /\ request' = [targets |-> active[c], remaining |-> Cardinality(active[c]), virt |-> aim[c]]
  /\ Move(c, "send", aim[c])
  /\ UNCHANGED <<loaded, tlb, mask, pcid, pte, last, active, ipi>>

\* the IPIs, one by one; apic_id_for_cpu knows every CPU of a mask, since ap_entry
\* took the id it marks with from the same table
Send(c) ==
  /\ at[c] = "send"
  /\ IF active[c] = {} THEN Move(c, "wait", aim[c]) /\ UNCHANGED <<active, ipi>>
     ELSE /\ ipi' = ipi \cup {Min(active[c])}
          /\ active' = [active EXCEPT ![c] = @ \ {Min(active[c])}]
          /\ UNCHANGED <<at, aim>>
  /\ UNCHANGED <<loaded, tlb, mask, pcid, pte, last, request, serialize>>

Finish(c) ==
  /\ at[c] = "wait" /\ request.remaining = 0
  /\ serialize' = 0 /\ Move(c, "run", 0)
  /\ UNCHANGED <<loaded, tlb, mask, pcid, pte, last, active, request, ipi>>

\* shootdown_handler, where interrupts are on: flush, EOI, and count
Handle(c) ==
  /\ at[c] = "run" /\ c \in ipi
  /\ ipi' = ipi \ {c}
  /\ IF c \in request.targets THEN FlushPage(c, request.virt) ELSE UNCHANGED tlb
  /\ Move(c, "flushed", 0)
  /\ UNCHANGED <<loaded, mask, pcid, pte, last, active, request, serialize>>

Count(c) ==
  /\ at[c] = "flushed"
  /\ request' = [request EXCEPT !.remaining = @ - 1]
  /\ Move(c, "run", 0)
  /\ UNCHANGED <<loaded, tlb, mask, pcid, pte, last, active, serialize, ipi>>

Kernel(c) == \/ ActivateLoad(c) \/ ActivateUnmark(c) \/ Snapshot(c) \/ FlushLocal(c) \/ Post(c)
             \/ Send(c) \/ Finish(c) \/ Handle(c) \/ Count(c)

TNext ==
  \/ \E c \in Cpus : \/ Kernel(c)
                     \/ \E v \in VPages : Fill(c, v) \/ Remap(c, v)
                     \/ \E s \in ASpaces : ActivateMark(c, s)
  \/ \E s \in ASpaces : NewSpace(s) \/ DropRef(s)

TSpec == TInit /\ [][TNext]_tvars

(* ---------------------------- properties ---------------------------- *)

Changing(s, v) ==
  \E c \in Initiators : /\ loaded[c] = s /\ aim[c] = v
                        /\ at[c] \in {"changed", "snapshot", "post", "send", "wait"}

\* No CPU translates through an entry that has been replaced, once the
\* shootdown for it has returned: whatever the interleaving of switches,
\* fills and IPIs, and though PCIDs are used again ("the dangerous race
\* direction is a CPU using an AddressSpace while not marked").
NoStaleTranslation ==
  \A c \in Cpus : loaded[c] # 0 =>
    \A v \in VPages : \A e \in Of(c, v) : e.val = pte[loaded[c]][v] \/ Changing(loaded[c], v)

\* An initiator that waits is owed exactly the answers of the targets that
\* have not given theirs: it neither returns early nor waits for ever.
AnsweredOnce ==
  \A c \in Initiators : at[c] = "wait" =>
    request.remaining = Cardinality(ipi) + Cardinality({d \in Cpus : at[d] = "flushed"})

\* No CPU uses a translation whose shootdown has returned, and an initiator
\* waits for exactly the answers that are still to come (shootdown_page).
ShootdownSound == NoStaleTranslation /\ AnsweredOnce
=============================================================================
