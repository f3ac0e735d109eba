------------------------------- MODULE Paging -------------------------------
(***************************************************************************)
(* The kernel's own page tables (crates/paging): the builder and the       *)
(* walker (table.rs), entries and addresses (entry.rs, address.rs), the    *)
(* early bump allocator (allocator.rs), paging init (init.rs, tlb.rs),     *)
(* device windows added later (mmio.rs), and the top-level copies taken by *)
(* an AP's start (trampoline.rs of crates/smp) and by AddressSpace::new.   *)
(* A table has Fanout entries (512), a page PageUnits units (4096 bytes).  *)
(* The top table has four entries: user, two of the direct map, image.     *)
(***************************************************************************)
EXTENDS Integers, Sequences, FiniteSets, TLC

CONSTANTS Fanout, PageUnits, EARLY_FRAMES, PhysLimit,
          Machines,   \* [memmap, image, pool, apic, features, cr3]
          Bars,       \* the device windows <<base, size>> a driver may map
          PagingAps,  \* the APs
          MaxTops     \* bounds the top-level tables

VARIABLES pmach, ppc, pnext, todo, \* the machine; where init is; its region or section; mappings to make
          ptabs, bump, clobbered, \* tables by frame; frames handed out; frames wrongly written as tables
          cr4, published,         \* CR4 by CPU, and BSP_CR4
          tops, windows           \* the top-level tables in use; the windows mapped

pgvars == <<pmach, ppc, pnext, todo, ptabs, bump, clobbered, cr4, published, tops, windows>>

Huge2m == PageUnits * Fanout
Huge1g == Huge2m * Fanout
TopSpan == Huge1g * Fanout
DIRECT_MAP_BASE == TopSpan
KERNEL_BASE == 3 * TopSpan
BSP == "bsp"

Empty == [frame |-> 0, flags |-> {}]
Zeroed(n) == [i \in 0..(n - 1) |-> Empty]

\* PhysAddr::align_down_*, VirtAddr::*_index and page_offset
AlignDown(a, n) == a - (a % n)

AlignUp(a, n) == AlignDown(a + n - 1, n)

Pml4Index(v) == v \div TopSpan
PdptIndex(v) == (v \div Huge1g) % Fanout
PdIndex(v)   == (v \div Huge2m) % Fanout
PtIndex(v)   == (v \div PageUnits) % Fanout

\* PageTableEntry::new_page, with frame_bits' mask; is_present, is_huge_page
NewPage(phys, flags) == [frame |-> AlignDown(phys % PhysLimit, PageUnits), flags |-> flags]
IsPresent(e) == "present" \in e.flags
IsHugePage(e) == "huge" \in e.flags

TableFlags == {"present", "writable"}
RamFlags   == {"present", "writable", "global", "no_execute"}
MmioFlags  == RamFlags \cup {"write_through"}

(* ------------------------------- builder ----------------------------- *)

\* BumpAllocator::alloc_frame: pool frames, each handed out once
AllocFrame(B) == [addr |-> pmach.pool + B.next * PageUnits,
                  b |-> [B EXCEPT !.next = @ + 1, !.oom = @ \/ B.next >= EARLY_FRAMES]]

\* PageTable::get and set; a frame that is no table is memory of someone else
GetEntry(B, t, i) == IF t \in DOMAIN B.tabs THEN B.tabs[t][i] ELSE Empty
SetEntry(B, t, i, e) == IF t \in DOMAIN B.tabs THEN [B EXCEPT !.tabs[t][i] = e]
                        ELSE [B EXCEPT !.hit = @ \cup {t}]

\* one level of walk_to_pd, of map_page_internal and of ensure_next_table:
\* a present entry is followed, whatever it is; else a zeroed table is linked
NextTable(B, t, i) ==
  IF IsPresent(GetEntry(B, t, i)) THEN [b |-> B, at |-> GetEntry(B, t, i).frame]
  ELSE LET f == AllocFrame(B)
           z == [f.b EXCEPT !.tabs = @ @@ (f.addr :> Zeroed(Fanout))]
       IN  [b |-> SetEntry(z, t, i, NewPage(f.addr, TableFlags)), at |-> f.addr]

WalkToPd(B, top, virt) ==
  LET pdpt == NextTable(B, top, Pml4Index(virt)) IN NextTable(pdpt.b, pdpt.at, PdptIndex(virt))

\* map_page_internal
MapPage(B, top, m) ==
  LET pd == WalkToPd(B, top, m.virt)
      pt == NextTable(pd.b, pd.at, PdIndex(m.virt))
  IN  SetEntry(pt.b, pt.at, PtIndex(m.virt), NewPage(m.phys, m.flags))

MapHuge2m(B, top, m) ==
  LET pd == WalkToPd(B, top, m.virt)
  IN  SetEntry(pd.b, pd.at, PdIndex(m.virt), NewPage(m.phys, m.flags \cup {"huge"}))

\* PageTableWalker::translate, which is also what the MMU does
Translate(tabs, top, virt) ==
  LET at(t, i) == IF t \in DOMAIN tabs THEN tabs[t][i] ELSE Empty
      e4 == at(top, Pml4Index(virt))
      e3 == at(e4.frame, PdptIndex(virt))
      e2 == at(e3.frame, PdIndex(virt))
      e1 == at(e2.frame, PtIndex(virt))
  IN  IF ~IsPresent(e4) \/ ~IsPresent(e3) THEN -1
      ELSE IF IsHugePage(e3) THEN e3.frame + (virt % Huge1g)
      ELSE IF ~IsPresent(e2) THEN -1
      ELSE IF IsHugePage(e2) THEN e2.frame + (virt % Huge2m)
      ELSE IF ~IsPresent(e1) THEN -1
      ELSE e1.frame + (virt % PageUnits)

(* ----------------------------- direct map ---------------------------- *)

\* the mappings [virt, phys, huge, flags] a loop over [from, to) makes, in order
Loop(from, to, by, offset, huge, flags) ==
  [k \in 1..(IF from < to THEN (to - from + by - 1) \div by ELSE 0) |->
     [virt |-> from + (k - 1) * by + offset, phys |-> from + (k - 1) * by, huge |-> huge, flags |-> flags]]

MapRegion4k(start, end, flags) ==
  Loop(AlignDown(start, PageUnits), AlignUp(end, PageUnits), PageUnits, DIRECT_MAP_BASE, FALSE, flags)

(* Mutant of MapRegion2m: the unaligned tail is left out. *)
MapRegion2mNoTail(start, end, flags) ==
  LET s == AlignUp(start, Huge2m)
      e == AlignDown(end, Huge2m)
  IN  Loop(s, e, Huge2m, DIRECT_MAP_BASE, TRUE, flags)
        \o (IF start < s THEN MapRegion4k(start, s, flags) ELSE <<>>)

MapRegion2m(start, end, flags) ==
  LET s == AlignUp(start, Huge2m)
      e == AlignDown(end, Huge2m)
  IN  Loop(s, e, Huge2m, DIRECT_MAP_BASE, TRUE, flags)
        \o (IF start < s THEN MapRegion4k(start, s, flags) ELSE <<>>)
        \o (IF e < end THEN MapRegion4k(e, end, flags) ELSE <<>>)

\* map_huge_page_1g falls back to one huge page of 2 MiB, at each step of 1 GiB
MapHugePages1g(s, e, flags) == Loop(s, e, Huge1g, DIRECT_MAP_BASE, TRUE, flags)

\* the types map_direct_memory does not skip
Mappable == {"usable", "bootloader", "acpi", "image", "framebuffer"}

\* the body of map_direct_memory's loop
MapEntry(r) ==
  LET flags == IF r.type = "framebuffer" THEN MmioFlags ELSE RamFlags
      end   == r.base + r.length
      s     == AlignUp(r.base, Huge1g)
      e     == AlignDown(end, Huge1g)
  IN  IF r.type \notin Mappable THEN <<>>
      ELSE IF s < e
           THEN MapHugePages1g(s, e, flags)
                  \o (IF r.base < s THEN MapRegion2m(r.base, s, flags) ELSE <<>>)
                  \o (IF e < end THEN MapRegion2m(e, end, flags) ELSE <<>>)
           ELSE MapRegion2m(r.base, end, flags)

\* map_kernel_sections, one section: image addresses to the image's frames
MapSection(sec) == Loop(sec.from, sec.to, PageUnits, KERNEL_BASE - pmach.image[1].from, FALSE, sec.flags)

(* -------------------------------- init ------------------------------- *)

Built == [tabs |-> ptabs, next |-> bump, oom |-> FALSE, hit |-> clobbered]
KernelTop == pmach.pool

\* the next of the mappings; an exhausted pool panics
MapNext ==
  /\ todo # <<>> /\ ppc # "panic"
  /\ LET m == Head(todo)
         B == IF m.huge THEN MapHuge2m(Built, KernelTop, m) ELSE MapPage(Built, KernelTop, m)
     IN  /\ ptabs' = B.tabs /\ bump' = B.next /\ clobbered' = B.hit
         /\ ppc' = IF B.oom THEN "panic" ELSE ppc
  /\ todo' = Tail(todo)
  /\ UNCHANGED <<pmach, pnext, cr4, published, tops, windows>>

PgInit ==
  /\ pmach \in Machines /\ ppc = "features" /\ pnext = 1 /\ todo = <<>>
  /\ ptabs = <<>> /\ bump = 0 /\ clobbered = {}
  /\ cr4 = [c \in PagingAps \cup {BSP} |-> {"pae"}] /\ published = {} /\ tops = {} /\ windows = {}

\* enable_features: PCIDE is legal only while CR3's low bits are zero
EnableFeatures ==
  /\ ppc = "features"
  /\ IF "pcid" \in pmach.features /\ pmach.cr3 # 0 THEN ppc' = "panic" /\ UNCHANGED cr4
     ELSE /\ cr4' = [cr4 EXCEPT ![BSP] = @ \cup {"pge", "osfxsr", "osxsave"} \cup (pmach.features \cap {"pcid"})]
          /\ ppc' = "builder"
  /\ UNCHANGED <<pmach, pnext, todo, ptabs, bump, clobbered, published, tops, windows>>

\* PageTableBuilder::new
NewBuilder ==
  /\ ppc = "builder"
  /\ ptabs' = (pmach.pool :> Zeroed(4)) /\ bump' = 1 /\ ppc' = "direct"
  /\ UNCHANGED <<pmach, pnext, todo, clobbered, cr4, published, tops, windows>>

MapDirectMemory ==
  /\ ppc = "direct" /\ todo = <<>>
  /\ IF pnext <= Len(pmach.memmap)
     THEN todo' = MapEntry(pmach.memmap[pnext]) /\ pnext' = pnext + 1 /\ UNCHANGED ppc
     ELSE ppc' = "apic" /\ pnext' = 1 /\ UNCHANGED todo
  /\ UNCHANGED <<pmach, ptabs, bump, clobbered, cr4, published, tops, windows>>

MapApicMmio ==
  /\ ppc = "apic"
  /\ todo' = MapRegion2m(pmach.apic[1], pmach.apic[2], MmioFlags) /\ ppc' = "sections"
  /\ UNCHANGED <<pmach, pnext, ptabs, bump, clobbered, cr4, published, tops, windows>>

MapKernelSections ==
  /\ ppc = "sections" /\ todo = <<>>
  /\ IF pnext <= Len(pmach.image)
     THEN todo' = MapSection(pmach.image[pnext]) /\ pnext' = pnext + 1 /\ UNCHANGED ppc
     ELSE ppc' = "trampoline" /\ UNCHANGED <<todo, pnext>>
  /\ UNCHANGED <<pmach, ptabs, bump, clobbered, cr4, published, tops, windows>>

MapApTrampolineIdentity ==
  /\ ppc = "trampoline"
  /\ todo' = Loop(PageUnits, 2 * PageUnits, PageUnits, 0, FALSE, {"present", "writable", "global"})
  /\ ppc' = "install"
  /\ UNCHANGED <<pmach, pnext, ptabs, bump, clobbered, cr4, published, tops, windows>>

\* install_page_table
Install ==
  /\ ppc = "install" /\ todo = <<>>
  /\ tops' = tops \cup {KernelTop} /\ ppc' = "protect"
  /\ UNCHANGED <<pmach, pnext, todo, ptabs, bump, clobbered, cr4, published, windows>>

EnableSupervisorProtections ==
  /\ ppc = "protect"
  /\ cr4' = [cr4 EXCEPT ![BSP] = @ \cup (pmach.features \cap {"smep", "smap"})] /\ ppc' = "publish"
  /\ UNCHANGED <<pmach, pnext, todo, ptabs, bump, clobbered, published, tops, windows>>

PublishBspCr4 ==
  /\ ppc = "publish"
  /\ published' = cr4[BSP] /\ ppc' = "up"
  /\ UNCHANGED <<pmach, pnext, todo, ptabs, bump, clobbered, cr4, tops, windows>>

(* ---------------------------- after init ----------------------------- *)

\* a copy of the running top table, in a frame of the buddy allocator's,
\* which is named apart from the pool's
CopyTop(from) ==
  /\ todo = <<>> /\ Cardinality(tops) < MaxTops
  /\ LET frame == -PageUnits * Cardinality(tops)
     IN  /\ ptabs' = ptabs @@ (frame :> [i \in 0..3 |-> IF i \in from THEN ptabs[KernelTop][i] ELSE Empty])
         /\ tops' = tops \cup {frame}

\* start_aps: copy_pml4_below_4g, then on the AP apply_bsp_cr4_on_ap
StartAp(c) ==
  /\ ppc = "up" /\ cr4[c] = {"pae"} /\ CopyTop(0..3)
  /\ cr4' = [cr4 EXCEPT ![c] = IF published = {} THEN @ ELSE published]
  /\ UNCHANGED <<pmach, ppc, pnext, todo, bump, clobbered, published, windows>>

\* map_mmio_region: on the live tables, page by page
MapMmioRegion(w) ==
  /\ ppc = "up" /\ todo = <<>> /\ w \notin windows
  /\ todo' = IF w[2] = 0 THEN <<>>
             ELSE Loop(AlignDown(w[1], PageUnits), AlignUp(w[1] + w[2], PageUnits), PageUnits,
                       DIRECT_MAP_BASE, FALSE, MmioFlags)
  /\ windows' = windows \cup {w}
  /\ UNCHANGED <<pmach, ppc, pnext, ptabs, bump, clobbered, cr4, published, tops>>

\* AddressSpace::new: the kernel half only; devices are mapped before the first
NewSpace ==
  /\ ppc \in {"up", "user"} /\ CopyTop(1..3) /\ ppc' = "user"
  /\ UNCHANGED <<pmach, pnext, todo, bump, clobbered, cr4, published, windows>>

PgNext ==
  \/ MapNext \/ EnableFeatures \/ NewBuilder \/ MapDirectMemory \/ MapApicMmio \/ MapKernelSections
  \/ MapApTrampolineIdentity \/ Install \/ EnableSupervisorProtections \/ PublishBspCr4
  \/ NewSpace \/ (\E c \in PagingAps : StartAp(c))
  \/ \E w \in Bars : MapMmioRegion(w)

PgSpec == PgInit /\ [][PgNext]_pgvars

(* ---------------------------- properties ---------------------------- *)

PagesOf(from, to) == {p \in AlignDown(from, PageUnits)..(to - 1) : p % PageUnits = 0}
RegionPages == UNION {PagesOf(r.base, r.base + r.length) :
                        r \in {pmach.memmap[i] : i \in {j \in DOMAIN pmach.memmap : pmach.memmap[j].type \in Mappable}}}
WindowPages == UNION {PagesOf(w[1], w[1] + w[2]) : w \in windows} \cup PagesOf(pmach.apic[1], pmach.apic[2])
ImagePages  == UNION {PagesOf(pmach.image[i].from, pmach.image[i].to) : i \in DOMAIN pmach.image}
Running     == ppc \in {"protect", "publish", "up", "user"} /\ todo = <<>>

\* Every page of memory the kernel reaches through the direct map, its own
\* table frames among them, every mapped device register and every page of
\* the image translates to itself, whatever page sizes init chose for it.
DirectMapCovers ==
  Running =>
    /\ \A p \in RegionPages \cup WindowPages : Translate(ptabs, KernelTop, DIRECT_MAP_BASE + p) = p
    /\ \A p \in ImagePages : Translate(ptabs, KernelTop, p - pmach.image[1].from + KERNEL_BASE) = p

\* No huge page is ever taken for a table: the builder and map_mmio_region
\* follow any present entry, so the choice of sizes must keep them apart.
NoHugeAsTable == clobbered = {}

\* Every address space and every CPU has the kernel the boot CPU has: the
\* same translation of each page of the kernel half, mapped before or after
\* the copy was taken, and the same CR4.
KernelSeenAlike ==
  /\ \A t \in tops : \A p \in RegionPages \cup WindowPages :
       Translate(ptabs, t, DIRECT_MAP_BASE + p) = Translate(ptabs, KernelTop, DIRECT_MAP_BASE + p)
  /\ \A t \in tops : \A p \in ImagePages :
       LET v == p - pmach.image[1].from + KERNEL_BASE
       IN  Translate(ptabs, t, v) = Translate(ptabs, KernelTop, v)
  /\ \A c \in PagingAps : cr4[c] # {"pae"} => cr4[c] = cr4[BSP]
=============================================================================
