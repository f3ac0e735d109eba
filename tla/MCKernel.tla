------------------------------ MODULE MCKernel ------------------------------
(***************************************************************************)
(* The parts of the kernel whose properties are safety properties, side by *)
(* side: the file system, a pipeline's descriptors, signals, TLB           *)
(* shootdown, program loading, the shell's parser, and what boot does (CPU *)
(* bring-up, page tables, PCI, the network device).  `part` says which of  *)
(* them a behaviour is about; the others stay at their initial state, or   *)
(* have none: their variables are 0.                                       *)
(***************************************************************************)
EXTENDS Signals, Shootdown, Virtio

CONSTANTS NInodes, BlockUnits, MaxBlocks, DirChildren, NFds, Lens,      \* Ramfs
          shell, kid1, kid2, kid3, ShellFds, NPipes, RingCap, EchoWords, \* Pipeline
          PageLen, WordLen, USER_TOP, USTACK_TOP, USTACK_PAGES,         \* Exec
          SIGRETURN_TRAMPOLINE_VA, MAX_LOAD_SEGMENTS, MAX_ARGV, MAX_ENVP,
          LINE_BUF_SIZE, MAX_ARGS, MAX_PIPELINE_STAGES,                 \* Shell
          CpuIds, Bsp, Gsis, MinTicks, MaxTicks, CalTicks, MAX_CPUS,    \* BringUp
          MAX_IOAPICS, MAX_ISOS, Answering, PromptAps,
          Fanout, PageUnits, EARLY_FRAMES, PhysLimit, PagingAps, MaxTops, \* Paging
          WordMod, MAX_PCI_DEVICES, CapGuard                            \* Pci

VARIABLES part,
          unpacked, inode, data, vsize, dir, fdesc, written,
          life, fds, closing, refs, made, failed, ring, asleep, prog, nstages, stage,
          left, extra,
          xfile, xargs, xpc, xsegs, virt, xpages, strptrs, rsp, elfbuf,
          shpc, line, pos, cur, stages, anyTok,
          lapic, irr, isr, flag, handlers, redir, pic, ticks,
          rsdp, answers, bsp, table, count, tramp, gdt, ap, ready, scheds, started,
          pmach, ppc, pnext, todo, ptabs, bump, clobbered, cr4, published, tops, windows,
          pbus, fi, pcipc, breg, decode, errs, bari, orig, cmd, device, devices

----------------------------------------------------------------------------
(* Ramfs: an archive with a shared directory and a link, and programs that *)
(* write a file of it, a new one and one whose name is cut.                *)

MCArchive == <<[kind |-> "dir", path |-> <<>>, len |-> 0],
               [kind |-> "dir", path |-> <<"bin">>, len |-> 0],
               [kind |-> "file", path |-> <<"bin", "sh">>, len |-> 3],
               [kind |-> "link", path |-> <<"l">>, len |-> 1],
               [kind |-> "trailer", path |-> <<"t">>, len |-> 0]>>
MCPaths == {<<"bin", "sh">>, <<"out">>, <<"averylongname">>}

fsvars == <<unpacked, inode, data, vsize, dir, fdesc, written>>
R == INSTANCE Ramfs WITH MaxChildren <- DirChildren, Archive <- MCArchive,
       Paths <- MCPaths, LongNames <- {"averylongname"}, Values <- {"a"},
       SoleTruncate <- TRUE
FsOff == /\ unpacked = 0 /\ inode = 0 /\ data = 0 /\ vsize = 0 /\ dir = 0
         /\ fdesc = 0 /\ written = 0

----------------------------------------------------------------------------
(* Pipeline: up to three stages over two pipes; and Descriptors on its own: *)
(* two programs that make any system call on descriptors and one pipe.      *)

linevars == <<life, fds, closing, refs, made, failed, ring, asleep, prog, nstages, stage,
              left, extra>>
L == INSTANCE Pipeline WITH Procs <- {shell, kid1, kid2, kid3}, First <- shell,
       Kids <- <<kid1, kid2, kid3>>, Users <- {shell}, Used <- {0}, NFds <- ShellFds,
       TidyDup2 <- TRUE, Redirected <- {}, Words <- EchoWords, state <- life, pc <- prog,
       n <- nstages, i <- stage
D == INSTANCE Descriptors WITH Procs <- {shell, kid1}, First <- shell, NFds <- 3,
       NPipes <- 1, Users <- {shell, kid1}, Used <- 0..2, TidyDup2 <- TRUE, state <- life
ProgOff == prog = 0 /\ nstages = 0 /\ stage = 0 /\ left = 0 /\ extra = 0
LineOff == /\ life = 0 /\ fds = 0 /\ closing = 0 /\ refs = 0 /\ made = 0 /\ failed = 0
           /\ ring = 0 /\ asleep = 0 /\ ProgOff

----------------------------------------------------------------------------
(* Exec: a text segment at any offset in its page and a data segment with a *)
(* bss, and files parse_elf refuses; up to two arguments and a variable, or *)
(* one more than do_execve takes.                                           *)

Text == [load : {TRUE}, align : {4}, vaddr : {0, 1, 3, 6}, offset : {1, 2, 4},
         filesz : {0, 2, 5}, memsz : {2, 7}, w : {FALSE}, x : {TRUE}]
Bss == [load |-> TRUE, align |-> 4, vaddr |-> 17, offset |-> 3, filesz |-> 3,
        memsz |-> 6, w |-> TRUE, x |-> FALSE]
Note == [Bss EXCEPT !.load = FALSE]
Elf(phs) == [len |-> 8, header |-> TRUE, phdrEnd |-> 4, phdrs |-> phs]
MCFiles == {Elf(<<ph, Note, Bss>>) : ph \in Text}
           \cup {Elf(<<[Bss EXCEPT !.vaddr = v]>>) : v \in {60, 64, 70}}
           \cup {Elf(<<[Bss EXCEPT !.vaddr = 61, !.memsz = m]>>) : m \in {2, 3}}
           \cup {Elf(<<[Bss EXCEPT !.align = a]>>) : a \in {2, 6, 8}}
           \cup {Elf(<<>>), Elf(<<Note, Note, Note, Note>>),
                 [Elf(<<Bss>>) EXCEPT !.len = 0],
                 [Elf(<<Bss>>) EXCEPT !.header = FALSE],
                 [Elf(<<Bss>>) EXCEPT !.phdrEnd = 9]}
Str == {<<>>, <<-1>>, <<-1, -2>>}
MCArgLists == {<<a, e>> : a \in {<<>>} \cup {<<s>> : s \in Str}
                                \cup {<<s, t>> : s \in {<<>>, <<-2>>}, t \in Str},
                          e \in {<<>>, <<<<-3>>>>, <<<<-3, -4>>>>}}
              \cup {<<<<<<>>, <<>>, <<>>>>, <<>>>>, <<<<>>, <<<<>>, <<>>>>>>}

execvars == <<xfile, xargs, xpc, xsegs, virt, xpages, strptrs, rsp, elfbuf>>
X == INSTANCE Exec WITH Files <- MCFiles, ArgLists <- MCArgLists
ExecOff == /\ xfile = 0 /\ xargs = 0 /\ xpc = 0 /\ xsegs = 0 /\ virt = 0
           /\ xpages = 0 /\ strptrs = 0 /\ rsp = 0 /\ elfbuf = 0

----------------------------------------------------------------------------
(* Shell *)

shellvars == <<shpc, line, pos, cur, stages, anyTok>>
Sh == INSTANCE Shell
ShellOff == shpc = 0 /\ line = 0 /\ pos = 0 /\ cur = 0 /\ stages = 0 /\ anyTok = 0

----------------------------------------------------------------------------
(* BringUp: three descriptions of the machine, with the boot CPU in any    *)
(* place of the list, unusable, unknown and short entries, a list cut      *)
(* short by a bad length, and timer and keyboard lines redirected or not.  *)

Lapic(a, u) == [typ |-> "lapic", len |-> 8, apic |-> a, usable |-> u]
X2(a) == [typ |-> "x2apic", len |-> 16, apic |-> a, usable |-> TRUE]
Io(b, n) == [typ |-> "ioapic", len |-> 12, base |-> b, count |-> n]
Iso(i, g, f) == [typ |-> "iso", len |-> 10, irq |-> i, gsi |-> g, flags |-> f]
Madt(es) == [sig |-> "APIC", entries |-> es,
             len |-> 44 + MapThenSumSet(LAMBDA k : es[k].len, DOMAIN es)]
NoSdt == [sig |-> "none", tables |-> <<>>]
Xsdt(t, w) == [valid |-> TRUE, rev |-> 2, len |-> 36, rsdt |-> NoSdt, wire |-> w,
               xsdt |-> [sig |-> "XSDT", tables |-> <<[sig |-> "FACP"], t>>]]
Rsdt(t, w) == [valid |-> TRUE, rev |-> 0, len |-> 20, xsdt |-> NoSdt, wire |-> w,
               rsdt |-> [sig |-> "RSDT", tables |-> <<t>>]]
Isa == [gsi |-> 1, low |-> FALSE, level |-> FALSE]
MCFirmware ==
  {Xsdt(Madt(<<Lapic(2, TRUE), Lapic(0, TRUE), Lapic(3, FALSE), X2(1), Io(0, 2),
               Iso(0, 2, 0)>>), Isa),
   Rsdt(Madt(<<Io(0, 1), [Io(5, 2) EXCEPT !.len = 8], Io(1, 2), Iso(1, 2, 15),
               [Lapic(3, TRUE) EXCEPT !.len = 4], Lapic(0, TRUE), Lapic(1, TRUE),
               [typ |-> "nmi", len |-> 6]>>), [gsi |-> 2, low |-> TRUE, level |-> TRUE]),
   Xsdt(Madt(<<Lapic(2, TRUE), Lapic(1, TRUE), Lapic(3, TRUE), Lapic(0, TRUE),
               [typ |-> "bad", len |-> 0], Io(0, 3)>>), Isa)}

bootvars == <<lapic, irr, isr, flag, handlers, redir, pic, ticks, rsdp, answers, bsp,
              table, count, tramp, gdt, ap, ready, scheds, started>>
B == INSTANCE BringUp WITH Firmware <- MCFirmware
BootOff == /\ lapic = 0 /\ irr = 0 /\ isr = 0 /\ flag = 0 /\ handlers = 0 /\ redir = 0
           /\ pic = 0 /\ ticks = 0 /\ rsdp = 0 /\ answers = 0 /\ bsp = 0 /\ table = 0
           /\ count = 0 /\ tramp = 0 /\ gdt = 0 /\ ap = 0 /\ ready = 0 /\ scheds = 0
           /\ started = 0

----------------------------------------------------------------------------
(* Paging: regions with and without room for a 2 MiB page, none with room  *)
(* for 1 GiB (module MCPaging has that one).                               *)

M == INSTANCE PagingMachines

pagingvars == <<pmach, ppc, pnext, todo, ptabs, bump, clobbered, cr4, published, tops, windows>>
Pg == INSTANCE Paging WITH Machines <- M!MCMachines, Bars <- M!MCBars
PagingOff == /\ pmach = 0 /\ ppc = 0 /\ pnext = 0 /\ todo = 0 /\ ptabs = 0 /\ bump = 0
             /\ clobbered = 0 /\ cr4 = 0 /\ published = 0 /\ tops = 0 /\ windows = 0

----------------------------------------------------------------------------
(* Pci: BARs of every kind and of sizes around the 32-bit boundary (WordMod), *)
(* a multi-function device that may not say so, rings of capabilities and a   *)
(* function without the capability bit.                                       *)

Bar(k, s, b) == [kind |-> k, size |-> s, base |-> b]
Off == Bar("none", 0, 0)
Bars6(s) == [i \in 0 .. 5 |-> IF i + 1 <= Len(s) THEN s[i + 1] ELSE Off]
NoCaps == [p \in {} |-> 0]
Fn(d, f, mu, h, id, bars) ==
  [at |-> d, func |-> f, present |-> TRUE, multi |-> mu, header |-> h, ids |-> id,
   bars |-> Bars6(bars), capList |-> TRUE, caps |-> NoCaps, first |-> 0, control |-> 0]
Absent(d, f) == [Fn(d, f, FALSE, 0, "none", <<>>) EXCEPT !.present = FALSE]
RingCaps(a, b) == [p \in {64, 80} |-> IF p = 64 THEN [id |-> a, next |-> 80]
                                                ELSE [id |-> b, next |-> 64]]
BarSets == {<<Bar("io", s, 32), Bar("m32", t, 64), Off, Bar("m64", u, 0), Bar("high", u, 0),
              Bar("m32", 16, 16)>> : s \in {4, 8}, t \in {16, 32}, u \in {16, 32, 64, 128, 256}}
           \cup {<<Bar("m64", u, 384), Bar("high", u, 384), Bar("m64", 16, 80),
                   Bar("high", 16, 80), Bar("io", 4, 12)>> : u \in {16, 32, 64, 128}}
MCBuses == {<<Fn(0, 0, mu, hd, "bridge", IF hd = 0 THEN bs ELSE <<>>),
              [Fn(0, 1, FALSE, 0, "net", bs) EXCEPT
                  !.caps = RingCaps("pm", c), !.first = 64, !.control = 2],
              Absent(1, 0), Fn(1, 1, FALSE, 0, "ghost", bs),
              [Fn(2, 0, FALSE, 0, "disk", <<>>) EXCEPT
                  !.capList = FALSE, !.caps = RingCaps("msix", "pm"), !.first = 64],
              [Fn(3, 0, FALSE, 0, "net", bs) EXCEPT !.caps = RingCaps(c, "pm"), !.first = 80]>> :
              mu \in BOOLEAN, hd \in {0, 1}, bs \in BarSets, c \in {"msix", "vendor"}}

pcivars == <<pbus, fi, pcipc, breg, decode, errs, bari, orig, cmd, device, devices>>
Pc == INSTANCE Pci WITH PciBuses <- MCBuses, found <- device
PciOff == /\ pbus = 0 /\ fi = 0 /\ pcipc = 0 /\ breg = 0 /\ decode = 0 /\ errs = 0
          /\ bari = 0 /\ orig = 0 /\ cmd = 0 /\ device = 0 /\ devices = 0

----------------------------------------------------------------------------
(* Virtio: a device that keeps FEATURES_OK or not, with queues absent, right *)
(* and larger than needed, with all its capabilities or some.                *)

MCDevices ==
  {[table |-> <<"other", "virtio_net">>, caps |-> c, features |-> f, keeps |-> k, size |-> s,
    txsize |-> t, msix |-> m] :
     k \in BOOLEAN, s \in {0, 2, 4}, t \in {0, 4}, m \in BOOLEAN,
     c \in {<<<<"common", 4>>, <<"notify", 4>>, <<"device", 4>>, <<"common", 1>>>>,
            <<<<"common", 4>>>>},
     f \in {{"mac", "version_1", "mrg"}, {"mac"}}}
  \cup {[table |-> <<"other">>, caps |-> <<>>, features |-> {}, keeps |-> FALSE, size |-> 0,
         txsize |-> 0, msix |-> FALSE]}

\* The device that is plugged in while another part runs.
AnyDevice == CHOOSE d \in MCDevices : TRUE

----------------------------------------------------------------------------
Parts == {"fs", "line", "fds", "sig", "tlb", "exec", "shell", "boot", "paging", "pci", "net"}

MCInit == /\ part \in Parts
          /\ IF part = "fs" THEN R!RInit ELSE FsOff
          /\ CASE part = "line" -> L!PInit
               [] part = "fds" -> D!DInit(3) /\ ProgOff
               [] OTHER -> LineOff
          /\ SInit /\ TInit
          /\ VInit /\ (part # "net" => dev = AnyDevice)
          /\ IF part = "exec" THEN X!XInit ELSE ExecOff
          /\ IF part = "shell" THEN Sh!ShInit ELSE ShellOff
          /\ IF part = "boot" THEN B!BInit ELSE BootOff
          /\ IF part = "paging" THEN Pg!PgInit ELSE PagingOff
          /\ IF part = "pci" THEN Pc!PciInit ELSE PciOff

\* Every part but p, and which part runs, stay as they are.
Only(p) ==
  /\ part = p /\ UNCHANGED part
  /\ p # "fs" => UNCHANGED fsvars
  /\ p \notin {"line", "fds"} => UNCHANGED linevars
  /\ p # "sig" => UNCHANGED svars
  /\ p # "tlb" => UNCHANGED tvars
  /\ p # "exec" => UNCHANGED execvars
  /\ p # "shell" => UNCHANGED shellvars
  /\ p # "boot" => UNCHANGED bootvars
  /\ p # "paging" => UNCHANGED pagingvars
  /\ p # "pci" => UNCHANGED pcivars
  /\ p # "net" => UNCHANGED vvars

MCNext == \/ Only("fs") /\ R!RNext
          \/ Only("line") /\ L!PNext
          \/ Only("fds") /\ D!DNext /\ UNCHANGED <<prog, nstages, stage, left, extra>>
          \/ Only("sig") /\ SNext
          \/ Only("tlb") /\ TNext
          \/ Only("exec") /\ X!XNext
          \/ Only("shell") /\ Sh!ShNext
          \/ Only("boot") /\ B!BNext
          \/ Only("paging") /\ Pg!PgNext
          \/ Only("pci") /\ Pc!PciNext
          \/ Only("net") /\ VNext

MCSpec == MCInit /\ [][MCNext]_<<part, fsvars, linevars, svars, tvars, execvars,
                                 shellvars, bootvars, pagingvars, pcivars, vvars>>

----------------------------------------------------------------------------
\* No unit from before a truncation can be read again (ramfs_truncate).
NoOldContents == part = "fs" => R!NoOldContents

\* stat, mmap and write-back see the size read and write use, and no directory
\* has two entries of one name (ramfs_write, lookup_or_create).
SizesAgree == part = "fs" => R!SizesAgree /\ R!NamesUnique

\* A thread asleep on a pipe has a peer that can still move data or hang up
\* (every end is counted exactly: sys_pipe, fork, dup2, close and exit), and a
\* pipeline that has ended leaves no pipe behind.
SleepersHavePeers ==
  /\ part = "line" => L!SleepersHavePeers /\ L!EndsCounted /\ L!NothingLeft
  /\ part = "fds" => D!SleepersHavePeers /\ D!EndsCounted

\* A program starts with the bytes, the zeroes and the permissions its program
\* headers describe, and with its arguments where the ABI says (parse_elf,
\* map_segment, setup_stack).
NewImageExact == part = "exec" => X!ImageExact /\ X!StackExact

\* A line is parsed into what its bytes say (parse_line).
ParseExact == part = "shell" => Sh!ParseExact

\* A CPU that takes interrupts has its own stack and TSS, an enabled local APIC
\* and, when every CPU before it came up, an initialised run queue (ap_entry).
ApReady == part = "boot" => B!ApReady

\* No CPU runs on with an interrupt left in service, and the boot CPU always
\* has its next tick coming (the timer handler's EOI before schedule).
NoDeafCpu == part = "boot" => B!NoDeafCpu

\* The direct map translates all the kernel reaches through it, no huge page
\* is taken for a table, and every address space and CPU sees the same kernel
\* (paging::init, map_mmio_region, the AP's page tables).
DirectMapSound ==
  part = "paging" => Pg!DirectMapCovers /\ Pg!NoHugeAsTable /\ Pg!KernelSeenAlike

\* The device table has the bases and sizes the BARs really have, and no
\* function answers on the bus while it is being sized (decode_bars).
BarsExact == part = "pci" => Pc!BarsExact /\ Pc!NoStrayDecode
=============================================================================
