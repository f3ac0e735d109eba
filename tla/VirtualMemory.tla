--------------------------- MODULE VirtualMemory ---------------------------
(***************************************************************************)
(* Address spaces of crates/proc: page tables, mappings made by mmap,      *)
(* copy-on-write with its share counts, page faults, fork, CLONE_VM,       *)
(* execve's change of address space, teardown, and the page cache of       *)
(* crates/fs that backs file mappings.  User threads run on CPU 0 only     *)
(* and the kernel handles a fault or a system call of this kind with       *)
(* interrupts off, so each is one step; what interleaves is the processes. *)
(* A page's contents are one value, a file's are one value per page.       *)
(***************************************************************************)
EXTENDS Integers, FiniteSets, FiniteSetsExt

CONSTANTS Procs,      \* process slots
          First,      \* the process created at boot
          Spaces,     \* address-space slots, a set of integers
          Pages,      \* user pages: Text, Stack and the mmap region
          Text, Stack, Base, RegionEnd,
          NFrames,    \* physical frames
          CowCap,     \* entries of the share table
          CacheCap,   \* entries of the page cache
          MaxVmas,    \* MAX_VMAS
          Offsets,    \* page offsets of the one file
          FileSize,   \* its size in pages
          Stored,     \* values programs store
          Touched,    \* the pages they store to
          TidyExit    \* a process unmaps its shared mappings before its space goes

ASSUME LayoutAssumption ==
  /\ Pages = {Text, Stack} \cup Base..RegionEnd
  /\ Text < Stack /\ Stack < Base /\ Base <= RegionEnd

VARIABLES st, owner, run, loaded, refs, pt, vmas, mmap_next,
          cow, free, content, cache, dirty, file, vref

vars == <<st, owner, run, loaded, refs, pt, vmas, mmap_next,
          cow, free, content, cache, dirty, file, vref>>

Frames  == 1..NFrames
Values  == {"zero", "orig"} \cup Stored
NoPte   == [f |-> 0, w |-> FALSE, c |-> FALSE]
NoVma   == [s |-> 0, e |-> 0, w |-> FALSE, k |-> "none", o |-> 0]
NoTable == [p \in Pages |-> NoPte]
NoVmas  == [i \in 1..MaxVmas |-> NoVma]
Present(pte) == pte.f # 0

(* ------------------------- the share table -------------------------- *)

(* Mutant of CowShare: a first share is counted as one claim. *)
CowShareFromOne(t, f) == [t EXCEPT ![f] = @ + 1]

CowShare(t, f) ==
  [t EXCEPT ![f] = IF @ > 0 THEN @ + 1
                   ELSE IF Cardinality({g \in Frames : t[g] > 0}) < CowCap THEN 2 ELSE 0]

CowSole(t, f) == t[f] = 0

CowRelease(t, f) == [t EXCEPT ![f] = IF @ > 2 THEN @ - 1 ELSE 0]

CowReadOnly(pte) == [pte EXCEPT !.w = FALSE, !.c = TRUE]

CowWritable(pte) == [pte EXCEPT !.w = TRUE, !.c = FALSE]

(* Mutant of FreeLeaf: the share count is not consulted. *)
FreeLeafAlways(pte, acc) == [acc EXCEPT !.free = @ \cup {pte.f}]

\* a leaf entry goes away: acc holds the share table and the free frames
FreeLeaf(pte, acc) ==
  IF pte.c /\ ~CowSole(acc.cow, pte.f)
    THEN [acc EXCEPT !.cow = CowRelease(@, pte.f)]
    ELSE [acc EXCEPT !.free = @ \cup {pte.f}]

FreeLeaves(table, P, acc) ==
  FoldSet(LAMBDA p, a : FreeLeaf(table[p], a), acc, {p \in P : Present(table[p])})

\* a page of a file mapping: the page cache owns the frames of a shared one
UnmapFilePages(table, P, shared, acc) == IF shared THEN acc ELSE FreeLeaves(table, P, acc)

UnmapPages(table, P, acc) == FreeLeaves(table, P, acc)

(* --------------------- mappings and page tables --------------------- *)

Contains(v, p) == v.k # "none" /\ v.s <= p /\ p < v.e

VmaAt(s, p) == IF \E i \in 1..MaxVmas : Contains(vmas[s][i], p)
                 THEN vmas[s][CHOOSE i \in 1..MaxVmas : Contains(vmas[s][i], p)]
                 ELSE NoVma

FileOffset(v, p) == v.o + (p - v.s)

IsShared(s, p) == VmaAt(s, p).k = "shared"

\* AddressSpace::new with an image: text read-only, stack writable
ImageTable(f, g) == [NoTable EXCEPT ![Text] = [f |-> f, w |-> FALSE, c |-> FALSE],
                                    ![Stack] = [f |-> g, w |-> TRUE, c |-> FALSE]]

FreeSpace == Min({s \in Spaces : refs[s] = 0})
HasSpace  == \E s \in Spaces : refs[s] = 0
Alloc     == Min(free)
Alloc2    == Min(free \ {Alloc})

(* ---------------------------- the system ---------------------------- *)

Init ==
  /\ st = [p \in Procs |-> IF p = First THEN "live" ELSE "unused"]
  /\ owner = [p \in Procs |-> IF p = First THEN Min(Spaces) ELSE 0]
  /\ run = First /\ loaded = Min(Spaces)
  /\ refs = [s \in Spaces |-> IF s = Min(Spaces) THEN 1 ELSE 0]
  /\ pt = [s \in Spaces |-> IF s = Min(Spaces) THEN ImageTable(1, 2) ELSE NoTable]
  /\ vmas = [s \in Spaces |-> NoVmas]
  /\ mmap_next = [s \in Spaces |-> Base]
  /\ cow = [f \in Frames |-> 0]
  /\ free = Frames \ {1, 2}
  /\ content = [f \in Frames |-> IF f = 1 THEN "orig" ELSE "zero"]
  /\ cache = [o \in Offsets |-> 0] /\ dirty = {}
  /\ file = [o \in Offsets |-> IF o < FileSize THEN "orig" ELSE "zero"]
  /\ vref = 0

\* AddressSpace::drop_ref on the tables (t), counts (r) and frames (acc) of
\* the moment: the last owner frees every user leaf.  The records of the
\* space's mappings go with the space, with no call on their vnodes.
DropRef(s, r, t, acc) ==
  IF r[s] = 1
    THEN LET a == FreeLeaves(t[s], Pages, acc)
         IN /\ refs' = [r EXCEPT ![s] = 0]
            /\ pt' = [t EXCEPT ![s] = NoTable]
            /\ vmas' = [vmas EXCEPT ![s] = NoVmas]
            /\ mmap_next' = [mmap_next EXCEPT ![s] = Base]
            /\ cow' = a.cow /\ free' = a.free
    ELSE /\ refs' = [r EXCEPT ![s] = @ - 1]
         /\ pt' = t /\ cow' = acc.cow /\ free' = acc.free
         /\ UNCHANGED <<vmas, mmap_next>>

Acc == [cow |-> cow, free |-> free]
Here == owner[run]
Running == run \in Procs /\ st[run] = "live"
FileState == <<cache, dirty, file, vref>>

\* sched_context_switch_hook: load the next process's space.  A kernel thread
\* keeps the space that is loaded; run = "kernel" is that case after an exit,
\* the only one where the space kept is that of a process gone.
Switch(p) ==
  /\ p # run /\ st[p] = "live"
  /\ run' = p /\ loaded' = owner[p]
  /\ UNCHANGED <<st, owner, refs, pt, vmas, mmap_next, cow, free, content, FileState>>

\* sys_fork's fork_cow: shared file pages are mapped as they are, every other
\* present page becomes read-only and shared in both page tables.  The
\* mappings are copied; the vnodes they name get no further reference.
CowPages(s) == {p \in Pages : Present(pt[s][p]) /\ ~IsShared(s, p)}

CopyVmas(s, t) == /\ vmas' = [vmas EXCEPT ![t] = vmas[s]]
                  /\ mmap_next' = [mmap_next EXCEPT ![t] = mmap_next[s]]

(* Mutant of ForkCow: the parent's entries stay as they are. *)
ForkCowChildOnly(s, t) ==
  /\ pt' = [pt EXCEPT ![t] = [p \in Pages |-> IF p \in CowPages(s) THEN CowReadOnly(pt[s][p])
                                                ELSE pt[s][p]]]
  /\ cow' = FoldSet(LAMBDA p, c : CowShare(c, pt[s][p].f), cow, CowPages(s))
  /\ CopyVmas(s, t)

ForkCow(s, t) ==
  LET table == [p \in Pages |-> IF p \in CowPages(s) THEN CowReadOnly(pt[s][p]) ELSE pt[s][p]]
  IN /\ pt' = [pt EXCEPT ![s] = table, ![t] = table]
     /\ cow' = FoldSet(LAMBDA p, c : CowShare(c, pt[s][p].f), cow, CowPages(s))
     /\ CopyVmas(s, t)

NoSharedMapping(s) == \A i \in 1..MaxVmas : vmas[s][i].k # "shared"

Fork(q) ==
  /\ Running /\ st[q] = "unused" /\ HasSpace
  /\ ForkCow(Here, FreeSpace)
  /\ refs' = [refs EXCEPT ![FreeSpace] = 1]
  /\ st' = [st EXCEPT ![q] = "live"]
  /\ owner' = [owner EXCEPT ![q] = FreeSpace]
  /\ UNCHANGED <<run, loaded, free, content, FileState>>

\* sys_clone with CLONE_VM: one more reference to the caller's space
CloneVm(q) ==
  /\ Running /\ st[q] = "unused"
  /\ refs' = [refs EXCEPT ![Here] = @ + 1]
  /\ st' = [st EXCEPT ![q] = "live"]
  /\ owner' = [owner EXCEPT ![q] = Here]
  /\ UNCHANGED <<run, loaded, pt, vmas, mmap_next, cow, free, content, FileState>>

\* do_execve: build a complete image (AddressSpace::new, map_segment,
\* map_user_stack), make it the process's space, load it, then drop the old.
Execve ==
  /\ Running /\ HasSpace /\ Cardinality(free) >= 2
  /\ TidyExit => NoSharedMapping(Here)
  /\ LET new == FreeSpace
     IN /\ owner' = [owner EXCEPT ![run] = new]
        /\ loaded' = new
        /\ content' = [content EXCEPT ![Alloc] = "orig", ![Alloc2] = "zero"]
        /\ DropRef(Here, [refs EXCEPT ![new] = 1],
                   [pt EXCEPT ![new] = ImageTable(Alloc, Alloc2)],
                   [Acc EXCEPT !.free = @ \ {Alloc, Alloc2}])
  /\ UNCHANGED <<st, run, FileState>>

\* Process::exit: the process becomes a zombie and never runs again; its
\* space stays until it is reaped.
Exit ==
  /\ Running
  /\ TidyExit => NoSharedMapping(Here)
  /\ st' = [st EXCEPT ![run] = "zombie"]
  /\ run' = "kernel"
  /\ UNCHANGED <<owner, loaded, refs, pt, vmas, mmap_next, cow, free, content, FileState>>

\* reap_zombie by the process that runs
Reap(z) ==
  /\ Running /\ st[z] = "zombie"
  /\ st' = [st EXCEPT ![z] = "unused"]
  /\ owner' = [owner EXCEPT ![z] = 0]
  /\ DropRef(owner[z], refs, pt, Acc)
  /\ UNCHANGED <<run, loaded, content, FileState>>

(* ------------------------------ mmap -------------------------------- *)

Overlaps(s, a, b) ==
  \E i \in 1..MaxVmas : vmas[s][i].k # "none" /\ a < vmas[s][i].e /\ vmas[s][i].s < b

\* the candidate starts of AddressSpace::mmap, from mmap_next in steps of len
Starts(s, len) == {a \in mmap_next[s]..(RegionEnd + 1 - len) :
                     (a - mmap_next[s]) % len = 0 /\ ~Overlaps(s, a, a + len)}

\* only a fault on a shared mapping looks at the protection asked for (w)
Mmap(len, w, k, o) ==
  /\ Running
  /\ \E i \in 1..MaxVmas : vmas[Here][i].k = "none"
  /\ Starts(Here, len) # {}
  /\ LET i == Min({j \in 1..MaxVmas : vmas[Here][j].k = "none"})
         a == Min(Starts(Here, len))
     IN /\ vmas' = [vmas EXCEPT ![Here][i] = [s |-> a, e |-> a + len, w |-> w, k |-> k, o |-> o]]
        /\ mmap_next' = [mmap_next EXCEPT ![Here] = a + len]
  /\ vref' = IF k = "anon" THEN vref ELSE vref + 1
  /\ UNCHANGED <<st, owner, run, loaded, refs, pt, cow, free, content, cache, dirty, file>>

\* writeback_vnode: every dirty page within the file's size, in the order of the
\* cache's buckets, up to the first the vnode's write refuses; that page and the
\* ones after it stay dirty, and munmap drops the EIO
Flushed == {W \in SUBSET dirty : W = dirty \/ \E o \in dirty \ W : o < FileSize}
Writeback(W) == [o \in Offsets |-> IF o \in W /\ o < FileSize THEN content[cache[o]] ELSE file[o]]

Munmap(i) ==
  /\ Running /\ vmas[Here][i].k # "none"
  /\ LET v == vmas[Here][i]
         P == {p \in Pages : Contains(v, p)}
         a == IF v.k = "anon" THEN UnmapPages(pt[Here], P, Acc)
              ELSE UnmapFilePages(pt[Here], P, v.k = "shared", Acc)
     IN /\ pt' = [pt EXCEPT ![Here] = [p \in Pages |-> IF p \in P THEN NoPte ELSE @[p]]]
        /\ cow' = a.cow /\ free' = a.free
        /\ \E W \in Flushed :
             /\ file' = IF v.k = "shared" THEN Writeback(W) ELSE file
             /\ dirty' = IF v.k = "shared" THEN dirty \ W ELSE dirty
        /\ vref' = IF v.k = "anon" THEN vref ELSE vref - 1
  /\ vmas' = [vmas EXCEPT ![Here][i] = NoVma]
  /\ UNCHANGED <<st, owner, run, loaded, refs, mmap_next, content, cache>>

(* --------------------------- page faults ---------------------------- *)

\* resolve_file_fault for a page of an anonymous mapping: a zeroed frame,
\* writable whatever the mapping's flags say.
FaultAnon(p) ==
  /\ Running /\ ~Present(pt[Here][p]) /\ VmaAt(Here, p).k = "anon" /\ free # {}
  /\ pt' = [pt EXCEPT ![Here][p] = [f |-> Alloc, w |-> TRUE, c |-> FALSE]]
  /\ content' = [content EXCEPT ![Alloc] = "zero"]
  /\ free' = free \ {Alloc}
  /\ UNCHANGED <<st, owner, run, loaded, refs, vmas, mmap_next, cow, FileState>>

\* get_or_fill: the cached frame, or a new one filled from the file and
\* remembered while there is room
Cached(o) == cache[o] # 0
FillFrame(o) == IF Cached(o) THEN cache[o] ELSE Alloc
Fill(o) ==
  /\ Cached(o) \/ free # {}
  /\ content' = IF Cached(o) THEN content ELSE [content EXCEPT ![Alloc] = file[o]]
  /\ free' = IF Cached(o) THEN free ELSE free \ {Alloc}
  /\ cache' = IF Cardinality({x \in Offsets : Cached(x)}) < CacheCap
                THEN [cache EXCEPT ![o] = FillFrame(o)] ELSE cache

\* resolve_file_fault for a shared mapping: the cache's frame itself, dirty
\* from the first touch when the mapping is writable
FaultShared(p) ==
  /\ Running /\ ~Present(pt[Here][p]) /\ VmaAt(Here, p).k = "shared"
  /\ LET v == VmaAt(Here, p)
         o == FileOffset(v, p)
     IN /\ Fill(o)
        /\ pt' = [pt EXCEPT ![Here][p] = [f |-> FillFrame(o), w |-> v.w, c |-> FALSE]]
        /\ dirty' = IF v.w /\ cache'[o] # 0 THEN dirty \cup {o} ELSE dirty
  /\ UNCHANGED <<st, owner, run, loaded, refs, vmas, mmap_next, cow, file, vref>>

\* resolve_file_fault for a private mapping: the cache's frame, read-only
\* and shared, so that the first store copies it
FaultPrivate(p) ==
  /\ Running /\ ~Present(pt[Here][p]) /\ VmaAt(Here, p).k = "private"
  /\ LET o == FileOffset(VmaAt(Here, p), p)
     IN /\ Fill(o)
        /\ pt' = [pt EXCEPT ![Here][p] = [f |-> FillFrame(o), w |-> FALSE, c |-> TRUE]]
        /\ cow' = CowShare(cow, FillFrame(o))
  /\ UNCHANGED <<st, owner, run, loaded, refs, vmas, mmap_next, dirty, file, vref>>

\* resolve_cow_fault: a store to a present copy-on-write page.  The sole
\* claimant keeps the frame, another one copies it.
FaultCow(p) ==
  /\ Running /\ Present(pt[Here][p]) /\ pt[Here][p].c
  /\ LET old == pt[Here][p]
     IN IF CowSole(cow, old.f)
          THEN /\ pt' = [pt EXCEPT ![Here][p] = CowWritable(old)]
               /\ UNCHANGED <<cow, free, content>>
          ELSE /\ free # {}
               /\ cow' = CowRelease(cow, old.f)
               /\ pt' = [pt EXCEPT ![Here][p] = [CowWritable(old) EXCEPT !.f = Alloc]]
               /\ content' = [content EXCEPT ![Alloc] = content[old.f]]
               /\ free' = free \ {Alloc}
  /\ UNCHANGED <<st, owner, run, loaded, refs, vmas, mmap_next, FileState>>

\* a fault nothing resolves ends the process: a store to a read-only page
\* that is not copy-on-write, any access outside every mapping, or to a page of
\* a file that is not cached and whose read fails (get_or_fill frees the frame)
Unresolved(p) == IF Present(pt[Here][p]) THEN ~pt[Here][p].w /\ ~pt[Here][p].c
                 ELSE VmaAt(Here, p).k = "none"

ReadFails(p) == /\ ~Present(pt[Here][p]) /\ VmaAt(Here, p).k \in {"private", "shared"}
                /\ ~Cached(FileOffset(VmaAt(Here, p), p))

Segfault(p) ==
  /\ Running
  /\ Unresolved(p) \/ ReadFails(p)
  /\ TidyExit => NoSharedMapping(Here)
  /\ st' = [st EXCEPT ![run] = "zombie"] /\ run' = "kernel"
  /\ UNCHANGED <<owner, loaded, refs, pt, vmas, mmap_next, cow, free, content, FileState>>

\* a store by the running program through a writable entry (external: the
\* processor)
Store(p, v) ==
  /\ Running /\ Present(pt[Here][p]) /\ pt[Here][p].w
  /\ content' = [content EXCEPT ![pt[Here][p].f] = v]
  /\ UNCHANGED <<st, owner, run, loaded, refs, pt, vmas, mmap_next, cow, free, FileState>>

Next ==
  \/ \E p \in Procs : Switch(p) \/ Fork(p) \/ CloneVm(p) \/ Reap(p)
  \/ Execve \/ Exit
  \/ \E len \in 1..(RegionEnd + 1 - Base) :
       \/ Mmap(len, TRUE, "anon", 0)
       \/ \E o \in {x \in Offsets : x + len - 1 \in Offsets} :
            Mmap(len, TRUE, "private", o) \/ \E w \in BOOLEAN : Mmap(len, w, "shared", o)
  \/ \E i \in 1..MaxVmas : Munmap(i)
  \/ \E p \in Pages :
       FaultAnon(p) \/ FaultShared(p) \/ FaultPrivate(p) \/ Segfault(p)
  \/ \E p \in Touched :
       FaultCow(p) \/ \E v \in Stored : Store(p, v)

Spec == Init /\ [][Next]_vars

(* ---------------------------- properties ---------------------------- *)

Leaves == {<<s, p>> \in Spaces \X Pages : Present(pt[s][p])}
Maps(f) == {l \in Leaves : pt[l[1]][l[2]].f = f}
PrivateMaps(f) == {l \in Maps(f) : ~IsShared(l[1], l[2])}
CachedFrames == {cache[o] : o \in {x \in Offsets : Cached(x)}}

\* No frame that a page table maps or the page cache holds is on the free
\* list: munmap, exec and exit free a frame only when its last claim goes
\* (unmap_pages, unmap_file_pages, free_table).
FramesLive == free \cap ({pt[l[1]][l[2]].f : l \in Leaves} \cup CachedFrames) = {}

\* The share table is exact: it holds, for a frame with two or more private
\* claims (page-table entries, and the page cache when it holds the frame),
\* their number, and nothing for any other frame.
CowExact ==
  \A f \in Frames :
    LET n == Cardinality(PrivateMaps(f)) + (IF f \in CachedFrames THEN 1 ELSE 0)
    IN cow[f] = IF n >= 2 THEN n ELSE 0

\* The space in CR3 exists: no exec or reap frees page tables the processor
\* still walks, even while a kernel thread runs on a process's tables.
LoadedLive == refs[loaded] > 0

\* A space is referenced once by each process that has not been reaped.
RefsExact == \A s \in Spaces : refs[s] = Cardinality({p \in Procs : owner[p] = s})

\* What the processor can reach is allocated: every mapped or cached frame,
\* and the page tables of every space a process or CR3 refers to.
MemoryLive == FramesLive /\ LoadedLive /\ RefsExact

View(s, p) ==
  CASE IsShared(s, p) -> "shared"
    [] VmaAt(s, p).k = "private"
         /\ (~Present(pt[s][p]) \/ pt[s][p].f = cache[FileOffset(VmaAt(s, p), p)]) -> "file"
    [] VmaAt(s, p).k = "anon" /\ ~Present(pt[s][p]) -> "zero"
    [] ~Present(pt[s][p]) /\ VmaAt(s, p).k = "none" -> "none"
    [] OTHER -> content[pt[s][p].f]

Private == INSTANCE PrivateMemory WITH mem <- [s \in Spaces |-> [p \in Pages |-> View(s, p)]]

\* Programs see private memory: with faults, sharing and copying hidden,
\* every step of the kernel is a step of PrivateMemory, so no store reaches
\* a page of another space and no fault loses or changes contents.
PrivateMemorySpec == Private!Spec
=============================================================================
