------------------------------- MODULE Frames -------------------------------
(***************************************************************************)
(* The physical frame allocator: NumaBuddy and BuddyNode of                *)
(* crates/memory/src/buddy.rs and the public functions of lib.rs with      *)
(* their tracking bitmap.  Memory is measured in quarters of a frame, so   *)
(* that regions and reservations need not be aligned.  The allocator       *)
(* proper runs under the lock NUMA_BUDDY; the bitmap is changed before or  *)
(* after that section.  A free block is its first frame; a free list is a  *)
(* stack.                                                                  *)
(***************************************************************************)
EXTENDS Integers, Sequences, FiniteSets, SequencesExt, FiniteSetsExt

CONSTANTS MAX_ORDER,
          Memmap,      \* sequence of [base, length, usable]
          Excluded,    \* sequence of <<start, end>>: bump pool, kernel, others
          LowLimit, MAX_LOW_FRAME_TRIES, TRACK_LIMIT,
          MemCpus

VARIABLES lists,   \* free_lists: order -> stack
          free,    \* BuddyNode.free
          bitmap,  \* the frames marked allocated
          held,    \* blocks callers have, [base, order]
          doing    \* each CPU: idle, or the block between lock and bitmap

fvars == <<lists, free, bitmap, held, doing>>

PAGE == 4
Pages(base, order) == base..(base + 2^order - 1)

(* --------------------------------- init ------------------------------ *)

\* exclusion_overlap and first_exclusion_overlap
Clip(a, b, x) == <<IF x[1] > a THEN x[1] ELSE a, IF x[2] < b THEN x[2] ELSE b>>
Overlaps(a, b) == SelectSeq([i \in 1..Len(Excluded) |-> Clip(a, b, Excluded[i])], LAMBDA o : o[1] < o[2])

\* add_region: the largest order that is aligned and fits
OrderAt(p, end) ==
  Max({0} \cup {o \in 0..MAX_ORDER : p % 2^o = 0 /\ p + 2^o <= end})

RECURSIVE AddRegion(_, _, _)
AddRegion(L, p, end) ==
  IF p >= end THEN L
  ELSE LET o == OrderAt(p, end) IN AddRegion([L EXCEPT ![o] = <<p>> \o @], p + 2^o, end)

\* the frames that lie whole in a region without reservations
AddWhole(L, a, b) == AddRegion(L, (a + PAGE - 1) \div PAGE, b \div PAGE)

RECURSIVE AddRegionExcluding(_, _, _)
AddRegionExcluding(L, a, b) ==
  IF a >= b THEN L
  ELSE IF Overlaps(a, b) = << >> THEN AddWhole(L, a, b)
  ELSE LET x == Head(Overlaps(a, b))
       IN AddRegionExcluding(AddRegionExcluding(L, a, x[1]), x[2], b)

\* NumaBuddy::init: usable entries only
InitLists ==
  FoldLeft(LAMBDA L, e : IF e.usable THEN AddRegionExcluding(L, e.base, e.base + e.length) ELSE L,
           [o \in 0..MAX_ORDER |-> << >>], Memmap)

OnLists(L) == UNION {UNION {Pages(L[o][i], o) : i \in 1..Len(L[o])} : o \in 0..MAX_ORDER}

FrInit ==
  /\ lists = InitLists /\ free = Cardinality(OnLists(InitLists))
  /\ bitmap = {} /\ held = {}
  /\ doing = [c \in MemCpus |-> [op |-> "idle"]]

(* --------------------------- the buddy lists ------------------------- *)

\* alloc_order: the smallest order with a block, split down
HasOrder(L, order) == {s \in order..MAX_ORDER : L[s] # << >>}

(* Mutant of Split: the lower half goes back to the list as well. *)
SplitLower(L, f, order, s) ==
  [o \in 0..MAX_ORDER |-> IF o = s THEN Tail(L[o])
                          ELSE IF o \in order..(s - 1) THEN <<f>> \o L[o] ELSE L[o]]

Split(L, f, order, s) ==
  [o \in 0..MAX_ORDER |-> IF o = s THEN Tail(L[o])
                          ELSE IF o \in order..(s - 1) THEN <<f + 2^o>> \o L[o] ELSE L[o]]

AllocOrder(L, order) ==
  LET s == Min(HasOrder(L, order)) IN [frame |-> Head(L[s]), lists |-> Split(L, Head(L[s]), order, s)]

\* free_order: blocks are never merged
FreeOrder(L, f, order) == [L EXCEPT ![order] = <<f>> \o @]

\* alloc_frame_below_4g: frames that are too high are put back afterwards
RECURSIVE LowSearch(_, _, _)
LowSearch(L, tries, rejected) ==
  LET back == FoldLeft(LAMBDA M, f : FreeOrder(M, f, 0), L, rejected)
  IN IF tries = 0 \/ HasOrder(L, 0) = {} THEN [frame |-> -1, lists |-> back]
     ELSE LET a == AllocOrder(L, 0)
          IN IF a.frame < LowLimit
             THEN [frame |-> a.frame,
                   lists |-> FoldLeft(LAMBDA M, f : FreeOrder(M, f, 0), a.lists, rejected)]
             ELSE LowSearch(a.lists, tries - 1, Append(rejected, a.frame))

(* -------------------------- public functions ------------------------- *)

Idle(c) == doing[c].op = "idle"

\* under the lock (running out of memory panics)
Alloc(c, order) ==
  /\ Idle(c) /\ HasOrder(lists, order) # {}
  /\ LET a == AllocOrder(lists, order)
     IN lists' = a.lists /\ doing' = [doing EXCEPT ![c] = [op |-> "alloc", base |-> a.frame, order |-> order]]
  /\ free' = free - 2^order
  /\ UNCHANGED <<bitmap, held>>

AllocLow(c) ==
  /\ Idle(c) /\ LowSearch(lists, MAX_LOW_FRAME_TRIES, << >>).frame # -1
  /\ LET a == LowSearch(lists, MAX_LOW_FRAME_TRIES, << >>)
     IN lists' = a.lists /\ doing' = [doing EXCEPT ![c] = [op |-> "alloc", base |-> a.frame, order |-> 0]]
  /\ free' = free - 1
  /\ UNCHANGED <<bitmap, held>>

Tracked(S) == {f \in S : f < TRACK_LIMIT}

\* track_alloc: it panics on a frame that is marked already
TrackAlloc(c) ==
  /\ doing[c].op = "alloc"
  /\ LET d == doing[c] IN
       /\ bitmap' = bitmap \cup Tracked(Pages(d.base, d.order))
       /\ held' = held \cup {[base |-> d.base, order |-> d.order]}
  /\ doing' = [doing EXCEPT ![c] = [op |-> "idle"]]
  /\ UNCHANGED <<lists, free>>

\* free_frame: first track_free, which panics on an unmarked frame.  A block
\* of several frames is given back frame by frame.
TrackFree(c, f) ==
  /\ Idle(c) /\ \E b \in held : f \in Pages(b.base, b.order)
  /\ bitmap' = bitmap \ {f}
  /\ held' = LET b == CHOOSE x \in held : f \in Pages(x.base, x.order)
             IN (held \ {b}) \cup {[base |-> g, order |-> 0] : g \in Pages(b.base, b.order) \ {f}}
  /\ doing' = [doing EXCEPT ![c] = [op |-> "free", base |-> f, order |-> 0]]
  /\ UNCHANGED <<lists, free>>

\* then the list, under the lock
FreeFrame(c) ==
  /\ doing[c].op = "free"
  /\ lists' = FreeOrder(lists, doing[c].base, 0) /\ free' = free + 1
  /\ doing' = [doing EXCEPT ![c] = [op |-> "idle"]]
  /\ UNCHANGED <<bitmap, held>>

FrNext ==
  \E c \in MemCpus :
    \/ AllocLow(c) \/ TrackAlloc(c) \/ FreeFrame(c)
    \/ \E o \in 0..MAX_ORDER : Alloc(c, o)
    \/ \E f \in OnLists(InitLists) : TrackFree(c, f)

FrSpec == FrInit /\ [][FrNext]_fvars

(* ---------------------------- properties ---------------------------- *)

Usable == {f \in 0..64 : /\ \E i \in 1..Len(Memmap) : Memmap[i].usable /\ Memmap[i].base <= PAGE * f
                                                /\ PAGE * (f + 1) <= Memmap[i].base + Memmap[i].length
                         /\ \A i \in 1..Len(Excluded) : Excluded[i][2] <= PAGE * f \/ PAGE * (f + 1) <= Excluded[i][1]}

Places ==
  UNION {{<<"list", o, i>> : i \in 1..Len(lists[o])} : o \in 0..MAX_ORDER}
    \cup {<<"held", b.base, b.order>> : b \in held}
    \cup {<<"busy", c, 0>> : c \in {x \in MemCpus : ~Idle(x)}}

PagesOf(x) ==
  CASE x[1] = "list" -> Pages(lists[x[2]][x[3]], x[2])
    [] x[1] = "held" -> Pages(x[2], x[3])
    [] x[1] = "busy" -> Pages(doing[x[2]].base, doing[x[2]].order)

\* Every whole usable frame that is not reserved is in exactly one place (a
\* free block, an owner, or an operation under way), and no other frame is in
\* any: nothing is handed out twice, lost, or taken from the kernel image,
\* the page tables or a loaded module.
FramesPartitioned ==
  /\ UNION {PagesOf(x) : x \in Places} = Usable
  /\ \A x, y \in Places : x # y => PagesOf(x) \cap PagesOf(y) = {}
  /\ free = Cardinality(OnLists(lists))

\* The tracking assertions ("handed out twice", "double free or bogus
\* address") never fire on correct use, though the bitmap is changed outside
\* the allocator's lock.
TrackingExact ==
  /\ bitmap = Tracked(UNION {Pages(b.base, b.order) : b \in held})
  /\ \A c \in MemCpus : doing[c].op = "alloc" => bitmap \cap Pages(doing[c].base, doing[c].order) = {}
=============================================================================
