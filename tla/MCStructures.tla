---------------------------- MODULE MCStructures ----------------------------
(***************************************************************************)
(* The kernel's shared-memory structures side by side: the pipe with       *)
(* several threads at each end, the blocking mutex, the sequence lock, the *)
(* two lock-free rings, the tagged stack and the frame allocator.  They do *)
(* not interact; `part` says which of them a behaviour is about, and the   *)
(* others stay as they were at boot.                                       *)
(***************************************************************************)
EXTENDS Pipe, KMutex, SeqLock, TaggedStack, TLC

CONSTANTS RingLen, RingItems, RingProducers, RingMaxPos, \* of both rings
          MAX_ORDER, LowLimit, MAX_LOW_FRAME_TRIES, TRACK_LIMIT, MemCpus

VARIABLES part,
          mhead, mtail, mslot, mready, mppc, mpos, mitem, mcpc, mgot, mpopped,
          shead, stail, sslot, sready, sppc, spos, sitem, scpc, sgot, spopped,
          lists, free, bitmap, held, doing

mpscvars == <<mhead, mtail, mslot, mready, mppc, mpos, mitem, mcpc, mgot, mpopped>>
spscvars == <<shead, stail, sslot, sready, sppc, spos, sitem, scpc, sgot, spopped>>
framevars == <<lists, free, bitmap, held, doing>>

Mpsc == INSTANCE Rings WITH
          N <- RingLen, Producers <- RingProducers, Items <- RingItems,
          Single <- FALSE, MaxPos <- RingMaxPos,
          head <- mhead, tail <- mtail, slot <- mslot, ready <- mready,
          ppc <- mppc, pos <- mpos, item <- mitem, cpc <- mcpc, got <- mgot,
          popped <- mpopped

Spsc == INSTANCE Rings WITH
          N <- RingLen, Producers <- {CHOOSE p \in RingProducers : TRUE},
          Items <- RingItems, Single <- TRUE, MaxPos <- RingMaxPos,
          head <- shead, tail <- stail, slot <- sslot, ready <- sready,
          ppc <- sppc, pos <- spos, item <- sitem, cpc <- scpc, got <- sgot,
          popped <- spopped

\* Two usable regions, one reserved, the first cut by the bump pool.
MCMemmap == <<[base |-> 3, length |-> 13, usable |-> TRUE],
              [base |-> 16, length |-> 8, usable |-> FALSE],
              [base |-> 29, length |-> 20, usable |-> TRUE]>>
MCExcluded == <<<<9, 11>>, <<48, 50>>>>

Fr == INSTANCE Frames WITH Memmap <- MCMemmap, Excluded <- MCExcluded

MCInit == /\ part \in {"pipe", "mutex", "seqlock", "mpsc", "spsc", "stack", "frames"}
          /\ Init /\ KInit /\ QInit
          /\ Mpsc!RgInit /\ Spsc!RgInit /\ StInit
          /\ IF part = "frames" THEN Fr!FrInit
             ELSE lists = 0 /\ free = 0 /\ bitmap = 0 /\ held = 0 /\ doing = 0

Run(p) == part = p /\ UNCHANGED part

MCNext ==
    \/ /\ Run("pipe") /\ Next
       /\ UNCHANGED <<kvars, qvars, mpscvars, spscvars, stvars, framevars>>
    \/ /\ Run("mutex") /\ KNext
       /\ UNCHANGED <<vars, qvars, mpscvars, spscvars, stvars, framevars>>
    \/ /\ Run("seqlock") /\ QNext
       /\ UNCHANGED <<vars, kvars, mpscvars, spscvars, stvars, framevars>>
    \/ /\ Run("mpsc") /\ Mpsc!RgNext
       /\ UNCHANGED <<vars, kvars, qvars, spscvars, stvars, framevars>>
    \/ /\ Run("spsc") /\ Spsc!RgNext
       /\ UNCHANGED <<vars, kvars, qvars, mpscvars, stvars, framevars>>
    \/ /\ Run("stack") /\ StNext
       /\ UNCHANGED <<vars, kvars, qvars, mpscvars, spscvars, framevars>>
    \/ /\ Run("frames") /\ Fr!FrNext
       /\ UNCHANGED <<vars, kvars, qvars, mpscvars, spscvars, stvars>>

\* A structure whose bound is reached stops; the pipe and the mutex may not.
Rest == /\ part \notin {"pipe", "mutex"}
        /\ UNCHANGED <<part, vars, kvars, qvars, mpscvars, spscvars, stvars, framevars>>

MCSpec == MCInit /\ [][MCNext \/ Rest]_<<part, vars, kvars, qvars, mpscvars,
                                          spscvars, stvars, framevars>>

\* Threads of one end of the pipe are interchangeable.
EndSymmetry == Permutations(Readers) \cup Permutations(Writers)

(***************************************************************************)
(* MpscRing and SpscRing are bounded FIFO queues: pushes and pops take     *)
(* effect one at a time, nothing is lost, duplicated or reordered, and no  *)
(* slot is read before it is written or overwritten while it is unread.    *)
(***************************************************************************)
RingsAreFifos == Mpsc!IsFifo /\ Spsc!IsFifo

\* Every frame the allocator was given is in exactly one place: a block of one
\* free list or a block some caller holds (buddy.rs).
FramesPartitioned == part = "frames" => Fr!FramesPartitioned /\ Fr!TrackingExact
=============================================================================
