------------------------------- MODULE SeqLock -------------------------------
(***************************************************************************)
(* crates/sync/src/seqlock.rs with the SpinLock of spin.rs that serialises *)
(* its writers.  The value has two words that are written and read one     *)
(* after the other; a consistent value has both equal.  A write stores     *)
(* some number in both.                                                    *)
(***************************************************************************)
EXTENDS Naturals

CONSTANTS SeqReaders, SeqWriters,
          MaxSeq      \* bound: the sequence number

VARIABLES sequence, locked, lo, hi,
          wpc, wval,
          rpc, before, rlo, rhi

qvars == <<sequence, locked, lo, hi, wpc, wval, rpc, before, rlo, rhi>>

QInit ==
  /\ sequence = 0 /\ locked = FALSE /\ lo = 0 /\ hi = 0
  /\ wpc = [w \in SeqWriters |-> "out"] /\ wval = [w \in SeqWriters |-> 0]
  /\ rpc = [r \in SeqReaders |-> "out"] /\ before = [r \in SeqReaders |-> 0]
  /\ rlo = [r \in SeqReaders |-> 0] /\ rhi = [r \in SeqReaders |-> 0]

ReaderIdle == UNCHANGED <<rpc, before, rlo, rhi>>
WriterIdle == UNCHANGED <<sequence, locked, lo, hi, wpc, wval>>

\* write: SpinLock::lock wins the compare_exchange; the loser spins
Acquire(w, x) ==
  /\ wpc[w] = "out" /\ ~locked
  /\ locked' = TRUE
  /\ wpc' = [wpc EXCEPT ![w] = "begin"] /\ wval' = [wval EXCEPT ![w] = x]
  /\ UNCHANGED <<sequence, lo, hi>> /\ ReaderIdle

(* Mutant of Begin: the sequence number stays even during the write. *)
BeginEven(w) ==
  /\ wpc[w] = "begin" /\ sequence + 2 <= MaxSeq
  /\ sequence' = sequence + 2
  /\ wpc' = [wpc EXCEPT ![w] = "lo"]
  /\ UNCHANGED <<locked, lo, hi, wval>> /\ ReaderIdle

Begin(w) ==
  /\ wpc[w] = "begin" /\ sequence + 2 <= MaxSeq
  /\ sequence' = sequence + 1
  /\ wpc' = [wpc EXCEPT ![w] = "lo"]
  /\ UNCHANGED <<locked, lo, hi, wval>> /\ ReaderIdle

StoreLo(w) ==
  /\ wpc[w] = "lo"
  /\ lo' = wval[w]
  /\ wpc' = [wpc EXCEPT ![w] = "hi"]
  /\ UNCHANGED <<sequence, locked, hi, wval>> /\ ReaderIdle

StoreHi(w) ==
  /\ wpc[w] = "hi"
  /\ hi' = wval[w]
  /\ wpc' = [wpc EXCEPT ![w] = "end"]
  /\ UNCHANGED <<sequence, locked, lo, wval>> /\ ReaderIdle

End(w) ==
  /\ wpc[w] = "end"
  /\ sequence' = sequence + 1
  /\ wpc' = [wpc EXCEPT ![w] = "unlock"]
  /\ UNCHANGED <<locked, lo, hi, wval>> /\ ReaderIdle

\* SpinLockGuard::drop
Release(w) ==
  /\ wpc[w] = "unlock"
  /\ locked' = FALSE
  /\ wpc' = [wpc EXCEPT ![w] = "out"]
  /\ UNCHANGED <<sequence, lo, hi, wval>> /\ ReaderIdle

\* read: an odd number means a writer is at work
Start(r) ==
  /\ rpc[r] = "out" /\ sequence % 2 = 0
  /\ before' = [before EXCEPT ![r] = sequence]
  /\ rpc' = [rpc EXCEPT ![r] = "lo"]
  /\ UNCHANGED <<rlo, rhi>> /\ WriterIdle

LoadLo(r) ==
  /\ rpc[r] = "lo"
  /\ rlo' = [rlo EXCEPT ![r] = lo]
  /\ rpc' = [rpc EXCEPT ![r] = "hi"]
  /\ UNCHANGED <<before, rhi>> /\ WriterIdle

LoadHi(r) ==
  /\ rpc[r] = "hi"
  /\ rhi' = [rhi EXCEPT ![r] = hi]
  /\ rpc' = [rpc EXCEPT ![r] = "after"]
  /\ UNCHANGED <<before, rlo>> /\ WriterIdle

\* the same number before and after: the value is returned, else again
After(r) ==
  /\ rpc[r] = "after"
  /\ rpc' = [rpc EXCEPT ![r] = IF before[r] = sequence THEN "done" ELSE "out"]
  /\ UNCHANGED <<before, rlo, rhi>> /\ WriterIdle

Done(r) ==
  /\ rpc[r] = "done"
  /\ rpc' = [rpc EXCEPT ![r] = "out"]
  /\ UNCHANGED <<before, rlo, rhi>> /\ WriterIdle

Write(w) == (\E x \in 0..1 : Acquire(w, x)) \/ Begin(w) \/ StoreLo(w) \/ StoreHi(w) \/ End(w) \/ Release(w)
Read(r)  == Start(r) \/ LoadLo(r) \/ LoadHi(r) \/ After(r) \/ Done(r)

QNext == (\E w \in SeqWriters : Write(w)) \/ (\E r \in SeqReaders : Read(r))

QSpec == QInit /\ [][QNext]_qvars

(* ---------------------------- properties ---------------------------- *)

\* A read never returns half of one write and half of another, whatever
\* writes overlap it.
NoTornRead == \A r \in SeqReaders : rpc[r] = "done" => rlo[r] = rhi[r]
=============================================================================
