-------------------------------- MODULE Rings --------------------------------
(***************************************************************************)
(* The lock-free rings of crates/ipc: MpscRing (mpsc.rs), with a sequence  *)
(* word per slot and a compare_exchange on the tail, and SpscRing          *)
(* (spsc.rs), the same ring for one producer, without either.  Each atomic *)
(* access is a step.  A position is a counter that never wraps here        *)
(* (usize); a slot is its position modulo N.                               *)
(***************************************************************************)
EXTENDS Integers, Sequences

CONSTANTS N,           \* capacity, a power of two
          Producers, Items,
          Single,      \* TRUE: SpscRing, and one producer
          MaxPos       \* bound: pushes

VARIABLES head, tail, slot, ready,
          ppc, pos, item,     \* producers: where, the tail seen, the value
          cpc, got,           \* the consumer: where, the value read
          popped              \* what the last pop returned

rvars == <<head, tail, slot, ready, ppc, pos, item, cpc, got, popped>>

Index(p) == p % N

Uninit == CHOOSE v \in Items : TRUE

RgInit ==
  /\ head = 0 /\ tail = 0
  /\ slot = [i \in 0..(N - 1) |-> Uninit] /\ ready = [i \in 0..(N - 1) |-> 0]
  /\ ppc = [p \in Producers |-> "out"] /\ pos = [p \in Producers |-> 0]
  /\ item = [p \in Producers |-> Uninit]
  /\ cpc = "out" /\ got = Uninit /\ popped = Uninit

ConsumerIdle == UNCHANGED <<head, cpc, got, popped>>

\* push: the tail is loaded
PushLoad(p, v) ==
  /\ ppc[p] = "out"
  /\ ppc' = [ppc EXCEPT ![p] = "full"] /\ pos' = [pos EXCEPT ![p] = tail]
  /\ item' = [item EXCEPT ![p] = v]
  /\ UNCHANGED <<tail, slot, ready>> /\ ConsumerIdle

\* the head is loaded; a full ring is an Err
PushFull(p) ==
  /\ ppc[p] = "full"
  /\ ppc' = [ppc EXCEPT ![p] = IF pos[p] - head = N THEN "out" ELSE "cas"]
  /\ UNCHANGED <<tail, slot, ready, pos, item>> /\ ConsumerIdle

\* MpscRing: the position is claimed, or the tail seen is tried again;
\* SpscRing: its only producer owns the tail and goes on
PushCas(p) ==
  /\ ppc[p] = "cas" /\ pos[p] < MaxPos
  /\ IF Single THEN ppc' = [ppc EXCEPT ![p] = "write"] /\ UNCHANGED <<pos, tail>>
     ELSE IF tail = pos[p]
          THEN tail' = tail + 1 /\ ppc' = [ppc EXCEPT ![p] = "write"] /\ UNCHANGED pos
          ELSE pos' = [pos EXCEPT ![p] = tail] /\ ppc' = [ppc EXCEPT ![p] = "full"] /\ UNCHANGED tail
  /\ UNCHANGED <<slot, ready, item>> /\ ConsumerIdle

PushWrite(p) ==
  /\ ppc[p] = "write"
  /\ slot' = [slot EXCEPT ![Index(pos[p])] = item[p]]
  /\ ppc' = [ppc EXCEPT ![p] = "publish"]
  /\ UNCHANGED <<tail, ready, pos, item>> /\ ConsumerIdle

\* the release store that lets the consumer see the slot
PushPublish(p) ==
  /\ ppc[p] = "publish"
  /\ IF Single THEN tail' = pos[p] + 1 /\ UNCHANGED ready
     ELSE ready' = [ready EXCEPT ![Index(pos[p])] = pos[p] + 1] /\ UNCHANGED tail
  /\ ppc' = [ppc EXCEPT ![p] = "out"]
  /\ UNCHANGED <<slot, pos, item>> /\ ConsumerIdle

(* Mutant of PopCheck: any claimed slot is taken for a filled one. *)
PopCheckTail ==
  /\ cpc = "out"
  /\ head # tail
  /\ cpc' = "read"
  /\ UNCHANGED <<head, got, popped, tail, slot, ready, ppc, pos, item>>

\* pop: None unless the slot at the head is published
PopCheck ==
  /\ cpc = "out"
  /\ IF Single THEN head # tail ELSE ready[Index(head)] = head + 1
  /\ cpc' = "read"
  /\ UNCHANGED <<head, got, popped, tail, slot, ready, ppc, pos, item>>

PopRead ==
  /\ cpc = "read"
  /\ got' = slot[Index(head)]
  /\ cpc' = IF Single THEN "head" ELSE "clear"
  /\ UNCHANGED <<head, popped, tail, slot, ready, ppc, pos, item>>

PopClear ==
  /\ cpc = "clear"
  /\ ready' = [ready EXCEPT ![Index(head)] = 0]
  /\ cpc' = "head"
  /\ UNCHANGED <<head, got, popped, tail, slot, ppc, pos, item>>

PopHead ==
  /\ cpc = "head"
  /\ head' = head + 1 /\ popped' = got /\ cpc' = "out"
  /\ UNCHANGED <<got, tail, slot, ready, ppc, pos, item>>

RgNext ==
  \/ \E p \in Producers : \/ \E v \in Items : PushLoad(p, v)
                          \/ PushFull(p) \/ PushCas(p) \/ PushWrite(p) \/ PushPublish(p)
  \/ PopCheck \/ PopRead \/ PopClear \/ PopHead

RgSpec == RgInit /\ [][RgNext]_rvars

(* ------------------------ the queue it implements -------------------- *)

\* the value at a claimed position: in its slot, or still with its producer
At(p) ==
  LET mine == {x \in Producers : ppc[x] = "write" /\ pos[x] = p}
  IN IF ~Single /\ mine # {} THEN item[CHOOSE x \in mine : TRUE] ELSE slot[Index(p)]

Queue == [i \in 1..(tail - head) |-> At(head + i - 1)]

F == INSTANCE Fifo WITH Cap <- N, Items <- Items, q <- Queue, out <- popped

\* Both rings are bounded FIFO queues: pushes and pops take effect one at a
\* time, nothing is lost, duplicated or reordered, and no slot is read before
\* it is written or written while it is unread.
IsFifo == F!FifoSpec
=============================================================================
