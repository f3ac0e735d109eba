---------------------------- MODULE RingsProofs ----------------------------
(***************************************************************************)
(* The rings of crates/ipc implement a bounded FIFO queue (module Fifo),   *)
(* for every capacity, every set of items and, for MpscRing, every set of  *)
(* producers.  The queue a ring stands for is Queue: the values at the     *)
(* positions from head to tail, taken from the producer that has claimed   *)
(* the position and not yet written its slot.  The invariant says who may  *)
(* touch which position: at most N are in use, so no two of them share a   *)
(* slot; a claimed one has one producer, and the one the consumer is at    *)
(* has none.  The second section is about SeqLock, the other structure     *)
(* whose readers take no lock.                                             *)
(***************************************************************************)
EXTENDS Rings, SeqLock, SequenceTheorems, TLAPS

\* What MpscRing::new and SpscRing::new assert, and the one producer that an
\* SpscRing is for.
RingConstants ==
  /\ N \in Nat \ {0} /\ Items # {} /\ Single \in BOOLEAN
  /\ Single => \A p, x \in Producers : p = x

PPlaces == {"out", "full", "cas", "write", "publish"}
CPlaces == {"out", "read", "clear", "head"}
Claimed(p) == ppc[p] \in {"write", "publish"}

RTypeOK ==
  /\ head \in Nat /\ tail \in Nat
  /\ slot \in [0..(N - 1) -> Items] /\ ready \in [0..(N - 1) -> Nat]
  /\ ppc \in [Producers -> PPlaces] /\ pos \in [Producers -> Nat]
  /\ item \in [Producers -> Items]
  /\ cpc \in CPlaces /\ got \in Items /\ popped \in Items

Bounds == head <= tail /\ tail <= head + N

\* A producer's position, by how far its push has come.
Producing ==
  \A p \in Producers :
    /\ ppc[p] # "out" => pos[p] <= tail
    /\ ppc[p] = "cas" => pos[p] < head + N
    /\ ~Single /\ Claimed(p) => head <= pos[p] /\ pos[p] < tail
    /\ Single /\ ppc[p] # "out" => pos[p] = tail
    /\ Single /\ Claimed(p) => pos[p] < head + N
    /\ Single /\ ppc[p] = "publish" => slot[Index(pos[p])] = item[p]

\* A claimed position has one producer.
Claims ==
  ~Single => \A p, x \in Producers :
               Claimed(p) /\ Claimed(x) /\ pos[p] = pos[x] => p = x

\* A slot's sequence word names a position in use that no producer has.
Published ==
  ~Single => \A s \in 0..(N - 1) : ready[s] # 0 =>
               /\ head <= ready[s] - 1 /\ ready[s] - 1 < tail /\ Index(ready[s] - 1) = s
               /\ \A p \in Producers : Claimed(p) => pos[p] # ready[s] - 1

\* The consumer is at a filled position, and what it has read is still there.
Consuming ==
  /\ cpc # "out" => head < tail /\ (~Single => \A p \in Producers : Claimed(p) => pos[p] # head)
  /\ cpc \in {"clear", "head"} => got = slot[Index(head)]
  /\ ~Single /\ cpc = "head" => ready[Index(head)] = 0

RingInv == RingConstants /\ RTypeOK /\ Bounds /\ Producing /\ Claims /\ Published /\ Consuming

----------------------------------------------------------------------------
(* Positions and slots *)

LEMMA DivMod ==
  ASSUME NEW n \in Nat \ {0}, NEW a \in Nat
  PROVE  a % n \in 0..(n - 1) /\ a = n * (a \div n) + (a % n) /\ a \div n \in Int
OBVIOUS

LEMMA NoMultipleBetween ==
  ASSUME NEW n \in Nat \ {0}, NEW k \in Int, n * k > 0, n * k < n
  PROVE  FALSE
<1>1. CASE k >= 1
  <2>1. n * k >= n * 1
    BY <1>1
  <2> QED BY <2>1
<1>2. CASE k <= 0
  <2>1. n * k <= n * 0
    BY <1>2
  <2> QED BY <2>1
<1> QED BY <1>1, <1>2

\* Two positions less than N apart have different slots.
LEMMA SlotsDiffer ==
  ASSUME NEW n \in Nat \ {0}, NEW a \in Nat, NEW b \in Nat, a < b, b < a + n
  PROVE  a % n # b % n
<1> SUFFICES ASSUME a % n = b % n PROVE FALSE
  OBVIOUS
<1> DEFINE qa == a \div n
           qb == b \div n
<1>1. /\ a = n * qa + (a % n) /\ b = n * qb + (b % n)
      /\ qa \in Int /\ qb \in Int /\ a % n \in Int
  BY DivMod
<1> HIDE DEF qa, qb
<1>2. b - a = n * qb - n * qa
  BY <1>1
<1>3. n * (qb - qa) = n * qb - n * qa
  BY <1>1
<1>4. qb - qa \in Int
  BY <1>1
<1> QED BY <1>2, <1>3, <1>4, NoMultipleBetween

\* The same for positions between base and base + N, in either order.
LEMMA IndexInjective ==
  ASSUME RingConstants, NEW base \in Nat, NEW a \in Nat, NEW b \in Nat,
         base <= a, a < base + N, base <= b, b < base + N, a # b
  PROVE  Index(a) # Index(b)
<1>0. N \in Nat \ {0}
  BY DEF RingConstants
<1>1. CASE a < b
  <2>1. b < a + N
    BY <1>0
  <2> QED BY <1>0, <1>1, <2>1, SlotsDiffer DEF Index
<1>2. CASE b < a
  <2>1. a < b + N
    BY <1>0
  <2> QED BY <1>0, <1>2, <2>1, SlotsDiffer DEF Index
<1> QED BY <1>1, <1>2

LEMMA IndexInRange ==
  ASSUME RingConstants, NEW a \in Nat
  PROVE  Index(a) \in 0..(N - 1)
BY DivMod DEF RingConstants, Index

----------------------------------------------------------------------------
(* The invariant *)

LEMMA RingInit == RingConstants /\ RgInit => RingInv
<1> SUFFICES ASSUME RingConstants, RgInit PROVE RingInv
  OBVIOUS
<1>1. Uninit \in Items
  BY DEF RingConstants, Uninit
<1>2. RTypeOK
  BY <1>1 DEF RgInit, RTypeOK, PPlaces, CPlaces
<1>3. Bounds
  BY DEF RgInit, Bounds, RingConstants
<1>4. Producing /\ Claims /\ Published /\ Consuming
  BY DEF RgInit, Producing, Claims, Published, Consuming, Claimed
<1> QED BY <1>2, <1>3, <1>4 DEF RingInv

\* Every action keeps the types; the conjuncts below assume them on both sides.
LEMMA RingTypes == ASSUME RingInv, RgNext PROVE RTypeOK'
<1>0. RingConstants /\ RTypeOK /\ Bounds
  BY DEF RingInv
<1>1. ASSUME NEW p \in Producers, NEW v \in Items, PushLoad(p, v) PROVE RTypeOK'
  BY <1>0, <1>1 DEF PushLoad, ConsumerIdle, RTypeOK, PPlaces
<1>2. ASSUME NEW p \in Producers, PushFull(p) PROVE RTypeOK'
  BY <1>0, <1>2 DEF PushFull, ConsumerIdle, RTypeOK, PPlaces
<1>3. ASSUME NEW p \in Producers, PushCas(p) PROVE RTypeOK'
  <2>1. UNCHANGED <<head, slot, ready, item, cpc, got, popped>>
    BY <1>3 DEF PushCas, ConsumerIdle
  <2>2. /\ tail' \in {tail, tail + 1} /\ pos' \in {pos, [pos EXCEPT ![p] = tail]}
        /\ \E l \in PPlaces : ppc' = [ppc EXCEPT ![p] = l]
    BY <1>3, Zenon DEF PushCas, PPlaces
  <2>3. tail' \in Nat
    BY <1>0, <2>2 DEF RTypeOK
  <2>4. pos' \in [Producers -> Nat]
    BY <1>0, <2>2 DEF RTypeOK
  <2>5. ppc' \in [Producers -> PPlaces]
    BY <1>0, <2>2 DEF RTypeOK
  <2> QED BY <1>0, <2>1, <2>3, <2>4, <2>5 DEF RTypeOK
<1>4. ASSUME NEW p \in Producers, PushWrite(p) PROVE RTypeOK'
  BY <1>0, <1>4, IndexInRange DEF PushWrite, ConsumerIdle, RTypeOK, PPlaces
<1>5. ASSUME NEW p \in Producers, PushPublish(p) PROVE RTypeOK'
  <2>1. /\ UNCHANGED <<head, slot, pos, item, cpc, got, popped>>
        /\ ppc' = [ppc EXCEPT ![p] = "out"]
    BY <1>5 DEF PushPublish, ConsumerIdle
  <2>2. /\ tail' \in {tail, pos[p] + 1}
        /\ ready' \in {ready, [ready EXCEPT ![Index(pos[p])] = pos[p] + 1]}
    BY <1>5, Zenon DEF PushPublish
  <2>3. pos[p] \in Nat
    BY <1>0 DEF RTypeOK
  <2>4. tail' \in Nat /\ ready' \in [0..(N - 1) -> Nat]
    BY <1>0, <2>2, <2>3 DEF RTypeOK
  <2>5. ppc' \in [Producers -> PPlaces]
    BY <1>0, <2>1 DEF RTypeOK, PPlaces
  <2> QED BY <1>0, <2>1, <2>4, <2>5 DEF RTypeOK
<1>6. CASE PopCheck
  BY <1>0, <1>6 DEF PopCheck, RTypeOK, CPlaces
<1>7. CASE PopRead
  BY <1>0, <1>7, IndexInRange DEF PopRead, RTypeOK, CPlaces
<1>8. CASE PopClear
  BY <1>0, <1>8, IndexInRange DEF PopClear, RTypeOK, CPlaces
<1>9. CASE PopHead
  BY <1>0, <1>9 DEF PopHead, RTypeOK, CPlaces
<1> QED BY <1>1, <1>2, <1>3, <1>4, <1>5, <1>6, <1>7, <1>8, <1>9 DEF RgNext

\* Loading the tail and the head: only the producer's own place changes.
LEMMA LoadStep ==
  ASSUME RingInv, RTypeOK', NEW p \in Producers,
         (\E v \in Items : PushLoad(p, v)) \/ PushFull(p)
  PROVE  RingInv'
<1> USE DEF RingInv
<1>0. N \in Nat /\ RingConstants'
  BY DEF RingConstants
<1>1. /\ UNCHANGED <<head, tail, slot, ready, cpc, got>>
      /\ \A x \in Producers : Claimed(x)' <=> Claimed(x)
      /\ \A x \in Producers : Claimed(x) => pos'[x] = pos[x] /\ item'[x] = item[x]
  BY DEF PushLoad, PushFull, ConsumerIdle, Claimed, RTypeOK
<1>2. Bounds' /\ Claims' /\ Published' /\ Consuming'
  BY <1>1 DEF Bounds, Claims, Published, Consuming
<1>3. Producing'
  <2> SUFFICES ASSUME NEW x \in Producers PROVE Producing!(x)'
    BY DEF Producing
  <2>1. CASE x # p
    BY <2>1, <1>0, <1>1 DEF PushLoad, PushFull, Producing, Claimed, RTypeOK
  <2>2. CASE x = p
    BY <2>2, <1>0, <1>1 DEF PushLoad, PushFull, Producing, Claimed, RTypeOK, Bounds
  <2> QED BY <2>1, <2>2
<1> QED BY <1>0, <1>2, <1>3

\* The claim: SpscRing's producer goes on, MpscRing's compare_exchange moves
\* the tail over the position or fails.
LEMMA CasStep ==
  ASSUME RingInv, RTypeOK', NEW p \in Producers, PushCas(p)
  PROVE  RingInv'
<1> USE DEF RingInv
<1>0. /\ N \in Nat /\ RingConstants' /\ UNCHANGED <<head, slot, ready, item, cpc, got>>
      /\ ppc[p] = "cas" /\ pos[p] \in Nat /\ head \in Nat /\ tail \in Nat
  BY DEF RingConstants, PushCas, ConsumerIdle, RTypeOK
<1>1. CASE Single
  <2>1. UNCHANGED <<pos, tail>> /\ ppc' = [ppc EXCEPT ![p] = "write"]
    BY <1>1 DEF PushCas
  <2>2. Bounds' /\ Claims' /\ Published' /\ Consuming'
    BY <1>0, <1>1, <2>1 DEF Bounds, Claims, Published, Consuming
  <2>3. Producing'
    BY <1>0, <1>1, <2>1 DEF Producing, Claimed, RTypeOK
  <2> QED BY <1>0, <2>2, <2>3
<1>2. CASE ~Single /\ tail = pos[p]
  <2>1. UNCHANGED pos /\ tail' = tail + 1 /\ ppc' = [ppc EXCEPT ![p] = "write"]
    BY <1>2 DEF PushCas
  <2>2. /\ Claimed(p)'
        /\ \A x \in Producers \ {p} : (Claimed(x)' <=> Claimed(x)) /\ ppc'[x] = ppc[x]
    BY <2>1 DEF Claimed, RTypeOK
  <2>3. pos[p] < head + N
    BY <1>0 DEF Producing
  <2>4. Bounds'
    BY <1>0, <1>2, <2>1, <2>3 DEF Bounds
  <2>5. Producing'
    BY <1>0, <1>2, <2>1, <2>2, <2>4 DEF Producing, Bounds, RTypeOK, Claimed
  <2>6. Claims'
    BY <1>0, <1>2, <2>1, <2>2 DEF Claims, Producing, RTypeOK
  <2>7. Published'
    BY <1>0, <1>2, <2>1, <2>2 DEF Published, RTypeOK
  <2>8. Consuming'
    BY <1>0, <1>2, <2>1, <2>2 DEF Consuming, RTypeOK
  <2> QED BY <1>0, <2>4, <2>5, <2>6, <2>7, <2>8
<1>3. CASE ~Single /\ tail # pos[p]
  <2>1. UNCHANGED tail /\ pos' = [pos EXCEPT ![p] = tail] /\ ppc' = [ppc EXCEPT ![p] = "full"]
    BY <1>3 DEF PushCas
  <2>2. /\ ~Claimed(p)' /\ ~Claimed(p)
        /\ \A x \in Producers \ {p} :
             (Claimed(x)' <=> Claimed(x)) /\ ppc'[x] = ppc[x] /\ pos'[x] = pos[x]
    BY <1>0, <2>1 DEF Claimed, RTypeOK
  <2>3. Bounds' /\ Claims' /\ Published' /\ Consuming'
    BY <1>0, <2>1, <2>2 DEF Bounds, Claims, Published, Consuming
  <2>4. Producing'
    BY <1>0, <1>3, <2>1, <2>2 DEF Producing, RTypeOK
  <2> QED BY <1>0, <2>3, <2>4
<1> QED BY <1>1, <1>2, <1>3

\* A claimed position and the one the consumer is at have different slots.
LEMMA SlotNotRead ==
  ASSUME RingInv, NEW p \in Producers, Claimed(p), cpc # "out"
  PROVE  Index(pos[p]) # Index(head)
<1>0. N \in Nat /\ pos[p] \in Nat /\ head \in Nat /\ tail \in Nat /\ RingConstants
  BY DEF RingInv, RingConstants, RTypeOK
<1>1. head < pos[p] /\ pos[p] < head + N
  BY <1>0 DEF RingInv, Producing, Consuming, Bounds, Claimed
<1> QED BY <1>0, <1>1, IndexInjective

\* The value goes into the slot of the claimed position.
LEMMA WriteStep ==
  ASSUME RingInv, RTypeOK', NEW p \in Producers, PushWrite(p)
  PROVE  RingInv'
<1> USE DEF RingInv
<1>0. /\ N \in Nat /\ RingConstants' /\ UNCHANGED <<head, tail, ready, pos, item, cpc, got>>
      /\ ppc[p] = "write" /\ pos[p] \in Nat /\ head \in Nat /\ tail \in Nat
  BY DEF RingConstants, PushWrite, ConsumerIdle, RTypeOK
<1>1. /\ \A x \in Producers : Claimed(x)' <=> Claimed(x)
      /\ \A x \in Producers \ {p} : ppc'[x] = ppc[x]
      /\ ppc'[p] = "publish" /\ Claimed(p)
  BY DEF PushWrite, Claimed, RTypeOK
<1>2. Index(pos[p]) \in 0..(N - 1) /\ Index(head) \in 0..(N - 1)
  BY <1>0, IndexInRange
<1>3. slot'[Index(pos[p])] = item[p]
  BY <1>2 DEF PushWrite, RTypeOK
<1>4. Bounds' /\ Claims' /\ Published'
  BY <1>0, <1>1 DEF Bounds, Claims, Published
<1>5. Producing'
  <2> SUFFICES ASSUME NEW x \in Producers PROVE Producing!(x)'
    BY DEF Producing
  <2>1. Single => x = p
    BY DEF RingConstants
  <2>2. CASE x = p
    BY <1>0, <1>1, <1>3, <2>2 DEF Producing, RTypeOK
  <2>3. CASE x # p
    BY <1>0, <1>1, <2>1, <2>3 DEF Producing, RTypeOK
  <2> QED BY <2>2, <2>3
<1>6. Consuming'
  <2>1. cpc # "out" => slot'[Index(head)] = slot[Index(head)]
    BY <1>1, <1>2, SlotNotRead DEF PushWrite, RTypeOK
  <2>2. Index(head)' = Index(head)
    BY <1>0 DEF Index
  <2> QED BY <1>0, <1>1, <2>1, <2>2 DEF Consuming
<1> QED BY <1>0, <1>4, <1>5, <1>6

\* The release store: SpscRing's tail, MpscRing's sequence word.
LEMMA PublishStep ==
  ASSUME RingInv, RTypeOK', NEW p \in Producers, PushPublish(p)
  PROVE  RingInv'
<1> USE DEF RingInv
<1>0. /\ N \in Nat /\ RingConstants' /\ UNCHANGED <<head, slot, pos, item, cpc, got>>
      /\ ppc[p] = "publish" /\ pos[p] \in Nat /\ head \in Nat /\ tail \in Nat
  BY DEF RingConstants, PushPublish, ConsumerIdle, RTypeOK
<1>1. /\ Claimed(p) /\ ~Claimed(p)' /\ ppc'[p] = "out"
      /\ \A x \in Producers \ {p} : (Claimed(x)' <=> Claimed(x)) /\ ppc'[x] = ppc[x]
  BY <1>0 DEF PushPublish, Claimed, RTypeOK
<1>2. CASE Single
  <2>1. UNCHANGED ready /\ tail' = tail + 1 /\ tail < head + N
    BY <1>0, <1>1, <1>2 DEF PushPublish, Producing
  <2>2. \A x \in Producers : ppc'[x] = "out"
    BY <1>1, <1>2 DEF RingConstants
  <2>3. Bounds' /\ Claims' /\ Published'
    BY <1>0, <1>2, <2>1 DEF Bounds, Claims, Published
  <2>4. Producing'
    BY <2>2 DEF Producing, Claimed
  <2>5. Consuming'
    BY <1>0, <1>2, <2>1 DEF Consuming, Index
  <2> QED BY <1>0, <2>3, <2>4, <2>5
<1>3. CASE ~Single
  <2>0. Index(pos[p]) \in 0..(N - 1) /\ Index(head) \in 0..(N - 1)
    BY <1>0, IndexInRange
  <2>1. UNCHANGED tail /\ ready' = [ready EXCEPT ![Index(pos[p])] = pos[p] + 1]
    BY <1>3 DEF PushPublish
  <2>2. Bounds' /\ Claims'
    BY <1>0, <1>1, <1>3, <2>1 DEF Bounds, Claims
  <2>3. Producing'
    BY <1>0, <1>1, <1>3, <2>1 DEF Producing, RTypeOK
  <2>4. Published'
    <3> SUFFICES ASSUME NEW s \in 0..(N - 1), ready'[s] # 0
                 PROVE  /\ head <= ready'[s] - 1 /\ ready'[s] - 1 < tail
                        /\ Index(ready'[s] - 1) = s
                        /\ \A x \in Producers : Claimed(x)' => pos[x] # ready'[s] - 1
      BY <1>0, <2>1 DEF Published, Index
    <3>1. CASE s = Index(pos[p])
      <4>1. ready'[s] - 1 = pos[p]
        BY <1>0, <2>0, <2>1, <3>1 DEF RTypeOK
      <4>2. head <= pos[p] /\ pos[p] < tail
        BY <1>1, <1>3 DEF Producing
      <4>3. \A x \in Producers : Claimed(x)' => pos[x] # pos[p]
        BY <1>1, <1>3 DEF Claims
      <4> QED BY <3>1, <4>1, <4>2, <4>3
    <3>2. CASE s # Index(pos[p])
      <4>1. ready'[s] = ready[s]
        BY <2>0, <2>1, <3>2 DEF RTypeOK
      <4> QED BY <1>1, <1>3, <4>1 DEF Published
    <3> QED BY <3>1, <3>2
  <2>5. Consuming'
    <3>1. cpc # "out" => ready'[Index(head)] = ready[Index(head)]
      BY <1>1, <2>0, <2>1, SlotNotRead DEF RTypeOK
    <3>2. Index(head)' = Index(head)
      BY <1>0 DEF Index
    <3> QED BY <1>0, <1>1, <2>1, <3>1, <3>2 DEF Consuming
  <2> QED BY <1>0, <2>2, <2>3, <2>4, <2>5
<1> QED BY <1>2, <1>3

\* The consumer goes to a published slot and copies it.
LEMMA PopReadStep ==
  ASSUME RingInv, RTypeOK', PopCheck \/ PopRead
  PROVE  RingInv'
<1> USE DEF RingInv
<1>0. /\ RingConstants' /\ UNCHANGED <<head, tail, slot, ready, ppc, pos, item>>
      /\ head \in Nat /\ tail \in Nat /\ Index(head) \in 0..(N - 1)
  BY IndexInRange DEF RingConstants, PopCheck, PopRead, RTypeOK
<1>1. Bounds' /\ Claims' /\ Published' /\ Producing'
  BY <1>0 DEF Bounds, Claims, Published, Producing, Claimed, Index
<1>2. CASE PopCheck
  <2>1. cpc' = "read" /\ UNCHANGED <<got, slot, ready, head, tail, ppc, pos>>
    BY <1>2 DEF PopCheck
  <2>2. CASE Single
    <3>1. head < tail
      BY <1>0, <1>2, <2>2 DEF PopCheck, Bounds
    <3> QED BY <1>0, <1>1, <2>1, <2>2, <3>1 DEF Consuming
  <2>3. CASE ~Single
    <3>1. ready[Index(head)] = head + 1
      BY <1>2, <2>3 DEF PopCheck
    <3>2. head < tail /\ \A p \in Producers : Claimed(p) => pos[p] # head
      BY <1>0, <2>3, <3>1 DEF Published
    <3>3. Consuming'
      BY <1>0, <2>1, <2>3, <3>2 DEF Consuming, Claimed
    <3> QED BY <1>0, <1>1, <3>3
  <2> QED BY <2>2, <2>3
<1>3. CASE PopRead
  <2>1. cpc = "read" /\ got' = slot[Index(head)] /\ cpc' \in {"clear", "head"}
    BY <1>3 DEF PopRead
  <2>2. ~Single => cpc' = "clear"
    BY <1>3 DEF PopRead
  <2>3. head < tail /\ (~Single => \A p \in Producers : Claimed(p) => pos[p] # head)
    BY <2>1 DEF Consuming
  <2>4. Consuming'
    BY <1>0, <2>1, <2>2, <2>3 DEF Consuming, Claimed, Index
  <2> QED BY <1>0, <1>1, <2>4
<1> QED BY <1>2, <1>3

\* The consumer clears the slot's sequence word.
LEMMA PopClearStep ==
  ASSUME RingInv, RTypeOK', PopClear
  PROVE  RingInv'
<1> USE DEF RingInv
<1>0. /\ RingConstants' /\ UNCHANGED <<head, tail, slot, got, ppc, pos, item>>
      /\ head \in Nat /\ tail \in Nat /\ Index(head) \in 0..(N - 1)
  BY IndexInRange DEF RingConstants, PopClear, RTypeOK
<1>1. /\ cpc = "clear" /\ cpc' = "head" /\ ready'[Index(head)] = 0
      /\ \A s \in 0..(N - 1) : ready'[s] # 0 => ready'[s] = ready[s]
  BY <1>0 DEF PopClear, RTypeOK
<1>2. Bounds' /\ Claims' /\ Producing'
  BY <1>0 DEF Bounds, Claims, Producing, Claimed, Index
<1>3. Published'
  BY <1>0, <1>1 DEF Published, Claimed, Index
<1>4. Consuming'
  BY <1>0, <1>1 DEF Consuming, Claimed, Index
<1> QED BY <1>0, <1>2, <1>3, <1>4

\* The consumer gives the position back.
LEMMA PopHeadStep ==
  ASSUME RingInv, RTypeOK', PopHead
  PROVE  RingInv'
<1> USE DEF RingInv
<1>0. /\ RingConstants' /\ UNCHANGED <<tail, slot, got, ready, ppc, pos, item>>
      /\ head \in Nat /\ tail \in Nat /\ N \in Nat
      /\ cpc = "head" /\ cpc' = "out" /\ head' = head + 1
  BY DEF RingConstants, PopHead, RTypeOK
<1>1. head < tail /\ Bounds' /\ Claims'
  BY <1>0 DEF Bounds, Claims, Claimed, Consuming
<1>2. ~Single => \A p \in Producers : Claimed(p) => pos[p] # head
  BY <1>0 DEF Consuming
<1>3. Producing'
  <2> SUFFICES ASSUME NEW p \in Producers PROVE Producing!(p)'
    BY DEF Producing
  <2>1. pos[p] \in Nat /\ (Claimed(p)' <=> Claimed(p))
    BY <1>0 DEF RTypeOK, Claimed
  <2> QED BY <1>0, <1>2, <2>1 DEF Producing, Index
<1>4. Published'
  <2> SUFFICES ASSUME ~Single, NEW s \in 0..(N - 1), ready[s] # 0
               PROVE  head + 1 <= ready[s] - 1
    BY <1>0 DEF Published, Claimed, Index
  <2>1. ready[s] \in Nat /\ head <= ready[s] - 1 /\ Index(ready[s] - 1) = s
    BY DEF Published, RTypeOK
  <2>2. ready[Index(head)] = 0
    BY <1>0 DEF Consuming
  <2> QED BY <1>0, <2>1, <2>2
<1>5. Consuming'
  BY <1>0 DEF Consuming
<1> QED BY <1>0, <1>1, <1>3, <1>4, <1>5

LEMMA RingStep == RingInv /\ [RgNext]_rvars => RingInv'
<1> SUFFICES ASSUME RingInv, [RgNext]_rvars PROVE RingInv'
  OBVIOUS
<1>1. CASE UNCHANGED rvars
  BY <1>1 DEF rvars, RingInv, RingConstants, RTypeOK, Bounds, Producing, Claims, Published,
              Consuming, Claimed, Index
<1>2. CASE RgNext
  <2>1. RTypeOK'
    BY <1>2, RingTypes
  <2> QED BY <1>2, <2>1, LoadStep, CasStep, WriteStep, PublishStep, PopReadStep, PopClearStep,
             PopHeadStep DEF RgNext
<1> QED BY <1>1, <1>2

----------------------------------------------------------------------------
(* The queue *)

LEMMA IsAppend ==
  ASSUME NEW S, NEW s \in Seq(S), NEW t \in Seq(S), NEW v \in S, Len(t) = Len(s) + 1,
         \A i \in 1..Len(s) : t[i] = s[i], t[Len(s) + 1] = v
  PROVE  t = Append(s, v)
<1>1. Append(s, v) \in Seq(S) /\ Len(Append(s, v)) = Len(s) + 1
  BY AppendProperties
<1>2. \A i \in 1..Len(s) : Append(s, v)[i] = s[i]
  BY AppendProperties
<1>3. Append(s, v)[Len(s) + 1] = v
  BY AppendProperties
<1>4. \A i \in 1..Len(t) : t[i] = Append(s, v)[i]
  BY <1>2, <1>3, LenProperties
<1> QED BY <1>1, <1>4, SeqEqual

LEMMA IsTail ==
  ASSUME NEW S, NEW s \in Seq(S), NEW t \in Seq(S), s # << >>, Len(t) = Len(s) - 1,
         \A i \in 1..Len(t) : t[i] = s[i + 1]
  PROVE  t = Tail(s)
<1>1. Tail(s) \in Seq(S) /\ Len(Tail(s)) = Len(s) - 1
      /\ \A i \in 1..Len(Tail(s)) : Tail(s)[i] = s[i + 1]
  BY HeadTailProperties
<1> QED BY <1>1, SeqEqual

Writes(p, i) == ppc[p] = "write" /\ pos[p] = i

\* What stands at a position: MpscRing's is with its producer until the slot
\* is written.
Contents ==
  /\ \A p \in Producers : ~Single /\ ppc[p] = "write" => At(pos[p]) = item[p]
  /\ \A i \in Nat : Single \/ (\A p \in Producers : ~Writes(p, i)) => At(i) = slot[Index(i)]
  /\ \A i \in Nat : At(i) \in Items

LEMMA ContentsHold == RingInv => Contents
<1> SUFFICES ASSUME RingInv PROVE Contents
  OBVIOUS
<1> USE DEF RingInv
<1>1. ASSUME NEW p \in Producers, ~Single, ppc[p] = "write"
      PROVE  At(pos[p]) = item[p]
  <2> DEFINE mine == {x \in Producers : ppc[x] = "write" /\ pos[x] = pos[p]}
  <2>1. mine = {p}
    BY <1>1 DEF Claims, Claimed
  <2>2. (CHOOSE x \in mine : TRUE) = p
    BY <2>1
  <2> QED BY <1>1, <2>1, <2>2 DEF At
<1>2. ASSUME NEW i \in Nat, Single \/ (\A p \in Producers : ~Writes(p, i))
      PROVE  At(i) = slot[Index(i)]
  BY <1>2, Zenon DEF At, Writes
<1>3. ASSUME NEW i \in Nat PROVE At(i) \in Items
  <2>1. slot[Index(i)] \in Items
    BY IndexInRange DEF RTypeOK
  <2>2. CASE Single \/ (\A p \in Producers : ~Writes(p, i))
    BY <1>2, <2>1, <2>2
  <2>3. CASE ~Single /\ \E p \in Producers : Writes(p, i)
    BY <1>1, <2>3 DEF Writes, RTypeOK
  <2> QED BY <2>2, <2>3
<1> QED BY <1>1, <1>2, <1>3 DEF Contents

LEMMA ContentsHoldNext == RingInv' => Contents'
BY ContentsHold, PTL

IsQueue ==
  /\ Queue \in Seq(Items) /\ Len(Queue) = tail - head
  /\ \A k \in Nat : head <= k /\ k < tail => Queue[k - head + 1] = At(k)

LEMMA QueueHolds == RingInv => IsQueue
<1> SUFFICES ASSUME RingInv PROVE IsQueue
  OBVIOUS
<1>1. head \in Nat /\ tail \in Nat /\ tail - head \in Nat
  BY DEF RingInv, RTypeOK, Bounds
<1>2. \A i \in 1..(tail - head) : At(head + i - 1) \in Items
  BY <1>1, ContentsHold DEF Contents
<1>3. Queue \in [1..(tail - head) -> Items]
  BY <1>2 DEF Queue
<1>4. Queue \in Seq(Items) /\ Len(Queue) = tail - head
  BY <1>1, <1>3, SeqDef, LenProperties
<1>5. ASSUME NEW k \in Nat, head <= k, k < tail
      PROVE  Queue[k - head + 1] = At(k)
  <2>1. k - head + 1 \in 1..(tail - head) /\ head + (k - head + 1) - 1 = k
    BY <1>1, <1>5
  <2> QED BY <2>1 DEF Queue
<1> QED BY <1>4, <1>5 DEF IsQueue

LEMMA QueueHoldsNext == RingInv' => IsQueue'
BY QueueHolds, PTL

----------------------------------------------------------------------------
(* Steps of the ring as steps of the queue *)

\* Nothing moves where no producer starts or ends a write.
LEMMA AtSame ==
  ASSUME UNCHANGED slot,
         Single \/ \A x \in Producers :
                      /\ ppc'[x] = "write" <=> ppc[x] = "write"
                      /\ ppc[x] = "write" => pos'[x] = pos[x] /\ item'[x] = item[x],
         NEW i \in Nat
  PROVE  At(i)' = At(i)
<1>0. slot'[Index(i)] = slot[Index(i)] /\ Index(i)' = Index(i)
  BY DEF Index
<1>1. CASE Single
  BY <1>0, <1>1 DEF At
<1>2. CASE ~Single
  <2> DEFINE mine == {x \in Producers : ppc[x] = "write" /\ pos[x] = i}
  <2>1. mine' = mine
    BY <1>2
  <2>2. \A x \in mine : item'[x] = item[x]
    BY <1>2
  <2>3. mine # {} => (CHOOSE x \in mine : TRUE) \in mine
    OBVIOUS
  <2>4. At(i) = IF mine # {} THEN item[CHOOSE x \in mine : TRUE] ELSE slot[Index(i)]
    BY <1>2 DEF At
  <2>5. At(i)' = IF mine' # {} THEN item'[CHOOSE x \in mine' : TRUE] ELSE slot'[Index(i)]
    BY <1>2, <1>0 DEF At
  <2> HIDE DEF mine
  <2> QED BY <1>0, <2>1, <2>2, <2>3, <2>4, <2>5
<1> QED BY <1>1, <1>2

LEMMA QueueSame ==
  ASSUME RingInv, UNCHANGED <<head, tail>>, \A i \in head..(tail - 1) : At(i)' = At(i)
  PROVE  UNCHANGED Queue
<1>1. head \in Nat /\ tail \in Nat
  BY DEF RingInv, RTypeOK
<1>2. \A i \in 1..(tail - head) : At(head + i - 1)' = At(head + i - 1)
  BY <1>1
<1> QED BY <1>2 DEF Queue

LEMMA QueueGrows ==
  ASSUME RingInv, RingInv', UNCHANGED <<head, popped>>, tail' = tail + 1, tail < head + N,
         NEW v \in Items, \A i \in Nat : i = tail => At(i)' = v,
         \A i \in head..(tail - 1) : At(i)' = At(i)
  PROVE  F!Put(v)
<1>1. head \in Nat /\ tail \in Nat /\ N \in Nat /\ tail - head \in Nat
  BY DEF RingInv, RTypeOK, RingConstants, Bounds
<1>2. IsQueue /\ IsQueue'
  BY QueueHolds, QueueHoldsNext
<1>3. Len(Queue) = tail - head /\ Queue' \in Seq(Items) /\ Len(Queue') = Len(Queue) + 1
  BY <1>1, <1>2 DEF IsQueue
<1>4. \A i \in 1..Len(Queue) : Queue'[i] = Queue[i]
  <2> SUFFICES ASSUME NEW i \in 1..Len(Queue) PROVE Queue'[i] = Queue[i]
    OBVIOUS
  <2>1. PICK k \in Nat : k = head + i - 1
    BY <1>1
  <2>2. head <= k /\ k < tail /\ k - head + 1 = i
    BY <1>1, <1>3, <2>1
  <2>3. Queue[k - head + 1] = At(k)
    BY <1>2, <2>2 DEF IsQueue
  <2>4. head' <= k /\ k < tail' /\ k - head' + 1 = i
    BY <1>1, <2>1, <2>2
  <2>5. Queue'[k - head' + 1] = At(k)'
    BY <1>2, <2>4, Zenon DEF IsQueue
  <2>6. At(k)' = At(k)
    BY <1>1, <2>2
  <2> QED BY <2>2, <2>3, <2>4, <2>5, <2>6
<1>5. Queue'[Len(Queue) + 1] = v
  <2>1. PICK k \in Nat : k = tail
    BY <1>1
  <2>2. Queue'[k - head + 1] = At(k)'
    BY <1>1, <1>2, <2>1 DEF IsQueue
  <2> QED BY <1>3, <2>1, <2>2
<1>6. Queue' = Append(Queue, v)
  BY <1>2, <1>3, <1>4, <1>5, IsAppend DEF IsQueue
<1> QED BY <1>1, <1>3, <1>6 DEF F!Put

LEMMA QueueShrinks ==
  ASSUME RingInv, RingInv', head' = head + 1, UNCHANGED tail, head < tail,
         popped' = At(head),
         \A i \in head..(tail - 1) : At(i)' = At(i)
  PROVE  F!Take
<1>1. head \in Nat /\ tail \in Nat /\ tail - head \in Nat
  BY DEF RingInv, RTypeOK, Bounds
<1>2. IsQueue /\ IsQueue'
  BY QueueHolds, QueueHoldsNext
<1>3. /\ Queue \in Seq(Items) /\ Queue' \in Seq(Items)
      /\ Len(Queue) = tail - head /\ Len(Queue') = Len(Queue) - 1
  BY <1>1, <1>2 DEF IsQueue
<1>4. Queue # << >> /\ Queue[1] = At(head)
  BY <1>1, <1>2, <1>3 DEF IsQueue
<1>5. \A i \in 1..Len(Queue') : Queue'[i] = Queue[i + 1]
  <2> SUFFICES ASSUME NEW i \in 1..Len(Queue') PROVE Queue'[i] = Queue[i + 1]
    OBVIOUS
  <2>1. PICK k \in Nat : k = head + i
    BY <1>1
  <2>2. head + 1 <= k /\ k < tail /\ k - head + 1 = i + 1 /\ k - (head + 1) + 1 = i
    BY <1>1, <1>3, <2>1
  <2>3. Queue[i + 1] = At(k)
    BY <1>1, <1>2, <2>2 DEF IsQueue
  <2>4. Queue'[i] = At(k)'
    BY <1>1, <1>2, <2>2 DEF IsQueue
  <2> QED BY <1>1, <2>2, <2>3, <2>4
<1>6. Queue' = Tail(Queue)
  BY <1>3, <1>4, <1>5, IsTail
<1> QED BY <1>3, <1>4, <1>6 DEF F!Take

\* A push's loads and MpscRing's publication leave the queue as it was.
LEMMA QuietSteps ==
  ASSUME RingInv, NEW p \in Producers,
         \/ \E v \in Items : PushLoad(p, v)
         \/ PushFull(p)
         \/ ~Single /\ PushPublish(p)
  PROVE  UNCHANGED <<Queue, popped>>
<1>1. UNCHANGED <<head, tail, slot, popped>>
  BY DEF PushLoad, PushFull, PushPublish, ConsumerIdle
<1>2. \A x \in Producers : /\ ppc'[x] = "write" <=> ppc[x] = "write"
                           /\ ppc[x] = "write" => pos'[x] = pos[x] /\ item'[x] = item[x]
  BY DEF PushLoad, PushFull, PushPublish, RingInv, RTypeOK
<1>3. head \in Nat /\ tail \in Nat
  BY DEF RingInv, RTypeOK
<1>4. \A i \in Nat : At(i)' = At(i)
  BY <1>1, <1>2, AtSame, Zenon
<1>5. \A i \in head..(tail - 1) : At(i)' = At(i)
  BY <1>3, <1>4
<1> QED BY <1>1, <1>5, QueueSame

\* MpscRing's push takes effect when its compare_exchange succeeds.
LEMMA CasIsPut ==
  ASSUME RingInv, RingInv', NEW p \in Producers, PushCas(p)
  PROVE  F!FifoNext \/ UNCHANGED <<Queue, popped>>
<1> USE DEF RingInv
<1>0. head \in Nat /\ tail \in Nat /\ N \in Nat /\ ppc[p] = "cas" /\ pos[p] \in Nat /\ item[p] \in Items
  BY DEF PushCas, RTypeOK, RingConstants
<1>1. UNCHANGED <<head, slot, item, popped>>
  BY DEF PushCas, ConsumerIdle
<1>2. CASE Single
  <2>1. UNCHANGED tail
    BY <1>2 DEF PushCas
  <2>2. \A i \in Nat : At(i)' = At(i)
    BY <1>1, <1>2, AtSame, Zenon
  <2>3. \A i \in head..(tail - 1) : At(i)' = At(i)
    BY <1>0, <2>2
  <2> QED BY <1>1, <2>1, <2>3, QueueSame
<1>3. CASE ~Single /\ tail # pos[p]
  <2>1. UNCHANGED tail
    BY <1>3 DEF PushCas
  <2>2. \A x \in Producers : /\ ppc'[x] = "write" <=> ppc[x] = "write"
                             /\ ppc[x] = "write" => pos'[x] = pos[x] /\ item'[x] = item[x]
    BY <1>0, <1>1, <1>3 DEF PushCas, RTypeOK
  <2>3. \A i \in Nat : At(i)' = At(i)
    BY <1>1, <2>2, AtSame, Zenon
  <2>4. \A i \in head..(tail - 1) : At(i)' = At(i)
    BY <1>0, <2>3
  <2> QED BY <1>1, <2>1, <2>4, QueueSame
<1>4. CASE ~Single /\ tail = pos[p]
  <2>1. tail' = tail + 1 /\ UNCHANGED pos /\ ppc' = [ppc EXCEPT ![p] = "write"]
    BY <1>4 DEF PushCas
  <2>2. tail < head + N
    BY <1>0, <1>4 DEF Producing
  <2>3. /\ ppc'[p] = "write" /\ pos'[p] = tail /\ item'[p] = item[p]
        /\ \A x \in Producers \ {p} : ppc'[x] = ppc[x]
    BY <1>1, <1>4, <2>1 DEF RTypeOK
  <2>4. Contents /\ Contents'
    BY ContentsHold, ContentsHoldNext
  <2>5. \A i \in Nat : i = tail => At(i)' = item[p]
    BY <1>4, <2>3, <2>4 DEF Contents
  <2>6. ASSUME NEW i \in head..(tail - 1) PROVE At(i)' = At(i)
    <3>0. i \in Nat /\ i # tail /\ Index(i)' = Index(i)
      BY <1>0, <2>6 DEF Index
    <3>1. \A x \in Producers : Writes(x, i)' <=> Writes(x, i)
      BY <1>0, <1>4, <2>1, <2>3, <3>0 DEF Writes
    <3>2. CASE \A x \in Producers : ~Writes(x, i)
      <4>1. At(i) = slot[Index(i)]
        BY <2>4, <3>0, <3>2 DEF Contents
      <4>2. At(i)' = slot'[Index(i)]
        BY <2>4, <3>0, <3>1, <3>2 DEF Contents
      <4> QED BY <1>1, <4>1, <4>2
    <3>3. ASSUME NEW x \in Producers, Writes(x, i) PROVE At(i)' = At(i)
      <4>1. At(i) = item[x]
        BY <1>4, <2>4, <3>3 DEF Contents, Writes
      <4>2. At(i)' = item'[x]
        BY <1>4, <2>4, <3>1, <3>3 DEF Contents, Writes
      <4> QED BY <1>1, <4>1, <4>2
    <3> QED BY <3>2, <3>3
  <2>7. F!Put(item[p])
    BY <1>0, <1>1, <2>1, <2>2, <2>5, <2>6, QueueGrows
  <2> QED BY <1>0, <2>7 DEF F!FifoNext
<1> QED BY <1>2, <1>3, <1>4

\* Writing a slot disturbs no position in use, and leaves MpscRing's value
\* where its producer had it.
LEMMA WriteIsQuiet ==
  ASSUME RingInv, RingInv', NEW p \in Producers, PushWrite(p)
  PROVE  UNCHANGED <<Queue, popped>>
<1> USE DEF RingInv
<1>0. /\ head \in Nat /\ tail \in Nat /\ N \in Nat /\ ppc[p] = "write" /\ pos[p] \in Nat
      /\ tail <= head + N
  BY DEF PushWrite, RTypeOK, RingConstants, Bounds
<1>1. /\ UNCHANGED <<head, tail, pos, item, popped>> /\ ppc'[p] = "publish"
      /\ \A x \in Producers \ {p} : ppc'[x] = ppc[x]
  BY DEF PushWrite, ConsumerIdle, RTypeOK
<1>2. Contents /\ Contents'
  BY ContentsHold, ContentsHoldNext
<1>3. ASSUME NEW i \in head..(tail - 1), i # pos[p] PROVE slot'[Index(i)] = slot[Index(i)]
  <2>1. i \in Nat /\ i < head + N /\ head <= i
    BY <1>0, <1>3
  <2>2. head <= pos[p] /\ pos[p] < head + N
    BY <1>0 DEF Producing, Claimed, Bounds
  <2>3. Index(i) # Index(pos[p])
    BY <1>0, <1>3, <2>1, <2>2, IndexInjective
  <2>4. Index(i) \in 0..(N - 1)
    BY <2>1, IndexInRange
  <2> QED BY <2>3, <2>4 DEF PushWrite, RTypeOK
<1>4. ASSUME NEW i \in head..(tail - 1) PROVE At(i)' = At(i)
  <2>0. i \in Nat /\ Index(i)' = Index(i)
    BY <1>0 DEF Index
  <2>1. CASE Single
    <3>1. pos[p] = tail
      BY <1>0, <2>1 DEF Producing
    <3>2. i # pos[p]
      BY <1>0, <3>1
    <3>3. At(i) = slot[Index(i)]
      BY <1>2, <2>0, <2>1 DEF Contents
    <3>4. At(i)' = slot'[Index(i)]
      BY <1>2, <2>0, <2>1 DEF Contents
    <3> QED BY <1>3, <3>2, <3>3, <3>4
  <2>2. CASE ~Single /\ i = pos[p]
    <3>1. At(i) = item[p]
      BY <1>0, <1>2, <2>2 DEF Contents
    <3>2. slot'[Index(i)] = item[p]
      BY <1>0, <2>2, IndexInRange DEF PushWrite, RTypeOK
    <3>3. \A x \in Producers : ~Writes(x, i)'
      <4> SUFFICES ASSUME NEW x \in Producers, ppc'[x] = "write", pos'[x] = i PROVE FALSE
        BY DEF Writes
      <4> QED BY <1>0, <1>1, <2>2 DEF Claims, Claimed
    <3>4. At(i)' = slot'[Index(i)]
      BY <1>2, <2>0, <3>3 DEF Contents
    <3> QED BY <3>1, <3>2, <3>4
  <2>3. CASE ~Single /\ i # pos[p]
    <3>1. \A x \in Producers : Writes(x, i)' <=> Writes(x, i)
      BY <1>0, <1>1, <2>3 DEF Writes
    <3>2. CASE \A x \in Producers : ~Writes(x, i)
      <4>1. At(i) = slot[Index(i)]
        BY <1>2, <2>0, <3>2 DEF Contents
      <4>2. At(i)' = slot'[Index(i)]
        BY <1>2, <2>0, <3>1, <3>2 DEF Contents
      <4> QED BY <1>3, <2>3, <4>1, <4>2
    <3>3. ASSUME NEW x \in Producers, Writes(x, i) PROVE At(i)' = At(i)
      <4>1. At(i) = item[x]
        BY <1>2, <2>3, <3>3 DEF Contents, Writes
      <4>2. At(i)' = item'[x]
        BY <1>2, <2>3, <3>1, <3>3 DEF Contents, Writes
      <4> QED BY <1>1, <4>1, <4>2
    <3> QED BY <3>2, <3>3
  <2> QED BY <2>1, <2>2, <2>3
<1> QED BY <1>1, <1>4, QueueSame

\* SpscRing's push takes effect at the release store of the tail.
LEMMA PublishIsPut ==
  ASSUME RingInv, RingInv', NEW p \in Producers, PushPublish(p), Single
  PROVE  F!FifoNext
<1> USE DEF RingInv
<1>0. head \in Nat /\ tail \in Nat /\ N \in Nat /\ ppc[p] = "publish" /\ item[p] \in Items
  BY DEF PushPublish, RTypeOK, RingConstants
<1>1. UNCHANGED <<head, slot, popped>> /\ tail' = pos[p] + 1
  BY DEF PushPublish, ConsumerIdle
<1>2. pos[p] = tail /\ tail < head + N /\ slot[Index(pos[p])] = item[p]
  BY <1>0 DEF Producing, Claimed
<1>3. \A i \in Nat : At(i)' = slot'[Index(i)] /\ At(i) = slot[Index(i)]
  BY ContentsHold, ContentsHoldNext DEF Contents, Index
<1>4. \A i \in Nat : i = tail => At(i)' = item[p]
  BY <1>1, <1>2, <1>3
<1>5. \A i \in head..(tail - 1) : At(i)' = At(i)
  BY <1>0, <1>1, <1>3
<1>6. F!Put(item[p])
  BY <1>0, <1>1, <1>2, <1>4, <1>5, QueueGrows
<1> QED BY <1>0, <1>6 DEF F!FifoNext

\* A pop takes effect when it moves the head.
LEMMA HeadIsTake ==
  ASSUME RingInv, RingInv', PopHead
  PROVE  F!FifoNext
<1> USE DEF RingInv
<1>0. head \in Nat /\ tail \in Nat /\ cpc = "head"
  BY DEF PopHead, RTypeOK
<1>1. /\ UNCHANGED <<slot, ppc, pos, item, tail>> /\ head' = head + 1 /\ popped' = got
  BY DEF PopHead
<1>2. head < tail /\ got = slot[Index(head)]
  BY <1>0 DEF Consuming
<1>3. Single \/ \A x \in Producers : ~Writes(x, head)
  BY <1>0 DEF Consuming, Writes, Claimed
<1>4. popped' = At(head)
  BY <1>0, <1>1, <1>2, <1>3, ContentsHold DEF Contents
<1>5. \A i \in head..(tail - 1) : At(i)' = At(i)
  BY <1>0, <1>1, AtSame
<1>6. F!Take
  BY <1>0, <1>1, <1>2, <1>4, <1>5, QueueShrinks
<1> QED BY <1>6 DEF F!FifoNext

LEMMA RingRefines ==
  RingInv /\ RingInv' /\ [RgNext]_rvars => [F!FifoNext]_<<Queue, popped>>
<1> SUFFICES ASSUME RingInv, RingInv', [RgNext]_rvars
             PROVE  F!FifoNext \/ UNCHANGED <<Queue, popped>>
  OBVIOUS
<1>1. CASE UNCHANGED rvars
  BY <1>1 DEF rvars, Queue, At, Index
<1>2. ASSUME NEW p \in Producers, NEW v \in Items, PushLoad(p, v)
      PROVE  UNCHANGED <<Queue, popped>>
  BY <1>2, QuietSteps
<1>3. ASSUME NEW p \in Producers, PushPublish(p)
      PROVE  F!FifoNext \/ UNCHANGED <<Queue, popped>>
  <2>1. CASE Single
    BY <1>3, <2>1, PublishIsPut
  <2>2. CASE ~Single
    BY <1>3, <2>2, QuietSteps
  <2> QED BY <2>1, <2>2
<1>4. CASE PopCheck \/ PopRead \/ PopClear
  <2>1. UNCHANGED <<head, tail, slot, ppc, pos, item, popped>>
    BY <1>4 DEF PopCheck, PopRead, PopClear
  <2> QED BY <2>1 DEF Queue, At, Index
<1>5. CASE RgNext
  BY <1>2, <1>3, <1>4, <1>5, QuietSteps, CasIsPut, WriteIsQuiet, HeadIsTake DEF RgNext
<1> QED BY <1>1, <1>5

LEMMA FifoInitially == RingInv /\ RgInit => F!FifoInit
<1> SUFFICES ASSUME RingInv, RgInit PROVE F!FifoInit
  OBVIOUS
<1>1. popped \in Items /\ IsQueue /\ head = 0 /\ tail = 0
  BY QueueHolds DEF RingInv, RTypeOK, RgInit
<1>2. Queue = << >>
  BY <1>1, EmptySeq DEF IsQueue
<1> QED BY <1>1, <1>2 DEF F!FifoInit

\* MpscRing and SpscRing implement a queue of N places: whatever the steps of
\* the producers and the consumer interleave to, the values come out once
\* each, in the order their pushes took effect.
THEOREM RingIsFifo == RingConstants /\ RgSpec => IsFifo
<1>1. RingConstants /\ RgSpec => []RingInv
  BY RingInit, RingStep, PTL DEF RgSpec
<1> QED BY <1>1, RingInit, FifoInitially, RingRefines, PTL DEF RgSpec, IsFifo, F!FifoSpec

-----------------------------------------------------------------------------
(***************************************************************************)
(* SeqLock, for every set of readers and writers.  The spin lock leaves    *)
(* one writer at work; the sequence number is odd exactly while that       *)
(* writer is between its two stores to it, and while it is even both words *)
(* agree.  A reader whose first number is still current has loaded the     *)
(* words as they still are: every store to them needs an odd number, and   *)
(* the number never comes back.                                            *)
(***************************************************************************)

WPlaces == {"out", "begin", "lo", "hi", "end", "unlock"}
RPlaces == {"out", "lo", "hi", "after", "done"}
Writing == {"lo", "hi", "end"}

QTypeOK ==
  /\ sequence \in Nat
  /\ wpc \in [SeqWriters -> WPlaces] /\ wval \in [SeqWriters -> 0..1]
  /\ rpc \in [SeqReaders -> RPlaces] /\ before \in [SeqReaders -> Nat]
  /\ rlo \in [SeqReaders -> 0..1] /\ rhi \in [SeqReaders -> 0..1]
  /\ lo \in 0..1 /\ hi \in 0..1

\* The spin lock is held by the one writer that is inside write.
OneWriter ==
  /\ \A w \in SeqWriters : wpc[w] # "out" => locked
  /\ \A w, v \in SeqWriters : wpc[w] # "out" /\ wpc[v] # "out" => w = v

\* The number is odd exactly while a writer is at work.
Parity ==
  /\ \A w \in SeqWriters : wpc[w] \in Writing => sequence % 2 = 1
  /\ (\A w \in SeqWriters : wpc[w] \notin Writing) => sequence % 2 = 0

\* Both words agree outside a write, and inside it where it is past them.
Words ==
  /\ sequence % 2 = 0 => lo = hi
  /\ \A w \in SeqWriters : /\ wpc[w] = "hi" => lo = wval[w]
                           /\ wpc[w] = "end" => lo = hi

\* What a reader with a current number has loaded is still there.
Loaded ==
  \A r \in SeqReaders :
    /\ rpc[r] \in {"lo", "hi", "after"} => before[r] % 2 = 0 /\ before[r] <= sequence
    /\ rpc[r] \in {"hi", "after"} /\ before[r] = sequence => rlo[r] = lo
    /\ rpc[r] = "after" /\ before[r] = sequence => rhi[r] = hi

SeqInv == QTypeOK /\ OneWriter /\ Parity /\ Words /\ Loaded /\ NoTornRead

LEMMA SeqInit == QInit => SeqInv
<1> SUFFICES ASSUME QInit PROVE SeqInv
  OBVIOUS
<1>1. QTypeOK
  BY DEF QInit, QTypeOK, WPlaces, RPlaces
<1>2. sequence % 2 = 0 /\ \A w \in SeqWriters : wpc[w] = "out"
  BY DEF QInit
<1>3. OneWriter /\ Parity /\ Words
  BY <1>2 DEF QInit, OneWriter, Parity, Words, Writing
<1>4. Loaded /\ NoTornRead
  BY DEF QInit, Loaded, NoTornRead
<1> QED BY <1>1, <1>3, <1>4 DEF SeqInv

\* A step of a writer keeps what readers rely on, if it leaves the readers
\* alone and either stores under an odd number or only raises the number.
LEMMA ReadersKept ==
  ASSUME QTypeOK, Loaded, NoTornRead, ReaderIdle, sequence' \in Nat,
         \/ sequence' = sequence /\ ((lo' = lo /\ hi' = hi) \/ sequence % 2 = 1)
         \/ sequence' = sequence + 1 /\ lo' = lo /\ hi' = hi
  PROVE  Loaded' /\ NoTornRead'
BY DEF QTypeOK, Loaded, NoTornRead, ReaderIdle

LEMMA WriterStep ==
  ASSUME SeqInv, NEW w \in SeqWriters, Write(w)
  PROVE  SeqInv'
<1> USE DEF SeqInv
<1>1. ASSUME NEW x \in 0..1, Acquire(w, x) PROVE SeqInv'
  <2>1. QTypeOK' /\ OneWriter'
    BY <1>1 DEF Acquire, ReaderIdle, QTypeOK, OneWriter, WPlaces
  <2>2. Parity' /\ Words'
    BY <1>1 DEF Acquire, QTypeOK, OneWriter, Parity, Words, Writing
  <2>3. Loaded' /\ NoTornRead'
    BY <1>1, ReadersKept DEF Acquire, QTypeOK
  <2> QED BY <2>1, <2>2, <2>3
<1>2. ASSUME Begin(w) PROVE SeqInv'
  <2>1. QTypeOK' /\ OneWriter'
    BY <1>2 DEF Begin, ReaderIdle, QTypeOK, OneWriter, WPlaces
  <2>2. \A v \in SeqWriters : wpc[v] \notin Writing
    BY <1>2 DEF Begin, OneWriter, Writing
  <2>3. sequence % 2 = 0 /\ sequence' % 2 = 1
    BY <1>2, <2>2 DEF Begin, Parity, QTypeOK
  <2>4. Parity' /\ Words'
    BY <1>2, <2>2, <2>3 DEF Begin, QTypeOK, Parity, Words, Writing
  <2>5. Loaded' /\ NoTornRead'
    BY <1>2, ReadersKept DEF Begin, QTypeOK
  <2> QED BY <2>1, <2>4, <2>5
<1>3. ASSUME StoreLo(w) PROVE SeqInv'
  <2>1. QTypeOK' /\ OneWriter'
    BY <1>3 DEF StoreLo, ReaderIdle, QTypeOK, OneWriter, WPlaces
  <2>2. sequence % 2 = 1
    BY <1>3 DEF StoreLo, Parity, Writing
  <2>3. Parity' /\ Words'
    BY <1>3, <2>2 DEF StoreLo, QTypeOK, OneWriter, Parity, Words, Writing
  <2>4. Loaded' /\ NoTornRead'
    BY <1>3, <2>2, ReadersKept DEF StoreLo, QTypeOK
  <2> QED BY <2>1, <2>3, <2>4
<1>4. ASSUME StoreHi(w) PROVE SeqInv'
  <2>1. QTypeOK' /\ OneWriter'
    BY <1>4 DEF StoreHi, ReaderIdle, QTypeOK, OneWriter, WPlaces
  <2>2. sequence % 2 = 1
    BY <1>4 DEF StoreHi, Parity, Writing
  <2>3. Parity' /\ Words'
    BY <1>4, <2>2 DEF StoreHi, QTypeOK, OneWriter, Parity, Words, Writing
  <2>4. Loaded' /\ NoTornRead'
    BY <1>4, <2>2, ReadersKept DEF StoreHi, QTypeOK
  <2> QED BY <2>1, <2>3, <2>4
<1>5. ASSUME End(w) PROVE SeqInv'
  <2>1. QTypeOK' /\ OneWriter'
    BY <1>5 DEF End, ReaderIdle, QTypeOK, OneWriter, WPlaces
  <2>2. sequence % 2 = 1 /\ sequence' % 2 = 0
    BY <1>5 DEF End, Parity, Writing, QTypeOK
  <2>3. \A v \in SeqWriters : wpc'[v] \notin Writing
    BY <1>5 DEF End, OneWriter, Writing, QTypeOK
  <2>4. Parity' /\ Words'
    BY <1>5, <2>2, <2>3 DEF End, QTypeOK, Parity, Words, Writing
  <2>5. Loaded' /\ NoTornRead'
    BY <1>5, ReadersKept DEF End, QTypeOK
  <2> QED BY <2>1, <2>4, <2>5
<1>6. ASSUME Release(w) PROVE SeqInv'
  <2>1. QTypeOK' /\ OneWriter'
    BY <1>6 DEF Release, ReaderIdle, QTypeOK, OneWriter, WPlaces
  <2>2. Parity' /\ Words'
    BY <1>6 DEF Release, QTypeOK, OneWriter, Parity, Words, Writing
  <2>3. Loaded' /\ NoTornRead'
    BY <1>6, ReadersKept DEF Release, QTypeOK
  <2> QED BY <2>1, <2>2, <2>3
<1> QED BY <1>1, <1>2, <1>3, <1>4, <1>5, <1>6 DEF Write

LEMMA ReaderStep ==
  ASSUME SeqInv, NEW r \in SeqReaders, Read(r)
  PROVE  SeqInv'
<1> USE DEF SeqInv
<1>1. WriterIdle /\ OneWriter' /\ Parity' /\ Words'
  <2>1. WriterIdle
    BY DEF Read, Start, LoadLo, LoadHi, After, Done
  <2> QED BY <2>1 DEF WriterIdle, OneWriter, Parity, Words
<1>2. QTypeOK'
  <2>1. CASE Start(r)
    BY <2>1 DEF Start, WriterIdle, QTypeOK, RPlaces
  <2>2. CASE LoadLo(r)
    BY <2>2 DEF LoadLo, WriterIdle, QTypeOK, RPlaces
  <2>3. CASE LoadHi(r)
    BY <2>3 DEF LoadHi, WriterIdle, QTypeOK, RPlaces
  <2>4. CASE After(r)
    BY <2>4 DEF After, WriterIdle, QTypeOK, RPlaces
  <2>5. CASE Done(r)
    BY <2>5 DEF Done, WriterIdle, QTypeOK, RPlaces
  <2> QED BY <2>1, <2>2, <2>3, <2>4, <2>5 DEF Read
<1>3. CASE Start(r)
  <2>1. Loaded'
    BY <1>3 DEF Start, WriterIdle, QTypeOK, Loaded
  <2>2. NoTornRead'
    BY <1>3 DEF Start, WriterIdle, QTypeOK, NoTornRead
  <2> QED BY <1>1, <1>2, <2>1, <2>2
<1>4. CASE LoadLo(r)
  <2>1. Loaded'
    BY <1>4 DEF LoadLo, WriterIdle, QTypeOK, Loaded
  <2>2. NoTornRead'
    BY <1>4 DEF LoadLo, WriterIdle, QTypeOK, NoTornRead
  <2> QED BY <1>1, <1>2, <2>1, <2>2
<1>5. CASE LoadHi(r)
  <2>1. Loaded'
    BY <1>5 DEF LoadHi, WriterIdle, QTypeOK, Loaded
  <2>2. NoTornRead'
    BY <1>5 DEF LoadHi, WriterIdle, QTypeOK, NoTornRead
  <2> QED BY <1>1, <1>2, <2>1, <2>2
<1>6. CASE After(r)
  <2>1. before[r] = sequence => rlo[r] = rhi[r]
    BY <1>6 DEF After, Loaded, Words
  <2>2. Loaded'
    BY <1>6 DEF After, WriterIdle, QTypeOK, Loaded
  <2>3. NoTornRead'
    BY <1>6, <2>1 DEF After, WriterIdle, QTypeOK, NoTornRead
  <2> QED BY <1>1, <1>2, <2>2, <2>3
<1>7. CASE Done(r)
  <2>1. Loaded'
    BY <1>7 DEF Done, WriterIdle, QTypeOK, Loaded
  <2>2. NoTornRead'
    BY <1>7 DEF Done, WriterIdle, QTypeOK, NoTornRead
  <2> QED BY <1>1, <1>2, <2>1, <2>2
<1> QED BY <1>3, <1>4, <1>5, <1>6, <1>7 DEF Read

\* SeqLock::read never returns half of one write and half of another, whatever
\* writes overlap it and however many readers and writers there are.
THEOREM ReadsAreWhole == QSpec => []NoTornRead
<1>1. QInit => SeqInv
  BY SeqInit
<1>2. SeqInv /\ [QNext]_qvars => SeqInv'
  <2> SUFFICES ASSUME SeqInv, [QNext]_qvars PROVE SeqInv'
    OBVIOUS
  <2>1. CASE \E w \in SeqWriters : Write(w)
    BY <2>1, WriterStep
  <2>2. CASE \E r \in SeqReaders : Read(r)
    BY <2>2, ReaderStep
  <2>3. CASE UNCHANGED qvars
    BY <2>3 DEF qvars, SeqInv, QTypeOK, OneWriter, Parity, Words, Loaded, NoTornRead
  <2> QED BY <2>1, <2>2, <2>3 DEF QNext
<1>3. SeqInv => NoTornRead
  BY DEF SeqInv
<1> QED BY <1>1, <1>2, <1>3, PTL DEF QSpec
=============================================================================
