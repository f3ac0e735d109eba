------------------------- MODULE DescriptorsProofs --------------------------
(***************************************************************************)
(* Proofs about Descriptors: a pipe end's reference count is the number of *)
(* descriptors that name it, and nobody sleeps on a pipe whose other end   *)
(* has gone, for any number of processes, descriptors and pipes.           *)
(***************************************************************************)
EXTENDS Descriptors, FiniteSetTheorems, TLAPS

(* The hypotheses: finitely many processes, the users among them. *)
DConstants ==
  /\ IsFiniteSet(Procs) /\ First \in Procs /\ Users \subseteq Procs
  /\ NFds \in Nat /\ NPipes \in Nat
  /\ Used \subseteq Fds

Vnodes == 0..Dev
Tables == [Procs -> [Fds -> Vnodes]]

DTypeOK ==
  /\ DOMAIN state = Procs
  /\ fds \in Tables /\ closing \in Tables
  /\ refs \in [Ends -> Int]
  /\ made \in 0..NPipes /\ failed \in SUBSET (1..made)
  /\ asleep \in [Procs -> Ends \cup {0}]

(* A pipe that has not been made is named by nothing. *)
Fresh == \A e \in Ends : PipeOf(e) > made =>
           \A p \in Procs, d \in Fds : fds[p][d] # e /\ closing[p][d] # e

(* A process that has not been forked has no descriptor. *)
Unborn == \A p \in Procs : state[p] = "unborn" => \A d \in Fds : fds[p][d] = 0

(* The two references of a pipe whose descriptors could not be installed. *)
Lost(e) == IF PipeOf(e) \in failed THEN 1 ELSE 0

Counted == \A e \in Ends : PipeOf(e) <= made => refs[e] = Holders(e) + Lost(e)

CountInv == DTypeOK /\ Fresh /\ Unborn /\ Counted

-----------------------------------------------------------------------------
(* Every non-empty set of numbers has a least one. *)
LEMMA LeastNumber ==
  ASSUME NEW T \in SUBSET Nat, T # {}
  PROVE  Min(T) \in T
<1>1. PICK m \in T : \A n \in T : ~(<<n, m>> \in OpToRel(<, Nat))
  BY NatLessThanWellFounded, WFMin, Zenon
<1>2. \A n \in T : ~(n < m)
  BY <1>1 DEF OpToRel
<1>3. \A n \in T : m <= n
  BY <1>2
<1> QED BY <1>3 DEF Min

(* The two ends of a pipe, and the pipe of an end. *)
LEMMA EndFacts ==
  ASSUME DConstants
  PROVE  /\ \A e \in Ends : /\ PipeOf(e) \in Pipes /\ Peer(e) \in Ends
                            /\ Peer(Peer(e)) = e
                            /\ e \in {ReadEnd(PipeOf(e)), WriteEnd(PipeOf(e))}
         /\ \A k \in Pipes : /\ ReadEnd(k) \in Ends /\ WriteEnd(k) \in Ends
                             /\ PipeOf(ReadEnd(k)) = k /\ PipeOf(WriteEnd(k)) = k
                             /\ ReadEnd(k) # WriteEnd(k)
         /\ Ends \subseteq Vnodes /\ 0 \in Vnodes /\ Dev \in Vnodes /\ 0 \notin Ends
<1>1. ASSUME NEW e \in Ends
      PROVE  /\ PipeOf(e) \in Pipes /\ Peer(e) \in Ends
             /\ Peer(Peer(e)) = e
             /\ e \in {ReadEnd(PipeOf(e)), WriteEnd(PipeOf(e))}
  <2>1. e \in Nat /\ e >= 1 /\ e <= 2 * NPipes /\ NPipes \in Nat
    BY DEF DConstants, Ends
  <2>2. CASE e % 2 = 1
    BY <2>1, <2>2 DEF PipeOf, Pipes, Peer, Ends, ReadEnd, WriteEnd
  <2>3. CASE e % 2 = 0
    BY <2>1, <2>3 DEF PipeOf, Pipes, Peer, Ends, ReadEnd, WriteEnd
  <2> QED BY <2>1, <2>2, <2>3
<1>2. ASSUME NEW k \in Pipes
      PROVE  /\ ReadEnd(k) \in Ends /\ WriteEnd(k) \in Ends
             /\ PipeOf(ReadEnd(k)) = k /\ PipeOf(WriteEnd(k)) = k
             /\ ReadEnd(k) # WriteEnd(k)
  BY DEF DConstants, PipeOf, Pipes, Ends, ReadEnd, WriteEnd
<1>3. Ends \subseteq Vnodes /\ 0 \in Vnodes /\ Dev \in Vnodes /\ 0 \notin Ends
  BY DEF DConstants, Vnodes, Ends, Dev
<1> QED BY <1>1, <1>2, <1>3

(* The occurrences of a vnode in the tables are finitely many. *)
LEMMA SlotsFinite ==
  ASSUME DConstants, NEW t, NEW e
  PROVE  IsFiniteSet(Slots(t, e)) /\ Cardinality(Slots(t, e)) \in Nat
<1>1. IsFiniteSet(Fds)
  BY FS_Interval DEF DConstants, Fds
<1>2. IsFiniteSet(Procs \X Fds)
  BY <1>1, FS_Product DEF DConstants
<1>3. Slots(t, e) \in SUBSET (Procs \X Fds)
  BY DEF Slots
<1>4. IsFiniteSet(Slots(t, e))
  BY <1>2, <1>3, FS_Subset
<1> QED BY <1>4, FS_CardinalityType

(* One slot that stops naming a vnode, or starts to. *)
LEMMA SlotOff ==
  ASSUME DConstants, NEW t \in Tables, NEW p \in Procs, NEW d \in Fds, NEW v \in Vnodes, NEW e,
         t[p][d] = e, v # e
  PROVE  Cardinality(Slots([t EXCEPT ![p][d] = v], e)) = Cardinality(Slots(t, e)) - 1
<1> DEFINE u == [t EXCEPT ![p][d] = v]
<1>1. \A q \in Procs, f \in Fds : u[q][f] = IF q = p /\ f = d THEN v ELSE t[q][f]
  BY DEF Tables
<1> HIDE DEF u
<1>2. Slots(u, e) = Slots(t, e) \ {<<p, d>>} /\ <<p, d>> \in Slots(t, e)
  BY <1>1 DEF Slots
<1>3. Cardinality(Slots(u, e)) = Cardinality(Slots(t, e)) - 1
  BY <1>2, SlotsFinite, FS_RemoveElement, ZenonT(30)
<1> QED BY <1>3 DEF u

LEMMA SlotOn ==
  ASSUME DConstants, NEW t \in Tables, NEW p \in Procs, NEW d \in Fds, NEW e \in Vnodes,
         t[p][d] # e
  PROVE  Cardinality(Slots([t EXCEPT ![p][d] = e], e)) = Cardinality(Slots(t, e)) + 1
<1> DEFINE u == [t EXCEPT ![p][d] = e]
<1>1. \A q \in Procs, f \in Fds : u[q][f] = IF q = p /\ f = d THEN e ELSE t[q][f]
  BY DEF Tables
<1> HIDE DEF u
<1>2. Slots(u, e) = Slots(t, e) \cup {<<p, d>>} /\ <<p, d>> \notin Slots(t, e)
  BY <1>1 DEF Slots
<1>3. Cardinality(Slots(u, e)) = Cardinality(Slots(t, e)) + 1
  BY <1>2, SlotsFinite, FS_AddElement
<1> QED BY <1>3 DEF u

LEMMA SlotOther ==
  ASSUME NEW t \in Tables, NEW p \in Procs, NEW d \in Fds, NEW v \in Vnodes, NEW e,
         (t[p][d] = e) <=> (v = e)
  PROVE  Slots([t EXCEPT ![p][d] = v], e) = Slots(t, e)
<1> DEFINE u == [t EXCEPT ![p][d] = v]
<1>1. \A q \in Procs, f \in Fds : u[q][f] = IF q = p /\ f = d THEN v ELSE t[q][f]
  BY DEF Tables
<1> HIDE DEF u
<1>2. Slots(u, e) = Slots(t, e)
  BY <1>1 DEF Slots
<1> QED BY <1>2 DEF u

(* A slot that is written stays a slot of a table. *)
LEMMA SlotType ==
  ASSUME NEW t \in Tables, NEW p \in Procs, NEW d \in Fds, NEW v \in Vnodes
  PROVE  [t EXCEPT ![p][d] = v] \in Tables
BY DEF Tables

(* The three at once. *)
Is(v, e) == IF v = e THEN 1 ELSE 0

LEMMA SetSlot ==
  ASSUME DConstants, NEW t \in Tables, NEW p \in Procs, NEW d \in Fds, NEW v \in Vnodes,
         NEW e \in Vnodes
  PROVE  Cardinality(Slots([t EXCEPT ![p][d] = v], e))
           = Cardinality(Slots(t, e)) + Is(v, e) - Is(t[p][d], e)
<1>1. CASE t[p][d] = e /\ v # e
  BY <1>1, SlotOff, SlotsFinite DEF Is
<1>2. CASE t[p][d] # e /\ v = e
  BY <1>2, SlotOn, SlotsFinite DEF Is
<1>3. CASE (t[p][d] = e) <=> (v = e)
  <2>1. Slots([t EXCEPT ![p][d] = v], e) = Slots(t, e)
    BY <1>3, SlotOther
  <2> QED BY <1>3, <2>1, SlotsFinite DEF Is
<1> QED BY <1>1, <1>2, <1>3

(* An empty table is filled with a copy of another one's row. *)
LEMMA FillTable ==
  ASSUME DConstants, NEW t \in Tables, NEW q \in Procs, NEW row \in [Fds -> Vnodes],
         NEW e \in Ends, \A d \in Fds : t[q][d] = 0
  PROVE  /\ Cardinality({d \in Fds : row[d] = e}) \in Nat
         /\ Cardinality(Slots([t EXCEPT ![q] = row], e))
              = Cardinality(Slots(t, e)) + Cardinality({d \in Fds : row[d] = e})
<1> DEFINE u == [t EXCEPT ![q] = row]
           D == {d \in Fds : row[d] = e}
           A == Slots(t, e)
           B == {q} \X D
<1>0. e # 0
  BY DEF Ends
<1>1. \A p \in Procs, f \in Fds : u[p][f] = IF p = q THEN row[f] ELSE t[p][f]
  BY DEF Tables
<1>2. Slots(u, e) = A \cup B /\ A \cap B = {}
  <2> HIDE DEF u
  <2>1. \A s \in Procs \X Fds : s \in Slots(u, e) <=> (s \in A \/ s \in B)
    BY <1>0, <1>1 DEF Slots
  <2>2. Slots(u, e) \subseteq Procs \X Fds /\ A \subseteq Procs \X Fds /\ B \subseteq Procs \X Fds
    BY DEF Slots
  <2>3. A \cap B = {}
    BY <1>0 DEF Slots
  <2> QED BY <2>1, <2>2, <2>3
<1>3. IsFiniteSet(D) /\ Cardinality(D) \in Nat
  <2>1. IsFiniteSet(Fds)
    BY FS_Interval DEF DConstants, Fds
  <2>2. D \in SUBSET Fds
    OBVIOUS
  <2>3. IsFiniteSet(D)
    BY <2>1, <2>2, FS_Subset
  <2> QED BY <2>3, FS_CardinalityType
<1> HIDE DEF D
<1>4. IsFiniteSet(B) /\ Cardinality(B) = Cardinality(D)
  <2>1. IsFiniteSet({q}) /\ Cardinality({q}) = 1
    BY FS_Singleton
  <2>2. IsFiniteSet(B) /\ Cardinality(B) = Cardinality({q}) * Cardinality(D)
    BY <1>3, <2>1, FS_Product, Zenon
  <2> QED BY <1>3, <2>1, <2>2
<1>5. IsFiniteSet(A) /\ Cardinality(A) \in Nat
  BY SlotsFinite
<1> HIDE DEF A, B
<1>6. Cardinality(A \cup B) = Cardinality(A) + Cardinality(B) - Cardinality(A \cap B)
  BY <1>4, <1>5, FS_Union
<1>7. Cardinality(A \cap B) = 0
  BY <1>2, FS_EmptySet
<1> HIDE DEF u
<1>8. Cardinality(Slots(u, e)) = Cardinality(A) + Cardinality(D)
  BY <1>2, <1>3, <1>4, <1>5, <1>6, <1>7
<1> QED BY <1>3, <1>8 DEF A, D, u

(* References move one at a time. *)
LEMMA RefFacts ==
  ASSUME DConstants, NEW r \in [Ends -> Int], NEW v
  PROVE  /\ IncRef(r, v) \in [Ends -> Int] /\ DecRef(r, v) \in [Ends -> Int]
         /\ \A e \in Ends : IncRef(r, v)[e] = r[e] + Is(v, e) /\ DecRef(r, v)[e] = r[e] - Is(v, e)
<1>1. IncRef(r, v) \in [Ends -> Int] /\ DecRef(r, v) \in [Ends -> Int]
  BY DEF IncRef, DecRef
<1>2. ASSUME NEW e \in Ends
      PROVE  IncRef(r, v)[e] = r[e] + Is(v, e) /\ DecRef(r, v)[e] = r[e] - Is(v, e)
  BY DEF IncRef, DecRef, Is
<1> QED BY <1>1, <1>2

(* FdTable::alloc finds a free slot. *)
LEMMA LowestFree ==
  ASSUME DConstants, NEW t \in [Fds -> Vnodes], HasFree(t)
  PROVE  Lowest(t) \in Fds /\ t[Lowest(t)] = 0
<1> DEFINE T == {d \in DOMAIN t : t[d] = 0}
<1>1. T \in SUBSET Nat /\ T # {} /\ DOMAIN t = Fds
  BY DEF Fds, HasFree
<1> HIDE DEF T
<1>2. Min(T) \in T
  BY <1>1, LeastNumber
<1> QED BY <1>1, <1>2 DEF T, Lowest

LEMMA DInitially ==
  ASSUME DConstants, NEW open, DInit(open)
  PROVE  CountInv
<1>1. DTypeOK
  BY EndFacts DEF DInit, DTypeOK, Tables, DConstants
<1>2. Fresh /\ Unborn
  BY EndFacts DEF DInit, Fresh, Unborn, Dev, Ends, DConstants
<1>3. Counted
  BY EndFacts DEF DInit, Counted, Pipes
<1> QED BY <1>1, <1>2, <1>3 DEF CountInv

(* Steps that leave the tables and the references alone. *)
LEMMA CountKept ==
  ASSUME DConstants, CountInv, UNCHANGED <<fds, closing, refs, made, failed>>,
         DOMAIN state' = Procs, \A p \in Procs : state'[p] = "unborn" => state[p] = "unborn",
         asleep' \in [Procs -> Ends \cup {0}]
  PROVE  CountInv'
<1>1. DTypeOK'
  BY DEF CountInv, DTypeOK
<1>2. Fresh' /\ Unborn'
  BY DEF CountInv, Fresh, Unborn
<1>3. Counted'
  BY DEF CountInv, Counted, Holders, Lost
<1> QED BY <1>1, <1>2, <1>3 DEF CountInv

(* What is left to show about a step that moves references: the counts. *)
Balanced(e) ==
  refs'[e] = Cardinality(Slots(fds', e)) + Cardinality(Slots(closing', e)) + Lost(e)'

LEMMA CountSplit ==
  ASSUME DConstants, DTypeOK', Fresh', Unborn', \A e \in Ends : PipeOf(e) <= made' => Balanced(e)
  PROVE  CountInv'
<1>1. Counted'
  BY DEF Counted, Balanced, Holders
<1> QED BY <1>1 DEF CountInv

LEMMA CountBefore ==
  ASSUME DConstants, CountInv, NEW e \in Ends, PipeOf(e) <= made
  PROVE  /\ refs[e] = Cardinality(Slots(fds, e)) + Cardinality(Slots(closing, e)) + Lost(e)
         /\ Cardinality(Slots(fds, e)) \in Nat /\ Cardinality(Slots(closing, e)) \in Nat
         /\ Lost(e) \in {0, 1} /\ refs[e] \in Int /\ e \in Vnodes /\ Is(0, e) = 0
<1>1. Cardinality(Slots(fds, e)) \in Nat /\ Cardinality(Slots(closing, e)) \in Nat
  BY SlotsFinite
<1>2. Lost(e) \in {0, 1} /\ refs[e] \in Int /\ e \in Vnodes /\ Is(0, e) = 0
  BY EndFacts DEF Lost, CountInv, DTypeOK, Is
<1>3. refs[e] = Cardinality(Slots(fds, e)) + Cardinality(Slots(closing, e)) + Lost(e)
  BY DEF CountInv, Counted, Holders
<1> QED BY <1>1, <1>2, <1>3

(* clone_for_fork: one more reference for each slot the child is given. *)
LEMMA CountFork ==
  ASSUME DConstants, CountInv, NEW p \in Procs, NEW q \in Procs, Fork(p, q)
  PROVE  CountInv'
<1> DEFINE Copies(e) == Cardinality({d \in Fds : fds[p][d] = e})
<1>0. /\ fds' = [fds EXCEPT ![q] = fds[p]] /\ refs' = CloneRefs(refs, fds[p])
      /\ UNCHANGED <<closing, made, failed, asleep>>
      /\ state' = [state EXCEPT ![q] = "live"]
      /\ \A d \in Fds : fds[q][d] = 0
      /\ fds \in Tables /\ fds[p] \in [Fds -> Vnodes]
  BY DEF Fork, CountInv, Unborn, DTypeOK, Tables
<1>1. ASSUME NEW e \in Ends
      PROVE  /\ refs'[e] = refs[e] + Copies(e)
             /\ Copies(e) \in Nat
             /\ Cardinality(Slots(fds', e)) = Cardinality(Slots(fds, e)) + Copies(e)
  <2>1. refs'[e] = refs[e] + Copies(e)
    BY <1>0 DEF CloneRefs
  <2> QED BY <1>0, <2>1, FillTable
<1> HIDE DEF Copies
<1>2. DTypeOK'
  <2>1. refs' \in [Ends -> Int]
    <3>1. ASSUME NEW e \in Ends PROVE refs'[e] \in Int
      <4>1. refs[e] \in Int
        BY DEF CountInv, DTypeOK
      <4> QED BY <1>1, <4>1
    <3> QED BY <1>0, <3>1 DEF CloneRefs
  <2>2. fds' \in Tables
    BY <1>0 DEF Tables
  <2> QED BY <1>0, <2>1, <2>2 DEF CountInv, DTypeOK
<1>3. Fresh'
  BY <1>0 DEF CountInv, Fresh, Tables
<1>4. Unborn'
  BY <1>0 DEF CountInv, Unborn, DTypeOK, Tables
<1>5. ASSUME NEW e \in Ends, PipeOf(e) <= made'
      PROVE  Balanced(e)
  <2>1. PipeOf(e) <= made /\ Lost(e)' = Lost(e) /\ closing' = closing
    BY <1>0, <1>5 DEF Lost
  <2>2. /\ refs[e] = Cardinality(Slots(fds, e)) + Cardinality(Slots(closing, e)) + Lost(e)
        /\ Cardinality(Slots(fds, e)) \in Nat /\ Cardinality(Slots(closing, e)) \in Nat
        /\ Lost(e) \in {0, 1} /\ refs[e] \in Int
    BY <2>1, CountBefore
  <2> QED BY <1>1, <2>1, <2>2 DEF Balanced
<1> QED BY <1>2, <1>3, <1>4, <1>5, CountSplit

(* dup: the copy is one more slot and one more reference. *)
LEMMA CountDup ==
  ASSUME DConstants, CountInv, NEW p \in Procs, NEW d \in Fds, Dup(p, d)
  PROVE  CountInv'
<1> DEFINE l == Lowest(fds[p])
           v == fds[p][d]
<1>0. fds \in Tables /\ fds[p] \in [Fds -> Vnodes] /\ v \in Vnodes /\ refs \in [Ends -> Int]
  BY DEF CountInv, DTypeOK, Tables
<1>1. l \in Fds /\ fds[p][l] = 0
  BY <1>0, LowestFree DEF Dup
<1>2. /\ fds' = [fds EXCEPT ![p][l] = v] /\ refs' = IncRef(refs, v)
      /\ UNCHANGED <<state, closing, made, failed, asleep>>
  BY DEF Dup, FdAlloc
<1> HIDE DEF l
<1>3. \A q \in Procs, f \in Fds : fds'[q][f] = IF q = p /\ f = l THEN v ELSE fds[q][f]
  BY <1>0, <1>1, <1>2 DEF Tables
<1>4. DTypeOK'
  <2>1. refs' \in [Ends -> Int]
    BY <1>0, <1>2, RefFacts
  <2>2. fds' \in Tables
    BY <1>0, <1>1, <1>2, SlotType
  <2> QED BY <1>2, <2>1, <2>2 DEF CountInv, DTypeOK
<1>5. Fresh'
  BY <1>2, <1>3 DEF CountInv, Fresh
<1>6. Unborn'
  <2>1. state[p] = "live"
    BY DEF Dup, Ready
  <2> QED BY <1>2, <1>3, <2>1 DEF CountInv, Unborn
<1> HIDE DEF v
<1>7. ASSUME NEW e \in Ends, PipeOf(e) <= made'
      PROVE  Balanced(e)
  <2>1. PipeOf(e) <= made /\ Lost(e)' = Lost(e) /\ closing' = closing
    BY <1>2, <1>7 DEF Lost
  <2>2. refs'[e] = refs[e] + Is(v, e)
    BY <1>0, <1>2, RefFacts
  <2>3. Cardinality(Slots(fds', e)) = Cardinality(Slots(fds, e)) + Is(v, e) - Is(0, e)
    <3>1. e \in Vnodes
      BY EndFacts
    <3>2. Cardinality(Slots([fds EXCEPT ![p][l] = v], e))
            = Cardinality(Slots(fds, e)) + Is(v, e) - Is(fds[p][l], e)
      BY <1>0, <1>1, <3>1, SetSlot, Zenon
    <3> QED BY <1>1, <1>2, <3>2, Zenon
  <2>4. Is(v, e) \in {0, 1}
    BY DEF Is
  <2> QED BY <2>1, <2>2, <2>3, <2>4, CountBefore DEF Balanced
<1> QED BY <1>4, <1>5, <1>6, <1>7, CountSplit

(* dup2: the slot changes hands, and so does the reference. *)
LEMMA CountDup2 ==
  ASSUME DConstants, CountInv, NEW p \in Procs, NEW d \in Fds, NEW n \in Fds, Dup2(p, d, n)
  PROVE  CountInv'
<1> DEFINE w == fds[p][n]
           v == fds[p][d]
<1>0. fds \in Tables /\ v \in Vnodes /\ w \in Vnodes /\ refs \in [Ends -> Int]
  BY DEF CountInv, DTypeOK, Tables
<1>2. /\ fds' = [fds EXCEPT ![p][n] = v] /\ refs' = IncRef(DecRef(refs, w), v)
      /\ UNCHANGED <<state, closing, made, failed, asleep>>
  BY DEF Dup2
<1>3. \A q \in Procs, f \in Fds : fds'[q][f] = IF q = p /\ f = n THEN v ELSE fds[q][f]
  BY <1>0, <1>2 DEF Tables
<1>r. DecRef(refs, w) \in [Ends -> Int]
  BY <1>0, RefFacts
<1>4. DTypeOK'
  <2>1. refs' \in [Ends -> Int]
    BY <1>r, <1>2, RefFacts
  <2>2. fds' \in Tables
    BY <1>0, <1>2, SlotType
  <2> QED BY <1>2, <2>1, <2>2 DEF CountInv, DTypeOK
<1>5. Fresh'
  BY <1>2, <1>3 DEF CountInv, Fresh
<1>6. Unborn'
  <2>1. state[p] = "live"
    BY DEF Dup2, Ready
  <2> QED BY <1>2, <1>3, <2>1 DEF CountInv, Unborn
<1>7. ASSUME NEW e \in Ends, PipeOf(e) <= made'
      PROVE  Balanced(e)
  <2>1. PipeOf(e) <= made /\ Lost(e)' = Lost(e) /\ closing' = closing
    BY <1>2, <1>7 DEF Lost
  <2>2. refs'[e] = DecRef(refs, w)[e] + Is(v, e) /\ DecRef(refs, w)[e] = refs[e] - Is(w, e)
    BY <1>0, <1>r, <1>2, RefFacts
  <2>3. Cardinality(Slots(fds', e)) = Cardinality(Slots(fds, e)) + Is(v, e) - Is(w, e)
    <3>1. e \in Vnodes
      BY EndFacts
    <3>2. Cardinality(Slots([fds EXCEPT ![p][n] = v], e))
            = Cardinality(Slots(fds, e)) + Is(v, e) - Is(fds[p][n], e)
      BY <1>0, <3>1, SetSlot, ZenonT(30)
    <3> QED BY <1>2, <3>2, Zenon
  <2>4. Is(v, e) \in {0, 1} /\ Is(w, e) \in {0, 1}
    BY DEF Is
  <2> HIDE DEF v, w
  <2> QED BY <2>1, <2>2, <2>3, <2>4, CountBefore DEF Balanced
<1> QED BY <1>4, <1>5, <1>6, <1>7, CountSplit

(* What is written to a slot of the tables or of open_vns. *)
LEMMA ReleaseFacts ==
  ASSUME DConstants, NEW v \in Vnodes
  PROVE  /\ ToRelease(v) \in Vnodes
         /\ \A e \in Ends : (ToRelease(v) = e <=> v = e) /\ Is(ToRelease(v), e) = Is(v, e)
<1>1. ToRelease(v) \in Vnodes /\ \A e \in Ends : (ToRelease(v) = e <=> v = e)
  BY EndFacts DEF ToRelease
<1> QED BY <1>1 DEF Is

(* close: the descriptor is gone, its reference is held by open_vns. *)
LEMMA CountClose ==
  ASSUME DConstants, CountInv, NEW p \in Procs, NEW d \in Fds, Close(p, d)
  PROVE  CountInv'
<1> DEFINE v == fds[p][d]
           w == ToRelease(v)
<1>0. /\ fds \in Tables /\ closing \in Tables /\ v \in Vnodes /\ 0 \in Vnodes
      /\ closing[p][d] = 0 /\ state[p] = "live"
  BY EndFacts DEF CountInv, DTypeOK, Tables, Close, Ready, Released
<1>t. fds \in Tables /\ closing \in Tables /\ 0 \in Vnodes
  BY <1>0
<1>1. w \in Vnodes /\ \A e \in Ends : (w = e <=> v = e) /\ Is(w, e) = Is(v, e)
  BY <1>0, ReleaseFacts
<1>w. w \in Vnodes
  BY <1>1
<1>2. /\ fds' = [fds EXCEPT ![p][d] = 0] /\ closing' = [closing EXCEPT ![p][d] = w]
      /\ UNCHANGED <<state, refs, made, failed, asleep>>
  BY DEF Close
<1> HIDE DEF w
<1>3. /\ \A q \in Procs, f \in Fds : fds'[q][f] = IF q = p /\ f = d THEN 0 ELSE fds[q][f]
      /\ \A q \in Procs, f \in Fds : closing'[q][f] = IF q = p /\ f = d THEN w ELSE closing[q][f]
  BY <1>0, <1>2 DEF Tables
<1>4. DTypeOK'
  <2>1. fds' \in Tables /\ closing' \in Tables
    BY <1>0, <1>1, <1>2, SlotType
  <2> QED BY <1>2, <2>1 DEF CountInv, DTypeOK
<1>5. Fresh'
  BY <1>1, <1>2, <1>3, EndFacts DEF CountInv, Fresh
<1>6. Unborn'
  BY <1>0, <1>2, <1>3 DEF CountInv, Unborn
<1>7. ASSUME NEW e \in Ends, PipeOf(e) <= made'
      PROVE  Balanced(e)
  <2>1. PipeOf(e) <= made /\ Lost(e)' = Lost(e) /\ refs' = refs /\ e \in Vnodes
    BY <1>2, <1>7, EndFacts DEF Lost
  <2>e. e \in Vnodes
    BY <2>1
  <2>2. Cardinality(Slots(fds', e)) = Cardinality(Slots(fds, e)) + Is(0, e) - Is(v, e)
    <3>1. Cardinality(Slots([fds EXCEPT ![p][d] = 0], e))
            = Cardinality(Slots(fds, e)) + Is(0, e) - Is(fds[p][d], e)
      BY <1>t, <2>e, SetSlot, Zenon
    <3> QED BY <1>2, <3>1, Zenon
  <2>3. Cardinality(Slots(closing', e)) = Cardinality(Slots(closing, e)) + Is(w, e) - Is(0, e)
    <3>1. Cardinality(Slots([closing EXCEPT ![p][d] = w], e))
            = Cardinality(Slots(closing, e)) + Is(w, e) - Is(closing[p][d], e)
      BY <1>t, <1>w, <2>e, SetSlot, ZenonT(30)
    <3> QED BY <1>0, <1>2, <3>1, Zenon
  <2>4. Is(v, e) \in {0, 1} /\ Is(w, e) = Is(v, e)
    BY <1>1 DEF Is
  <2> HIDE DEF v
  <2> QED BY <2>1, <2>2, <2>3, <2>4, CountBefore DEF Balanced
<1> QED BY <1>4, <1>5, <1>6, <1>7, CountSplit

(* The slot released next holds a vnode. *)
LEMMA NextSlotFacts ==
  ASSUME DConstants, NEW p \in Procs, ~Released(p)
  PROVE  NextSlot(p) \in Fds /\ closing[p][NextSlot(p)] # 0
<1> DEFINE T == {d \in Fds : closing[p][d] # 0}
<1>1. T \in SUBSET Nat /\ T # {}
  BY DEF Fds, Released
<1> HIDE DEF T
<1>2. Min(T) \in T
  BY <1>1, LeastNumber
<1> QED BY <1>2 DEF T, NextSlot

(* The releases: the reference goes with the slot of open_vns. *)
LEMMA CountRelease ==
  ASSUME DConstants, CountInv, NEW p \in Procs, Release(p)
  PROVE  CountInv'
<1> DEFINE d == NextSlot(p)
           v == closing[p][d]
<1>0. /\ d \in Fds /\ v # 0
      /\ closing \in Tables /\ v \in Vnodes /\ 0 \in Vnodes /\ refs \in [Ends -> Int]
  BY NextSlotFacts, EndFacts DEF CountInv, DTypeOK, Tables, Release
<1>2. /\ closing' = [closing EXCEPT ![p][d] = 0] /\ refs' = DecRef(refs, v)
      /\ asleep' = IF refs[v] = 1 THEN WakeAll(asleep, Peer(v)) ELSE asleep
      /\ UNCHANGED <<state, fds, made, failed>>
  BY DEF Release
<1> HIDE DEF d
<1>3. \A q \in Procs, f \in Fds : closing'[q][f] = IF q = p /\ f = d THEN 0 ELSE closing[q][f]
  BY <1>0, <1>2 DEF Tables
<1>4. DTypeOK'
  <2>1. closing' \in Tables
    BY <1>0, <1>2, SlotType
  <2>2. refs' \in [Ends -> Int]
    BY <1>0, <1>2, RefFacts
  <2>3. asleep' \in [Procs -> Ends \cup {0}]
    BY <1>2 DEF CountInv, DTypeOK, WakeAll
  <2> QED BY <1>2, <2>1, <2>2, <2>3 DEF CountInv, DTypeOK
<1>5. Fresh'
  BY <1>2, <1>3, EndFacts DEF CountInv, Fresh
<1>6. Unborn'
  BY <1>2 DEF CountInv, Unborn
<1> HIDE DEF v
<1>7. ASSUME NEW e \in Ends, PipeOf(e) <= made'
      PROVE  Balanced(e)
  <2>1. PipeOf(e) <= made /\ Lost(e)' = Lost(e) /\ fds' = fds /\ e \in Vnodes
    BY <1>2, <1>7, EndFacts DEF Lost
  <2>2. refs'[e] = refs[e] - Is(v, e)
    BY <1>0, <1>2, RefFacts
  <2>3. Cardinality(Slots(closing', e)) = Cardinality(Slots(closing, e)) + Is(0, e) - Is(v, e)
    <3>1. Cardinality(Slots([closing EXCEPT ![p][d] = 0], e))
            = Cardinality(Slots(closing, e)) + Is(0, e) - Is(closing[p][d], e)
      BY <1>0, <2>1, SetSlot, Zenon
    <3> QED BY <1>2, <3>1, Zenon DEF v
  <2>4. Is(v, e) \in {0, 1}
    BY DEF Is
  <2> QED BY <2>1, <2>2, <2>3, <2>4, CountBefore DEF Balanced
<1> QED BY <1>4, <1>5, <1>6, <1>7, CountSplit

(* exit: every descriptor moves to open_vns. *)
LEMMA CountExit ==
  ASSUME DConstants, CountInv, NEW p \in Procs, Exit(p)
  PROVE  CountInv'
<1> DEFINE none == [d \in Fds |-> 0]
           row == OpenVns(fds[p])
<1>0. /\ fds \in Tables /\ closing \in Tables /\ fds[p] \in [Fds -> Vnodes]
      /\ none \in [Fds -> Vnodes] /\ \A d \in Fds : closing[p][d] = 0
  BY EndFacts DEF CountInv, DTypeOK, Tables, Exit, Ready, Released
<1>1. /\ row \in [Fds -> Vnodes]
      /\ \A d \in Fds, e \in Ends : row[d] = e <=> fds[p][d] = e
  <2>1. \A d \in Fds : row[d] = ToRelease(fds[p][d]) /\ fds[p][d] \in Vnodes
    BY <1>0 DEF OpenVns
  <2>2. \A d \in Fds : row[d] \in Vnodes /\ \A e \in Ends : row[d] = e <=> fds[p][d] = e
    BY <2>1, ReleaseFacts
  <2> QED BY <2>2 DEF OpenVns
<1>2. /\ fds' = [fds EXCEPT ![p] = none] /\ closing' = [closing EXCEPT ![p] = row]
      /\ UNCHANGED <<refs, made, failed, asleep>>
      /\ state' = [state EXCEPT ![p] = "exiting"]
  BY DEF Exit
<1> HIDE DEF row, none
<1>3. /\ fds' \in Tables /\ closing' \in Tables
      /\ \A q \in Procs, f \in Fds : fds'[q][f] = IF q = p THEN 0 ELSE fds[q][f]
      /\ \A q \in Procs, f \in Fds : closing'[q][f] = IF q = p THEN row[f] ELSE closing[q][f]
  <2>1. fds' \in Tables /\ closing' \in Tables
    BY <1>0, <1>1, <1>2 DEF Tables
  <2>2. \A q \in Procs, f \in Fds : fds'[q][f] = IF q = p THEN 0 ELSE fds[q][f]
    BY <1>0, <1>2 DEF Tables, none
  <2>3. \A q \in Procs, f \in Fds : closing'[q][f] = IF q = p THEN row[f] ELSE closing[q][f]
    BY <1>0, <1>2 DEF Tables
  <2> QED BY <2>1, <2>2, <2>3
<1>4. DTypeOK'
  BY <1>2, <1>3 DEF CountInv, DTypeOK
<1>5. Fresh'
  BY <1>1, <1>2, <1>3, EndFacts DEF CountInv, Fresh
<1>6. Unborn'
  BY <1>2, <1>3 DEF CountInv, Unborn, DTypeOK
<1>7. ASSUME NEW e \in Ends, PipeOf(e) <= made'
      PROVE  Balanced(e)
  <2> DEFINE c == Cardinality({d \in Fds : fds[p][d] = e})
  <2>1. PipeOf(e) <= made /\ Lost(e)' = Lost(e) /\ refs' = refs /\ e \in Vnodes
    BY <1>2, <1>7, EndFacts DEF Lost
  <2>2. c \in Nat /\ Cardinality(Slots(fds, e)) = Cardinality(Slots(fds', e)) + c
    <3>1. fds = [fds' EXCEPT ![p] = fds[p]] /\ \A d \in Fds : fds'[p][d] = 0
      BY <1>0, <1>2, <1>3 DEF Tables
    <3>2. /\ c \in Nat
          /\ Cardinality(Slots([fds' EXCEPT ![p] = fds[p]], e)) = Cardinality(Slots(fds', e)) + c
      <4>1. fds' \in Tables /\ fds[p] \in [Fds -> Vnodes] /\ \A d \in Fds : fds'[p][d] = 0
        BY <1>0, <1>3, <3>1
      <4> HIDE DEF c
      <4>2. /\ Cardinality({d \in Fds : fds[p][d] = e}) \in Nat
            /\ Cardinality(Slots([fds' EXCEPT ![p] = fds[p]], e))
                 = Cardinality(Slots(fds', e)) + Cardinality({d \in Fds : fds[p][d] = e})
        BY <4>1, FillTable, Zenon
      <4> QED BY <4>2, Zenon DEF c
    <3> QED BY <3>1, <3>2, Zenon
  <2>3. Cardinality(Slots(closing', e)) = Cardinality(Slots(closing, e)) + c
    <3>1. {d \in Fds : row[d] = e} = {d \in Fds : fds[p][d] = e}
      BY <1>1
    <3>2. Cardinality(Slots([closing EXCEPT ![p] = row], e))
            = Cardinality(Slots(closing, e)) + Cardinality({d \in Fds : row[d] = e})
      BY <1>0, <1>1, FillTable, ZenonT(30)
    <3> QED BY <1>2, <3>1, <3>2, Zenon
  <2> HIDE DEF c
  <2>4. Cardinality(Slots(fds', e)) \in Nat
    BY SlotsFinite
  <2> QED BY <2>1, <2>2, <2>3, <2>4, CountBefore DEF Balanced
<1> QED BY <1>4, <1>5, <1>6, <1>7, CountSplit

(* The ends of a pipe that has not been made are in no table. *)
LEMMA NoSlots ==
  ASSUME DConstants, CountInv, NEW e \in Ends, PipeOf(e) > made
  PROVE  Cardinality(Slots(fds, e)) = 0 /\ Cardinality(Slots(closing, e)) = 0
<1>1. Slots(fds, e) = {} /\ Slots(closing, e) = {}
  BY DEF CountInv, Fresh, Slots
<1> QED BY <1>1, FS_EmptySet

(* sys_pipe with room for one descriptor at most takes the first one back. *)
LEMMA PipeUndone ==
  ASSUME DConstants, NEW row \in [Fds -> Vnodes], NEW e \in Ends, NEW f \in Vnodes,
         \A d \in Fds : row[d] # e
  PROVE  [d \in Fds |-> IF FdAlloc(row, e)[d] = e THEN 0 ELSE FdAlloc(row, e)[d]] = row
<1>1. CASE HasFree(row)
  <2> DEFINE l == Lowest(row)
  <2>1. l \in Fds /\ row[l] = 0
    BY <1>1, LowestFree
  <2>2. FdAlloc(row, e) = [row EXCEPT ![l] = e]
    BY <1>1 DEF FdAlloc
  <2> HIDE DEF l
  <2> QED BY <2>1, <2>2
<1>2. CASE ~HasFree(row)
  BY <1>2 DEF FdAlloc
<1> QED BY <1>1, <1>2

(* pipe: two new descriptors and two new references, or two lost ones. *)
LEMMA CountSysPipe ==
  ASSUME DConstants, CountInv, NEW p \in Procs, SysPipe(p)
  PROVE  CountInv'
<1> DEFINE k == made + 1
           re == ReadEnd(k)
           we == WriteEnd(k)
           t == FdAlloc(fds[p], re)
<1>0. /\ fds \in Tables /\ fds[p] \in [Fds -> Vnodes] /\ refs \in [Ends -> Int]
      /\ made \in Nat /\ failed \in SUBSET (1..made) /\ state[p] = "live"
  BY DEF CountInv, DTypeOK, Tables, SysPipe, Ready
<1>1. k \in Pipes
  BY <1>0 DEF SysPipe, Pipes, DConstants
<1>2. /\ re \in Ends /\ we \in Ends /\ PipeOf(re) = k /\ PipeOf(we) = k /\ re # we
      /\ re \in Vnodes /\ we \in Vnodes /\ re # 0 /\ we # 0
  BY <1>1, EndFacts
<1>3. \A q \in Procs, d \in Fds : /\ fds[q][d] # re /\ fds[q][d] # we
                                  /\ closing[q][d] # re /\ closing[q][d] # we
  <2>1. PipeOf(re) > made /\ PipeOf(we) > made
    BY <1>0, <1>2
  <2> HIDE DEF re, we
  <2> QED BY <1>2, <2>1 DEF CountInv, Fresh
<1>4. /\ made' = k /\ refs' = [refs EXCEPT ![re] = 1, ![we] = 1]
      /\ UNCHANGED <<state, closing, asleep>>
  BY DEF SysPipe
<1>5. ASSUME NEW e \in Ends
      PROVE  /\ e \in {re, we} => refs'[e] = 1
             /\ e \notin {re, we} => refs'[e] = refs[e]
  <2>1. refs' = [refs EXCEPT ![re] = 1, ![we] = 1] /\ refs \in [Ends -> Int] /\ re \in Ends /\ we \in Ends
    BY <1>0, <1>2, <1>4
  <2> HIDE DEF re, we
  <2>2. CASE e = we
    BY <2>1, <2>2
  <2>3. CASE e = re /\ e # we
    BY <2>1, <2>3
  <2>4. CASE e # re /\ e # we
    BY <2>1, <2>4
  <2> QED BY <2>2, <2>3, <2>4
<1>r. refs' \in [Ends -> Int]
  <2>1. \A e \in Ends : refs'[e] \in Int
    BY <1>0, <1>5
  <2>2. refs' = [refs EXCEPT ![re] = 1, ![we] = 1] /\ refs \in [Ends -> Int]
    BY <1>0, <1>4
  <2> HIDE DEF re, we
  <2>3. refs' = [e \in Ends |-> refs'[e]]
    BY <2>2
  <2> QED BY <2>1, <2>3
<1>6. ASSUME NEW e \in Ends, PipeOf(e) <= made'
      PROVE  (PipeOf(e) <= made /\ e \notin {re, we}) \/ (e \in {re, we} /\ PipeOf(e) > made)
  <2>1. PipeOf(e) \in Nat /\ e \in {ReadEnd(PipeOf(e)), WriteEnd(PipeOf(e))}
    BY EndFacts DEF Pipes
  <2>2. PipeOf(e) <= made \/ PipeOf(e) = k
    BY <1>0, <1>4, <1>6, <2>1
  <2>3. CASE PipeOf(e) = k
    BY <1>0, <2>1, <2>3
  <2>4. CASE PipeOf(e) <= made
    BY <1>0, <1>2, <2>4
  <2> QED BY <2>2, <2>3, <2>4
<1>a. CASE HasFree(fds[p]) /\ HasFree(t)
  <2> DEFINE l == Lowest(fds[p])
             m == Lowest(t)
  <2>1. l \in Fds /\ fds[p][l] = 0 /\ t = [fds[p] EXCEPT ![l] = re]
    BY <1>0, <1>a, LowestFree DEF FdAlloc
  <2>2. t \in [Fds -> Vnodes]
    BY <1>0, <1>2, <2>1
  <2>3. m \in Fds /\ t[m] = 0
    BY <1>a, <2>2, LowestFree
  <2>4. m # l
    <3> HIDE DEF l, m, re, t
    <3> QED BY <1>0, <1>2, <2>1, <2>3
  <2> DEFINE mid == [fds EXCEPT ![p][l] = re]
  <2>5. failed' = failed /\ fds' = [fds EXCEPT ![p] = [t EXCEPT ![m] = we]]
    BY <1>a DEF SysPipe, FdAlloc
  <2> HIDE DEF l, m, re, we, k, t
  <2>6. mid \in Tables /\ mid[p] = t
    <3>1. mid \in Tables
      BY <1>0, <1>2, <2>1, SlotType
    <3>2. mid[p] = t
      BY <1>0, <2>1 DEF Tables
    <3> QED BY <3>1, <3>2
  <2>7. fds' = [mid EXCEPT ![p][m] = we]
    <3>1. fds' = [mid EXCEPT ![p] = [t EXCEPT ![m] = we]]
      BY <1>0, <2>5 DEF Tables
    <3> QED BY <2>6, <3>1
  <2>8. \A q \in Procs, f \in Fds :
           fds'[q][f] = IF q = p /\ f = m THEN we ELSE IF q = p /\ f = l THEN re ELSE fds[q][f]
    BY <1>0, <2>1, <2>2, <2>3, <2>4, <2>5 DEF Tables
  <2> HIDE DEF mid
  <2>9. DTypeOK'
    <3>1. fds' \in Tables
      BY <1>2, <2>3, <2>6, <2>7, SlotType
    <3>2. made' \in 0..NPipes /\ failed' \in SUBSET (1..made')
      BY <1>0, <1>1, <1>4, <2>5 DEF Pipes, k
    <3> QED BY <1>4, <1>r, <3>1, <3>2 DEF CountInv, DTypeOK
  <2>10. Fresh'
    <3> SUFFICES ASSUME NEW e \in Ends, PipeOf(e) > made', NEW q \in Procs, NEW d \in Fds
                 PROVE  fds'[q][d] # e /\ closing'[q][d] # e
      BY DEF Fresh
    <3>1. PipeOf(e) > made /\ e # re /\ e # we
      <4>1. PipeOf(e) \in Nat
        BY EndFacts DEF Pipes
      <4> QED BY <1>0, <1>2, <1>4, <4>1 DEF k
    <3>2. fds[q][d] # e /\ closing[q][d] # e
      BY <3>1 DEF CountInv, Fresh
    <3> QED BY <1>4, <2>8, <3>1, <3>2
  <2>11. Unborn'
    BY <1>0, <1>4, <2>8 DEF CountInv, Unborn
  <2>12. ASSUME NEW e \in Ends, PipeOf(e) <= made'
         PROVE  Balanced(e)
    <3>1. Cardinality(Slots(fds', e)) = Cardinality(Slots(fds, e)) + Is(re, e) + Is(we, e)
      <4>0. e \in Vnodes /\ Is(0, e) = 0
        BY EndFacts DEF Is
      <4>1. Cardinality(Slots([fds EXCEPT ![p][l] = re], e))
              = Cardinality(Slots(fds, e)) + Is(re, e) - Is(fds[p][l], e)
        <5>1. fds \in Tables /\ l \in Fds /\ re \in Vnodes /\ e \in Vnodes
          BY <1>0, <1>2, <2>1, <4>0
        <5> QED BY <5>1, SetSlot, Zenon
      <4>2. Cardinality(Slots([mid EXCEPT ![p][m] = we], e))
              = Cardinality(Slots(mid, e)) + Is(we, e) - Is(mid[p][m], e)
        <5>1. mid \in Tables /\ m \in Fds /\ we \in Vnodes /\ e \in Vnodes
          BY <1>2, <2>3, <2>6, <4>0
        <5> QED BY <5>1, SetSlot, Zenon
      <4>3. fds[p][l] = 0 /\ mid[p][m] = 0
        BY <2>1, <2>3, <2>6
      <4>4. Cardinality(Slots(mid, e)) = Cardinality(Slots(fds, e)) + Is(re, e) - Is(0, e)
        BY <4>1, <4>3, Zenon DEF mid
      <4>5. Cardinality(Slots(fds', e)) = Cardinality(Slots(mid, e)) + Is(we, e) - Is(0, e)
        BY <2>7, <4>2, <4>3, Zenon
      <4>6. Cardinality(Slots(fds, e)) \in Nat /\ Is(re, e) \in Nat /\ Is(we, e) \in Nat
        BY SlotsFinite DEF Is
      <4> QED BY <4>0, <4>4, <4>5, <4>6
    <3>2. Lost(e)' = Lost(e) /\ closing' = closing
      BY <1>4, <2>5 DEF Lost
    <3>3. CASE PipeOf(e) <= made /\ e \notin {re, we}
      <4>1. Is(re, e) = 0 /\ Is(we, e) = 0 /\ refs'[e] = refs[e]
        BY <1>5, <3>3 DEF Is
      <4> QED BY <3>1, <3>2, <3>3, <4>1, CountBefore DEF Balanced
    <3>4. CASE e \in {re, we} /\ PipeOf(e) > made
      <4>1. Is(re, e) + Is(we, e) = 1 /\ refs'[e] = 1
        BY <1>2, <1>5, <3>4 DEF Is
      <4>2. Lost(e) = 0
        <5>1. made \in Nat /\ failed \in SUBSET (1..made) /\ PipeOf(e) > made
          BY <1>0, <3>4
        <5>2. \A x \in failed : ~(x > made)
          BY <5>1
        <5> QED BY <5>1, <5>2 DEF Lost
      <4>3. Cardinality(Slots(fds, e)) = 0 /\ Cardinality(Slots(closing, e)) = 0
        BY <3>4, NoSlots
      <4>4. Is(re, e) \in Nat /\ Is(we, e) \in Nat
        BY DEF Is
      <4> QED BY <3>1, <3>2, <4>1, <4>2, <4>3, <4>4 DEF Balanced
    <3> QED BY <1>6, <2>12, <3>3, <3>4
  <2> QED BY <2>9, <2>10, <2>11, <2>12, CountSplit
<1>b. CASE ~(HasFree(fds[p]) /\ HasFree(t))
  <2>1. /\ failed' = failed \cup {k}
        /\ fds' = [fds EXCEPT ![p] = [d \in Fds |-> IF t[d] = re THEN 0 ELSE t[d]]]
    BY <1>b DEF SysPipe
  <2>2. [d \in Fds |-> IF t[d] = re THEN 0 ELSE t[d]] = fds[p]
    BY <1>0, <1>2, <1>3, PipeUndone
  <2> HIDE DEF t, re, we, k
  <2>3. fds' = fds
    BY <1>0, <2>1, <2>2 DEF Tables
  <2>9. DTypeOK'
    <3>2. made' \in 0..NPipes /\ failed' \in SUBSET (1..made')
      BY <1>0, <1>1, <1>4, <2>1 DEF Pipes, k
    <3> QED BY <1>4, <1>r, <2>3, <3>2 DEF CountInv, DTypeOK
  <2>10. Fresh'
    <3> SUFFICES ASSUME NEW e \in Ends, PipeOf(e) > made'
                 PROVE  PipeOf(e) > made
      BY <1>4, <2>3 DEF Fresh, CountInv
    <3>1. PipeOf(e) \in Nat
      BY EndFacts DEF Pipes
    <3> QED BY <1>0, <1>4, <3>1 DEF k
  <2>11. Unborn'
    BY <1>4, <2>3 DEF CountInv, Unborn
  <2>12. ASSUME NEW e \in Ends, PipeOf(e) <= made'
         PROVE  Balanced(e)
    <3>2. fds' = fds /\ closing' = closing
      BY <1>4, <2>3
    <3>3. CASE PipeOf(e) <= made /\ e \notin {re, we}
      <4>1. Lost(e)' = Lost(e) /\ refs'[e] = refs[e]
        BY <1>0, <1>5, <2>1, <3>3 DEF Lost, k
      <4> QED BY <3>2, <3>3, <4>1, CountBefore DEF Balanced
    <3>4. CASE e \in {re, we} /\ PipeOf(e) > made
      <4>0. PipeOf(e) = k
        BY <1>2, <3>4
      <4>1. refs'[e] = 1 /\ Lost(e)' = 1
        BY <1>5, <2>1, <3>4, <4>0 DEF Lost
      <4>3. Cardinality(Slots(fds, e)) = 0 /\ Cardinality(Slots(closing, e)) = 0
        BY <3>4, NoSlots
      <4> QED BY <3>2, <4>1, <4>3 DEF Balanced
    <3> QED BY <1>6, <2>12, <3>3, <3>4
  <2> QED BY <2>9, <2>10, <2>11, <2>12, CountSplit
<1> QED BY <1>a, <1>b

-----------------------------------------------------------------------------
(* wake_one takes at most one thread out of its sleep. *)
LEMMA WakeOneFacts ==
  ASSUME DTypeOK, NEW e, WakeOne(e)
  PROVE  asleep' \in [Procs -> Ends \cup {0}] /\ \A q \in Procs : asleep'[q] \in {0, asleep[q]}
<1>1. CASE asleep' = asleep
  BY <1>1 DEF DTypeOK
<1>2. ASSUME NEW q \in Procs, asleep' = [asleep EXCEPT ![q] = 0]
      PROVE  asleep' \in [Procs -> Ends \cup {0}] /\ \A r \in Procs : asleep'[r] \in {0, asleep[r]}
  BY <1>2 DEF DTypeOK
<1> QED BY <1>1, <1>2 DEF WakeOne

LEMMA CountRead ==
  ASSUME DConstants, CountInv, NEW p \in Procs, NEW d \in Fds, Read(p, d) \/ Write(p, d)
  PROVE  /\ CountInv' /\ refs' = refs
         /\ \A q \in Procs : asleep'[q] \in {0, asleep[q]}
<1>1. UNCHANGED <<state, fds, closing, refs, made, failed>> /\ WakeOne(Peer(fds[p][d]))
  BY DEF Read, Write
<1>2. asleep' \in [Procs -> Ends \cup {0}] /\ \A q \in Procs : asleep'[q] \in {0, asleep[q]}
  BY <1>1, WakeOneFacts DEF CountInv
<1>3. DOMAIN state' = Procs /\ \A q \in Procs : state'[q] = "unborn" => state[q] = "unborn"
  BY <1>1 DEF CountInv, DTypeOK
<1> QED BY <1>1, <1>2, <1>3, CountKept

LEMMA CountSleep ==
  ASSUME DConstants, CountInv, NEW p \in Procs, NEW d \in Fds, ReadSleep(p, d) \/ WriteSleep(p, d)
  PROVE  /\ CountInv' /\ refs' = refs
         /\ fds[p][d] \in Ends /\ refs[Peer(fds[p][d])] > 0
         /\ asleep' = [asleep EXCEPT ![p] = fds[p][d]]
<1>1. /\ UNCHANGED <<state, fds, closing, refs, made, failed>>
      /\ fds[p][d] \in Ends /\ refs[Peer(fds[p][d])] > 0
      /\ asleep' = [asleep EXCEPT ![p] = fds[p][d]]
  BY DEF ReadSleep, WriteSleep, IsRead, IsWrite
<1>2. asleep' \in [Procs -> Ends \cup {0}]
  BY <1>1 DEF CountInv, DTypeOK
<1>3. DOMAIN state' = Procs /\ \A q \in Procs : state'[q] = "unborn" => state[q] = "unborn"
  BY <1>1 DEF CountInv, DTypeOK
<1> QED BY <1>1, <1>2, <1>3, CountKept

LEMMA CountZombie ==
  ASSUME DConstants, CountInv, NEW p \in Procs, BecomeZombie(p)
  PROVE  CountInv' /\ refs' = refs /\ asleep' = asleep
<1>1. /\ UNCHANGED <<fds, closing, refs, made, failed, asleep>>
      /\ state' = [state EXCEPT ![p] = "zombie"]
  BY DEF BecomeZombie
<1>2. asleep' \in [Procs -> Ends \cup {0}]
  BY <1>1 DEF CountInv, DTypeOK
<1>3. DOMAIN state' = Procs /\ \A q \in Procs : state'[q] = "unborn" => state[q] = "unborn"
  BY <1>1 DEF CountInv, DTypeOK
<1> QED BY <1>1, <1>2, <1>3, CountKept

LEMMA CountStep ==
  ASSUME DConstants, CountInv, [DNext]_dvars
  PROVE  CountInv'
<1>1. CASE UNCHANGED dvars
  <2>1. UNCHANGED <<state, fds, closing, refs, made, failed, asleep>>
    BY <1>1 DEF dvars
  <2>2. asleep' \in [Procs -> Ends \cup {0}]
    BY <2>1 DEF CountInv, DTypeOK
  <2>3. DOMAIN state' = Procs /\ \A q \in Procs : state'[q] = "unborn" => state[q] = "unborn"
    BY <2>1 DEF CountInv, DTypeOK
  <2> QED BY <2>1, <2>2, <2>3, CountKept
<1>2. ASSUME NEW p \in Users, \/ SysPipe(p) \/ Exit(p) \/ Release(p) \/ BecomeZombie(p)
                              \/ \E q \in Users : Fork(p, q)
      PROVE  CountInv'
  BY <1>2, CountSysPipe, CountExit, CountRelease, CountZombie, CountFork, Zenon DEF DConstants
<1>3. ASSUME NEW p \in Users, NEW d \in Used,
             \/ Dup(p, d) \/ Close(p, d)
             \/ Read(p, d) \/ ReadSleep(p, d) \/ Write(p, d) \/ WriteSleep(p, d)
             \/ \E n \in Used : Dup2(p, d, n)
      PROVE  CountInv'
  <2>1. p \in Procs /\ d \in Fds /\ Used \subseteq Fds
    BY DEF DConstants
  <2> QED BY <1>3, <2>1, CountDup, CountClose, CountRead, CountSleep, CountDup2, Zenon
<1> QED BY <1>1, <1>2, <1>3 DEF DNext

-----------------------------------------------------------------------------
(* A sleeper keeps its peer while no last reference goes. *)
LEMMA SleepKept ==
  ASSUME DConstants, DTypeOK, SleepersHavePeers,
         \A q \in Procs : asleep'[q] \in {0, asleep[q]},
         \A q \in Procs : (asleep'[q] # 0 /\ refs[Peer(asleep[q])] > 0) => refs'[Peer(asleep[q])] > 0
  PROVE  SleepersHavePeers'
BY DEF SleepersHavePeers

LEMMA SleepDup2 ==
  ASSUME DConstants, TidyDup2, CountInv, SleepersHavePeers,
         NEW p \in Procs, NEW d \in Fds, NEW n \in Fds, Dup2(p, d, n)
  PROVE  SleepersHavePeers'
<1> DEFINE w == fds[p][n]
           v == fds[p][d]
<1>1. /\ refs' = IncRef(DecRef(refs, w), v) /\ asleep' = asleep
      /\ w \in Ends => refs[w] > 1
      /\ refs \in [Ends -> Int]
  BY DEF Dup2, CountInv, DTypeOK
<1> HIDE DEF v, w
<1>2. ASSUME NEW e \in Ends, refs[e] > 0 PROVE refs'[e] > 0
  <2>1. DecRef(refs, w) \in [Ends -> Int] /\ DecRef(refs, w)[e] = refs[e] - Is(w, e)
    BY <1>1, RefFacts
  <2>2. refs'[e] = DecRef(refs, w)[e] + Is(v, e)
    BY <1>1, <2>1, RefFacts
  <2>3. CASE w = e
    <3>1. Is(w, e) = 1 /\ Is(v, e) \in {0, 1} /\ refs[e] > 1 /\ refs[e] \in Int
      BY <1>1, <2>3 DEF Is
    <3> QED BY <2>1, <2>2, <3>1
  <2>4. CASE w # e
    <3>1. Is(w, e) = 0 /\ Is(v, e) \in {0, 1} /\ refs[e] > 0 /\ refs[e] \in Int
      BY <1>1, <1>2, <2>4 DEF Is
    <3> QED BY <2>1, <2>2, <3>1
  <2> QED BY <2>3, <2>4
<1>3. \A q \in Procs : asleep'[q] # 0 => Peer(asleep[q]) \in Ends
  BY <1>1, EndFacts DEF CountInv, DTypeOK
<1> QED BY <1>1, <1>2, <1>3, SleepKept DEF CountInv

(* The release that drops the last reference wakes whoever sleeps on it. *)
LEMMA SleepRelease ==
  ASSUME DConstants, CountInv, SleepersHavePeers, NEW p \in Procs, Release(p)
  PROVE  SleepersHavePeers'
<1> DEFINE v == closing[p][NextSlot(p)]
<1>1. /\ refs' = DecRef(refs, v)
      /\ asleep' = IF refs[v] = 1 THEN WakeAll(asleep, Peer(v)) ELSE asleep
      /\ refs \in [Ends -> Int] /\ asleep \in [Procs -> Ends \cup {0}]
  BY DEF Release, CountInv, DTypeOK
<1> HIDE DEF v
<1>2. \A q \in Procs : asleep'[q] \in {0, asleep[q]}
  BY <1>1 DEF WakeAll
<1>3. ASSUME NEW q \in Procs, asleep'[q] # 0, refs[Peer(asleep[q])] > 0
      PROVE  refs'[Peer(asleep[q])] > 0
  <2> DEFINE e == Peer(asleep[q])
  <2>1. asleep'[q] = asleep[q] /\ asleep[q] \in Ends /\ e \in Ends /\ Peer(e) = asleep[q]
    BY <1>1, <1>2, <1>3, EndFacts
  <2>2. e = v => refs[e] # 1
    BY <1>1, <1>3, <2>1 DEF WakeAll
  <2> HIDE DEF e
  <2>3. refs'[e] = refs[e] - Is(v, e) /\ refs[e] \in Int
    BY <1>1, <2>1, RefFacts
  <2>4. refs[e] > 0
    BY <1>3 DEF e
  <2>5. refs'[e] > 0
    BY <2>2, <2>3, <2>4 DEF Is
  <2> QED BY <2>5 DEF e
<1> QED BY <1>2, <1>3, SleepKept DEF CountInv

LEMMA SleepSleep ==
  ASSUME DConstants, CountInv, SleepersHavePeers, NEW p \in Procs, NEW d \in Fds,
         ReadSleep(p, d) \/ WriteSleep(p, d)
  PROVE  SleepersHavePeers'
<1>1. /\ refs' = refs /\ refs[Peer(fds[p][d])] > 0
      /\ asleep' = [asleep EXCEPT ![p] = fds[p][d]]
  BY CountSleep
<1>2. asleep \in [Procs -> Ends \cup {0}]
  BY DEF CountInv, DTypeOK
<1> QED BY <1>1, <1>2 DEF SleepersHavePeers

(* Every other step only adds references. *)
LEMMA SleepOthers ==
  ASSUME DConstants, CountInv, SleepersHavePeers, asleep' = asleep,
         \A e \in Ends : refs[e] > 0 => refs'[e] > 0
  PROVE  SleepersHavePeers'
<1>1. \A q \in Procs : asleep[q] # 0 => Peer(asleep[q]) \in Ends
  BY EndFacts DEF CountInv, DTypeOK
<1> QED BY <1>1, SleepKept DEF CountInv

LEMMA SleepGrow ==
  ASSUME DConstants, CountInv, SleepersHavePeers, NEW p \in Procs,
         \/ SysPipe(p) \/ Exit(p)
         \/ \E q \in Procs : Fork(p, q)
         \/ \E d \in Fds : Dup(p, d) \/ Close(p, d)
  PROVE  SleepersHavePeers'
<1>0. asleep' = asleep /\ refs \in [Ends -> Int] /\ fds \in Tables
  BY DEF SysPipe, Exit, Fork, Dup, Close, CountInv, DTypeOK
<1>1. ASSUME NEW e \in Ends, refs[e] > 0 PROVE refs'[e] > 0
  <2>0. refs[e] \in Int
    BY <1>0
  <2>1. CASE SysPipe(p)
    <3> DEFINE re == ReadEnd(made + 1)
               we == WriteEnd(made + 1)
    <3>1. refs' = [refs EXCEPT ![re] = 1, ![we] = 1]
      BY <2>1 DEF SysPipe
    <3> HIDE DEF re, we
    <3>2. refs'[e] = 1 \/ refs'[e] = refs[e]
      BY <1>0, <3>1
    <3> QED BY <1>1, <3>2
  <2>2. CASE Exit(p)
    BY <1>1, <2>2 DEF Exit
  <2>3. ASSUME NEW q \in Procs, Fork(p, q) PROVE refs'[e] > 0
    <3> DEFINE D == {d \in Fds : fds[p][d] = e}
    <3>1. refs'[e] = refs[e] + Cardinality(D)
      BY <2>3 DEF Fork, CloneRefs
    <3>2. Cardinality(D) \in Nat
      <4>1. IsFiniteSet(Fds)
        BY FS_Interval DEF DConstants, Fds
      <4>2. IsFiniteSet(D)
        BY <4>1, FS_Subset
      <4> QED BY <4>2, FS_CardinalityType
    <3> HIDE DEF D
    <3> QED BY <1>1, <2>0, <3>1, <3>2
  <2>4. ASSUME NEW d \in Fds, Dup(p, d) PROVE refs'[e] > 0
    <3>1. refs' = IncRef(refs, fds[p][d])
      BY <2>4 DEF Dup
    <3>2. refs'[e] = refs[e] + Is(fds[p][d], e)
      BY <1>0, <3>1, RefFacts
    <3> QED BY <1>1, <2>0, <3>2 DEF Is
  <2>5. ASSUME NEW d \in Fds, Close(p, d) PROVE refs'[e] > 0
    BY <1>1, <2>5 DEF Close
  <2> QED BY <2>1, <2>2, <2>3, <2>4, <2>5
<1> QED BY <1>0, <1>1, SleepOthers

LEMMA SleepStep ==
  ASSUME DConstants, TidyDup2, CountInv, SleepersHavePeers, [DNext]_dvars
  PROVE  SleepersHavePeers'
<1>1. CASE UNCHANGED dvars
  BY <1>1 DEF dvars, SleepersHavePeers
<1>2. ASSUME NEW p \in Users, BecomeZombie(p) PROVE SleepersHavePeers'
  <2>1. refs' = refs /\ asleep' = asleep
    BY <1>2 DEF BecomeZombie
  <2> QED BY <2>1 DEF SleepersHavePeers
<1>3. ASSUME NEW p \in Users, \/ SysPipe(p) \/ Exit(p) \/ Release(p)
                              \/ \E q \in Users : Fork(p, q)
      PROVE  SleepersHavePeers'
  <2>1. p \in Procs /\ Users \subseteq Procs
    BY DEF DConstants
  <2> QED BY <1>3, <2>1, SleepGrow, SleepRelease, Zenon
<1>4. ASSUME NEW p \in Users, NEW d \in Used, Read(p, d) \/ Write(p, d)
      PROVE  SleepersHavePeers'
  <2>1. p \in Procs /\ d \in Fds
    BY DEF DConstants
  <2>2. refs' = refs /\ \A q \in Procs : asleep'[q] \in {0, asleep[q]}
    BY <1>4, <2>1, CountRead
  <2> QED BY <2>2 DEF SleepersHavePeers
<1>5. ASSUME NEW p \in Users, NEW d \in Used,
             \/ Dup(p, d) \/ Close(p, d)
             \/ ReadSleep(p, d) \/ WriteSleep(p, d)
             \/ \E n \in Used : Dup2(p, d, n)
      PROVE  SleepersHavePeers'
  <2>1. p \in Procs /\ d \in Fds /\ Used \subseteq Fds
    BY DEF DConstants
  <2> QED BY <1>5, <2>1, SleepGrow, SleepSleep, SleepDup2, Zenon
<1> QED BY <1>1, <1>2, <1>3, <1>4, <1>5 DEF DNext

-----------------------------------------------------------------------------
LEMMA CountInvariant ==
  ASSUME NEW CONSTANT open
  PROVE  DConstants /\ DSpec(open) => [](DConstants /\ CountInv)
<1> DEFINE I == DConstants /\ CountInv
<1>1. DConstants /\ DInit(open) => I
  BY DInitially
<1>2. I /\ [DNext]_dvars => I'
  <2>1. DConstants => DConstants'
    BY DEF DConstants
  <2> QED BY <2>1, CountStep
<1> HIDE DEF I
<1>3. DConstants /\ DSpec(open) => []I
  BY <1>1, <1>2, PTL DEF DSpec
<1> QED BY <1>3 DEF I

(* "reader/writer liveness IS its end-VNode refcount" (fd.rs): through any  *)
(* sequence of fork, dup, dup2, close, pipe and exit calls of any number of *)
(* processes, with the slot emptied first and the vnode released later, the *)
(* count is exactly the number of descriptors that name the end.            *)
THEOREM DescriptorsEndsCounted ==
  ASSUME NEW CONSTANT open
  PROVE  DConstants /\ DSpec(open) => []EndsCounted
<1>1. DConstants /\ CountInv => EndsCounted
  <2> SUFFICES ASSUME DConstants, CountInv, NEW k \in 1..made, NEW e \in {ReadEnd(k), WriteEnd(k)}
               PROVE  refs[e] = Holders(e) + (IF k \in failed THEN 1 ELSE 0)
    BY DEF EndsCounted
  <2>1. k \in Pipes /\ k <= made
    BY DEF CountInv, DTypeOK, DConstants, Pipes
  <2>2. e \in Ends /\ PipeOf(e) = k
    BY <2>1, EndFacts
  <2> QED BY <2>1, <2>2 DEF CountInv, Counted, Lost
<1> QED BY <1>1, CountInvariant, PTL

(* Nobody sleeps on a pipe whose other end has gone (pipe_read_release and *)
(* pipe_write_release), as long as dup2 does not replace the last           *)
(* descriptor of a pipe end, which its comment excludes.                    *)
THEOREM DescriptorsSleepersHavePeers ==
  ASSUME NEW CONSTANT open
  PROVE  DConstants /\ TidyDup2 /\ DSpec(open) => []SleepersHavePeers
<1> DEFINE J == DConstants /\ TidyDup2 /\ CountInv /\ SleepersHavePeers
<1>1. DConstants /\ TidyDup2 /\ DInit(open) => J
  <2>1. DInit(open) => SleepersHavePeers
    BY DEF DInit, SleepersHavePeers
  <2> QED BY <2>1, DInitially
<1>2. J /\ [DNext]_dvars => J'
  <2>1. DConstants => DConstants'
    BY DEF DConstants
  <2> QED BY <2>1, CountStep, SleepStep
<1>3. J => SleepersHavePeers
  OBVIOUS
<1> HIDE DEF J
<1> QED BY <1>1, <1>2, <1>3, PTL DEF DSpec
=============================================================================
