--------------------------- MODULE DeliveryProofs ---------------------------
(***************************************************************************)
(* Proofs about the requests that one party leaves for another to pick up. *)
(*                                                                         *)
(* Shootdown, for any number of CPUs, address spaces and pages: no CPU     *)
(* uses a translation that a finished shootdown revoked, and each target   *)
(* of a request answers it once.  The invariant has three parts: a CPU is  *)
(* in the mask of what it has loaded (Marked), the counter of the request  *)
(* is the answers still owed (Accounted), and what a TLB holds beyond the  *)
(* page tables is owed a flush by the request under way.                   *)
(*                                                                         *)
(* Signals, for any set of processes and signals: a pending signal is      *)
(* never dropped, and a program resumes exactly where a signal interrupted *)
(* it.  Each function the actions are made of (posting, delivery, exit,    *)
(* the return to ring 3) has a lemma on the process table it returns; the  *)
(* actions compose them.                                                   *)
(***************************************************************************)
EXTENDS Shootdown, Signals, FiniteSetTheorems, WellFoundedInduction, TLAPS

----------------------------------------------------------------------------
(* Shootdown *)

\* CPUs are numbered from 1; 0 is no CPU and no address space.
TConstants ==
  /\ Cpus \in SUBSET (Nat \ {0}) /\ IsFiniteSet(Cpus)
  /\ Initiators \in SUBSET Cpus /\ 0 \notin ASpaces

Working == {"changed", "snapshot", "post", "send", "wait"}

TTypeOK ==
  /\ loaded \in [Cpus -> ASpaces \cup {0}]
  /\ DOMAIN tlb = Cpus /\ tlb = [c \in Cpus |-> tlb[c]]
  /\ mask \in [ASpaces -> SUBSET Cpus]
  /\ pcid \in [ASpaces -> Nat] /\ DOMAIN pte = ASpaces
  /\ \A s \in ASpaces : DOMAIN pte[s] = VPages
  /\ at \in [Cpus -> Working \cup {"run", "mark", "load", "flushed"}]
  /\ DOMAIN aim = Cpus /\ aim = [c \in Cpus |-> aim[c]]
  /\ active \in [Cpus -> SUBSET Cpus]
  /\ request.targets \in SUBSET Cpus /\ request.remaining \in Int
  /\ request = [targets |-> request.targets, remaining |-> request.remaining, virt |-> request.virt]
  /\ serialize \in Initiators \cup {0} /\ ipi \in SUBSET Cpus

\* A CPU is in the mask of the space it has loaded or is about to load.
Marked ==
  \A c \in Cpus :
    /\ loaded[c] # 0 => c \in mask[loaded[c]] /\ pcid[loaded[c]] # 0
    /\ at[c] = "mark" => /\ aim[c] \in ASpaces /\ c \in mask[aim[c]]
                         /\ pcid[aim[c]] # 0 /\ aim[c] # loaded[c]
    /\ at[c] = "load" => aim[c] \in ASpaces \cup {0} /\ aim[c] # loaded[c]
    /\ at[c] \in Working => c \in Initiators /\ loaded[c] # 0

Flushed == {d \in Cpus : at[d] = "flushed"}

\* The request belongs to the holder of the lock, and what remains of it is
\* the IPIs not sent, those not taken, and the flushes not counted.
Accounted ==
  /\ \A c \in Cpus : at[c] \in {"send", "wait"} <=> serialize = c
  /\ serialize = 0 => ipi = {} /\ Flushed = {}
  /\ serialize # 0 =>
       LET c == serialize IN
       /\ request.virt = aim[c] /\ active[c] \cup ipi \subseteq request.targets
       /\ (active[c] \cup ipi) \cap Flushed = {} /\ active[c] \cap ipi = {}
       /\ at[c] = "wait" => active[c] = {}
       /\ request.remaining = Cardinality(active[c]) + Cardinality(ipi) + Cardinality(Flushed)

\* The shootdown of c has yet to flush the page on d.
Due(c, d) ==
  \/ at[c] = "changed"
  \/ at[c] \in {"snapshot", "post", "send"} /\ d \in active[c]
  \/ at[c] \in {"send", "wait"} /\ d \in ipi

\* A cached translation is the one of the page table, or a shootdown of the
\* page is to reach this CPU.
Covered ==
  \A d \in Cpus : loaded[d] # 0 =>
    \A e \in tlb[d] : e.pcid = pcid[loaded[d]] /\ e.virt \in VPages =>
      \/ e.val = pte[loaded[d]][e.virt]
      \/ \E c \in Initiators : loaded[c] = loaded[d] /\ aim[c] = e.virt /\ Due(c, d)

ShootInv == TConstants /\ TTypeOK /\ Marked /\ Accounted /\ Covered

----------------------------------------------------------------------------
\* Every non-empty set of numbers has a least one.
LEMMA LeastNumber ==
  ASSUME NEW T \in SUBSET Nat, T # {}
  PROVE  \E m \in T : \A n \in T : m <= n
<1>1. PICK m \in T : \A n \in T : ~(<<n, m>> \in OpToRel(<, Nat))
  BY NatLessThanWellFounded, WFMin, Zenon
<1>2. \A n \in T : ~(n < m)
  BY <1>1 DEF OpToRel
<1> QED BY <1>2

LEMMA MinMember ==
  ASSUME NEW T \in SUBSET Nat, T # {}
  PROVE  Min(T) \in T
BY LeastNumber DEF Min

LEMMA InitShoot ==
  ASSUME TConstants, TInit
  PROVE  ShootInv
<1>1. TTypeOK
  BY DEF TConstants, TInit, TTypeOK
<1>2. Marked /\ Covered
  BY DEF TConstants, TInit, Marked, Covered, Working
<1>3. Accounted
  BY DEF TConstants, TInit, Accounted, Flushed
<1> QED BY <1>1, <1>2, <1>3 DEF ShootInv

----------------------------------------------------------------------------
\* A step of one CPU that is not in the middle of a request.
LEMMA AccountedFrame ==
  ASSUME ShootInv, UNCHANGED <<request, serialize, ipi>>, NEW c \in Cpus, NEW l, NEW x,
         at[c] \notin {"send", "wait", "flushed"}, l \notin {"send", "wait", "flushed"},
         Move(c, l, x), \A d \in Cpus \ {c} : active'[d] = active[d]
  PROVE  Accounted'
<1>1. /\ at' = [at EXCEPT ![c] = l] /\ aim' = [aim EXCEPT ![c] = x]
      /\ at \in [Cpus -> Working \cup {"run", "mark", "load", "flushed"}]
      /\ aim = [d \in Cpus |-> aim[d]] /\ Accounted /\ serialize # c
      /\ serialize \in Cpus \cup {0} /\ 0 \notin Cpus
  BY DEF ShootInv, TTypeOK, Move, Accounted, TConstants
<1>2. Flushed' = Flushed
  BY <1>1 DEF Flushed
<1>3. \A d \in Cpus : at'[d] \in {"send", "wait"} <=> serialize' = d
  BY <1>1 DEF Accounted
<1>4. serialize # 0 => /\ active'[serialize] = active[serialize] /\ aim'[serialize] = aim[serialize]
                       /\ at'[serialize] = at[serialize]
  BY <1>1
<1> QED BY <1>1, <1>2, <1>3, <1>4 DEF Accounted

LEMMA FillShoot ==
  ASSUME ShootInv, NEW c \in Cpus, NEW v \in VPages, Fill(c, v)
  PROVE  ShootInv'
<1>1. TTypeOK'
  BY DEF ShootInv, TTypeOK, Fill
<1>2. Marked' /\ TConstants'
  BY DEF ShootInv, Marked, TConstants, Fill
<1>3. Accounted'
  BY DEF ShootInv, Accounted, Flushed, Fill
<1>4. Covered'
  <2>1. ASSUME NEW d \in Cpus, NEW e \in tlb'[d]
        PROVE  e \in tlb[d] \/ (d = c /\ e = [pcid |-> pcid[loaded[c]], virt |-> v, val |-> pte[loaded[c]][v]])
    BY <2>1 DEF ShootInv, TTypeOK, Fill
  <2>2. UNCHANGED <<loaded, pcid, pte, at, aim, active, ipi>>
    BY DEF Fill
  <2> QED BY <2>1, <2>2 DEF ShootInv, Covered, Due
<1> QED BY <1>1, <1>2, <1>3, <1>4 DEF ShootInv

LEMMA NewSpaceShoot ==
  ASSUME ShootInv, NEW s \in ASpaces, NewSpace(s)
  PROVE  ShootInv'
<1>1. PcidAlloc \in Nat \ {0}
  <2>1. FreePcids \in SUBSET Nat /\ FreePcids # {} /\ 0 \notin FreePcids
    BY DEF NewSpace, FreePcids
  <2> QED BY <2>1, MinMember DEF PcidAlloc
<1>2. TTypeOK'
  <2>1. pcid' \in [ASpaces -> Nat]
    BY <1>1 DEF ShootInv, TTypeOK, NewSpace
  <2>2. DOMAIN pte' = ASpaces
    BY DEF ShootInv, TTypeOK, NewSpace
  <2>3. ASSUME NEW t \in ASpaces
        PROVE  DOMAIN pte'[t] = VPages
    BY DEF ShootInv, TTypeOK, NewSpace
  <2>4. UNCHANGED <<loaded, tlb, mask, at, aim, active, request, serialize, ipi>>
    BY DEF NewSpace
  <2> QED BY <2>1, <2>2, <2>3, <2>4 DEF ShootInv, TTypeOK
<1>3. /\ pcid[s] = 0 /\ UNCHANGED <<loaded, tlb, mask, at, aim, active, request, serialize, ipi>>
      /\ \A t \in ASpaces \ {s} : pcid'[t] = pcid[t] /\ pte'[t] = pte[t]
      /\ pcid'[s] # 0
  <2>1. \A t \in ASpaces \ {s} : pcid'[t] = pcid[t]
    BY DEF NewSpace, ShootInv, TTypeOK
  <2>2. \A t \in ASpaces \ {s} : pte'[t] = pte[t]
    BY DEF NewSpace, ShootInv, TTypeOK
  <2>3. pcid'[s] # 0
    BY <1>1 DEF NewSpace, ShootInv, TTypeOK
  <2> QED BY <2>1, <2>2, <2>3 DEF NewSpace
<1>4. \A d \in Cpus : loaded[d] # s
  BY <1>3 DEF ShootInv, Marked, TConstants
<1>5. Marked' /\ TConstants'
  BY <1>3, <1>4 DEF ShootInv, TTypeOK, Marked, TConstants
<1>6. Accounted'
  BY <1>3 DEF ShootInv, Accounted, Flushed
<1>7. Covered'
  <2>1. \A d \in Cpus : loaded[d] # 0 => pcid'[loaded[d]] = pcid[loaded[d]] /\ pte'[loaded[d]] = pte[loaded[d]]
    BY <1>3, <1>4 DEF ShootInv, TTypeOK
  <2> QED BY <1>3, <2>1 DEF ShootInv, Covered, Due
<1> QED BY <1>2, <1>5, <1>6, <1>7 DEF ShootInv

LEMMA DropRefShoot ==
  ASSUME ShootInv, NEW s \in ASpaces, DropRef(s)
  PROVE  ShootInv'
<1>1. TTypeOK'
  BY DEF ShootInv, TTypeOK, DropRef
<1>2. /\ UNCHANGED <<loaded, tlb, mask, pte, at, aim, active, request, serialize, ipi>>
      /\ \A t \in ASpaces \ {s} : pcid'[t] = pcid[t]
      /\ \A c \in Cpus : loaded[c] # s /\ (at[c] = "mark" => aim[c] # s)
  BY DEF DropRef, ShootInv, TTypeOK
<1>3. Marked' /\ TConstants'
  BY <1>2 DEF ShootInv, TTypeOK, Marked, TConstants
<1>4. Accounted'
  BY <1>2 DEF ShootInv, Accounted, Flushed
<1>5. Covered'
  <2>1. \A d \in Cpus : loaded[d] # 0 => pcid'[loaded[d]] = pcid[loaded[d]]
    BY <1>2 DEF ShootInv, TTypeOK
  <2> QED BY <1>2, <2>1 DEF ShootInv, Covered, Due
<1> QED BY <1>1, <1>3, <1>4, <1>5 DEF ShootInv

----------------------------------------------------------------------------
\* activate_address_space: the CPU is in the mask before CR3 names the space.
LEMMA ActivateMarkShoot ==
  ASSUME ShootInv, NEW c \in Cpus, NEW s \in ASpaces, ActivateMark(c, s)
  PROVE  ShootInv'
<1>1. TTypeOK'
  BY DEF ShootInv, TTypeOK, ActivateMark, Move
<1>2. /\ UNCHANGED <<loaded, tlb, pcid, pte, active, request, serialize, ipi>>
      /\ mask' = [mask EXCEPT ![s] = @ \cup {c}] /\ at[c] = "run" /\ pcid[s] # 0 /\ loaded[c] # s
      /\ at' = [at EXCEPT ![c] = "mark"] /\ aim' = [aim EXCEPT ![c] = s] /\ Move(c, "mark", s)
  BY DEF ActivateMark, Move
<1>3. TConstants'
  BY DEF ShootInv, TConstants
<1>4. Marked'
  BY <1>2 DEF ShootInv, TTypeOK, Marked, Working
<1>5. Accounted'
  BY <1>2, AccountedFrame
<1>6. Covered'
  <2>1. \A b \in Initiators, d \in Cpus : Due(b, d) => Due(b, d)' /\ aim'[b] = aim[b]
    BY <1>2 DEF ShootInv, TTypeOK, TConstants, Due
  <2> QED BY <1>2, <2>1 DEF ShootInv, Covered
<1> QED BY <1>1, <1>3, <1>4, <1>5, <1>6 DEF ShootInv

\* The CR3 load drops what the CPU had cached under the PCID it loads.
LEMMA ActivateLoadShoot ==
  ASSUME ShootInv, NEW c \in Cpus, ActivateLoad(c)
  PROVE  ShootInv'
<1>1. /\ UNCHANGED <<mask, pcid, pte, active, request, serialize, ipi>>
      /\ loaded' = [loaded EXCEPT ![c] = aim[c]] /\ at[c] = "mark"
      /\ tlb' = [tlb EXCEPT ![c] = {e \in @ : e.pcid # pcid[aim[c]]}]
      /\ at' = [at EXCEPT ![c] = "load"] /\ aim' = [aim EXCEPT ![c] = loaded[c]]
      /\ Move(c, "load", loaded[c])
  BY DEF ActivateLoad, Move
<1>2. aim[c] \in ASpaces /\ c \in mask[aim[c]] /\ pcid[aim[c]] # 0 /\ aim[c] # loaded[c]
  BY <1>1 DEF ShootInv, Marked
<1>3. TTypeOK'
  BY <1>1, <1>2 DEF ShootInv, TTypeOK
<1>4. Marked' /\ TConstants'
  BY <1>1, <1>2 DEF ShootInv, TTypeOK, Marked, TConstants, Working
<1>5. Accounted'
  BY <1>1, AccountedFrame
<1>6. Covered'
  <2>1. \A b \in Initiators, d \in Cpus :
          Due(b, d) => Due(b, d)' /\ aim'[b] = aim[b] /\ loaded'[b] = loaded[b]
    BY <1>1 DEF ShootInv, TTypeOK, TConstants, Due
  <2>2. ASSUME NEW e \in tlb'[c]
        PROVE  e.pcid # pcid'[loaded'[c]]
    BY <1>1, <1>2, <2>2 DEF ShootInv, TTypeOK
  <2>3. \A d \in Cpus \ {c} : tlb'[d] = tlb[d] /\ loaded'[d] = loaded[d]
    BY <1>1 DEF ShootInv, TTypeOK
  <2> QED BY <1>1, <2>1, <2>2, <2>3 DEF ShootInv, Covered
<1> QED BY <1>3, <1>4, <1>5, <1>6 DEF ShootInv

LEMMA ActivateUnmarkShoot ==
  ASSUME ShootInv, NEW c \in Cpus, ActivateUnmark(c)
  PROVE  ShootInv'
<1>1. /\ UNCHANGED <<loaded, tlb, pcid, pte, active, request, serialize, ipi>>
      /\ mask' = IF aim[c] = 0 THEN mask ELSE [mask EXCEPT ![aim[c]] = @ \ {c}]
      /\ at[c] = "load" /\ at' = [at EXCEPT ![c] = "run"] /\ aim' = [aim EXCEPT ![c] = 0]
      /\ Move(c, "run", 0)
  BY DEF ActivateUnmark, Move
<1>2. aim[c] \in ASpaces \cup {0} /\ aim[c] # loaded[c]
  BY <1>1 DEF ShootInv, Marked
<1>3. TTypeOK'
  BY <1>1, <1>2 DEF ShootInv, TTypeOK
<1>4. Marked' /\ TConstants'
  <2>1. \A d \in Cpus, s \in ASpaces : d \in mask[s] => d \in mask'[s] \/ (d = c /\ s = aim[c])
    BY <1>1, <1>2 DEF ShootInv, TTypeOK
  <2> QED BY <1>1, <1>2, <2>1 DEF ShootInv, TTypeOK, Marked, TConstants, Working
<1>5. Accounted'
  BY <1>1, AccountedFrame
<1>6. Covered'
  <2>1. \A b \in Initiators, d \in Cpus : Due(b, d) => Due(b, d)' /\ aim'[b] = aim[b]
    BY <1>1 DEF ShootInv, TTypeOK, TConstants, Due
  <2> QED BY <1>1, <2>1 DEF ShootInv, Covered
<1> QED BY <1>3, <1>4, <1>5, <1>6 DEF ShootInv

----------------------------------------------------------------------------
\* The entry is written first: every CPU with the space loaded is due.
LEMMA RemapShoot ==
  ASSUME ShootInv, NEW c \in Cpus, NEW v \in VPages, Remap(c, v)
  PROVE  ShootInv'
<1>1. /\ UNCHANGED <<loaded, tlb, mask, pcid, active, request, serialize, ipi>>
      /\ c \in Initiators /\ at[c] = "run" /\ loaded[c] # 0 /\ Move(c, "changed", v)
      /\ pte' = [pte EXCEPT ![loaded[c]][v] = last + 1]
      /\ at' = [at EXCEPT ![c] = "changed"] /\ aim' = [aim EXCEPT ![c] = v]
  BY DEF Remap, Move
<1>2. loaded[c] \in ASpaces
  BY <1>1 DEF ShootInv, TTypeOK
<1>3. TTypeOK'
  <2>1. DOMAIN pte' = ASpaces
    BY <1>1 DEF ShootInv, TTypeOK
  <2>2. ASSUME NEW s \in ASpaces
        PROVE  DOMAIN pte'[s] = VPages
    BY <1>1, <1>2 DEF ShootInv, TTypeOK
  <2> QED BY <1>1, <2>1, <2>2 DEF ShootInv, TTypeOK, Working
<1>4. Marked' /\ TConstants'
  BY <1>1 DEF ShootInv, TTypeOK, Marked, TConstants, Working
<1>5. Accounted'
  BY <1>1, AccountedFrame
<1>6. Covered'
  <2>1. \A b \in Initiators, d \in Cpus : Due(b, d) => Due(b, d)' /\ aim'[b] = aim[b]
    BY <1>1 DEF ShootInv, TTypeOK, TConstants, Due
  <2>2. \A d \in Cpus : Due(c, d)' /\ aim'[c] = v
    BY <1>1 DEF ShootInv, TTypeOK, TConstants, Due
  <2>3. \A s \in ASpaces, w \in VPages : pte'[s][w] = pte[s][w] \/ (s = loaded[c] /\ w = v)
    BY <1>1, <1>2 DEF ShootInv, TTypeOK
  <2>4. \A d \in Cpus : loaded[d] # 0 => loaded[d] \in ASpaces
    BY DEF ShootInv, TTypeOK
  <2> QED BY <1>1, <2>1, <2>2, <2>3, <2>4 DEF ShootInv, Covered
<1> QED BY <1>3, <1>4, <1>5, <1>6 DEF ShootInv

\* The mask read after the write holds every CPU that can have the old entry.
LEMMA SnapshotShoot ==
  ASSUME ShootInv, NEW c \in Cpus, Snapshot(c)
  PROVE  ShootInv'
<1>1. /\ UNCHANGED <<loaded, tlb, mask, pcid, pte, request, serialize, ipi>>
      /\ at[c] = "changed" /\ active' = [active EXCEPT ![c] = mask[loaded[c]]]
      /\ at' = [at EXCEPT ![c] = "snapshot"] /\ aim' = [aim EXCEPT ![c] = aim[c]]
      /\ Move(c, "snapshot", aim[c])
  BY DEF Snapshot, Move
<1>2. loaded[c] \in ASpaces
  BY <1>1 DEF ShootInv, TTypeOK, Marked, Working
<1>3. TTypeOK'
  BY <1>1, <1>2 DEF ShootInv, TTypeOK, Working
<1>4. Marked' /\ TConstants'
  BY <1>1 DEF ShootInv, TTypeOK, Marked, TConstants, Working
<1>5. Accounted'
  <2>1. \A d \in Cpus \ {c} : active'[d] = active[d]
    BY <1>1 DEF ShootInv, TTypeOK
  <2> QED BY <1>1, <2>1, AccountedFrame
<1>6. Covered'
  <2>1. \A b \in Initiators, d \in Cpus :
          Due(b, d) /\ loaded[d] = loaded[b] /\ loaded[b] # 0 => Due(b, d)' /\ aim'[b] = aim[b]
    BY <1>1 DEF ShootInv, TTypeOK, TConstants, Due, Marked
  <2> QED BY <1>1, <2>1 DEF ShootInv, Covered
<1> QED BY <1>3, <1>4, <1>5, <1>6 DEF ShootInv

LEMMA FlushLocalShoot ==
  ASSUME ShootInv, NEW c \in Cpus, FlushLocal(c)
  PROVE  ShootInv'
<1>1. /\ UNCHANGED <<loaded, mask, pcid, pte, request, serialize, ipi>>
      /\ at[c] = "snapshot" /\ active' = [active EXCEPT ![c] = @ \ {c}]
      /\ tlb' = [tlb EXCEPT ![c] = @ \ (IF loaded[c] = 0 THEN {} ELSE Of(c, aim[c]))]
  BY DEF FlushLocal, FlushPage
<1>2. PICK l \in {"run", "post"}, x \in {0, aim[c]} :
        /\ Move(c, l, x) /\ (l = "post" => x = aim[c])
        /\ l = "run" => active[c] \ {c} = {}
  BY DEF FlushLocal
<1>3. at' = [at EXCEPT ![c] = l] /\ aim' = [aim EXCEPT ![c] = x]
  BY <1>2 DEF Move
<1>4. TTypeOK'
  BY <1>1, <1>3 DEF ShootInv, TTypeOK, Working
<1>5. Marked' /\ TConstants'
  BY <1>1, <1>3 DEF ShootInv, TTypeOK, Marked, TConstants, Working
<1>6. Accounted'
  <2>1. \A d \in Cpus \ {c} : active'[d] = active[d]
    BY <1>1 DEF ShootInv, TTypeOK
  <2>2. at[c] \notin {"send", "wait", "flushed"} /\ l \notin {"send", "wait", "flushed"}
    BY <1>1
  <2> QED BY <1>1, <1>2, <2>1, <2>2, AccountedFrame
<1>7. Covered'
  <2>1. \A b \in Initiators, d \in Cpus :
          Due(b, d) => (Due(b, d)' /\ aim'[b] = aim[b]) \/ (b = c /\ d = c)
    BY <1>1, <1>2, <1>3 DEF ShootInv, TTypeOK, TConstants, Due
  <2>2. \A d \in Cpus : tlb'[d] \subseteq tlb[d]
    BY <1>1 DEF ShootInv, TTypeOK
  <2>3. \A e \in tlb'[c] : loaded[c] # 0 => ~(e.pcid = pcid[loaded[c]] /\ e.virt = aim[c])
    BY <1>1 DEF ShootInv, TTypeOK, Of
  <2> QED BY <1>1, <2>1, <2>2, <2>3 DEF ShootInv, Covered
<1> QED BY <1>4, <1>5, <1>6, <1>7 DEF ShootInv

\* Without a request there is no IPI and no flush to count: the count is exact.
LEMMA PostShoot ==
  ASSUME ShootInv, NEW c \in Cpus, Post(c)
  PROVE  ShootInv'
<1>1. /\ UNCHANGED <<loaded, tlb, mask, pcid, pte, active, ipi>>
      /\ at[c] = "post" /\ serialize = 0 /\ serialize' = c
      /\ request' = [targets |-> active[c], remaining |-> Cardinality(active[c]), virt |-> aim[c]]
      /\ at' = [at EXCEPT ![c] = "send"] /\ aim' = [aim EXCEPT ![c] = aim[c]]
  BY DEF Post, Move
<1>2. IsFiniteSet(active[c]) /\ Cardinality(active[c]) \in Nat
  BY FS_Subset, FS_CardinalityType DEF ShootInv, TTypeOK, TConstants
<1>3. c \in Initiators /\ ipi = {} /\ Flushed = {}
  BY <1>1 DEF ShootInv, Marked, Working, Accounted
<1>4. TTypeOK'
  BY <1>1, <1>2, <1>3 DEF ShootInv, TTypeOK, Working
<1>5. Marked' /\ TConstants'
  BY <1>1 DEF ShootInv, TTypeOK, Marked, TConstants, Working
<1>6. Accounted'
  <2>1. Flushed' = {}
    BY <1>1, <1>3 DEF ShootInv, TTypeOK, Flushed
  <2>2. \A d \in Cpus : at'[d] \in {"send", "wait"} <=> serialize' = d
    BY <1>1 DEF ShootInv, TTypeOK, TConstants, Accounted
  <2>3. Cardinality({}) = 0
    BY FS_EmptySet
  <2>4. c # 0 /\ aim'[c] = aim[c] /\ at'[c] = "send"
    BY <1>1 DEF ShootInv, TTypeOK, TConstants
  <2> QED BY <1>1, <1>2, <1>3, <2>1, <2>2, <2>3, <2>4 DEF Accounted
<1>7. Covered'
  <2>1. \A b \in Initiators, d \in Cpus : Due(b, d) => Due(b, d)' /\ aim'[b] = aim[b]
    BY <1>1 DEF ShootInv, TTypeOK, TConstants, Due
  <2> QED BY <1>1, <2>1 DEF ShootInv, Covered
<1> QED BY <1>4, <1>5, <1>6, <1>7 DEF ShootInv

\* One IPI: a target leaves the CPUs to send to and joins those to answer.
LEMMA SendShoot ==
  ASSUME ShootInv, NEW c \in Cpus, Send(c)
  PROVE  ShootInv'
<1>1. at[c] = "send" /\ serialize = c /\ c # 0 /\ c \in Initiators
  BY DEF Send, ShootInv, Accounted, TConstants, Marked, Working
<1>2. CASE active[c] = {}
  <2>1. /\ UNCHANGED <<loaded, tlb, mask, pcid, pte, active, request, serialize, ipi>>
        /\ at' = [at EXCEPT ![c] = "wait"] /\ aim' = [aim EXCEPT ![c] = aim[c]]
    BY <1>2 DEF Send, Move
  <2>2. TTypeOK' /\ Marked' /\ TConstants'
    BY <2>1, <1>1 DEF ShootInv, TTypeOK, Marked, TConstants, Working
  <2>3. Accounted'
    <3>1. Flushed' = Flushed
      BY <1>1, <2>1 DEF ShootInv, TTypeOK, Flushed
    <3>2. \A d \in Cpus : at'[d] \in {"send", "wait"} <=> serialize' = d
      BY <1>1, <2>1 DEF ShootInv, TTypeOK, Accounted
    <3>3. aim'[c] = aim[c]
      BY <2>1 DEF ShootInv, TTypeOK
    <3> QED BY <1>1, <1>2, <2>1, <3>1, <3>2, <3>3 DEF ShootInv, Accounted
  <2>4. Covered'
    <3>1. \A b \in Initiators, d \in Cpus : Due(b, d) => Due(b, d)' /\ aim'[b] = aim[b]
      BY <1>1, <1>2, <2>1 DEF ShootInv, TTypeOK, TConstants, Due
    <3> QED BY <2>1, <3>1 DEF ShootInv, Covered
  <2> QED BY <2>2, <2>3, <2>4 DEF ShootInv
<1>3. CASE active[c] # {}
  <2> DEFINE m == Min(active[c])
  <2>1. /\ UNCHANGED <<loaded, tlb, mask, pcid, pte, request, serialize, at, aim>>
        /\ ipi' = ipi \cup {m} /\ active' = [active EXCEPT ![c] = @ \ {m}]
    BY <1>3 DEF Send
  <2>2. m \in active[c] /\ m \in Cpus
    BY <1>3, MinMember DEF ShootInv, TTypeOK, TConstants
  <2> HIDE DEF m
  <2>3. TTypeOK' /\ Marked' /\ TConstants'
    BY <2>1, <2>2 DEF ShootInv, TTypeOK, Marked, TConstants
  <2>4. active'[c] = active[c] \ {m}
    BY <2>1 DEF ShootInv, TTypeOK
  <2>5. Accounted'
    <3>1. m \notin ipi /\ m \notin Flushed /\ m \in request.targets
      BY <1>1, <2>2 DEF ShootInv, Accounted
    <3>2. IsFiniteSet(active[c]) /\ IsFiniteSet(ipi)
      BY FS_Subset DEF ShootInv, TTypeOK, TConstants
    <3>3. Cardinality(active[c] \ {m}) = Cardinality(active[c]) - 1
      BY <2>2, <3>2, FS_RemoveElement
    <3>4. Cardinality(ipi \cup {m}) = Cardinality(ipi) + 1
      BY <3>1, <3>2, FS_AddElement
    <3>5. Cardinality(active[c]) \in Nat /\ Cardinality(ipi) \in Nat /\ Cardinality(Flushed) \in Nat
      BY <3>2, FS_CardinalityType, FS_Subset DEF ShootInv, TConstants, Flushed
    <3>6. Flushed' = Flushed
      BY <2>1 DEF Flushed
    <3>7. /\ (active'[c] \cup ipi') \subseteq request.targets /\ active'[c] \cap ipi' = {}
          /\ (active'[c] \cup ipi') \cap Flushed = {}
      BY <1>1, <2>1, <2>2, <2>4, <3>1 DEF ShootInv, Accounted
    <3>8. request.remaining = Cardinality(active'[c]) + Cardinality(ipi') + Cardinality(Flushed)
      <4>1. request.remaining = Cardinality(active[c]) + Cardinality(ipi) + Cardinality(Flushed)
        BY <1>1 DEF ShootInv, Accounted
      <4>2. Cardinality(active'[c]) = Cardinality(active[c]) - 1
        BY <2>4, <3>3
      <4>3. Cardinality(ipi') = Cardinality(ipi) + 1
        BY <2>1, <3>4
      <4> QED BY <3>5, <4>1, <4>2, <4>3
    <3> QED BY <1>1, <2>1, <3>6, <3>7, <3>8 DEF ShootInv, Accounted
  <2>6. Covered'
    <3>1. \A b \in Initiators, d \in Cpus : Due(b, d) => Due(b, d)'
      BY <1>1, <2>1, <2>4 DEF ShootInv, TTypeOK, TConstants, Due
    <3> QED BY <2>1, <3>1 DEF ShootInv, Covered
  <2> QED BY <2>3, <2>5, <2>6 DEF ShootInv
<1> QED BY <1>2, <1>3

\* A request of which nothing remains has no IPI and no flush outstanding.
LEMMA FinishShoot ==
  ASSUME ShootInv, NEW c \in Cpus, Finish(c)
  PROVE  ShootInv'
<1>1. /\ at[c] = "wait" /\ request.remaining = 0 /\ serialize' = 0
      /\ UNCHANGED <<loaded, tlb, mask, pcid, pte, active, request, ipi>>
      /\ at' = [at EXCEPT ![c] = "run"] /\ aim' = [aim EXCEPT ![c] = 0]
  BY DEF Finish, Move
<1>2. serialize = c /\ c # 0
  BY <1>1 DEF ShootInv, Accounted, TConstants
<1>3. ipi = {} /\ Flushed = {}
  <2>1. IsFiniteSet(active[c]) /\ IsFiniteSet(ipi) /\ IsFiniteSet(Flushed)
    BY FS_Subset DEF ShootInv, TTypeOK, TConstants, Flushed
  <2>2. Cardinality(active[c]) \in Nat /\ Cardinality(ipi) \in Nat /\ Cardinality(Flushed) \in Nat
    BY <2>1, FS_CardinalityType
  <2>3. 0 = Cardinality(active[c]) + Cardinality(ipi) + Cardinality(Flushed)
    BY <1>1, <1>2 DEF ShootInv, Accounted
  <2>4. Cardinality(ipi) = 0 /\ Cardinality(Flushed) = 0
    BY <2>2, <2>3
  <2> QED BY <2>1, <2>4, FS_EmptySet
<1>4. TTypeOK' /\ TConstants'
  BY <1>1 DEF ShootInv, TTypeOK, TConstants
<1>5. Marked'
  BY <1>1 DEF ShootInv, TTypeOK, Marked, Working
<1>6. Accounted'
  <2>1. Flushed' = {}
    BY <1>1, <1>3 DEF ShootInv, TTypeOK, Flushed
  <2>2. \A d \in Cpus : at'[d] \notin {"send", "wait"} /\ d # 0
    BY <1>1, <1>2 DEF ShootInv, TTypeOK, TConstants, Accounted
  <2> QED BY <1>1, <1>3, <2>1, <2>2 DEF Accounted
<1>7. Covered'
  <2>1. \A b \in Initiators, d \in Cpus : Due(b, d) => Due(b, d)' /\ aim'[b] = aim[b]
    BY <1>1, <1>3 DEF ShootInv, TTypeOK, TConstants, Due
  <2>2. UNCHANGED <<loaded, tlb, pcid, pte>> /\ Covered
    BY <1>1 DEF ShootInv
  <2> QED BY <2>1, <2>2 DEF Covered
<1> QED BY <1>4, <1>5, <1>6, <1>7 DEF ShootInv

\* The handler flushes the page of the request before it counts.
LEMMA HandleShoot ==
  ASSUME ShootInv, NEW c \in Cpus, Handle(c)
  PROVE  ShootInv'
<1>1. /\ at[c] = "run" /\ c \in ipi /\ ipi' = ipi \ {c}
      /\ UNCHANGED <<loaded, mask, pcid, pte, active, request, serialize>>
      /\ at' = [at EXCEPT ![c] = "flushed"] /\ aim' = [aim EXCEPT ![c] = 0]
  BY DEF Handle, Move
<1>2. /\ serialize \in Initiators /\ serialize # 0 /\ serialize # c /\ c \in request.targets
      /\ request.virt = aim[serialize] /\ at[serialize] \in {"send", "wait"}
  BY <1>1 DEF ShootInv, TTypeOK, Accounted, TConstants
<1>3. tlb' = [tlb EXCEPT ![c] = @ \ (IF loaded[c] = 0 THEN {} ELSE Of(c, request.virt))]
  BY <1>2 DEF Handle, FlushPage
<1>4. TTypeOK' /\ TConstants'
  BY <1>1, <1>3 DEF ShootInv, TTypeOK, TConstants
<1>5. Marked'
  BY <1>1 DEF ShootInv, TTypeOK, Marked, Working
<1>6. Accounted'
  <2>1. Flushed' = Flushed \cup {c} /\ c \notin Flushed
    BY <1>1 DEF ShootInv, TTypeOK, Flushed
  <2>2. \A d \in Cpus : at'[d] \in {"send", "wait"} <=> serialize' = d
    BY <1>1, <1>2 DEF ShootInv, TTypeOK, TConstants, Accounted
  <2>3. aim'[serialize] = aim[serialize] /\ at'[serialize] = at[serialize]
    BY <1>1, <1>2 DEF ShootInv, TTypeOK, TConstants
  <2>4. /\ IsFiniteSet(ipi) /\ IsFiniteSet(Flushed)
        /\ Cardinality(ipi) \in Nat /\ Cardinality(Flushed) \in Nat
    BY FS_Subset, FS_CardinalityType DEF ShootInv, TTypeOK, TConstants, Flushed
  <2>5. Cardinality(ipi') = Cardinality(ipi) - 1
    BY <1>1, <2>4, FS_RemoveElement
  <2>6. Cardinality(Flushed') = Cardinality(Flushed) + 1
    BY <2>1, <2>4, FS_AddElement
  <2>7. active[serialize] \in SUBSET Cpus /\ IsFiniteSet(Cpus)
    BY <1>2 DEF ShootInv, TTypeOK, TConstants
  <2>8. Cardinality(active[serialize]) \in Nat
    BY <2>7, FS_Subset, FS_CardinalityType
  <2>9. request.remaining = Cardinality(active[serialize]) + Cardinality(ipi') + Cardinality(Flushed')
    <3>1. request.remaining = Cardinality(active[serialize]) + Cardinality(ipi) + Cardinality(Flushed)
      BY <1>2 DEF ShootInv, Accounted
    <3> QED BY <2>4, <2>5, <2>6, <2>8, <3>1
  <2>10. /\ active[serialize] \cup ipi' \subseteq request.targets /\ active[serialize] \cap ipi' = {}
         /\ (active[serialize] \cup ipi') \cap Flushed' = {}
         /\ at[serialize] = "wait" => active[serialize] = {}
    BY <1>1, <1>2, <2>1 DEF ShootInv, Accounted
  <2> QED BY <1>1, <1>2, <2>2, <2>3, <2>9, <2>10 DEF Accounted
<1>7. Covered'
  <2>1. \A b \in Initiators, d \in Cpus :
          Due(b, d) => \/ Due(b, d)' /\ aim'[b] = aim[b]
                       \/ d = c /\ b = serialize
    BY <1>1, <1>2 DEF ShootInv, TTypeOK, TConstants, Due, Accounted
  <2>2. \A d \in Cpus : tlb'[d] \subseteq tlb[d]
    BY <1>3 DEF ShootInv, TTypeOK
  <2>3. \A e \in tlb'[c] : loaded[c] # 0 => ~(e.pcid = pcid[loaded[c]] /\ e.virt = aim[serialize])
    BY <1>2, <1>3 DEF ShootInv, TTypeOK, Of
  <2> QED BY <1>1, <2>1, <2>2, <2>3 DEF ShootInv, Covered
<1> QED BY <1>4, <1>5, <1>6, <1>7 DEF ShootInv

LEMMA CountShoot ==
  ASSUME ShootInv, NEW c \in Cpus, Count(c)
  PROVE  ShootInv'
<1>1. /\ at[c] = "flushed" /\ request' = [request EXCEPT !.remaining = @ - 1]
      /\ UNCHANGED <<loaded, tlb, mask, pcid, pte, active, serialize, ipi>>
      /\ at' = [at EXCEPT ![c] = "run"] /\ aim' = [aim EXCEPT ![c] = 0]
  BY DEF Count, Move
<1>2. c \in Flushed /\ serialize \in Initiators /\ serialize # 0 /\ serialize # c
  BY <1>1 DEF ShootInv, TTypeOK, Accounted, TConstants, Flushed
<1>3. /\ request'.targets = request.targets /\ request'.virt = request.virt
      /\ request'.remaining = request.remaining - 1
  BY <1>1 DEF ShootInv, TTypeOK
<1>4. TTypeOK' /\ TConstants'
  <2>1. request' = [targets |-> request.targets, remaining |-> request.remaining - 1, virt |-> request.virt]
    BY <1>1 DEF ShootInv, TTypeOK
  <2>2. /\ at' \in [Cpus -> Working \cup {"run", "mark", "load", "flushed"}]
        /\ DOMAIN aim' = Cpus /\ aim' = [d \in Cpus |-> aim'[d]]
    BY <1>1 DEF ShootInv, TTypeOK
  <2> QED BY <1>1, <1>3, <2>1, <2>2 DEF ShootInv, TTypeOK, TConstants
<1>5. Marked'
  BY <1>1 DEF ShootInv, TTypeOK, Marked, Working
<1>6. Accounted'
  <2>1. Flushed' = Flushed \ {c}
    BY <1>1 DEF ShootInv, TTypeOK, Flushed
  <2>2. \A d \in Cpus : at'[d] \in {"send", "wait"} <=> serialize' = d
    BY <1>1, <1>2 DEF ShootInv, TTypeOK, TConstants, Accounted
  <2>3. aim'[serialize] = aim[serialize] /\ at'[serialize] = at[serialize]
    BY <1>1, <1>2 DEF ShootInv, TTypeOK, TConstants
  <2>4. /\ IsFiniteSet(Flushed)
        /\ Cardinality(ipi) \in Nat /\ Cardinality(Flushed) \in Nat
    BY FS_Subset, FS_CardinalityType DEF ShootInv, TTypeOK, TConstants, Flushed
  <2>5. Cardinality(Flushed') = Cardinality(Flushed) - 1
    BY <1>2, <2>1, <2>4, FS_RemoveElement
  <2>6. active[serialize] \in SUBSET Cpus /\ IsFiniteSet(Cpus)
    BY <1>2 DEF ShootInv, TTypeOK, TConstants
  <2>7. Cardinality(active[serialize]) \in Nat
    BY <2>6, FS_Subset, FS_CardinalityType
  <2>8. request'.remaining = Cardinality(active[serialize]) + Cardinality(ipi) + Cardinality(Flushed')
    <3>1. request.remaining = Cardinality(active[serialize]) + Cardinality(ipi) + Cardinality(Flushed)
      BY <1>2 DEF ShootInv, Accounted
    <3> QED BY <1>3, <2>4, <2>5, <2>7, <3>1
  <2>9. /\ active[serialize] \cup ipi \subseteq request.targets /\ active[serialize] \cap ipi = {}
        /\ (active[serialize] \cup ipi) \cap Flushed' = {} /\ request.virt = aim[serialize]
        /\ at[serialize] = "wait" => active[serialize] = {}
    BY <1>1, <1>2, <2>1 DEF ShootInv, Accounted
  <2> QED BY <1>1, <1>2, <1>3, <2>2, <2>3, <2>8, <2>9 DEF Accounted
<1>7. Covered'
  <2>1. \A b \in Initiators, d \in Cpus : Due(b, d) => Due(b, d)' /\ aim'[b] = aim[b]
    BY <1>1 DEF ShootInv, TTypeOK, TConstants, Due
  <2> QED BY <1>1, <2>1 DEF ShootInv, Covered
<1> QED BY <1>4, <1>5, <1>6, <1>7 DEF ShootInv

----------------------------------------------------------------------------
LEMMA ShootInvariant == TConstants /\ TSpec => []ShootInv
<1>1. TConstants /\ TInit => ShootInv
  BY InitShoot
<1>2. ShootInv /\ [TNext]_tvars => ShootInv'
  <2> SUFFICES ASSUME ShootInv, [TNext]_tvars
               PROVE  ShootInv'
    OBVIOUS
  <2>1. CASE UNCHANGED tvars
    <3>1. TConstants' /\ TTypeOK'
      BY <2>1 DEF tvars, ShootInv, TConstants, TTypeOK
    <3>2. Marked' /\ Accounted'
      BY <2>1 DEF tvars, ShootInv, Marked, Accounted, Flushed
    <3>3. Covered'
      BY <2>1 DEF tvars, ShootInv, Covered, Due
    <3> QED BY <3>1, <3>2, <3>3 DEF ShootInv
  <2>2. ASSUME NEW c \in Cpus, ActivateLoad(c) \/ ActivateUnmark(c) \/ Snapshot(c) \/ FlushLocal(c)
        PROVE  ShootInv'
    BY <2>2, ActivateLoadShoot, ActivateUnmarkShoot, SnapshotShoot, FlushLocalShoot
  <2>3. ASSUME NEW c \in Cpus, Post(c) \/ Send(c) \/ Finish(c) \/ Handle(c) \/ Count(c)
        PROVE  ShootInv'
    BY <2>3, PostShoot, SendShoot, FinishShoot, HandleShoot, CountShoot
  <2>4. ASSUME NEW c \in Cpus, NEW v \in VPages, Fill(c, v) \/ Remap(c, v)
        PROVE  ShootInv'
    BY <2>4, FillShoot, RemapShoot
  <2>5. ASSUME NEW s \in ASpaces, \/ \E c \in Cpus : ActivateMark(c, s)
                                  \/ NewSpace(s) \/ DropRef(s)
        PROVE  ShootInv'
    BY <2>5, ActivateMarkShoot, NewSpaceShoot, DropRefShoot
  <2> QED BY <2>1, <2>2, <2>3, <2>4, <2>5 DEF TNext, Kernel
<1> QED BY <1>1, <1>2, PTL DEF TSpec

\* For any number of CPUs, spaces, pages and initiators: once a shootdown has
\* returned no CPU translates through the entry it replaced, whatever switches,
\* fills and IPIs came between (activate_address_space, shootdown_page,
\* shootdown_handler).
THEOREM ShootNoStaleTranslation == TConstants /\ TSpec => []NoStaleTranslation
<1>1. ShootInv => NoStaleTranslation
  <2> SUFFICES ASSUME ShootInv, NEW d \in Cpus, loaded[d] # 0, NEW v \in VPages, NEW e \in Of(d, v),
                      e.val # pte[loaded[d]][v]
               PROVE  Changing(loaded[d], v)
    BY DEF NoStaleTranslation
  <2>1. e \in tlb[d] /\ e.pcid = pcid[loaded[d]] /\ e.virt = v
    BY DEF Of
  <2>2. PICK c \in Initiators : loaded[c] = loaded[d] /\ aim[c] = v /\ Due(c, d)
    BY <2>1 DEF ShootInv, Covered
  <2> QED BY <2>2 DEF Changing, Due
<1> QED BY <1>1, ShootInvariant, PTL

\* The count an initiator waits for is exactly the answers it is still owed,
\* for any number of CPUs (PENDING_SHOOTDOWN.remaining).
THEOREM ShootAnsweredOnce == TConstants /\ TSpec => []AnsweredOnce
<1>1. ShootInv => AnsweredOnce
  <2> SUFFICES ASSUME ShootInv, NEW c \in Initiators, at[c] = "wait"
               PROVE  request.remaining = Cardinality(ipi) + Cardinality(Flushed)
    BY DEF AnsweredOnce, Flushed
  <2>1. /\ active[c] = {}
        /\ request.remaining = Cardinality(active[c]) + Cardinality(ipi) + Cardinality(Flushed)
    BY DEF ShootInv, Accounted, TConstants
  <2>2. Cardinality(ipi) \in Nat /\ Cardinality(Flushed) \in Nat
    BY FS_Subset, FS_CardinalityType DEF ShootInv, TTypeOK, TConstants, Flushed
  <2> QED BY <2>1, <2>2, FS_EmptySet
<1> QED BY <1>1, ShootInvariant, PTL

\* Both together: what the kernel's callers of shootdown_page rely on, for any
\* number of CPUs, spaces, pages and initiators.
THEOREM ShootdownIsSound == TConstants /\ TSpec => []ShootdownSound
BY ShootNoStaleTranslation, ShootAnsweredOnce, PTL DEF ShootdownSound

----------------------------------------------------------------------------
(* Signals *)

\* The signals are numbers, the three the kernel raises itself among them.
SigConstants ==
  /\ Signums \in SUBSET Nat /\ Caught \in SUBSET Signums /\ SIGCHLD \in Signums
  /\ SIGKILL \in Signums /\ SIGTERM \in Signums /\ SFirst \in SProcs

\* Programs that keep to what the one saved context and the one slot of the CPU
\* allow: a process with a handler does not sleep in the kernel, and a handler
\* does not fork.
TidyPrograms == TidySleep = TRUE /\ "fork" \notin HandlerCalls

Contexts == [where : {"main", "handler", "none"}, at : Int]
Processes ==
  [st : {"unborn", "run", "sleep", "dead"}, parent : SProcs, pend : SUBSET Signums,
   act : [Signums -> {"default", "ignore", "handler"}],
   frame : Contexts, ctx : Contexts, kctx : Contexts, code : Int]
Tables == [SProcs -> Processes]

STypeOK == proc \in Tables /\ slot \in Contexts /\ steps \in [SProcs -> Int]

\* a process with nothing pending before it is born
Unborn(P) == \A p \in SProcs : P[p].st = "unborn" => P[p].pend = {}

\* The context is the main program's, n steps on, and no frame is in use; or a
\* handler's, and the frame holds the main program's.
Settled(ctx, frame, n) ==
  \/ ctx = Main(n) /\ frame = NoFrame
  \/ ctx.where = "handler" /\ frame = Main(n)

Kept(r, n) ==
  TidyPrograms =>
  /\ r.st = "run" => Settled(r.ctx, r.frame, n)
  /\ r.st = "sleep" => Settled(r.kctx, r.frame, n) /\ \A s \in Signums : r.act[s] # "handler"

AllKept(P, n) == \A p \in SProcs : Kept(P[p], n[p])

TypeInv == SigConstants /\ STypeOK /\ Unborn(proc)
SigInv == TypeInv /\ AllKept(proc, steps)

----------------------------------------------------------------------------
\* ... which Min finds.
LEMMA MinLeast ==
  ASSUME NEW T \in SUBSET Nat, T # {}
  PROVE  Min(T) \in T /\ \A n \in T : Min(T) <= n
BY LeastNumber DEF Min

\* What raise does to a table.
LEMMA RaiseTable ==
  ASSUME SigConstants, NEW P \in Tables, NEW p \in SProcs, NEW s \in Signums
  PROVE  /\ Raise(P, p, s) \in Tables
         /\ \A q \in SProcs : /\ P[q].pend \subseteq Raise(P, p, s)[q].pend
                              /\ q # p => Raise(P, p, s)[q] = P[q]
         /\ Raise(P, p, s)[p] = [P[p] EXCEPT !.pend = @ \cup {s}]
BY DEF Raise, Tables, Processes

\* Exit ends the process, and raises SIGCHLD for another at most.
LEMMA ExitTable ==
  ASSUME SigConstants, NEW P \in Tables, NEW p \in SProcs, NEW code \in Int
  PROVE  /\ Exit(P, p, code) \in Tables /\ Exit(P, p, code)[p].st = "dead"
         /\ \A q \in SProcs : /\ P[q].pend \subseteq Exit(P, p, code)[q].pend
                              /\ q # p => \/ Exit(P, p, code)[q] = P[q]
                                          \/ /\ Exit(P, p, code)[q] = [P[q] EXCEPT !.pend = @ \cup {SIGCHLD}]
                                             /\ P[q].st \in {"run", "sleep"}
<1> DEFINE Q == [P EXCEPT ![p].st = "dead", ![p].code = code]
<1>1. /\ Q \in Tables /\ Q[p].st = "dead" /\ Q[p].pend = P[p].pend
      /\ \A q \in SProcs : q # p => Q[q] = P[q]
  <2>1. Q = [P EXCEPT ![p] = [P[p] EXCEPT !.st = "dead", !.code = code]]
    BY DEF Tables
  <2>2. P[p] \in Processes
    BY DEF Tables
  <2>3. /\ [P[p] EXCEPT !.st = "dead", !.code = code] \in Processes
        /\ [P[p] EXCEPT !.st = "dead", !.code = code].st = "dead"
        /\ [P[p] EXCEPT !.st = "dead", !.code = code].pend = P[p].pend
    BY <2>2 DEF Processes
  <2> QED BY <2>1, <2>3 DEF Tables
<1>2. Exit(P, p, code) = IF Q[Q[p].parent].st \in {"run", "sleep"} THEN Raise(Q, Q[p].parent, SIGCHLD) ELSE Q
  BY DEF Exit
<1>3. Q[p].parent \in SProcs
  BY <1>1 DEF Tables, Processes
<1> HIDE DEF Q
<1>4. CASE ~(Q[Q[p].parent].st \in {"run", "sleep"})
  BY <1>1, <1>2, <1>4
<1>5. CASE Q[Q[p].parent].st \in {"run", "sleep"}
  <2>1. Q[p].parent # p
    BY <1>1, <1>5
  <2>2. /\ Raise(Q, Q[p].parent, SIGCHLD) \in Tables
        /\ \A q \in SProcs : /\ Q[q].pend \subseteq Raise(Q, Q[p].parent, SIGCHLD)[q].pend
                             /\ q # Q[p].parent => Raise(Q, Q[p].parent, SIGCHLD)[q] = Q[q]
        /\ Raise(Q, Q[p].parent, SIGCHLD)[Q[p].parent] = [Q[Q[p].parent] EXCEPT !.pend = @ \cup {SIGCHLD}]
    BY <1>1, <1>3, RaiseTable DEF SigConstants
  <2> QED BY <1>1, <1>2, <1>3, <1>5, <2>1, <2>2
<1> QED BY <1>4, <1>5

\* What a delivery may do: nothing, end the process, enter the handler with the
\* context it was given in the frame, or take a signal that is ignored.
Ended(P, p, D, s) ==
  /\ D[p].st = "dead"
  /\ \A q \in SProcs \ {p} :
       /\ P[q].pend \subseteq D[q].pend
       /\ \/ D[q] = P[q]
          \/ D[q] = [P[q] EXCEPT !.pend = @ \cup {SIGCHLD}] /\ P[q].st \in {"run", "sleep"}

Taken(P, p, saved, D, s) ==
  /\ s # SIGKILL /\ \A q \in SProcs \ {p} : D[q] = P[q]
  /\ D[p].st = "run" /\ D[p].pend = P[p].pend \ {s} /\ D[p].act = P[p].act
  /\ \/ P[p].act[s] = "handler" /\ D[p].frame = saved /\ D[p].ctx = Handler(s)
     \/ P[p].act[s] # "handler" /\ D[p].frame = NoFrame /\ D[p].ctx = P[p].ctx

Delivered(P, p, saved, D, s) ==
  /\ P[p].st = "run" /\ P[p].frame = NoFrame /\ s \in P[p].pend /\ D \in Tables
  /\ Ended(P, p, D, s) \/ Taken(P, p, saved, D, s)

LEMMA DeliverTable ==
  ASSUME SigConstants, NEW P \in Tables, NEW p \in SProcs, NEW saved \in Contexts
  PROVE  \/ Deliver(P, p, saved) = P
         \/ Delivered(P, p, saved, Deliver(P, p, saved), Min(P[p].pend))
<1> SUFFICES ASSUME NEW D, D = Deliver(P, p, saved), NEW s, s = Min(P[p].pend)
             PROVE  D = P \/ Delivered(P, p, saved, D, s)
  OBVIOUS
<1> DEFINE Q == [P EXCEPT ![p].pend = @ \ {s}]
<1>1. CASE P[p].st # "run" \/ P[p].frame # NoFrame \/ P[p].pend = {}
  BY <1>1 DEF Deliver
<1>2. CASE ~(P[p].st # "run" \/ P[p].frame # NoFrame \/ P[p].pend = {})
  <2>1. P[p] \in Processes /\ P[p].pend \in SUBSET Nat
    BY DEF Tables, Processes, SigConstants
  <2>2. s \in P[p].pend /\ s \in Signums /\ s \in Int
    BY <1>2, <2>1, MinLeast DEF Processes, SigConstants
  <2>3. D = CASE Decide(Q[p], s) = "terminate" -> Exit(Q, p, -s)
              [] Decide(Q[p], s) = "deliver"   -> Enter(Q, p, s, saved)
              [] OTHER -> Q
    BY <1>2 DEF Deliver
  <2>4. Q \in Tables /\ Q[p] = [P[p] EXCEPT !.pend = @ \ {s}] /\ \A q \in SProcs \ {p} : Q[q] = P[q]
    BY <2>1 DEF Tables, Processes
  <2>5. Q[p].st = "run" /\ Q[p].frame = NoFrame /\ Q[p].act = P[p].act /\ Q[p].ctx = P[p].ctx
        /\ Q[p].pend = P[p].pend \ {s}
    BY <1>2, <2>1, <2>4 DEF Processes
  <2> HIDE DEF Q
  <2>6. CASE Decide(Q[p], s) = "terminate"
    <3>1. D = Exit(Q, p, -s) /\ -s \in Int
      BY <2>2, <2>3, <2>6
    <3>2. /\ D \in Tables /\ D[p].st = "dead"
          /\ \A q \in SProcs : /\ Q[q].pend \subseteq D[q].pend
                               /\ q # p => \/ D[q] = Q[q]
                                           \/ /\ D[q] = [Q[q] EXCEPT !.pend = @ \cup {SIGCHLD}]
                                              /\ Q[q].st \in {"run", "sleep"}
      BY <2>4, <3>1, ExitTable
    <3> QED BY <1>2, <2>2, <2>4, <2>5, <3>2 DEF Delivered, Ended
  <2>7. CASE Decide(Q[p], s) = "deliver"
    <3>1. D = [Q EXCEPT ![p].frame = saved, ![p].ctx = Handler(s)] /\ s # SIGKILL /\ Q[p].act[s] = "handler"
      BY <2>3, <2>7 DEF Enter, Decide
    <3>2. Handler(s) \in Contexts
      BY <2>2 DEF Handler, Contexts
    <3>3. D = [Q EXCEPT ![p] = [Q[p] EXCEPT !.frame = saved, !.ctx = Handler(s)]] /\ Q[p] \in Processes
      BY <2>4, <3>1 DEF Tables
    <3>4. [Q[p] EXCEPT !.frame = saved, !.ctx = Handler(s)] \in Processes
      BY <3>2, <3>3 DEF Processes
    <3>5. D \in Tables /\ D[p] = [Q[p] EXCEPT !.frame = saved, !.ctx = Handler(s)] /\ \A q \in SProcs \ {p} : D[q] = Q[q]
      BY <2>4, <3>3, <3>4 DEF Tables
    <3>6. /\ D[p].st = "run" /\ D[p].pend = P[p].pend \ {s} /\ D[p].act = P[p].act
          /\ D[p].frame = saved /\ D[p].ctx = Handler(s)
      <4>1. ASSUME NEW r \in Processes, NEW e, e = [r EXCEPT !.frame = saved, !.ctx = Handler(s)]
            PROVE  /\ e.st = r.st /\ e.pend = r.pend /\ e.act = r.act
                   /\ e.frame = saved /\ e.ctx = Handler(s)
        BY <4>1 DEF Processes
      <4>2. /\ D[p].st = Q[p].st /\ D[p].pend = Q[p].pend /\ D[p].act = Q[p].act
            /\ D[p].frame = saved /\ D[p].ctx = Handler(s)
        BY <3>3, <3>5, <4>1, Zenon
      <4> QED BY <2>5, <4>2
    <3>7. s # SIGKILL /\ P[p].act[s] = "handler"
      BY <2>5, <3>1, Zenon
    <3>8. \A q \in SProcs \ {p} : D[q] = P[q]
      BY <2>4, <3>5, Zenon
    <3>9. Taken(P, p, saved, D, s)
      BY <3>6, <3>7, <3>8, Zenon DEF Taken
    <3>10. P[p].st = "run" /\ P[p].frame = NoFrame /\ s \in P[p].pend /\ D \in Tables
      BY <1>2, <2>2, <3>5, Zenon
    <3> QED BY <3>9, <3>10, Zenon DEF Delivered
  <2>8. CASE Decide(Q[p], s) \notin {"terminate", "deliver"}
    <3>1. D = Q /\ s # SIGKILL /\ Q[p].act[s] # "handler"
      BY <2>3, <2>8 DEF Decide
    <3> QED BY <1>2, <2>2, <2>4, <2>5, <3>1 DEF Delivered, Taken
  <2> QED BY <2>6, <2>7, <2>8
<1> QED BY <1>1, <1>2

----------------------------------------------------------------------------
\* A delivery keeps every context when the one it saves is the process's own,
\* or when the process has no handler to enter.
LEMMA DeliverKept ==
  ASSUME SigConstants, NEW P \in Tables, NEW p \in SProcs, NEW saved \in Contexts, NEW n,
         AllKept(P, n), Unborn(P),
         TidyPrograms => saved = P[p].ctx \/ \A s \in Signums : P[p].act[s] # "handler"
  PROVE  /\ Deliver(P, p, saved) \in Tables /\ AllKept(Deliver(P, p, saved), n)
         /\ Unborn(Deliver(P, p, saved))
<1> DEFINE D == Deliver(P, p, saved)
           m == Min(P[p].pend)
<1>1. CASE D = P
  BY <1>1
<1>2. CASE D # P
  <2>1. Delivered(P, p, saved, D, m)
    BY <1>2, DeliverTable, Zenon
  <2> HIDE DEF D, m
  <2>2. ASSUME NEW q \in SProcs, q # p
        PROVE  Kept(D[q], n[q]) /\ (D[q].st = "unborn" => D[q].pend = {})
    <3>1. P[q] \in Processes /\ Kept(P[q], n[q]) /\ (P[q].st = "unborn" => P[q].pend = {})
      BY DEF Tables, AllKept, Unborn
    <3>2. CASE D[q] = P[q]
      BY <3>1, <3>2
    <3>3. CASE D[q] = [P[q] EXCEPT !.pend = @ \cup {SIGCHLD}] /\ P[q].st \in {"run", "sleep"}
      <4>1. /\ D[q].st = P[q].st /\ D[q].ctx = P[q].ctx /\ D[q].kctx = P[q].kctx
            /\ D[q].frame = P[q].frame /\ D[q].act = P[q].act
        BY <3>1, <3>3 DEF Processes
      <4> QED BY <3>1, <3>3, <4>1 DEF Kept
    <3> QED BY <2>1, <2>2, <3>2, <3>3 DEF Delivered, Ended, Taken
  <2>3. Kept(D[p], n[p]) /\ D[p].st # "unborn"
    <3>1. CASE D[p].st = "dead"
      BY <3>1 DEF Kept
    <3>2. CASE D[p].st = "run"
      <4>1. TidyPrograms => P[p].ctx = Main(n[p])
        BY <2>1 DEF Delivered, AllKept, Kept, Settled, NoFrame, Main
      <4>2. m \in Signums
        BY <2>1 DEF Delivered, Tables, Processes
      <4>3. CASE P[p].act[m] = "handler"
        BY <2>1, <3>2, <4>1, <4>2, <4>3 DEF Delivered, Ended, Taken, Kept, Settled, Handler
      <4>4. CASE P[p].act[m] # "handler"
        BY <2>1, <3>2, <4>1, <4>4 DEF Delivered, Ended, Taken, Kept, Settled
      <4> QED BY <4>3, <4>4
    <3> QED BY <2>1, <3>1, <3>2 DEF Delivered, Ended, Taken
  <2>4. D \in Tables /\ AllKept(D, n) /\ Unborn(D)
    BY <2>1, <2>2, <2>3 DEF Delivered, AllKept, Unborn
  <2> QED BY <2>4 DEF D
<1> QED BY <1>1, <1>2

LEMMA InitSig ==
  ASSUME SigConstants, SInit
  PROVE  SigInv
<1>1. Main(0) \in Contexts /\ NoFrame \in Contexts /\ Defaults \in [Signums -> {"default", "ignore", "handler"}]
  BY DEF Main, NoFrame, Contexts, Defaults
<1>2. STypeOK
  BY <1>1 DEF SInit, STypeOK, Tables, Processes, SigConstants
<1>3. Unborn(proc) /\ AllKept(proc, steps)
  BY DEF SInit, Unborn, AllKept, Kept, Settled
<1> QED BY <1>2, <1>3 DEF SigInv, TypeInv

\* A system call that does not sleep: its own change, then the delivery of its
\* return path with the caller's context in the slot.
LEMMA ReturnSig ==
  ASSUME SigInv, NEW p \in SProcs, NEW P \in Tables, Return(p, P), P[p].ctx = proc[p].ctx,
         AllKept(P, steps'), Unborn(P), steps' \in [SProcs -> Int]
  PROVE  SigInv'
<1>1. proc[p].ctx \in Contexts
  BY DEF SigInv, TypeInv, STypeOK, Tables, Processes
<1>2. proc' = Deliver(P, p, proc[p].ctx) /\ slot' = proc[p].ctx
  BY DEF Return, OnSyscallReturn
<1>3. proc' \in Tables /\ AllKept(proc', steps') /\ Unborn(proc')
  BY <1>1, <1>2, DeliverKept DEF SigInv, TypeInv
<1>4. SigConstants'
  BY DEF SigInv, TypeInv, SigConstants
<1>5. AllKept(proc, steps)' /\ Unborn(proc)'
  BY <1>3 DEF AllKept, Kept, TidyPrograms, Unborn
<1> QED BY <1>1, <1>2, <1>3, <1>4, <1>5 DEF SigInv, TypeInv, STypeOK

\* A table that differs in one process.
LEMMA OneProcess ==
  ASSUME NEW P \in Tables, NEW p \in SProcs, NEW r \in Processes, NEW n, NEW m,
         AllKept(P, n), Unborn(P), Kept(r, m[p]), r.st # "unborn", \A q \in SProcs \ {p} : m[q] = n[q]
  PROVE  [P EXCEPT ![p] = r] \in Tables /\ AllKept([P EXCEPT ![p] = r], m) /\ Unborn([P EXCEPT ![p] = r])
BY DEF Tables, AllKept, Unborn

\* The invariant from its parts in the next state.
LEMMA NextSig ==
  ASSUME SigInv, proc' \in Tables, AllKept(proc', steps'), Unborn(proc'),
         slot' \in Contexts, steps' \in [SProcs -> Int]
  PROVE  SigInv'
<1>1. SigConstants'
  BY DEF SigInv, TypeInv, SigConstants
<1>2. AllKept(proc, steps)' /\ Unborn(proc)'
  BY DEF AllKept, Kept, TidyPrograms, Unborn
<1> QED BY <1>1, <1>2 DEF SigInv, TypeInv, STypeOK

LEMMA SigactionSig ==
  ASSUME SigInv, NEW p \in SProcs, NEW s \in Caught, NEW a \in {"default", "ignore", "handler"}, Sigaction(p, s, a)
  PROVE  SigInv'
<1> DEFINE r == [proc[p] EXCEPT !.act[s] = a]
           P == [proc EXCEPT ![p] = r]
<1>1. proc[p] \in Processes /\ proc \in Tables /\ s \in Signums /\ AllKept(proc, steps) /\ Unborn(proc)
      /\ steps \in [SProcs -> Int]
  BY DEF SigInv, TypeInv, STypeOK, SigConstants, Tables
<1>2. /\ r \in Processes /\ r.st = proc[p].st /\ r.ctx = proc[p].ctx /\ r.frame = proc[p].frame
  BY <1>1 DEF Processes
<1>3. proc[p].st = "run" /\ steps' = steps
  BY DEF Sigaction, MayCall, Runs
<1>4. Kept(r, steps[p])
  BY <1>1, <1>2, <1>3 DEF AllKept, Kept
<1>5. [proc EXCEPT ![p].act[s] = a] = P
  BY <1>1 DEF Tables
<1>6. Return(p, P)
  BY <1>5 DEF Sigaction
<1> HIDE DEF r
<1>7. P \in Tables /\ AllKept(P, steps) /\ Unborn(P) /\ P[p] = r
  BY <1>1, <1>2, <1>3, <1>4, OneProcess DEF Tables
<1> HIDE DEF P
<1> QED BY <1>1, <1>2, <1>3, <1>6, <1>7, ReturnSig

LEMMA KillSig ==
  ASSUME SigInv, NEW p \in SProcs, NEW q \in SProcs, NEW s \in Signums, Kill(p, q, s)
  PROVE  SigInv'
<1> DEFINE P == Raise(proc, q, s)
<1>1. proc[q] \in Processes /\ proc \in Tables /\ AllKept(proc, steps) /\ Unborn(proc) /\ SigConstants
      /\ steps \in [SProcs -> Int]
  BY DEF SigInv, TypeInv, STypeOK, Tables
<1>2. P \in Tables /\ P[q] = [proc[q] EXCEPT !.pend = @ \cup {s}] /\ \A x \in SProcs \ {q} : P[x] = proc[x]
  BY <1>1, RaiseTable
<1>3. proc[q].st # "unborn" /\ steps' = steps /\ Return(p, P)
  BY DEF Kill
<1> HIDE DEF P
<1>4. /\ P[q].st = proc[q].st /\ P[q].ctx = proc[q].ctx /\ P[q].kctx = proc[q].kctx
      /\ P[q].frame = proc[q].frame /\ P[q].act = proc[q].act
  BY <1>1, <1>2 DEF Processes
<1>5. Kept(P[q], steps[q])
  BY <1>1, <1>4 DEF AllKept, Kept
<1>6. AllKept(P, steps) /\ Unborn(P) /\ P[p].ctx = proc[p].ctx
  BY <1>1, <1>2, <1>3, <1>4, <1>5 DEF AllKept, Unborn
<1> QED BY <1>1, <1>2, <1>3, <1>6, ReturnSig

\* A process that forks is not in a handler, so the child starts in the main
\* program with its parent's place in it.
LEMMA ForkSig ==
  ASSUME SigInv, NEW p \in SProcs, NEW q \in SProcs, SigFork(p, q)
  PROVE  SigInv'
<1> DEFINE r == [proc[p] EXCEPT !.parent = p, !.pend = {}, !.frame = NoFrame]
           P == [proc EXCEPT ![q] = r]
<1>1. proc[p] \in Processes /\ proc \in Tables /\ AllKept(proc, steps) /\ Unborn(proc)
      /\ steps \in [SProcs -> Int]
  BY DEF SigInv, TypeInv, STypeOK, Tables
<1>2. /\ proc[p].st = "run" /\ proc[q].st = "unborn" /\ steps' = [steps EXCEPT ![q] = steps[p]]
      /\ Return(p, P) /\ (TidyPrograms => proc[p].ctx.where # "handler")
  <2>1. Return(p, P) /\ steps' = [steps EXCEPT ![q] = steps[p]]
    BY Zenon DEF SigFork
  <2>2. proc[p].st = "run" /\ proc[q].st = "unborn" /\ (TidyPrograms => proc[p].ctx.where # "handler")
    BY Zenon DEF SigFork, MayCall, Runs, SigInv, TidyPrograms
  <2> QED BY <2>1, <2>2
<1>3. r \in Processes /\ r.st = proc[p].st /\ r.ctx = proc[p].ctx /\ r.frame = NoFrame
  <2>1. NoFrame \in Contexts
    BY DEF NoFrame, Contexts
  <2> QED BY <1>1, <2>1 DEF Processes
<1>4. TidyPrograms => proc[p].ctx = Main(steps[p])
  BY <1>1, <1>2 DEF AllKept, Kept, Settled
<1> HIDE DEF r
<1>5. Kept(r, steps'[q]) /\ p # q /\ \A x \in SProcs \ {q} : steps'[x] = steps[x]
  BY <1>1, <1>2, <1>3, <1>4 DEF Kept, Settled
<1>6. P \in Tables /\ AllKept(P, steps') /\ Unborn(P)
  BY <1>1, <1>2, <1>3, <1>5, OneProcess
<1>7. P[p] = proc[p] /\ steps' \in [SProcs -> Int]
  BY <1>1, <1>2, <1>5 DEF Tables
<1> HIDE DEF P
<1> QED BY <1>1, <1>2, <1>6, <1>7, ReturnSig

LEMMA ExecveFailsSig ==
  ASSUME SigInv, NEW p \in SProcs, ExecveFails(p)
  PROVE  SigInv'
<1>1. Return(p, proc) /\ steps' = steps
  BY DEF ExecveFails
<1>2. proc \in Tables /\ AllKept(proc, steps) /\ Unborn(proc) /\ steps \in [SProcs -> Int]
  BY DEF SigInv, TypeInv, STypeOK
<1> QED BY <1>1, <1>2, ReturnSig

\* The new image starts at its beginning, without a frame.
LEMMA ExecveSig ==
  ASSUME SigInv, NEW p \in SProcs, Execve(p)
  PROVE  SigInv'
<1> DEFINE r == [proc[p] EXCEPT !.act = Defaults, !.frame = NoFrame, !.pend = {}, !.ctx = Main(0)]
<1>1. /\ proc[p] \in Processes /\ proc \in Tables /\ AllKept(proc, steps) /\ Unborn(proc)
      /\ steps \in [SProcs -> Int] /\ proc[p].ctx \in Contexts
  BY DEF SigInv, TypeInv, STypeOK, Tables, Processes
<1>2. /\ proc[p].st = "run" /\ steps' = [steps EXCEPT ![p] = 0] /\ slot' = proc[p].ctx
      /\ proc' = [proc EXCEPT ![p].act = Defaults, ![p].frame = NoFrame, ![p].pend = {}, ![p].ctx = Main(0)]
  BY DEF Execve, MayCall, Runs
<1>3. proc' = [proc EXCEPT ![p] = r]
  BY <1>1, <1>2 DEF Tables
<1>4. r \in Processes /\ r.st = proc[p].st /\ r.ctx = Main(0) /\ r.frame = NoFrame
  <2>1. NoFrame \in Contexts /\ Main(0) \in Contexts /\ Defaults \in [Signums -> {"default", "ignore", "handler"}]
    BY DEF NoFrame, Contexts, Main, Defaults
  <2> QED BY <1>1, <2>1 DEF Processes
<1> HIDE DEF r
<1>5. Kept(r, steps'[p]) /\ \A x \in SProcs \ {p} : steps'[x] = steps[x]
  BY <1>1, <1>2, <1>4 DEF Kept, Settled
<1>6. steps' \in [SProcs -> Int]
  BY <1>1, <1>2
<1>7. proc' \in Tables /\ AllKept(proc', steps') /\ Unborn(proc')
  <2>1. r.st # "unborn"
    BY <1>2, <1>4
  <2>2. LET Q == [proc EXCEPT ![p] = r] IN Q \in Tables /\ AllKept(Q, steps') /\ Unborn(Q)
    BY <1>1, <1>4, <1>5, <2>1, OneProcess
  <2> QED BY <1>3, <2>2
<1> QED BY <1>1, <1>2, <1>6, <1>7, NextSig

\* The sleeper's context is on its own kernel stack.
LEMMA SleepSig ==
  ASSUME SigInv, NEW p \in SProcs, Sleep(p)
  PROVE  SigInv'
<1> DEFINE r == [proc[p] EXCEPT !.st = "sleep", !.kctx = proc[p].ctx]
<1>1. /\ proc[p] \in Processes /\ proc \in Tables /\ AllKept(proc, steps) /\ Unborn(proc)
      /\ steps \in [SProcs -> Int] /\ proc[p].ctx \in Contexts
  BY DEF SigInv, TypeInv, STypeOK, Tables, Processes
<1>2. /\ proc[p].st = "run" /\ steps' = steps /\ slot' = proc[p].ctx
      /\ TidyPrograms => \A s \in Signums : proc[p].act[s] # "handler"
      /\ proc' = [proc EXCEPT ![p].st = "sleep", ![p].kctx = proc[p].ctx]
  BY DEF Sleep, MayCall, Runs, SigInv, TidyPrograms
<1>3. proc' = [proc EXCEPT ![p] = r]
  BY <1>1, <1>2 DEF Tables
<1>4. r \in Processes /\ r.st = "sleep" /\ r.kctx = proc[p].ctx /\ r.frame = proc[p].frame /\ r.act = proc[p].act
  BY <1>1 DEF Processes
<1> HIDE DEF r
<1>5. Kept(r, steps[p])
  BY <1>1, <1>2, <1>4 DEF AllKept, Kept
<1>6. proc' \in Tables /\ AllKept(proc', steps') /\ Unborn(proc')
  <2>1. LET Q == [proc EXCEPT ![p] = r] IN Q \in Tables /\ AllKept(Q, steps) /\ Unborn(Q)
    BY <1>1, <1>4, <1>5, OneProcess
  <2> QED BY <1>2, <1>3, <2>1
<1> QED BY <1>1, <1>2, <1>6, NextSig

\* The call returns to the context of its own stack; the slot, which another
\* entry may have overwritten, is read only by a delivery that enters a handler.
LEMMA WakeSig ==
  ASSUME SigInv, NEW p \in SProcs, Wake(p)
  PROVE  SigInv'
<1> DEFINE r == [proc[p] EXCEPT !.st = "run", !.ctx = proc[p].kctx, !.kctx = Main(0)]
           P == [proc EXCEPT ![p] = r]
<1>1. /\ proc[p] \in Processes /\ proc \in Tables /\ AllKept(proc, steps) /\ Unborn(proc)
      /\ steps \in [SProcs -> Int] /\ slot \in Contexts /\ SigConstants
  BY DEF SigInv, TypeInv, STypeOK, Tables
<1>2. /\ proc[p].st = "sleep" /\ steps' = steps /\ slot' = slot
      /\ proc' = Deliver([proc EXCEPT ![p].st = "run", ![p].ctx = proc[p].kctx, ![p].kctx = Main(0)], p, slot)
  BY DEF Wake, OnSyscallReturn
<1>3. proc' = Deliver(P, p, slot)
  <2>1. [proc EXCEPT ![p].st = "run", ![p].ctx = proc[p].kctx, ![p].kctx = Main(0)] = P
    BY <1>1 DEF Tables
  <2> QED BY <1>2, <2>1
<1>4. r \in Processes /\ r.st = "run" /\ r.ctx = proc[p].kctx /\ r.frame = proc[p].frame /\ r.act = proc[p].act
  <2>1. Main(0) \in Contexts
    BY DEF Contexts, Main
  <2> QED BY <1>1, <2>1 DEF Processes
<1> HIDE DEF r
<1>5. Kept(r, steps[p]) /\ (TidyPrograms => \A s \in Signums : r.act[s] # "handler")
  BY <1>1, <1>2, <1>4 DEF AllKept, Kept
<1>6. P \in Tables /\ AllKept(P, steps) /\ Unborn(P) /\ P[p] = r
  BY <1>1, <1>4, <1>5, OneProcess DEF Tables
<1> HIDE DEF P
<1>7. proc' \in Tables /\ AllKept(proc', steps) /\ Unborn(proc')
  BY <1>1, <1>3, <1>5, <1>6, DeliverKept
<1> QED BY <1>1, <1>2, <1>7, NextSig

\* Exit keeps the others' contexts.
LEMMA ExitKept ==
  ASSUME SigConstants, NEW P \in Tables, NEW p \in SProcs, NEW code \in Int, NEW n, AllKept(P, n), Unborn(P)
  PROVE  Exit(P, p, code) \in Tables /\ AllKept(Exit(P, p, code), n) /\ Unborn(Exit(P, p, code))
<1> DEFINE D == Exit(P, p, code)
<1>1. /\ D \in Tables /\ D[p].st = "dead"
      /\ \A q \in SProcs \ {p} : \/ D[q] = P[q]
                                 \/ D[q] = [P[q] EXCEPT !.pend = @ \cup {SIGCHLD}] /\ P[q].st \in {"run", "sleep"}
  BY ExitTable
<1> HIDE DEF D
<1>2. ASSUME NEW q \in SProcs
      PROVE  Kept(D[q], n[q]) /\ (D[q].st = "unborn" => D[q].pend = {})
  <2>1. P[q] \in Processes /\ Kept(P[q], n[q]) /\ (P[q].st = "unborn" => P[q].pend = {})
    BY DEF Tables, AllKept, Unborn
  <2>2. CASE q = p
    BY <1>1, <2>2 DEF Kept
  <2>3. CASE D[q] = P[q]
    BY <2>1, <2>3
  <2>4. CASE D[q] = [P[q] EXCEPT !.pend = @ \cup {SIGCHLD}] /\ P[q].st \in {"run", "sleep"}
    <3>1. /\ D[q].st = P[q].st /\ D[q].ctx = P[q].ctx /\ D[q].kctx = P[q].kctx
          /\ D[q].frame = P[q].frame /\ D[q].act = P[q].act
      BY <2>1, <2>4 DEF Processes
    <3> QED BY <2>1, <2>4, <3>1 DEF Kept
  <2> QED BY <1>1, <2>2, <2>3, <2>4
<1>3. AllKept(D, n) /\ Unborn(D)
  BY <1>2 DEF AllKept, Unborn
<1> QED BY <1>1, <1>3 DEF D

\* sigreturn finds the main program's context in the frame.
LEMMA SigreturnSig ==
  ASSUME SigInv, NEW p \in SProcs, Sigreturn(p)
  PROVE  SigInv'
<1> DEFINE r == [proc[p] EXCEPT !.ctx = proc[p].frame, !.frame = NoFrame]
<1>1. /\ proc[p] \in Processes /\ proc \in Tables /\ AllKept(proc, steps) /\ Unborn(proc)
      /\ steps \in [SProcs -> Int] /\ proc[p].ctx \in Contexts
  BY DEF SigInv, TypeInv, STypeOK, Tables, Processes
<1>2. proc[p].st = "run" /\ proc[p].ctx.where = "handler" /\ steps' = steps /\ slot' = proc[p].ctx
  BY DEF Sigreturn, Runs
<1>e. CASE proc[p].frame = NoFrame
  <2>1. proc' = Exit(proc, p, -SIGKILL) /\ -SIGKILL \in Int /\ SigConstants
    BY <1>e DEF Sigreturn, SigInv, TypeInv, SigConstants
  <2>2. proc' \in Tables /\ AllKept(proc', steps) /\ Unborn(proc')
    BY <1>1, <2>1, ExitKept
  <2> QED BY <1>1, <1>2, <2>2, NextSig
<1> SUFFICES ASSUME proc[p].frame # NoFrame
             PROVE  SigInv'
  BY <1>e
<1>3. TidyPrograms => proc[p].frame = Main(steps[p])
  BY <1>1, <1>2 DEF AllKept, Kept, Settled, Main, NoFrame
<1>4. proc' = [proc EXCEPT ![p].ctx = proc[p].frame, ![p].frame = NoFrame]
  BY DEF Sigreturn
<1>5. proc' = [proc EXCEPT ![p] = r]
  <2>1. proc \in [SProcs -> Processes]
    BY <1>1, Zenon DEF Tables
  <2> QED BY <1>4, <2>1
<1>6. r \in Processes /\ r.st = proc[p].st /\ r.ctx = proc[p].frame /\ r.frame = NoFrame
  <2>1. NoFrame \in Contexts
    BY DEF NoFrame, Contexts
  <2>2. proc[p].frame \in Contexts
    BY <1>1 DEF Processes
  <2> QED BY <1>1, <2>1, <2>2 DEF Processes
<1> HIDE DEF r
<1>7. Kept(r, steps[p]) /\ r.st # "unborn"
  BY <1>2, <1>3, <1>6 DEF Kept, Settled
<1>8. proc' \in Tables /\ AllKept(proc', steps') /\ Unborn(proc')
  <2>1. LET Q == [proc EXCEPT ![p] = r] IN Q \in Tables /\ AllKept(Q, steps) /\ Unborn(Q)
    BY <1>1, <1>6, <1>7, OneProcess
  <2> QED BY <1>2, <1>5, <2>1
<1> QED BY <1>1, <1>2, <1>8, NextSig

LEMMA SysExitSig ==
  ASSUME SigInv, NEW p \in SProcs, SysExit(p)
  PROVE  SigInv'
<1>1. /\ proc \in Tables /\ AllKept(proc, steps) /\ Unborn(proc) /\ SigConstants
      /\ steps \in [SProcs -> Int] /\ proc[p].ctx \in Contexts
  BY DEF SigInv, TypeInv, STypeOK, Tables, Processes
<1>2. proc' = Exit(proc, p, 0) /\ slot' = proc[p].ctx /\ steps' = steps
  BY DEF SysExit
<1>3. Exit(proc, p, 0) \in Tables /\ AllKept(Exit(proc, p, 0), steps) /\ Unborn(Exit(proc, p, 0))
  BY <1>1, ExitKept
<1> QED BY <1>1, <1>2, <1>3, NextSig

LEMMA UserStepSig ==
  ASSUME SigInv, NEW p \in SProcs, UserStep(p)
  PROVE  SigInv'
<1> DEFINE r == [proc[p] EXCEPT !.ctx.at = @ + 1]
<1>1. /\ proc[p] \in Processes /\ proc \in Tables /\ AllKept(proc, steps) /\ Unborn(proc)
      /\ steps \in [SProcs -> Int] /\ slot \in Contexts /\ proc[p].ctx \in Contexts
  BY DEF SigInv, TypeInv, STypeOK, Tables, Processes
<1>2. /\ proc[p].st = "run" /\ proc[p].ctx.where = "main" /\ slot' = slot
      /\ proc' = [proc EXCEPT ![p].ctx.at = @ + 1] /\ steps' = [steps EXCEPT ![p] = @ + 1]
  BY DEF UserStep, Runs
<1>3. TidyPrograms => proc[p].ctx = Main(steps[p]) /\ proc[p].frame = NoFrame
  BY <1>1, <1>2 DEF AllKept, Kept, Settled
<1>4. proc' = [proc EXCEPT ![p] = r]
  BY <1>1, <1>2 DEF Tables
<1>5. /\ r \in Processes /\ r.st = proc[p].st /\ r.frame = proc[p].frame
      /\ r.ctx = [proc[p].ctx EXCEPT !.at = @ + 1]
  <2>1. [proc[p].ctx EXCEPT !.at = @ + 1] \in Contexts
    BY <1>1 DEF Contexts
  <2>2. r = [proc[p] EXCEPT !.ctx = [proc[p].ctx EXCEPT !.at = @ + 1]]
    BY <1>1 DEF Processes
  <2> QED BY <1>1, <2>1, <2>2 DEF Processes
<1>6. TidyPrograms => [proc[p].ctx EXCEPT !.at = @ + 1] = Main(steps'[p])
  BY <1>1, <1>2, <1>3 DEF Main
<1> HIDE DEF r
<1>7. Kept(r, steps'[p]) /\ r.st # "unborn" /\ \A x \in SProcs \ {p} : steps'[x] = steps[x]
  BY <1>1, <1>2, <1>3, <1>5, <1>6 DEF Kept, Settled
<1>8. proc' \in Tables /\ AllKept(proc', steps') /\ Unborn(proc')
  <2>1. LET Q == [proc EXCEPT ![p] = r] IN Q \in Tables /\ AllKept(Q, steps') /\ Unborn(Q)
    BY <1>1, <1>5, <1>7, OneProcess
  <2> QED BY <1>4, <2>1
<1>9. steps' \in [SProcs -> Int]
  BY <1>1, <1>2
<1> QED BY <1>1, <1>2, <1>8, <1>9, NextSig

LEMMA InterruptSig ==
  ASSUME SigInv, NEW p \in SProcs, Interrupt(p)
  PROVE  SigInv'
<1>1. /\ proc \in Tables /\ AllKept(proc, steps) /\ Unborn(proc) /\ SigConstants
      /\ steps \in [SProcs -> Int] /\ slot \in Contexts /\ proc[p].ctx \in Contexts
  BY DEF SigInv, TypeInv, STypeOK, Tables, Processes
<1>2. proc' = Deliver(proc, p, proc[p].ctx) /\ slot' = slot /\ steps' = steps
  BY DEF Interrupt
<1>3. proc' \in Tables /\ AllKept(proc', steps) /\ Unborn(proc')
  BY <1>1, <1>2, DeliverKept
<1> QED BY <1>1, <1>2, <1>3, NextSig

LEMMA SigInvariant == SigConstants /\ SSpec => []SigInv
<1>1. SigConstants /\ SInit => SigInv
  BY InitSig
<1>2. SigInv /\ [SNext]_svars => SigInv'
  <2> SUFFICES ASSUME SigInv, [SNext]_svars
               PROVE  SigInv'
    OBVIOUS
  <2>1. CASE UNCHANGED svars
    <3>1. proc \in Tables /\ AllKept(proc, steps) /\ Unborn(proc) /\ slot \in Contexts /\ steps \in [SProcs -> Int]
      BY DEF SigInv, TypeInv, STypeOK
    <3> QED BY <2>1, <3>1, NextSig DEF svars
  <2>2. ASSUME NEW p \in SProcs, UserStep(p) \/ Interrupt(p) \/ Sleep(p) \/ Wake(p)
        PROVE  SigInv'
    BY <2>2, UserStepSig, InterruptSig, SleepSig, WakeSig
  <2>3. ASSUME NEW p \in SProcs, Sigreturn(p) \/ SysExit(p) \/ Execve(p) \/ ExecveFails(p)
        PROVE  SigInv'
    BY <2>3, SigreturnSig, SysExitSig, ExecveSig, ExecveFailsSig
  <2>4. ASSUME NEW p \in SProcs, NEW s \in Caught, NEW a \in {"default", "ignore", "handler"}, Sigaction(p, s, a)
        PROVE  SigInv'
    BY <2>4, SigactionSig
  <2>5. ASSUME NEW p \in SProcs, NEW q \in SProcs, SigFork(p, q) \/ \E s \in Signums : Kill(p, q, s)
        PROVE  SigInv'
    BY <2>5, ForkSig, KillSig
  <2> QED BY <2>1, <2>2, <2>3, <2>4, <2>5 DEF SNext
<1> QED BY <1>1, <1>2, PTL DEF SSpec

\* For any number of processes and signals, a program resumes exactly where a
\* signal interrupted it (setup_and_enter_handler, sys_sigreturn and the two
\* return paths), as long as no handler forks and no process with a handler
\* sleeps in the kernel.
THEOREM SignalContextKept == SigConstants /\ TidyPrograms /\ SSpec => []ContextKept
<1>1. TidyPrograms /\ SigInv => ContextKept
  BY DEF SigInv, AllKept, Kept, Settled, ContextKept, Main, NoFrame
<1>2. TidyPrograms /\ [SNext]_svars => TidyPrograms'
  BY DEF TidyPrograms
<1> QED BY <1>1, <1>2, SigInvariant, PTL DEF SSpec


----------------------------------------------------------------------------
\* A delivery to a table that has lost no signal loses none, but the one it takes.
LEMMA DeliverLoses ==
  ASSUME SigInv, NEW p \in SProcs, NEW P \in Tables, NEW saved \in Contexts,
         \A q \in SProcs : proc[q].pend \subseteq P[q].pend,
         P[p].frame = proc[p].frame, proc' = Deliver(P, p, saved)
  PROVE  SignalsKeptStep
<1> DEFINE m == Min(P[p].pend)
<1>1. proc' = P \/ Delivered(P, p, saved, proc', m)
  BY DeliverTable, Zenon DEF SigInv, TypeInv
<1>2. ASSUME Delivered(P, p, saved, proc', m), m \in proc[p].pend
      PROVE  m = Min(proc[p].pend)
  <2>1. P[p].pend \in SUBSET Nat /\ proc[p].pend \in SUBSET Nat
    BY DEF SigInv, TypeInv, STypeOK, SigConstants, Tables, Processes
  <2>2. /\ P[p].pend # {} /\ proc[p].pend # {} /\ m \in P[p].pend
        /\ \A n \in P[p].pend : m <= n
    BY <1>2, <2>1, MinLeast DEF Delivered
  <2>3. Min(proc[p].pend) \in proc[p].pend /\ Min(proc[p].pend) <= m
    BY <1>2, <2>1, <2>2, MinLeast
  <2>4. Min(proc[p].pend) \in P[p].pend
    BY <2>3
  <2> DEFINE l == Min(proc[p].pend)
  <2>5. m \in Nat /\ l \in Nat /\ l <= m /\ m <= l
    BY <2>1, <2>2, <2>3, <2>4
  <2> HIDE DEF m, l
  <2>6. m = l
    BY <2>5
  <2> QED BY <2>6 DEF l
<1> HIDE DEF m
<1> SUFFICES ASSUME NEW q \in SProcs, NEW s \in proc[q].pend, proc'[q].st = "run", s \notin proc'[q].pend
             PROVE  /\ s = Min(proc[q].pend) /\ s # SIGKILL /\ proc[q].frame = NoFrame
                    /\ proc'[q].act[s] = "handler" => proc'[q].ctx = Handler(s)
  BY DEF SignalsKeptStep
<1>3. Delivered(P, p, saved, proc', m) /\ s \in P[q].pend
  BY <1>1
<1>4. q = p /\ Taken(P, p, saved, proc', m)
  BY <1>3 DEF Delivered, Ended, Taken
<1>5. s = m
  BY <1>3, <1>4 DEF Taken
<1>6. s = Min(proc[q].pend)
  BY <1>2, <1>3, <1>4, <1>5
<1> QED BY <1>3, <1>4, <1>5, <1>6 DEF Delivered, Taken

LEMMA NothingLost ==
  ASSUME \A q \in SProcs : proc'[q].st = "run" => proc[q].pend \subseteq proc'[q].pend
  PROVE  SignalsKeptStep
BY DEF SignalsKeptStep

LEMMA CallsLose ==
  ASSUME SigInv, NEW p \in SProcs, NEW P \in Tables, Return(p, P), P[p].frame = proc[p].frame,
         \A q \in SProcs : proc[q].pend \subseteq P[q].pend
  PROVE  SignalsKeptStep
<1>1. proc' = Deliver(P, p, proc[p].ctx) /\ proc[p].ctx \in Contexts
  BY DEF Return, OnSyscallReturn, SigInv, TypeInv, STypeOK, Tables, Processes
<1> QED BY <1>1, DeliverLoses

LEMMA StepsLose ==
  ASSUME SigInv, NEW p \in SProcs, UserStep(p) \/ Interrupt(p) \/ Sleep(p) \/ Wake(p)
  PROVE  SignalsKeptStep
<1>1. proc \in Tables /\ proc[p] \in Processes /\ slot \in Contexts /\ proc[p].ctx \in Contexts
  BY DEF SigInv, TypeInv, STypeOK, Tables, Processes
<1>2. CASE UserStep(p)
  <2>1. \A q \in SProcs : proc'[q].pend = proc[q].pend
    BY <1>1, <1>2 DEF UserStep, Tables, Processes
  <2> QED BY <2>1, NothingLost
<1>3. CASE Interrupt(p)
  BY <1>1, <1>3, DeliverLoses DEF Interrupt
<1>4. CASE Sleep(p)
  <2>1. \A q \in SProcs : proc'[q].pend = proc[q].pend
    BY <1>1, <1>4 DEF Sleep, Tables, Processes
  <2> QED BY <2>1, NothingLost
<1>5. CASE Wake(p)
  <2> DEFINE r == [proc[p] EXCEPT !.st = "run", !.ctx = proc[p].kctx, !.kctx = Main(0)]
             P == [proc EXCEPT ![p] = r]
  <2>1. [proc EXCEPT ![p].st = "run", ![p].ctx = proc[p].kctx, ![p].kctx = Main(0)] = P
    BY <1>1 DEF Tables
  <2>2. proc' = Deliver(P, p, slot)
    BY <1>5, <2>1 DEF Wake, OnSyscallReturn
  <2>3. r \in Processes /\ r.frame = proc[p].frame /\ r.pend = proc[p].pend
    <3>1. Main(0) \in Contexts
      BY DEF Contexts, Main
    <3> QED BY <1>1, <3>1 DEF Processes
  <2> HIDE DEF r
  <2>4. P \in Tables /\ P[p].frame = proc[p].frame /\ \A q \in SProcs : proc[q].pend \subseteq P[q].pend
    BY <1>1, <2>3 DEF Tables
  <2> HIDE DEF P
  <2> QED BY <1>1, <2>2, <2>4, DeliverLoses
<1> QED BY <1>2, <1>3, <1>4, <1>5

LEMMA EndsLose ==
  ASSUME SigInv, NEW p \in SProcs, Sigreturn(p) \/ SysExit(p) \/ Execve(p) \/ ExecveFails(p)
  PROVE  SignalsKeptStep
<1>1. proc \in Tables /\ proc[p] \in Processes /\ SigConstants
  BY DEF SigInv, TypeInv, STypeOK, Tables
<1>2. ASSUME NEW code \in Int, proc' = Exit(proc, p, code)
      PROVE  SignalsKeptStep
  <2>1. \A q \in SProcs : proc[q].pend \subseteq proc'[q].pend
    BY <1>1, <1>2, ExitTable
  <2> QED BY <2>1, NothingLost
<1>3. CASE Sigreturn(p)
  <2>1. CASE proc[p].frame = NoFrame
    <3>1. proc' = Exit(proc, p, -SIGKILL) /\ -SIGKILL \in Int
      BY <1>1, <1>3, <2>1 DEF Sigreturn, SigConstants
    <3> QED BY <1>2, <3>1
  <2>2. CASE proc[p].frame # NoFrame
    <3>1. \A q \in SProcs : proc'[q].pend = proc[q].pend
      BY <1>1, <1>3, <2>2 DEF Sigreturn, Tables, Processes
    <3> QED BY <3>1, NothingLost
  <2> QED BY <2>1, <2>2
<1>4. CASE SysExit(p)
  BY <1>2, <1>4 DEF SysExit
<1>5. CASE Execve(p)
  <2> DEFINE r == [proc[p] EXCEPT !.act = Defaults, !.frame = NoFrame, !.pend = {}, !.ctx = Main(0)]
  <2>1. proc' = [proc EXCEPT ![p] = r]
    BY <1>1, <1>5 DEF Execve, Tables
  <2>2. r.act = Defaults /\ r.ctx = Main(0)
    BY <1>1 DEF Processes
  <2> HIDE DEF r
  <2>3. proc'[p] = r /\ \A q \in SProcs \ {p} : proc'[q] = proc[q]
    BY <1>1, <2>1 DEF Tables
  <2> QED BY <2>2, <2>3 DEF SignalsKeptStep
<1>6. CASE ExecveFails(p)
  BY <1>1, <1>6, CallsLose DEF ExecveFails
<1> QED BY <1>3, <1>4, <1>5, <1>6

LEMMA SignalCallsLose ==
  ASSUME SigInv, NEW p \in SProcs,
         \/ \E s \in Caught, a \in {"default", "ignore", "handler"} : Sigaction(p, s, a)
         \/ \E q \in SProcs : SigFork(p, q) \/ \E s \in Signums : Kill(p, q, s)
  PROVE  SignalsKeptStep
<1>1. proc \in Tables /\ proc[p] \in Processes /\ SigConstants /\ Unborn(proc)
  BY DEF SigInv, TypeInv, STypeOK, Tables
<1>2. ASSUME NEW s \in Caught, NEW a \in {"default", "ignore", "handler"}, Sigaction(p, s, a)
      PROVE  SignalsKeptStep
  <2> DEFINE r == [proc[p] EXCEPT !.act[s] = a]
             P == [proc EXCEPT ![p] = r]
  <2>1. r \in Processes /\ r.pend = proc[p].pend /\ r.frame = proc[p].frame
    BY <1>1 DEF Processes, SigConstants
  <2>2. [proc EXCEPT ![p].act[s] = a] = P
    BY <1>1 DEF Tables
  <2>3. Return(p, P)
    BY <1>2, <2>2 DEF Sigaction
  <2> HIDE DEF r
  <2>4. P \in Tables /\ P[p].frame = proc[p].frame /\ \A q \in SProcs : proc[q].pend \subseteq P[q].pend
    BY <1>1, <2>1 DEF Tables
  <2> HIDE DEF P
  <2> QED BY <2>3, <2>4, CallsLose
<1>3. ASSUME NEW q \in SProcs, SigFork(p, q)
      PROVE  SignalsKeptStep
  <2> DEFINE r == [proc[p] EXCEPT !.parent = p, !.pend = {}, !.frame = NoFrame]
             P == [proc EXCEPT ![q] = r]
  <2>1. proc[p].st = "run" /\ proc[q].st = "unborn" /\ Return(p, P)
    BY <1>3, Zenon DEF SigFork, MayCall, Runs
  <2>2. r \in Processes
    <3>1. NoFrame \in Contexts
      BY DEF NoFrame, Contexts
    <3> QED BY <1>1, <3>1 DEF Processes
  <2> HIDE DEF r
  <2>3. P \in Tables /\ P[p].frame = proc[p].frame /\ \A x \in SProcs : proc[x].pend \subseteq P[x].pend
    BY <1>1, <2>1, <2>2 DEF Tables, Unborn
  <2> HIDE DEF P
  <2> QED BY <2>1, <2>3, CallsLose
<1>4. ASSUME NEW q \in SProcs, NEW s \in Signums, Kill(p, q, s)
      PROVE  SignalsKeptStep
  <2> DEFINE P == Raise(proc, q, s)
  <2>1. /\ P \in Tables /\ P[q] = [proc[q] EXCEPT !.pend = @ \cup {s}]
        /\ \A x \in SProcs \ {q} : P[x] = proc[x]
        /\ \A x \in SProcs : proc[x].pend \subseteq P[x].pend
    BY <1>1, RaiseTable
  <2>2. Return(p, P)
    BY <1>4 DEF Kill
  <2> HIDE DEF P
  <2>3. P[p].frame = proc[p].frame
    BY <1>1, <2>1 DEF Tables, Processes
  <2>4. P \in Tables /\ \A x \in SProcs : proc[x].pend \subseteq P[x].pend
    BY <2>1
  <2> QED BY <2>2, <2>3, <2>4, CallsLose
<1> QED BY <1>2, <1>3, <1>4

\* No step of any process loses a pending signal: it is taken by a return to
\* ring 3, lowest first, outside a handler, and then its handler runs
\* (PendingSet::take_any, decide_next_signal).
THEOREM SignalsAreKept == SigConstants /\ SSpec => SignalsKept
<1>1. SigInv /\ [SNext]_svars => [SignalsKeptStep]_svars
  BY StepsLose, EndsLose, SignalCallsLose DEF SNext
<1> QED BY <1>1, SigInvariant, PTL DEF SSpec, SignalsKept
=============================================================================
