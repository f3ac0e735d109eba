----------------------------- MODULE SyncProofs -----------------------------
(***************************************************************************)
(* Proofs about the primitives that threads and handlers synchronise with: *)
(* KMutex, TaggedStack and the keyboard's wait (Keyboard).  The three      *)
(* share no state; each has its own invariant, in a section of its own.    *)
(* SeqLock, whose readers take no lock, is in RingsProofs.                 *)
(***************************************************************************)
EXTENDS KMutex, TaggedStack, Keyboard, FiniteSetTheorems, TLAPS

-----------------------------------------------------------------------------
(***************************************************************************)
(* KMutex, for every set of threads.  NoForgottenWaiter is inductive once  *)
(* the queue is known to hold sleeping threads, each once: a wake then     *)
(* turns a sleeper into a thread about to swap, and no other node of the   *)
(* queue changes its place.  Exclusion needs that the word is 0 exactly    *)
(* while no thread holds the mutex.                                        *)
(***************************************************************************)

Places == {"out", "swap", "check", "recheck", "asleep", "in", "wake"}

KTypeOK ==
  /\ word \in {0, 1, 2}
  /\ sleepers \in Seq(MutexThreads)
  /\ kpc \in [MutexThreads -> Places]

\* The word is 0 exactly while nobody is between lock and the guard's drop.
Held == word = 0 <=> \A t \in MutexThreads : kpc[t] # "in"

\* The queue holds threads that sleep in it, each once.
Queued ==
  /\ \A i \in 1..Len(sleepers) : kpc[sleepers[i]] = "asleep"
  /\ \A i, j \in 1..Len(sleepers) : sleepers[i] = sleepers[j] => i = j

MutexInv == KTypeOK /\ Held /\ Exclusion /\ Queued /\ NoForgottenWaiter

LEMMA MutexInit == KInit => MutexInv
BY DEF KInit, MutexInv, KTypeOK, Held, Exclusion, Queued, NoForgottenWaiter, Places

\* A step that leaves the queue alone: it moves one thread that is not asleep
\* to a place that is not "asleep".
LEMMA QueueKept ==
  ASSUME KTypeOK, Queued, NEW t \in MutexThreads, kpc[t] # "asleep",
         NEW l \in Places, Go(t, l), UNCHANGED sleepers
  PROVE  Queued' /\ sleepers' \in Seq(MutexThreads) /\ kpc' \in [MutexThreads -> Places]
<1>1. \A i \in 1..Len(sleepers) : sleepers[i] \in MutexThreads /\ sleepers[i] # t
  BY DEF KTypeOK, Queued
<1> QED BY <1>1 DEF KTypeOK, Queued, Go

\* Recheck puts a thread that was awake at the end of the queue.
LEMMA QueueGrows ==
  ASSUME KTypeOK, Queued, NEW t \in MutexThreads, kpc[t] # "asleep",
         Go(t, "asleep"), sleepers' = Append(sleepers, t)
  PROVE  Queued' /\ sleepers' \in Seq(MutexThreads) /\ sleepers' # << >>
         /\ kpc' \in [MutexThreads -> Places]
<1>1. \A i \in 1..Len(sleepers) : sleepers[i] \in MutexThreads /\ sleepers[i] # t
  BY DEF KTypeOK, Queued
<1>2. /\ Len(sleepers') = Len(sleepers) + 1
      /\ \A i \in 1..Len(sleepers') : sleepers'[i] = IF i = Len(sleepers) + 1 THEN t ELSE sleepers[i]
      /\ sleepers' \in Seq(MutexThreads)
  BY DEF KTypeOK
<1>3. Len(sleepers) \in Nat
  BY DEF KTypeOK
<1>4. /\ kpc' \in [MutexThreads -> Places] /\ kpc'[t] = "asleep"
      /\ \A u \in MutexThreads \ {t} : kpc'[u] = kpc[u]
  BY DEF KTypeOK, Go, Places
<1>5. \A i \in 1..Len(sleepers') : kpc'[sleepers'[i]] = "asleep"
  <2> SUFFICES ASSUME NEW i \in 1..Len(sleepers') PROVE kpc'[sleepers'[i]] = "asleep"
    OBVIOUS
  <2>1. CASE i = Len(sleepers) + 1
    BY <2>1, <1>2, <1>4
  <2>2. CASE i \in 1..Len(sleepers)
    BY <2>2, <1>1, <1>2, <1>3, <1>4 DEF Queued
  <2> QED BY <2>1, <2>2, <1>2, <1>3
<1>6. \A i, j \in 1..Len(sleepers') : sleepers'[i] = sleepers'[j] => i = j
  BY <1>1, <1>2, <1>3 DEF Queued
<1>7. sleepers' # << >>
  BY <1>2, <1>3
<1> QED BY <1>2, <1>4, <1>5, <1>6, <1>7 DEF Queued

\* Wake takes the first node: its thread goes to "swap", the rest still sleep.
LEMMA QueueShrinks ==
  ASSUME KTypeOK, Queued, NEW t \in MutexThreads, kpc[t] = "wake", sleepers # << >>,
         sleepers' = Tail(sleepers),
         kpc' = [kpc EXCEPT ![t] = "out", ![Head(sleepers)] = "swap"]
  PROVE  /\ Queued' /\ sleepers' \in Seq(MutexThreads)
         /\ kpc' \in [MutexThreads -> Places]
         /\ Head(sleepers) \in MutexThreads /\ kpc'[Head(sleepers)] = "swap"
         /\ \A u \in MutexThreads : kpc'[u] = "in" <=> kpc[u] = "in"
<1>1. /\ Len(sleepers) \in Nat \ {0} /\ Head(sleepers) = sleepers[1]
      /\ Head(sleepers) \in MutexThreads
  BY DEF KTypeOK
<1>2. kpc[Head(sleepers)] = "asleep"
  BY <1>1 DEF Queued
<1>3. /\ sleepers' \in Seq(MutexThreads) /\ Len(sleepers') = Len(sleepers) - 1
      /\ \A i \in 1..Len(sleepers') : sleepers'[i] = sleepers[i + 1]
  BY <1>1 DEF KTypeOK
<1>4. /\ kpc' \in [MutexThreads -> Places] /\ kpc'[Head(sleepers)] = "swap"
      /\ \A u \in MutexThreads : kpc'[u] = "in" <=> kpc[u] = "in"
      /\ \A u \in MutexThreads \ {t, Head(sleepers)} : kpc'[u] = kpc[u]
  BY <1>1, <1>2 DEF KTypeOK, Places
<1>5. \A i \in 1..Len(sleepers') : kpc'[sleepers'[i]] = "asleep"
  <2> SUFFICES ASSUME NEW i \in 1..Len(sleepers') PROVE kpc'[sleepers'[i]] = "asleep"
    OBVIOUS
  <2>1. i + 1 \in 1..Len(sleepers) /\ sleepers'[i] = sleepers[i + 1] /\ 1 \in 1..Len(sleepers)
        /\ i + 1 # 1
    BY <1>1, <1>3
  <2>2. kpc[sleepers[i + 1]] = "asleep" /\ sleepers[i + 1] # Head(sleepers)
        /\ sleepers[i + 1] \in MutexThreads
    BY <2>1, <1>1 DEF Queued, KTypeOK
  <2> QED BY <2>1, <2>2, <1>4
<1>6. \A i, j \in 1..Len(sleepers') : sleepers'[i] = sleepers'[j] => i = j
  <2> SUFFICES ASSUME NEW i \in 1..Len(sleepers'), NEW j \in 1..Len(sleepers'),
                      sleepers'[i] = sleepers'[j]
               PROVE  i = j
    OBVIOUS
  <2>1. i + 1 \in 1..Len(sleepers) /\ j + 1 \in 1..Len(sleepers)
    BY <1>1, <1>3
  <2>2. i + 1 = j + 1
    BY <2>1, <1>3 DEF Queued
  <2> QED BY <2>2, <1>1, <1>3
<1> QED BY <1>1, <1>3, <1>4, <1>5, <1>6 DEF Queued

LEMMA MutexStep == MutexInv /\ [KNext]_kvars => MutexInv'
<1> SUFFICES ASSUME MutexInv, [KNext]_kvars PROVE MutexInv'
  OBVIOUS
<1> USE DEF MutexInv
<1>1. ASSUME NEW t \in MutexThreads, Lock(t) PROVE MutexInv'
  <2>1. Queued' /\ sleepers' \in Seq(MutexThreads) /\ kpc' \in [MutexThreads -> Places]
    BY <1>1, QueueKept DEF Lock, Places
  <2>2. KTypeOK' /\ Held' /\ Exclusion'
    BY <1>1, <2>1 DEF Lock, Go, KTypeOK, Held, Exclusion
  <2>3. NoForgottenWaiter'
    BY <1>1 DEF Lock, Go, KTypeOK, NoForgottenWaiter
  <2> QED BY <2>1, <2>2, <2>3
<1>2. ASSUME NEW t \in MutexThreads, TryLock(t) PROVE MutexInv'
  <2>1. Queued' /\ sleepers' \in Seq(MutexThreads) /\ kpc' \in [MutexThreads -> Places]
    BY <1>2, QueueKept DEF TryLock, Places
  <2>2. KTypeOK' /\ Held' /\ Exclusion'
    BY <1>2, <2>1 DEF TryLock, Go, KTypeOK, Held, Exclusion
  <2>3. NoForgottenWaiter'
    BY <1>2 DEF TryLock, Go, KTypeOK, NoForgottenWaiter
  <2> QED BY <2>1, <2>2, <2>3
<1>3. ASSUME NEW t \in MutexThreads, Swap(t) PROVE MutexInv'
  <2>1. Queued' /\ sleepers' \in Seq(MutexThreads) /\ kpc' \in [MutexThreads -> Places]
    BY <1>3, QueueKept DEF Swap, Places
  <2>2. KTypeOK' /\ Held' /\ Exclusion'
    BY <1>3, <2>1 DEF Swap, Go, KTypeOK, Held, Exclusion
  <2>3. NoForgottenWaiter'
    BY <1>3 DEF Swap, NoForgottenWaiter
  <2> QED BY <2>1, <2>2, <2>3
<1>4. ASSUME NEW t \in MutexThreads, Check(t) PROVE MutexInv'
  <2>1. Queued' /\ sleepers' \in Seq(MutexThreads) /\ kpc' \in [MutexThreads -> Places]
    BY <1>4, QueueKept DEF Check, Places
  <2>2. KTypeOK' /\ Held' /\ Exclusion'
    BY <1>4, <2>1 DEF Check, Go, KTypeOK, Held, Exclusion
  <2>3. NoForgottenWaiter'
    BY <1>4 DEF Check, Go, KTypeOK, NoForgottenWaiter
  <2> QED BY <2>1, <2>2, <2>3
<1>5. ASSUME NEW t \in MutexThreads, Recheck(t) PROVE MutexInv'
  <2>1. Queued' /\ sleepers' \in Seq(MutexThreads) /\ kpc' \in [MutexThreads -> Places]
    BY <1>5, QueueKept, QueueGrows DEF Recheck, Places
  <2>2. KTypeOK' /\ Held' /\ Exclusion'
    BY <1>5, <2>1 DEF Recheck, Go, KTypeOK, Held, Exclusion
  <2>3. NoForgottenWaiter'
    BY <1>5 DEF Recheck, Go, KTypeOK, NoForgottenWaiter
  <2> QED BY <2>1, <2>2, <2>3
<1>6. ASSUME NEW t \in MutexThreads, Unlock(t) PROVE MutexInv'
  <2>1. Queued' /\ sleepers' \in Seq(MutexThreads) /\ kpc' \in [MutexThreads -> Places]
    BY <1>6, QueueKept DEF Unlock, Places
  <2>2. KTypeOK' /\ Held' /\ Exclusion'
    BY <1>6, <2>1 DEF Unlock, Go, KTypeOK, Held, Exclusion
  <2>3. NoForgottenWaiter'
    BY <1>6 DEF Unlock, Go, KTypeOK, NoForgottenWaiter
  <2> QED BY <2>1, <2>2, <2>3
<1>7. ASSUME NEW t \in MutexThreads, Wake(t) PROVE MutexInv'
  <2>1. CASE sleepers = << >>
    <3>1. Queued' /\ sleepers' \in Seq(MutexThreads) /\ kpc' \in [MutexThreads -> Places]
      BY <1>7, <2>1, QueueKept DEF Wake, Places
    <3>2. KTypeOK' /\ Held' /\ Exclusion'
      BY <1>7, <2>1, <3>1 DEF Wake, Go, KTypeOK, Held, Exclusion
    <3>3. NoForgottenWaiter'
      BY <1>7, <2>1 DEF Wake, NoForgottenWaiter
    <3> QED BY <3>1, <3>2, <3>3
  <2>2. CASE sleepers # << >>
    <3>1. /\ Queued' /\ sleepers' \in Seq(MutexThreads)
          /\ kpc' \in [MutexThreads -> Places]
          /\ Head(sleepers) \in MutexThreads /\ kpc'[Head(sleepers)] = "swap"
          /\ \A u \in MutexThreads : kpc'[u] = "in" <=> kpc[u] = "in"
      BY <1>7, <2>2, QueueShrinks DEF Wake
    <3>2. KTypeOK' /\ Held' /\ Exclusion'
      BY <1>7, <3>1 DEF Wake, KTypeOK, Held, Exclusion
    <3>3. NoForgottenWaiter'
      BY <3>1 DEF NoForgottenWaiter
    <3> QED BY <3>1, <3>2, <3>3
  <2> QED BY <2>1, <2>2
<1>8. CASE UNCHANGED kvars
  BY <1>8 DEF kvars, KTypeOK, Held, Exclusion, Queued, NoForgottenWaiter
<1> QED BY <1>1, <1>2, <1>3, <1>4, <1>5, <1>6, <1>7, <1>8 DEF KNext

\* At most one thread is between KMutex::lock and its guard's drop.
THEOREM MutexExcludes == KSpec => []Exclusion
<1>1. KInit => MutexInv
  BY MutexInit
<1>2. MutexInv /\ [KNext]_kvars => MutexInv'
  BY MutexStep
<1>3. MutexInv => Exclusion
  BY DEF MutexInv
<1> QED BY <1>1, <1>2, <1>3, PTL DEF KSpec

\* No thread sleeps in futex_wait on a mutex that nobody will wake it from,
\* however lock, the swap of a waiter and the guard's drop interleave.
THEOREM MutexNeverForgets == KSpec => []NoForgottenWaiter
<1>1. KInit => MutexInv
  BY MutexInit
<1>2. MutexInv /\ [KNext]_kvars => MutexInv'
  BY MutexStep
<1>3. MutexInv => NoForgottenWaiter
  BY DEF MutexInv
<1> QED BY <1>1, <1>2, <1>3, PTL DEF KSpec

-----------------------------------------------------------------------------
(***************************************************************************)
(* TaggedStack, for every number of objects and users.  What is on the     *)
(* free list is a chain of distinct objects; a user about to swap knows    *)
(* the first object's successor only as long as the tag it read is still   *)
(* the current one, and the tag never comes back, so a swap that succeeds  *)
(* takes the first object of the list as it is now.                        *)
(***************************************************************************)

\* Objects are numbered from 1 and Null is no object.
StackConstants == Null = 0 /\ \E k \in Nat : SlabNodes = 1..k /\ Cardinality(SlabNodes) = k

StackPlaces == {"out", "link", "take", "store", "put"}
Pointers == SlabNodes \cup {Null}
Heads == [ptr : Pointers, tag : Nat]

StTypeOK ==
  /\ top \in Heads /\ link \in [SlabNodes -> Pointers]
  /\ upc \in [Users -> StackPlaces] /\ mine \in [Users -> SUBSET SlabNodes]
  /\ seen \in [Users -> Heads] /\ next \in [Users -> Pointers] /\ node \in [Users -> Pointers]

\* The list that begins at first: c[1], c[2], ... c[n], each once, then Null.
Chain(first, links, n, c) ==
  /\ \A i, j \in 1..n : c[i] = c[j] => i = j
  /\ first = IF n = 0 THEN Null ELSE c[1]
  /\ \A i \in 1..n : links[c[i]] = IF i = n THEN Null ELSE c[i + 1]

IsList(first, links) == \E n \in Nat : \E c \in [1..n -> SlabNodes] : Chain(first, links, n, c)

\* What a user in a call knows: a copy of the head with the current tag is the
\* head, and then the link it has read or written is the one in memory.
Knows(u) ==
  /\ seen[u].tag <= top.tag
  /\ upc[u] # "out" /\ seen[u].tag = top.tag => seen[u] = top
  /\ upc[u] \in {"link", "take"} => seen[u].ptr # Null
  /\ upc[u] = "take" /\ seen[u] = top => next[u] = link[seen[u].ptr]
  /\ node[u] # Null <=> upc[u] \in {"store", "put"}
  /\ upc[u] = "put" => link[node[u]] = seen[u].ptr

StackInv ==
  /\ StackConstants /\ StTypeOK /\ IsList(top.ptr, link)
  /\ \A u \in Users : Knows(u)
  /\ ObjectsAccounted

----------------------------------------------------------------------------
\* Every non-empty set of numbers has a least one.
LEMMA LeastNumber ==
  ASSUME NEW T \in SUBSET Nat, T # {}
  PROVE  \E m \in T : \A n \in T : m <= n
<1>1. PICK m \in T : \A n \in T : ~(<<n, m>> \in OpToRel(<, Nat))
  BY NatLessThanWellFounded, WFMin, Zenon
<1>2. \A n \in T : ~(n < m)
  BY <1>1 DEF OpToRel
<1> QED BY <1>2

\* The nodes on a list are those of its chain.
LEMMA ChainNodes ==
  ASSUME StackConstants, NEW h \in Pointers, NEW f \in [SlabNodes -> Pointers],
         NEW n \in Nat, NEW c \in [1..n -> SlabNodes], Chain(h, f, n, c)
  PROVE  OnList(h, f) = {c[i] : i \in 1..n}
<1> DEFINE R == {c[i] : i \in 1..n}
<1>1. R \in SUBSET SlabNodes
  OBVIOUS
<1>2. Closed(h, f, R)
  BY DEF Closed, Chain
<1>3. ASSUME NEW S \in SUBSET SlabNodes, Closed(h, f, S), NEW j \in 1..n, c[j] \notin S
      PROVE  FALSE
  <2> DEFINE T == {i \in 1..n : c[i] \notin S}
  <2>1. T \in SUBSET Nat /\ T # {}
    BY <1>3
  <2>2. PICK m \in T : \A i \in T : m <= i
    BY <2>1, LeastNumber
  <2>3. m # 1
    BY <1>3, <2>2 DEF Closed, Chain, StackConstants
  <2>4. m - 1 \in 1..n /\ c[m - 1] \in S
    BY <2>2, <2>3
  <2>5. f[c[m - 1]] = c[m]
    BY <2>2, <2>4 DEF Chain
  <2>6. f[c[m - 1]] \in S \cup {Null}
    BY <1>3, <2>4 DEF Closed
  <2>7. c[m] \in SlabNodes /\ Null \notin SlabNodes
    BY <2>2 DEF StackConstants
  <2> QED BY <2>2, <2>5, <2>6, <2>7
<1> QED BY <1>1, <1>2, <1>3 DEF OnList

\* Writing the link of a node that is not on the list changes nothing of it.
LEMMA WriteOff ==
  ASSUME StackConstants, NEW h \in Pointers, NEW f \in [SlabNodes -> Pointers], IsList(h, f),
         NEW m \in SlabNodes \ OnList(h, f), NEW x \in Pointers
  PROVE  LET g == [f EXCEPT ![m] = x] IN IsList(h, g) /\ OnList(h, g) = OnList(h, f)
<1> DEFINE g == [f EXCEPT ![m] = x]
<1>0. PICK n \in Nat : \E c \in [1..n -> SlabNodes] : Chain(h, f, n, c)
  BY DEF IsList
<1>1. PICK c \in [1..n -> SlabNodes] : Chain(h, f, n, c)
  BY <1>0
<1>2. OnList(h, f) = {c[i] : i \in 1..n}
  BY <1>1, ChainNodes
<1>3. g \in [SlabNodes -> Pointers] /\ \A i \in 1..n : g[c[i]] = f[c[i]]
  BY <1>2
<1>4. Chain(h, g, n, c)
  BY <1>1, <1>3 DEF Chain
<1> HIDE DEF g
<1>5. OnList(h, g) = {c[i] : i \in 1..n}
  BY <1>3, <1>4, ChainNodes
<1>6. IsList(h, g) /\ OnList(h, g) = OnList(h, f)
  BY <1>2, <1>4, <1>5 DEF IsList
<1> QED BY <1>6 DEF g

\* The first node's link begins the rest of the list.
LEMMA TakeFirst ==
  ASSUME StackConstants, NEW h \in SlabNodes, NEW f \in [SlabNodes -> Pointers], IsList(h, f)
  PROVE  /\ h \in OnList(h, f) /\ IsList(f[h], f)
         /\ OnList(f[h], f) = OnList(h, f) \ {h}
<1>0. PICK n \in Nat : \E c \in [1..n -> SlabNodes] : Chain(h, f, n, c)
  BY DEF IsList
<1>1. PICK c \in [1..n -> SlabNodes] : Chain(h, f, n, c)
  BY <1>0
<1>2. n # 0 /\ c[1] = h
  BY <1>1 DEF Chain, StackConstants
<1> DEFINE m == n - 1
           d == [i \in 1..m |-> c[i + 1]]
<1>3. m \in Nat /\ d \in [1..m -> SlabNodes]
  BY <1>2
<1>4. Chain(f[h], f, m, d)
  <2>1. \A i, j \in 1..m : d[i] = d[j] => i = j
    BY <1>1, <1>3 DEF Chain
  <2>2. f[h] = IF m = 0 THEN Null ELSE d[1]
    BY <1>1, <1>2, <1>3 DEF Chain
  <2>3. \A i \in 1..m : f[d[i]] = IF i = m THEN Null ELSE d[i + 1]
    BY <1>1, <1>3 DEF Chain
  <2> QED BY <2>1, <2>2, <2>3 DEF Chain
<1>5. OnList(h, f) = {c[i] : i \in 1..n}
  BY <1>1, ChainNodes DEF Pointers
<1>6. OnList(f[h], f) = {d[i] : i \in 1..m}
  <2>1. f[h] \in Pointers
    OBVIOUS
  <2> HIDE DEF m, d
  <2> QED BY <1>3, <1>4, <2>1, ChainNodes
<1>7. {d[i] : i \in 1..m} = {c[i] : i \in 1..n} \ {h}
  <2>1. \A i \in 1..m : d[i] = c[i + 1] /\ i + 1 \in 1..n
    BY <1>3
  <2>2. \A i \in 1..n : c[i] # h => i - 1 \in 1..m /\ d[i - 1] = c[i]
    BY <1>2, <1>3
  <2>3. \A i \in 2..n : c[i] # h
    BY <1>1, <1>2 DEF Chain
  <2> HIDE DEF d, m
  <2>4. \A y : y \in {d[i] : i \in 1..m} => y \in {c[i] : i \in 1..n} \ {h}
    BY <1>3, <2>1, <2>3
  <2>5. \A y : y \in {c[i] : i \in 1..n} \ {h} => y \in {d[i] : i \in 1..m}
    BY <2>2
  <2> QED BY <2>4, <2>5
<1>8. IsList(f[h], f)
  <2> HIDE DEF m, d
  <2> QED BY <1>3, <1>4 DEF IsList
<1>9. h \in OnList(h, f)
  BY <1>2, <1>5
<1> QED BY <1>5, <1>6, <1>7, <1>8, <1>9, Zenon

\* A node that is not on the list and links to its first one makes it longer.
LEMMA PutFirst ==
  ASSUME StackConstants, NEW f \in [SlabNodes -> Pointers],
         NEW k \in SlabNodes, k \notin OnList(f[k], f), IsList(f[k], f)
  PROVE  IsList(k, f) /\ OnList(k, f) = OnList(f[k], f) \cup {k}
<1>h. PICK h \in Pointers : h = f[k]
  OBVIOUS
<1>0. PICK n \in Nat : \E c \in [1..n -> SlabNodes] : Chain(h, f, n, c)
  BY <1>h DEF IsList
<1>1. PICK c \in [1..n -> SlabNodes] : Chain(h, f, n, c)
  BY <1>0
<1>2. OnList(h, f) = {c[i] : i \in 1..n}
  BY <1>1, ChainNodes
<1> DEFINE m == n + 1
           d == [i \in 1..m |-> IF i = 1 THEN k ELSE c[i - 1]]
<1>3. m \in Nat /\ d \in [1..m -> SlabNodes]
  OBVIOUS
<1>4. \A i \in 1..n : c[i] # k
  BY <1>2, <1>h
<1>5. Chain(k, f, m, d)
  <2>1. \A i, j \in 1..m : d[i] = d[j] => i = j
    BY <1>1, <1>4 DEF Chain
  <2>2. k = IF m = 0 THEN Null ELSE d[1]
    OBVIOUS
  <2>3. \A i \in 1..m : f[d[i]] = IF i = m THEN Null ELSE d[i + 1]
    BY <1>1, <1>h DEF Chain
  <2> QED BY <2>1, <2>2, <2>3 DEF Chain
<1>6. OnList(k, f) = {d[i] : i \in 1..m}
  <2> HIDE DEF m, d
  <2> QED BY <1>3, <1>5, ChainNodes DEF Pointers
<1>7. {d[i] : i \in 1..m} = {c[i] : i \in 1..n} \cup {k}
  <2>1. d[1] = k /\ 1 \in 1..m /\ \A i \in 1..n : i + 1 \in 1..m /\ d[i + 1] = c[i]
    OBVIOUS
  <2>2. \A i \in 1..m : d[i] = k \/ (i - 1 \in 1..n /\ d[i] = c[i - 1])
    OBVIOUS
  <2> HIDE DEF d, m
  <2>3. \A y : y \in {d[i] : i \in 1..m} => y \in {c[i] : i \in 1..n} \cup {k}
    BY <2>2
  <2>4. \A y : y \in {c[i] : i \in 1..n} \cup {k} => y \in {d[i] : i \in 1..m}
    BY <2>1
  <2> QED BY <2>3, <2>4
<1>8. IsList(k, f)
  <2> HIDE DEF m, d
  <2> QED BY <1>3, <1>5 DEF IsList
<1> QED BY <1>h, <1>2, <1>6, <1>7, <1>8

----------------------------------------------------------------------------
\* add_slab's list is a chain of all objects, the last one first.
LEMMA InitStack ==
  ASSUME StackConstants, StInit
  PROVE  StackInv
<1>1. PICK k \in Nat : SlabNodes = 1..k /\ Cardinality(SlabNodes) = k
  BY DEF StackConstants
<1> DEFINE c == [i \in 1..k |-> k + 1 - i]
<1>2. c \in [1..k -> SlabNodes]
  BY <1>1
<1>3. Null = 0 /\ top.ptr = k /\ top.tag = 0 /\ link = [n \in 1..k |-> n - 1]
  BY <1>1 DEF StInit, StackConstants
<1>4. Chain(top.ptr, link, k, c)
  BY <1>3 DEF Chain
<1>5. StTypeOK
  <2>1. k \in Pointers /\ Null \in Pointers /\ \A n \in SlabNodes : n - 1 \in Pointers
    BY <1>1, <1>3 DEF Pointers
  <2> QED BY <1>1, <2>1 DEF StInit, StTypeOK, Heads, StackPlaces
<1>6. IsList(top.ptr, link)
  <2> HIDE DEF c
  <2> QED BY <1>2, <1>4, <1>1 DEF IsList
<1>7. Free = SlabNodes
  <2>1. top.ptr \in Pointers /\ link \in [SlabNodes -> Pointers]
    BY <1>5 DEF StTypeOK, Heads
  <2>2. \A y \in 1..k : k + 1 - y \in 1..k /\ c[k + 1 - y] = y
    BY <1>1
  <2> HIDE DEF c
  <2>3. Free = {c[i] : i \in 1..k}
    <3>1. ASSUME NEW h \in Pointers, NEW f \in [SlabNodes -> Pointers], Chain(h, f, k, c)
          PROVE  OnList(h, f) = {c[i] : i \in 1..k}
      BY <1>2, <3>1, ChainNodes
    <3>2. OnList(top.ptr, link) = {c[i] : i \in 1..k}
      BY <1>4, <2>1, <3>1, Zenon
    <3> QED BY <3>2 DEF Free
  <2> QED BY <1>1, <1>2, <2>2, <2>3
<1>8. ASSUME NEW u \in Users
      PROVE  Knows(u)
  BY <1>3 DEF Knows, StInit
<1>9. ObjectsAccounted
  BY <1>1, <1>3, <1>7 DEF ObjectsAccounted, StInit
<1> QED BY <1>5, <1>6, <1>8, <1>9 DEF StackInv


----------------------------------------------------------------------------
\* What the proof of a step shows of the invariant's parts.
LEMMA StackParts ==
  ASSUME StackInv
  PROVE  /\ top.ptr \in Pointers /\ link \in [SlabNodes -> Pointers]
         /\ Null \notin SlabNodes /\ Free \in SUBSET SlabNodes
         /\ top.ptr \in SlabNodes => top.ptr \in Free
         /\ \A u \in Users : mine[u] \in SUBSET SlabNodes
<1>1. top.ptr \in Pointers /\ link \in [SlabNodes -> Pointers]
  BY DEF StackInv, StTypeOK, Heads
<1>2. Null \notin SlabNodes
  BY DEF StackInv, StackConstants
<1>3. Free \in SUBSET SlabNodes
  BY DEF Free, OnList
<1>4. top.ptr \in SlabNodes => top.ptr \in Free
  BY <1>1, TakeFirst, Zenon DEF StackInv, Free
<1>5. \A u \in Users : mine[u] \in SUBSET SlabNodes
  BY DEF StackInv, StTypeOK
<1> QED BY <1>1, <1>2, <1>3, <1>4, <1>5

\* A step that leaves the list, the links and the objects held alone.
LEMMA QuietStack ==
  ASSUME StackInv, UNCHANGED <<top, link, mine, node>>, StTypeOK', \A u \in Users : Knows(u)'
  PROVE  StackInv'
<1>1. Free' = Free
  BY DEF Free
<1>2. ObjectsAccounted'
  BY <1>1 DEF StackInv, ObjectsAccounted
<1>3. IsList(top.ptr, link)' /\ StackConstants'
  BY DEF StackInv, StackConstants, IsList
<1> QED BY <1>2, <1>3 DEF StackInv

LEMMA PopLoadStack ==
  ASSUME StackInv, NEW u \in Users, PopLoad(u)
  PROVE  StackInv'
<1>1. StTypeOK'
  BY DEF StackInv, StTypeOK, PopLoad, Set, StackPlaces, Heads
<1>2. ASSUME NEW v \in Users
      PROVE  Knows(v)'
  BY DEF StackInv, StTypeOK, PopLoad, Set, Knows, Heads
<1> QED BY <1>1, <1>2, QuietStack DEF PopLoad

LEMMA PopLinkStack ==
  ASSUME StackInv, NEW u \in Users, PopLink(u)
  PROVE  StackInv'
<1>1. seen[u].ptr \in SlabNodes
  BY DEF StackInv, StTypeOK, PopLink, Knows, Heads, Pointers
<1>2. StTypeOK'
  BY <1>1 DEF StackInv, StTypeOK, PopLink, Set, StackPlaces
<1>3. ASSUME NEW v \in Users
      PROVE  Knows(v)'
  BY DEF StackInv, StTypeOK, PopLink, Set, Knows, Heads
<1> QED BY <1>2, <1>3, QuietStack DEF PopLink

\* The exchange succeeds only on the head that the link was read from.
LEMMA PopCasStack ==
  ASSUME StackInv, NEW u \in Users, PopCas(u)
  PROVE  StackInv'
<1>1. CASE top # seen[u]
  <2>1. StTypeOK'
    BY <1>1 DEF StackInv, StTypeOK, PopCas, Set, StackPlaces
  <2>2. ASSUME NEW v \in Users
        PROVE  Knows(v)'
    BY <1>1 DEF StackInv, StTypeOK, PopCas, Set, Knows, Heads
  <2> QED BY <1>1, <2>1, <2>2, QuietStack DEF PopCas
<1>2. CASE top = seen[u]
  <2>1. top.ptr \in SlabNodes /\ next[u] = link[top.ptr] /\ next[u] \in Pointers
    BY <1>2 DEF StackInv, StTypeOK, PopCas, Knows, Heads, Pointers
  <2>2. top'.ptr = link[top.ptr] /\ top'.tag = top.tag + 1 /\ link' = link
    <3>1. top' = [ptr |-> next[u], tag |-> top.tag + 1] /\ link' = link
      BY <1>2 DEF PopCas
    <3> QED BY <2>1, <3>1
  <2>3. IsList(top.ptr, link)' /\ StackConstants' /\ Free' = Free \ {top.ptr} /\ top.ptr \in Free
    <3>1. StackConstants /\ IsList(top.ptr, link) /\ link \in [SlabNodes -> Pointers]
      BY DEF StackInv, StTypeOK
    <3>2. /\ top.ptr \in OnList(top.ptr, link) /\ IsList(link[top.ptr], link)
          /\ OnList(link[top.ptr], link) = OnList(top.ptr, link) \ {top.ptr}
      BY <2>1, <3>1, TakeFirst, Zenon
    <3> QED BY <2>2, <3>1, <3>2 DEF Free, IsList, StackConstants
  <2>4. StTypeOK'
    BY <1>2, <2>1 DEF StackInv, StTypeOK, PopCas, Set, StackPlaces, Heads
  <2>5. ASSUME NEW v \in Users
        PROVE  Knows(v)'
    BY <1>2, <2>2, SMTT(30) DEF StackInv, StTypeOK, PopCas, Set, Knows, Heads
  <2>6. ObjectsAccounted'
    <3>1. mine' = [mine EXCEPT ![u] = mine[u] \cup {top.ptr}] /\ node' = node
      BY <1>2 DEF PopCas, Set
    <3>2. mine \in [Users -> SUBSET SlabNodes] /\ ObjectsAccounted /\ Null \notin SlabNodes
      BY StackParts DEF StackInv, StTypeOK
    <3>3. mine'[u] = mine[u] \cup {top.ptr} /\ \A v \in Users \ {u} : mine'[v] = mine[v]
      BY <3>1, <3>2
    <3>4. \A v \in Users : top.ptr \notin mine[v] /\ top.ptr # node[v]
      BY <2>3, <3>2 DEF ObjectsAccounted
    <3>5. Free' \cup UNION {mine'[v] \cup ({node'[v]} \ {Null}) : v \in Users} = SlabNodes
      BY <2>1, <2>3, <3>1, <3>2, <3>3, SMTT(30) DEF ObjectsAccounted
    <3>6. \A v \in Users : Free' \cap (mine'[v] \cup {node'[v]}) = {} /\ node'[v] \notin mine'[v]
      BY <2>3, <3>1, <3>2, <3>3, <3>4 DEF ObjectsAccounted
    <3>7. ASSUME NEW v \in Users, NEW w \in Users, v # w
          PROVE  (mine'[v] \cup ({node'[v]} \ {Null})) \cap (mine'[w] \cup {node'[w]}) = {}
      <4>1. (mine[v] \cup ({node[v]} \ {Null})) \cap (mine[w] \cup {node[w]}) = {}
        BY <3>2, <3>7 DEF ObjectsAccounted
      <4> QED BY <3>1, <3>3, <3>4, <3>7, <4>1
    <3> QED BY <3>5, <3>6, <3>7 DEF ObjectsAccounted
  <2> QED BY <2>3, <2>4, <2>5, <2>6 DEF StackInv
<1> QED BY <1>1, <1>2

\* A write to an object that is not on the free list leaves the list alone.
LEMMA WriteLink ==
  ASSUME StackInv, NEW m \in SlabNodes \ Free, NEW x \in Pointers,
         link' = [link EXCEPT ![m] = x], UNCHANGED <<top, mine, node>>
  PROVE  /\ IsList(top.ptr, link)' /\ StackConstants' /\ ObjectsAccounted'
         /\ link' \in [SlabNodes -> Pointers] /\ link'[m] = x
         /\ \A n \in SlabNodes \ {m} : link'[n] = link[n]
<1>1. /\ StackConstants /\ IsList(top.ptr, link) /\ link \in [SlabNodes -> Pointers]
      /\ top.ptr \in Pointers /\ m \in SlabNodes \ OnList(top.ptr, link)
  BY StackParts DEF StackInv, Free
<1>2. /\ IsList(top.ptr, [link EXCEPT ![m] = x])
      /\ OnList(top.ptr, [link EXCEPT ![m] = x]) = OnList(top.ptr, link)
  BY <1>1, WriteOff, Zenon
<1>3. Free' = Free /\ IsList(top.ptr, link)' /\ StackConstants'
  BY <1>1, <1>2 DEF Free, IsList, StackConstants
<1>4. ObjectsAccounted'
  BY <1>3 DEF StackInv, ObjectsAccounted
<1>5. /\ link' \in [SlabNodes -> Pointers] /\ link'[m] = x
      /\ \A n \in SlabNodes \ {m} : link'[n] = link[n]
  BY <1>1
<1> QED BY <1>3, <1>4, <1>5

\* A holder's write is to an object on no list and in no push.
LEMMA ScribbleStack ==
  ASSUME StackInv, NEW u \in Users, NEW m \in SlabNodes, NEW x \in Pointers, Scribble(u, m, x)
  PROVE  StackInv'
<1>1. /\ m \notin Free /\ \A v \in Users : node[v] # m
      /\ top.ptr # m /\ top.ptr \in Pointers
  <2>1. m \in mine[u] /\ Null # m
    BY StackParts DEF Scribble
  <2>2. /\ \A v \in Users : Free \cap (mine[v] \cup {node[v]}) = {} /\ node[v] \notin mine[v]
        /\ \A v, w \in Users : v # w => (mine[v] \cup ({node[v]} \ {Null})) \cap (mine[w] \cup {node[w]}) = {}
    BY Zenon DEF StackInv, ObjectsAccounted
  <2>3. m \notin Free /\ node[u] # m
    BY <2>1, <2>2
  <2>4. ASSUME NEW v \in Users, v # u PROVE node[v] # m
    BY <2>1, <2>2, <2>4
  <2>5. top.ptr \in Pointers /\ (top.ptr \in SlabNodes => top.ptr \in Free)
    BY StackParts, Zenon
  <2> QED BY <2>3, <2>4, <2>5
<1>2. UNCHANGED <<top, upc, mine, seen, next, node>> /\ link' = [link EXCEPT ![m] = x]
  BY DEF Scribble
<1>3. /\ IsList(top.ptr, link)' /\ StackConstants' /\ ObjectsAccounted'
      /\ link' \in [SlabNodes -> Pointers]
      /\ \A n \in SlabNodes \ {m} : link'[n] = link[n]
  BY <1>1, <1>2, WriteLink
<1>4. StTypeOK'
  BY <1>2, <1>3 DEF StackInv, StTypeOK
<1>5. ASSUME NEW v \in Users
      PROVE  Knows(v)'
  <2>1. node[v] # Null => link'[node[v]] = link[node[v]]
    BY <1>1, <1>3 DEF StackInv, StTypeOK, Pointers
  <2>2. top.ptr # Null => link'[top.ptr] = link[top.ptr]
    BY <1>1, <1>3 DEF Pointers
  <2> QED BY <1>2, <2>1, <2>2 DEF StackInv, StTypeOK, Knows
<1> QED BY <1>3, <1>4, <1>5 DEF StackInv

LEMMA PushLoadStack ==
  ASSUME StackInv, NEW u \in Users, NEW m \in SlabNodes, PushLoad(u, m)
  PROVE  StackInv'
<1>1. node[u] = Null /\ m \in mine[u] /\ Null \notin SlabNodes
  BY StackParts DEF StackInv, Knows, PushLoad
<1>2. StTypeOK'
  BY DEF StackInv, StTypeOK, PushLoad, Set, StackPlaces, Pointers
<1>3. ASSUME NEW v \in Users
      PROVE  Knows(v)'
  BY <1>1 DEF StackInv, StTypeOK, PushLoad, Set, Knows, Heads
<1>4. Free' = Free /\ IsList(top.ptr, link)' /\ StackConstants'
  BY DEF StackInv, Free, IsList, StackConstants, PushLoad
<1>5. ObjectsAccounted'
  <2>1. /\ mine' = [mine EXCEPT ![u] = mine[u] \ {m}] /\ node' = [node EXCEPT ![u] = m]
        /\ mine \in [Users -> SUBSET SlabNodes] /\ node \in [Users -> Pointers] /\ ObjectsAccounted
    BY DEF PushLoad, Set, StackInv, StTypeOK
  <2> QED BY <1>1, <1>4, <2>1 DEF ObjectsAccounted
<1> QED BY <1>2, <1>3, <1>4, <1>5 DEF StackInv

LEMMA PushLinkStack ==
  ASSUME StackInv, NEW u \in Users, PushLink(u)
  PROVE  StackInv'
<1>1. /\ node[u] \in SlabNodes \ Free /\ \A v \in Users \ {u} : node[v] # node[u]
      /\ top.ptr # node[u] /\ top.ptr \in Pointers /\ seen[u].ptr \in Pointers
  <2>1. node[u] \in SlabNodes /\ seen[u].ptr \in Pointers
    BY DEF StackInv, StTypeOK, Knows, PushLink, Pointers, Heads
  <2>2. node[u] \notin Free /\ \A v \in Users \ {u} : node[v] # node[u]
    BY <2>1, StackParts DEF StackInv, ObjectsAccounted
  <2> QED BY <2>1, <2>2, StackParts
<1>2. UNCHANGED <<top, mine, seen, next, node>> /\ link' = [link EXCEPT ![node[u]] = seen[u].ptr]
  BY DEF PushLink
<1>3. /\ IsList(top.ptr, link)' /\ StackConstants' /\ ObjectsAccounted'
      /\ link' \in [SlabNodes -> Pointers] /\ link'[node[u]] = seen[u].ptr
      /\ \A n \in SlabNodes \ {node[u]} : link'[n] = link[n]
  BY <1>1, <1>2, WriteLink
<1>4. StTypeOK'
  BY <1>2, <1>3 DEF StackInv, StTypeOK, PushLink, Set, StackPlaces
<1>5. ASSUME NEW v \in Users
      PROVE  Knows(v)'
  <2>1. v # u /\ node[v] # Null => link'[node[v]] = link[node[v]]
    BY <1>1, <1>3 DEF StackInv, StTypeOK, Pointers
  <2>2. top.ptr # Null => link'[top.ptr] = link[top.ptr]
    BY <1>1, <1>3 DEF Pointers
  <2>3. upc' = [upc EXCEPT ![u] = "put"] /\ upc[u] = "store"
    BY DEF PushLink, Set
  <2> QED BY <1>2, <1>3, <2>1, <2>2, <2>3 DEF StackInv, StTypeOK, Knows
<1> QED BY <1>3, <1>4, <1>5 DEF StackInv

\* The exchange succeeds only on the head that the node has been linked to.
LEMMA PushCasStack ==
  ASSUME StackInv, NEW u \in Users, PushCas(u)
  PROVE  StackInv'
<1>1. CASE top # seen[u]
  <2>1. StTypeOK'
    BY <1>1 DEF StackInv, StTypeOK, PushCas, Set, StackPlaces
  <2>2. ASSUME NEW v \in Users
        PROVE  Knows(v)'
    BY <1>1, SMTT(30) DEF StackInv, StTypeOK, PushCas, Set, Knows, Heads
  <2> QED BY <1>1, <2>1, <2>2, QuietStack DEF PushCas
<1>2. CASE top = seen[u]
  <2>1. /\ node[u] \in SlabNodes /\ link[node[u]] = top.ptr
        /\ top'.ptr = node[u] /\ top'.tag = top.tag + 1 /\ link' = link /\ mine' = mine
        /\ node' = [node EXCEPT ![u] = Null]
    BY <1>2, SMTT(30) DEF StackInv, StTypeOK, PushCas, Knows, Heads, Pointers, Set
  <2>2. node[u] \notin Free
    BY <2>1 DEF StackInv, ObjectsAccounted
  <2>3. IsList(top.ptr, link)' /\ StackConstants' /\ Free' = Free \cup {node[u]}
    <3>1. /\ StackConstants /\ IsList(top.ptr, link) /\ link \in [SlabNodes -> Pointers]
          /\ top.ptr \in Pointers /\ node[u] \in SlabNodes \ OnList(top.ptr, link)
      BY <2>1, <2>2, StackParts DEF StackInv, Free
    <3>2. /\ IsList(node[u], link)
          /\ OnList(node[u], link) = OnList(top.ptr, link) \cup {node[u]}
      <4>1. node[u] \notin OnList(link[node[u]], link) /\ IsList(link[node[u]], link)
        BY <2>1, <3>1
      <4>2. /\ IsList(node[u], link)
            /\ OnList(node[u], link) = OnList(link[node[u]], link) \cup {node[u]}
        BY <3>1, <4>1, PutFirst, Zenon
      <4> QED BY <2>1, <4>2
    <3> QED BY <2>1, <3>1, <3>2 DEF Free, IsList, StackConstants
  <2>4. StTypeOK'
    BY <1>2, <2>1, SMTT(30) DEF StackInv, StTypeOK, PushCas, Set, StackPlaces, Heads, Pointers
  <2>5. ASSUME NEW v \in Users
        PROVE  Knows(v)'
    <3>1. /\ upc[u] = "put" /\ upc' = [upc EXCEPT ![u] = "out"] /\ UNCHANGED <<seen, next, link>>
      BY <1>2 DEF PushCas, Set
    <3>2. /\ upc \in [Users -> StackPlaces] /\ node \in [Users -> Pointers]
          /\ top.tag \in Nat /\ seen[v].tag \in Nat /\ Knows(v)
      BY DEF StackInv, StTypeOK, Heads
    <3>3. seen'[v].tag < top'.tag
      BY <2>1, <3>1, <3>2 DEF Knows
    <3>4. seen'[v].tag # top'.tag /\ seen'[v] # top' /\ seen'[v].tag <= top'.tag
      BY <2>1, <3>1, <3>2, <3>3
    <3> QED BY <2>1, <3>1, <3>2, <3>4 DEF Knows
  <2>6. ObjectsAccounted'
    <3>1. /\ mine \in [Users -> SUBSET SlabNodes] /\ node \in [Users -> Pointers]
          /\ ObjectsAccounted /\ Null \notin SlabNodes
      BY StackParts DEF StackInv, StTypeOK
    <3> QED BY <2>1, <2>3, <3>1 DEF ObjectsAccounted
  <2> QED BY <2>3, <2>4, <2>5, <2>6 DEF StackInv
<1> QED BY <1>1, <1>2

\* Whatever number of users and objects, and however alloc, free and writes to
\* the objects interleave, every object is on the free list, with one user or
\* in one push (AtomicTaggedStack::pop and push under PerCpuSlab).
THEOREM StackObjectsAccounted == StackConstants /\ StSpec => []ObjectsAccounted
<1>1. StackConstants /\ StInit => StackInv
  BY InitStack
<1>2. StackInv /\ [StNext]_stvars => StackInv'
  <2> SUFFICES ASSUME StackInv, [StNext]_stvars
               PROVE  StackInv'
    OBVIOUS
  <2>1. CASE UNCHANGED stvars
    <3>1. StTypeOK'
      BY <2>1 DEF stvars, StackInv, StTypeOK
    <3>2. \A u \in Users : Knows(u)'
      BY <2>1 DEF stvars, StackInv, Knows
    <3> QED BY <2>1, <3>1, <3>2, QuietStack DEF stvars
  <2>2. ASSUME NEW u \in Users, PopLoad(u) \/ PopLink(u) \/ PopCas(u)
        PROVE  StackInv'
    BY <2>2, PopLoadStack, PopLinkStack, PopCasStack
  <2>3. ASSUME NEW u \in Users, PushLink(u) \/ PushCas(u)
        PROVE  StackInv'
    BY <2>3, PushLinkStack, PushCasStack
  <2>4. ASSUME NEW u \in Users, NEW n \in SlabNodes,
               PushLoad(u, n) \/ \E x \in SlabNodes \cup {Null} : Scribble(u, n, x)
        PROVE  StackInv'
    BY <2>4, PushLoadStack, ScribbleStack DEF Pointers
  <2> QED BY <2>1, <2>2, <2>3, <2>4 DEF StNext
<1>3. StackInv => ObjectsAccounted
  BY DEF StackInv
<1> QED BY <1>1, <1>2, <1>3, PTL DEF StSpec

-----------------------------------------------------------------------------
(***************************************************************************)
(* Keyboard, for any number of readers, any ring size and any number of    *)
(* key presses, as long as no interrupt arrives while the running reader   *)
(* holds one of the two spin locks.  The argument counts: while a reader   *)
(* sleeps there are at most as many buffered bytes as readers awake in     *)
(* their call, because every byte wakes one of them and every one of them  *)
(* takes at least one.                                                     *)
(***************************************************************************)

(* The hypotheses: finitely many readers, and locks no interrupt lands on. *)
KbConstants == IsFiniteSet(Readers) /\ IrqHitsLock = FALSE

Labels == {"user", "sample", "ring", "ring_held", "current", "current_held", "block", "blocked"}

KbTypeOK ==
  /\ len \in Nat /\ seq \in Nat
  /\ ring_lock \in Readers \cup {None} /\ sched_lock \in Readers \cup {None}
  /\ waiters \in Seq(Readers)
  /\ run \in Readers \cup {Idle}
  /\ irq \in {"none", "feed", "bump", "wake", "tick"}
  /\ pc \in [Readers -> Labels]
  /\ snap \in [Readers -> Nat]
  /\ want \in [Readers -> Nat]
  /\ \A r \in Readers : pc[r] # "user" => want[r] \in Lens

(* The queue links exactly the sleeping readers, each once. *)
NoDup(q) == \A i, j \in 1..Len(q) : q[i] = q[j] => i = j
QueueInv ==
  /\ NoDup(waiters)
  /\ Waiting(waiters) = {r \in Readers : pc[r] = "blocked"}

(* The scheduler lock is held by the thread on the CPU, outside any handler: *)
(* no handler finds it taken, so wake_one_from_irq never drops a wake.       *)
LockInv ==
  sched_lock # None => irq = "none" /\ run = sched_lock /\ pc[sched_lock] = "current_held"

(* A reader that saw the ring empty and holds the current counter still     *)
(* faces an empty ring, unless the handler is about to bump the counter.    *)
EmptyInv ==
  \A r \in Readers :
    /\ snap[r] <= seq
    /\ (pc[r] \in {"current", "current_held", "block"} /\ snap[r] = seq /\ irq # "bump") => len = 0

(* The readers awake in their call, and the wake the handler still owes. *)
Awake == {r \in Readers : pc[r] \notin {"user", "blocked"}}
Owed == IF irq \in {"bump", "wake"} THEN 1 ELSE 0

(* While a reader sleeps, every buffered byte has a taker. *)
DebtInv == waiters # << >> => len <= Cardinality(Awake) + Owed

KbInv == KbTypeOK /\ QueueInv /\ LockInv /\ EmptyInv /\ DebtInv
-----------------------------------------------------------------------------
(* enqueue_raw adds exactly the thread it links. *)
LEMMA EnqueueFacts ==
  ASSUME NEW S, NEW q \in Seq(S), NEW t \in S, NoDup(q), t \notin Waiting(q)
  PROVE  /\ Enqueue(q, t) \in Seq(S)
         /\ NoDup(Enqueue(q, t))
         /\ Waiting(Enqueue(q, t)) = Waiting(q) \cup {t}
<1> DEFINE p == Enqueue(q, t)
<1>1. p \in Seq(S) /\ Len(p) = Len(q) + 1 /\ p[Len(q) + 1] = t
      /\ \A i \in 1..Len(q) : p[i] = q[i]
  BY DEF Enqueue
<1>2. NoDup(p)
  <2>1. q \in Seq(S) /\ \A i \in 1..Len(q) : q[i] # t
    BY DEF Waiting
  <2>2. \A i \in 1..Len(p) : i \in 1..Len(q) \/ i = Len(q) + 1
    BY <1>1, <2>1
  <2>3. \A i, j \in 1..Len(q) : i # j => q[i] # q[j]
    BY DEF NoDup
  <2> HIDE DEF p
  <2> QED BY <1>1, <2>1, <2>2, <2>3 DEF NoDup
<1>3. Waiting(p) = Waiting(q) \cup {t}
  <2>1. 1..Len(p) = 1..Len(q) \cup {Len(q) + 1}
    BY <1>1
  <2> HIDE DEF p
  <2> QED BY <1>1, <2>1 DEF Waiting
<1> QED BY <1>1, <1>2, <1>3

(* wake_one on a non-empty queue takes out exactly the thread at its head. *)
LEMMA WakeOneFacts ==
  ASSUME NEW S, NEW q \in Seq(S), NoDup(q), q # << >>
  PROVE  /\ Tail(q) \in Seq(S)
         /\ NoDup(Tail(q))
         /\ Head(q) \in Waiting(q)
         /\ Waiting(Tail(q)) = Waiting(q) \ {Head(q)}
<1> DEFINE p == Tail(q)
<1>1. p \in Seq(S) /\ Len(q) \in Nat \ {0} /\ Len(p) = Len(q) - 1 /\ Head(q) = q[1]
      /\ \A i \in 1..Len(p) : p[i] = q[i + 1]
  OBVIOUS
<1>2. NoDup(p)
  BY <1>1 DEF NoDup
<1>3. Head(q) \in Waiting(q)
  BY <1>1 DEF Waiting
<1>4. Waiting(p) = Waiting(q) \ {Head(q)}
  <2>1. ASSUME NEW x \in Waiting(p) PROVE x \in Waiting(q) \ {Head(q)}
    <3>1. PICK i \in 1..Len(p) : x = p[i]
      BY DEF Waiting
    <3>2. i + 1 \in 1..Len(q) /\ x = q[i + 1] /\ 1 \in 1..Len(q) /\ i + 1 # 1
      BY <1>1, <3>1
    <3> QED BY <3>2, <1>1 DEF Waiting, NoDup
  <2>2. ASSUME NEW x \in Waiting(q) \ {Head(q)} PROVE x \in Waiting(p)
    <3>1. PICK i \in 1..Len(q) : x = q[i] /\ i # 1
      BY <1>1 DEF Waiting
    <3>2. i - 1 \in 1..Len(p) /\ x = p[i - 1]
      BY <1>1, <3>1
    <3> QED BY <3>2 DEF Waiting
  <2> QED BY <2>1, <2>2
<1> QED BY <1>1, <1>2, <1>3, <1>4

(* The threads of a queue of S are members of S, and the empty queue is one. *)
LEMMA QueueFacts ==
  ASSUME NEW S, NEW q \in Seq(S)
  PROVE  /\ Waiting(q) \subseteq S
         /\ Waiting(<< >>) = {}
         /\ << >> \in Seq(S)
         /\ NoDup(<< >>)
         /\ Waiting(q) = {} => q = << >>
BY DEF Waiting, NoDup

-----------------------------------------------------------------------------
(* One reader entering or leaving the readers awake in their call. *)
LEMMA AwakeCount ==
  ASSUME NEW S, IsFiniteSet(S), NEW A \in SUBSET S, NEW r \in S
  PROVE  /\ Cardinality(A) \in Nat
         /\ r \notin A => Cardinality(A \cup {r}) = Cardinality(A) + 1
         /\ r \in A => Cardinality(A \ {r}) = Cardinality(A) - 1
         /\ A # {} <=> Cardinality(A) > 0
<1>1. IsFiniteSet(A)
  BY FS_Subset
<1>2. Cardinality(A) \in Nat
  BY <1>1, FS_CardinalityType
<1>3. r \notin A => Cardinality(A \cup {r}) = Cardinality(A) + 1
  BY <1>1, FS_AddElement
<1>4. r \in A => Cardinality(A \ {r}) = Cardinality(A) - 1
  BY <1>1, FS_RemoveElement
<1>5. A # {} <=> Cardinality(A) > 0
  BY <1>1, <1>2, FS_EmptySet
<1> QED BY <1>2, <1>3, <1>4, <1>5

LEMMA AwakeNat ==
  ASSUME KbConstants
  PROVE  Awake \in SUBSET Readers /\ Cardinality(Awake) \in Nat
<1>1. Awake \in SUBSET Readers
  BY DEF Awake
<1>2. IsFiniteSet(Awake)
  BY <1>1, FS_Subset DEF KbConstants
<1> QED BY <1>1, <1>2, FS_CardinalityType

LEMMA KbInitially == ASSUME KbConstants, Init PROVE KbInv
<1>1. KbTypeOK
  BY KeyboardAssumption DEF Init, KbTypeOK, Labels
<1>2. QueueInv
  BY DEF Init, QueueInv, NoDup, Waiting
<1>3. LockInv /\ EmptyInv /\ DebtInv
  BY DEF Init, LockInv, EmptyInv, DebtInv
<1> QED BY <1>1, <1>2, <1>3 DEF KbInv

(* A step of a running reader r that moves it to label l, inside its call   *)
(* before and after, and leaves the bytes, the counter and the queue alone. *)
LEMMA KbSample ==
  ASSUME KbConstants, KbInv, NEW r \in Readers, Sample(r)
  PROVE  KbInv'
<1> USE DEF Sample, At, Goto, locks, call
<1>1. KbTypeOK'
  BY DEF KbInv, KbTypeOK, Labels
<1>2. QueueInv'
  BY DEF KbInv, KbTypeOK, QueueInv
<1>3. LockInv'
  BY DEF KbInv, KbTypeOK, LockInv
<1>4. EmptyInv'
  BY DEF KbInv, KbTypeOK, EmptyInv
<1>5. Awake' = Awake /\ Owed' = Owed
  BY DEF KbInv, KbTypeOK, Awake, Owed
<1>6. DebtInv'
  BY <1>5 DEF KbInv, DebtInv
<1> QED BY <1>1, <1>2, <1>3, <1>4, <1>6 DEF KbInv

LEMMA KbRingLock ==
  ASSUME KbConstants, KbInv, NEW r \in Readers, RingLock(r)
  PROVE  KbInv'
<1> USE DEF RingLock, At, Goto, call
<1>1. KbTypeOK'
  BY DEF KbInv, KbTypeOK, Labels
<1>2. QueueInv'
  BY DEF KbInv, KbTypeOK, QueueInv
<1>3. LockInv'
  BY DEF KbInv, KbTypeOK, LockInv
<1>4. EmptyInv'
  BY DEF KbInv, KbTypeOK, EmptyInv
<1>5. Awake' = Awake /\ Owed' = Owed
  BY DEF KbInv, KbTypeOK, Awake, Owed
<1>6. DebtInv'
  BY <1>5 DEF KbInv, DebtInv
<1> QED BY <1>1, <1>2, <1>3, <1>4, <1>6 DEF KbInv

LEMMA KbCurrentLock ==
  ASSUME KbConstants, KbInv, NEW r \in Readers, CurrentLock(r)
  PROVE  KbInv'
<1> USE DEF CurrentLock, At, Goto, call
<1>1. KbTypeOK'
  BY DEF KbInv, KbTypeOK, Labels
<1>2. QueueInv'
  BY DEF KbInv, KbTypeOK, QueueInv
<1>3. LockInv'
  BY DEF KbInv, KbTypeOK, LockInv
<1>4. EmptyInv'
  BY DEF KbInv, KbTypeOK, EmptyInv
<1>5. Awake' = Awake /\ Owed' = Owed
  BY DEF KbInv, KbTypeOK, Awake, Owed
<1>6. DebtInv'
  BY <1>5 DEF KbInv, DebtInv
<1> QED BY <1>1, <1>2, <1>3, <1>4, <1>6 DEF KbInv

LEMMA KbCurrentUnlock ==
  ASSUME KbConstants, KbInv, NEW r \in Readers, CurrentUnlock(r)
  PROVE  KbInv'
<1> USE DEF CurrentUnlock, At, Goto, call
<1>1. KbTypeOK'
  BY DEF KbInv, KbTypeOK, Labels
<1>2. QueueInv'
  BY DEF KbInv, KbTypeOK, QueueInv
<1>3. LockInv'
  BY DEF LockInv
<1>4. EmptyInv'
  BY DEF KbInv, KbTypeOK, EmptyInv
<1>5. Awake' = Awake /\ Owed' = Owed
  BY DEF KbInv, KbTypeOK, Awake, Owed
<1>6. DebtInv'
  BY <1>5 DEF KbInv, DebtInv
<1> QED BY <1>1, <1>2, <1>3, <1>4, <1>6 DEF KbInv

(* A reader entering its call is one more that will take bytes. *)
LEMMA KbCall ==
  ASSUME KbConstants, KbInv, NEW r \in Readers, Call(r)
  PROVE  KbInv'
<1> USE DEF Call, At, Goto, locks
<1>1. KbTypeOK'
  BY KeyboardAssumption DEF KbInv, KbTypeOK, Labels
<1>2. QueueInv'
  BY DEF KbInv, KbTypeOK, QueueInv
<1>3. LockInv'
  BY DEF KbInv, KbTypeOK, LockInv
<1>4. EmptyInv'
  BY DEF KbInv, KbTypeOK, EmptyInv
<1>5. Awake' = Awake \cup {r} /\ r \notin Awake /\ Owed' = Owed /\ Awake \in SUBSET Readers
  BY DEF KbInv, KbTypeOK, Awake, Owed
<1>6. Cardinality(Awake') = Cardinality(Awake) + 1 /\ Cardinality(Awake) \in Nat
  BY <1>5, AwakeCount DEF KbConstants
<1>7. DebtInv'
  BY <1>5, <1>6, SMTT(30) DEF KbInv, KbTypeOK, DebtInv, Owed
<1> QED BY <1>1, <1>2, <1>3, <1>4, <1>7 DEF KbInv

(* A reader that leaves with bytes takes at least one with it. *)
LEMMA KbRingUnlock ==
  ASSUME KbConstants, KbInv, NEW r \in Readers, RingUnlock(r)
  PROVE  KbInv'
<1> USE DEF RingUnlock, At, Goto, call
<1>0. want[r] \in Nat \ {0} /\ len \in Nat
  BY KeyboardAssumption DEF KbInv, KbTypeOK
<1>a. CASE len > 0
  <2>0. len' \in Nat /\ len' <= len - 1
    BY <1>a, <1>0
  <2>1. KbTypeOK'
    BY <1>a, <2>0 DEF KbInv, KbTypeOK, Labels
  <2>2. QueueInv'
    BY <1>a DEF KbInv, KbTypeOK, QueueInv
  <2>3. LockInv'
    BY <1>a DEF KbInv, KbTypeOK, LockInv
  <2>4. EmptyInv'
    BY <1>a, <2>0, SMTT(30) DEF KbInv, KbTypeOK, EmptyInv
  <2>5. Awake' = Awake \ {r} /\ r \in Awake /\ Owed' = Owed /\ Awake \in SUBSET Readers
    BY <1>a DEF KbInv, KbTypeOK, Awake, Owed
  <2>6. Cardinality(Awake') = Cardinality(Awake) - 1 /\ Cardinality(Awake) \in Nat
    BY <2>5, AwakeCount, SMTT(30) DEF KbConstants
  <2>7. DebtInv'
    BY <1>0, <2>0, <2>5, <2>6, SMTT(30) DEF KbInv, DebtInv, Owed
  <2> QED BY <2>1, <2>2, <2>3, <2>4, <2>7 DEF KbInv
<1>b. CASE ~(len > 0)
  <2>0. len' = 0 /\ len = 0
    BY <1>b, <1>0
  <2>1. KbTypeOK'
    BY <1>b DEF KbInv, KbTypeOK, Labels
  <2>2. QueueInv'
    BY <1>b DEF KbInv, KbTypeOK, QueueInv
  <2>3. LockInv'
    BY <1>b DEF KbInv, KbTypeOK, LockInv
  <2>4. EmptyInv'
    BY <1>b, <2>0 DEF KbInv, KbTypeOK, EmptyInv
  <2>5. Awake' = Awake /\ Owed' = Owed
    BY <1>b DEF KbInv, KbTypeOK, Awake, Owed
  <2>6. DebtInv'
    BY <2>0, <2>5 DEF KbInv, DebtInv
  <2> QED BY <2>1, <2>2, <2>3, <2>4, <2>6 DEF KbInv
<1> QED BY <1>a, <1>b

(* A reader goes to sleep only on an empty ring. *)
LEMMA KbBlock ==
  ASSUME KbConstants, KbInv, NEW r \in Readers, Block(r)
  PROVE  KbInv'
<1>1. r \notin Waiting(waiters) /\ NoDup(waiters) /\ waiters \in Seq(Readers)
  BY DEF Block, At, KbInv, KbTypeOK, QueueInv
<1>2. /\ Enqueue(waiters, r) \in Seq(Readers) /\ NoDup(Enqueue(waiters, r))
      /\ Waiting(Enqueue(waiters, r)) = Waiting(waiters) \cup {r}
  BY <1>1, EnqueueFacts, ZenonT(30)
<1> USE DEF Block, At, Goto, locks, call
<1>a. CASE seq = snap[r]
  <2>0. len = 0 /\ len' = 0
    BY <1>a DEF KbInv, EmptyInv
  <2>q. /\ waiters' \in Seq(Readers) /\ NoDup(waiters')
        /\ Waiting(waiters') = Waiting(waiters) \cup {r}
    <3>1. waiters' = Enqueue(waiters, r)
      BY <1>a
    <3> QED BY <1>2, <3>1
  <2>1. KbTypeOK'
    BY <1>a, <2>q DEF KbInv, KbTypeOK, Labels, Ready
  <2>2. QueueInv'
    BY <1>a, <2>q DEF KbInv, KbTypeOK, QueueInv
  <2>3. LockInv'
    BY <1>a, KeyboardAssumption DEF KbInv, KbTypeOK, LockInv
  <2>4. EmptyInv'
    BY <1>a, <2>0 DEF KbInv, KbTypeOK, EmptyInv
  <2>6. Cardinality(Awake') \in Nat /\ Owed' \in Nat
    BY AwakeCount DEF KbConstants, Awake, Owed
  <2>7. DebtInv'
    BY <2>0, <2>6 DEF DebtInv
  <2> QED BY <2>1, <2>2, <2>3, <2>4, <2>7 DEF KbInv
<1>b. CASE seq # snap[r]
  <2>1. KbTypeOK'
    BY <1>b DEF KbInv, KbTypeOK, Labels
  <2>2. QueueInv'
    BY <1>b DEF KbInv, KbTypeOK, QueueInv
  <2>3. LockInv'
    BY <1>b DEF KbInv, KbTypeOK, LockInv
  <2>4. EmptyInv'
    BY <1>b DEF KbInv, KbTypeOK, EmptyInv
  <2>5. Awake' = Awake /\ Owed' = Owed
    BY <1>b DEF KbInv, KbTypeOK, Awake, Owed
  <2>6. DebtInv'
    BY <1>b, <2>5 DEF KbInv, DebtInv
  <2> QED BY <2>1, <2>2, <2>3, <2>4, <2>6 DEF KbInv
<1> QED BY <1>a, <1>b

(* The timer and the arrival of a key touch neither the bytes nor the readers; *)
(* no handler starts on a thread that holds the scheduler lock.                *)
LEMMA KbIrqStart ==
  ASSUME KbConstants, KbInv, KeyIrq \/ TickIrq
  PROVE  KbInv'
<1> USE DEF KeyIrq, TickIrq, Interruptible, locks, call
<1>1. KbTypeOK'
  BY DEF KbInv, KbTypeOK
<1>2. QueueInv'
  BY DEF KbInv, QueueInv
<1>3. LockInv'
  BY DEF KbConstants, KbInv, LockInv
<1>4. EmptyInv'
  BY DEF KbInv, KbTypeOK, EmptyInv
<1>5. Awake' = Awake /\ Owed' = Owed
  BY DEF Awake, Owed
<1>6. DebtInv'
  BY <1>5 DEF KbInv, DebtInv
<1> QED BY <1>1, <1>2, <1>3, <1>4, <1>6 DEF KbInv

LEMMA KbSwitch ==
  ASSUME KbConstants, KbInv, NEW t \in Readers \cup {Idle}, Switch(t)
  PROVE  KbInv'
<1> USE DEF Switch, locks, call
<1>1. KbTypeOK'
  BY DEF KbInv, KbTypeOK
<1>2. QueueInv'
  BY DEF KbInv, QueueInv
<1>3. LockInv'
  BY DEF LockInv
<1>4. EmptyInv'
  BY DEF KbInv, KbTypeOK, EmptyInv
<1>5. Awake' = Awake /\ Owed' = Owed
  BY DEF Awake, Owed
<1>6. DebtInv'
  BY <1>5 DEF KbInv, DebtInv
<1> QED BY <1>1, <1>2, <1>3, <1>4, <1>6 DEF KbInv

(* Each byte the handler pushes is one wake it owes. *)
LEMMA KbFeed ==
  ASSUME KbConstants, KbInv, IrqFeed
  PROVE  KbInv'
<1> USE DEF IrqFeed, locks, call
<1>1. KbTypeOK'
  BY SMTT(30) DEF KbInv, KbTypeOK
<1>2. QueueInv'
  BY DEF KbInv, QueueInv
<1>3. LockInv'
  BY DEF KbInv, LockInv
<1>4. EmptyInv'
  BY DEF KbInv, KbTypeOK, EmptyInv
<1>5. Awake' = Awake /\ len' <= len + Owed' /\ Owed = 0 /\ Owed' \in Nat
  BY DEF KbInv, KbTypeOK, Awake, Owed
<1>6. Cardinality(Awake) \in Nat
  BY AwakeNat
<1>7. DebtInv'
  <2>1. len \in Nat /\ len' \in Nat /\ waiters' = waiters /\ Cardinality(Awake') = Cardinality(Awake)
    BY <1>5, <1>1 DEF KbInv, KbTypeOK
  <2> SUFFICES ASSUME waiters' # << >> PROVE len' <= Cardinality(Awake') + Owed'
    BY DEF DebtInv
  <2>2. len <= Cardinality(Awake)
    BY <1>5, <1>6, <2>1 DEF KbInv, DebtInv
  <2> HIDE DEF IrqFeed
  <2> QED BY <1>5, <1>6, <2>1, <2>2 DEF Owed
<1> QED BY <1>1, <1>2, <1>3, <1>4, <1>7 DEF KbInv

LEMMA KbBump ==
  ASSUME KbConstants, KbInv, IrqBump
  PROVE  KbInv'
<1> USE DEF IrqBump, locks, call
<1>1. KbTypeOK'
  BY DEF KbInv, KbTypeOK
<1>2. QueueInv'
  BY DEF KbInv, QueueInv
<1>3. LockInv'
  BY DEF KbInv, LockInv
<1>4. EmptyInv'
  BY SMTT(30) DEF KbInv, KbTypeOK, EmptyInv
<1>5. Awake' = Awake /\ Owed' = Owed
  BY DEF Awake, Owed
<1>6. DebtInv'
  BY <1>5 DEF KbInv, DebtInv
<1> QED BY <1>1, <1>2, <1>3, <1>4, <1>6 DEF KbInv

(* The handler finds the scheduler lock free and pays with an awake reader. *)
LEMMA KbWake ==
  ASSUME KbConstants, KbInv, IrqWake
  PROVE  KbInv'
<1> USE DEF locks, call
<1>0. sched_lock = None /\ sched_lock' = None
  BY DEF IrqWake, KbInv, LockInv
<1>a. CASE waiters = << >>
  <2>1. /\ irq = "wake" /\ irq' = "none" /\ waiters' = waiters
        /\ UNCHANGED <<len, locks, seq, run, intr, call, keys>>
        /\ pc' = [r \in Readers |-> pc[r]]
    BY <1>0, <1>a DEF IrqWake, WakeOne, Outcome
  <2>2. pc' = pc
    BY <2>1 DEF KbInv, KbTypeOK
  <2>3. KbTypeOK'
    BY <2>1, <2>2 DEF KbInv, KbTypeOK
  <2>4. QueueInv'
    BY <2>1, <2>2 DEF KbInv, QueueInv
  <2>5. LockInv'
    BY <1>0 DEF LockInv
  <2>6. EmptyInv'
    BY <2>1, <2>2 DEF KbInv, EmptyInv
  <2>7. DebtInv'
    BY <1>a, <2>1 DEF DebtInv
  <2> QED BY <2>3, <2>4, <2>5, <2>6, <2>7 DEF KbInv
<1>b. CASE waiters # << >>
  <2> DEFINE h == Head(waiters)
  <2>q. /\ Tail(waiters) \in Seq(Readers) /\ NoDup(Tail(waiters))
        /\ h \in Waiting(waiters) /\ Waiting(Tail(waiters)) = Waiting(waiters) \ {h}
    BY <1>b, WakeOneFacts DEF KbInv, KbTypeOK, QueueInv
  <2>h. h \in Readers /\ pc[h] = "blocked"
    BY <2>q DEF KbInv, QueueInv
  <2>1. /\ irq = "wake" /\ irq' = "none" /\ waiters' = Tail(waiters)
        /\ UNCHANGED <<len, locks, seq, run, intr, call, keys>>
        /\ pc' = [r \in Readers |-> IF r \in {h} THEN "sample" ELSE pc[r]]
    BY <1>0, <1>b DEF IrqWake, WakeOne, Outcome
  <2> HIDE DEF h
  <2>2. pc' = [pc EXCEPT ![h] = "sample"]
    BY <2>1, <2>h DEF KbInv, KbTypeOK
  <2>3. KbTypeOK'
    BY <2>1, <2>2, <2>h, <2>q DEF KbInv, KbTypeOK, Labels
  <2>4. QueueInv'
    BY <2>1, <2>2, <2>h, <2>q DEF KbInv, KbTypeOK, QueueInv
  <2>5. LockInv'
    BY <1>0 DEF LockInv
  <2>6. EmptyInv'
    BY <2>1, <2>2, <2>h DEF KbInv, KbTypeOK, EmptyInv
  <2>7. Awake' = Awake \cup {h} /\ h \notin Awake /\ Awake \in SUBSET Readers
    BY <2>2, <2>h DEF KbInv, KbTypeOK, Awake
  <2>8. Cardinality(Awake') = Cardinality(Awake) + 1 /\ Cardinality(Awake) \in Nat
    BY <2>7, <2>h, AwakeCount DEF KbConstants
  <2>9. Owed = 1 /\ Owed' = 0 /\ len' = len
    BY <2>1 DEF Owed
  <2>10. DebtInv'
    BY <1>b, <2>8, <2>9 DEF KbInv, KbTypeOK, DebtInv
  <2> QED BY <2>3, <2>4, <2>5, <2>6, <2>10 DEF KbInv
<1> QED BY <1>a, <1>b

LEMMA KbStep == ASSUME KbConstants, KbInv, [Next]_vars PROVE KbInv'
<1>1. CASE UNCHANGED vars
  <2>1. KbTypeOK' /\ QueueInv' /\ LockInv' /\ EmptyInv'
    BY <1>1 DEF vars, KbInv, KbTypeOK, QueueInv, LockInv, EmptyInv
  <2>2. Awake' = Awake /\ Owed' = Owed
    BY <1>1 DEF vars, Awake, Owed
  <2>3. DebtInv'
    BY <1>1, <2>2 DEF vars, KbInv, DebtInv
  <2> QED BY <2>1, <2>3 DEF KbInv
<1>2. CASE Next
  BY <1>2, KbCall, KbSample, KbRingLock, KbRingUnlock, KbCurrentLock, KbCurrentUnlock, KbBlock,
     KbIrqStart, KbSwitch, KbFeed, KbBump, KbWake, Zenon DEF Next, Step, Handler
<1> QED BY <1>1, <1>2

(* No key is lost (keyboard_read, keyboard_irq_handler, thread_block_if and  *)
(* wake_one_from_irq): while a reader sleeps on a ring that holds bytes, the *)
(* handler still owes a wake or a reader it woke is awake in its call, for   *)
(* any number of readers, keys and ring slots, when no interrupt lands on a  *)
(* reader that holds a lock.                                                 *)
THEOREM KeyboardNoLostKey == KbConstants /\ Spec => []NoLostKey
<1> DEFINE I == KbConstants /\ KbInv
<1>1. KbConstants /\ Init => I
  BY KbInitially
<1>2. I /\ [Next]_vars => I'
  <2>1. KbConstants => KbConstants'
    BY DEF KbConstants
  <2> QED BY <2>1, KbStep
<1>3. I => NoLostKey
  <2> SUFFICES ASSUME I, NEW r \in Readers,
                      pc[r] = "blocked", len > 0, irq \notin {"bump", "wake"}
               PROVE  Awake # {}
    BY DEF NoLostKey, Awake
  <2>1. waiters # << >>
    <3>1. r \in Waiting(waiters)
      BY DEF KbInv, QueueInv
    <3> QED BY <3>1 DEF Waiting
  <2>2. Cardinality(Awake) > 0
    <3>1. Owed = 0 /\ len \in Nat
      BY DEF Owed, KbInv, KbTypeOK
    <3> QED BY <2>1, <3>1, AwakeNat DEF KbInv, DebtInv
  <2> QED BY <2>2, AwakeNat, AwakeCount DEF KbConstants
<1> HIDE DEF I
<1>4. Spec /\ KbConstants => []I
  BY <1>1, <1>2, PTL DEF Spec
<1> QED BY <1>3, <1>4, PTL
=============================================================================
