---------------------------- MODULE VirtioProofs ----------------------------
(***************************************************************************)
(* The receive queue of crates/virtio loses and doubles no buffer and      *)
(* keeps the order of the frames, for every queue length, number of        *)
(* buffers and range of the wrapping indices.  The invariant counts: the   *)
(* stretches of the two rings that are in use, the buffers the device      *)
(* holds, the one in the handler's hands and those of refused entries are  *)
(* RX_BUFFER_COUNT in all and every buffer is among them, so none is       *)
(* twice, and an entry written behind a stretch overwrites none of it.     *)
(***************************************************************************)
EXTENDS Virtio, FiniteSetTheorems, TLAPS

\* The length of the queue that is set up for a device.
SizeOf(d) == IF d.size < MAX_QUEUE_SIZE THEN d.size ELSE MAX_QUEUE_SIZE

\* A device has no queue, or one that holds the receive buffers (fill_rx takes
\* it for granted) and whose length divides the range of the indices (a power
\* of two, in the standard).
VConstants ==
  /\ MAX_QUEUE_SIZE \in Nat /\ RX_BUFFER_COUNT \in Nat \ {0} /\ FrameMod \in Nat \ {0}
  /\ IdxMod \in Nat /\ RX_BUFFER_COUNT < IdxMod
  /\ \A d \in NetDevices :
       /\ d.size \in Nat
       /\ SizeOf(d) # 0 => /\ RX_BUFFER_COUNT <= SizeOf(d)
                           /\ \E m \in Nat : IdxMod = SizeOf(d) * m

----------------------------------------------------------------------------
(* Arithmetic of indices *)

LEMMA DivMod ==
  ASSUME NEW n \in Nat \ {0}, NEW a \in Nat
  PROVE  a % n \in 0..(n - 1) /\ a = n * (a \div n) + (a % n) /\ a \div n \in Int
OBVIOUS

LEMMA NoMultipleBetween ==
  ASSUME NEW n \in Nat \ {0}, NEW k \in Int, n * k > 0, n * k < n
  PROVE  FALSE
<1>1. CASE k >= 1
  <2>1. n * k >= n * 1
    BY <1>1
  <2> QED BY <2>1
<1>2. CASE k <= 0
  <2>1. n * k <= n * 0
    BY <1>2
  <2> QED BY <2>1
<1> QED BY <1>1, <1>2

\* Two positions less than N apart have different slots.
LEMMA SlotsDiffer ==
  ASSUME NEW n \in Nat \ {0}, NEW a \in Nat, NEW b \in Nat, a < b, b < a + n
  PROVE  a % n # b % n
<1> SUFFICES ASSUME a % n = b % n PROVE FALSE
  OBVIOUS
<1> DEFINE qa == a \div n
           qb == b \div n
<1>1. /\ a = n * qa + (a % n) /\ b = n * qb + (b % n)
      /\ qa \in Int /\ qb \in Int /\ a % n \in Int
  BY DivMod
<1> HIDE DEF qa, qb
<1>2. b - a = n * qb - n * qa
  BY <1>1
<1>3. n * (qb - qa) = n * qb - n * qa
  BY <1>1
<1>4. qb - qa \in Int
  BY <1>1
<1> QED BY <1>2, <1>3, <1>4, NoMultipleBetween

\* Remainders are determined by the numbers' difference from a multiple.
LEMMA SameRemainder ==
  ASSUME NEW n \in Nat \ {0}, NEW a \in Nat, NEW b \in Nat, NEW k \in Int, b = a + n * k
  PROVE  b % n = a % n
<1> DEFINE qa == a \div n
           qb == b \div n
           ra == a % n
           rb == b % n
<1>1. /\ a = n * qa + ra /\ b = n * qb + rb
      /\ qa \in Int /\ qb \in Int /\ ra \in 0..(n - 1) /\ rb \in 0..(n - 1)
  BY DivMod
<1> HIDE DEF qa, qb, ra, rb
<1> DEFINE x == qb - qa - k
           y == qa + k - qb
<1>2. x \in Int /\ y \in Int /\ n * x = n * qb - n * qa - n * k /\ n * y = n * qa + n * k - n * qb
  BY <1>1
<1>3. n * qb \in Int /\ n * qa \in Int /\ n * k \in Int
  BY <1>1
<1>4. ra - rb = n * x /\ rb - ra = n * y
  BY <1>1, <1>2, <1>3
<1> HIDE DEF x, y
<1>5. ~(n * x > 0 /\ n * x < n) /\ ~(n * y > 0 /\ n * y < n)
  BY <1>2, NoMultipleBetween
<1>6. ~(ra > rb) /\ ~(rb > ra)
  BY <1>1, <1>4, <1>5
<1>7. ra = rb
  BY <1>1, <1>6
<1> QED BY <1>7 DEF ra, rb

\* A number below the modulus is its own remainder ...
LEMMA BelowMod ==
  ASSUME NEW n \in Nat \ {0}, NEW a \in 0..(n - 1)
  PROVE  a % n = a
<1> DEFINE q == a \div n
           r == a % n
<1>1. r \in 0..(n - 1) /\ a = n * q + r /\ q \in Int
  BY DivMod
<1> HIDE DEF q, r
<1>2. n * q \in Int /\ n * q < n /\ n * q > 0 - n /\ n * (0 - q) = 0 - n * q /\ 0 - q \in Int
  BY <1>1
<1>3. ~(n * q > 0) /\ ~(n * (0 - q) > 0)
  BY <1>1, <1>2, NoMultipleBetween
<1>4. r = a
  BY <1>1, <1>2, <1>3
<1> QED BY <1>4 DEF r

\* ... and one lap on, the rest is.
LEMMA LapMod ==
  ASSUME NEW n \in Nat \ {0}, NEW a \in n..(2 * n - 1)
  PROVE  a % n = a - n
<1>1. a \in Nat /\ a - n \in 0..(n - 1) /\ a - n \in Nat /\ 1 \in Int /\ a = (a - n) + n * 1
  OBVIOUS
<1>2. a % n = (a - n) % n
  BY <1>1, SameRemainder
<1> QED BY <1>1, <1>2, BelowMod

Indices == 0..(IdxMod - 1)

LEMMA IncIs ==
  ASSUME VConstants, NEW i \in Indices
  PROVE  Inc(i) = (IF i + 1 = IdxMod THEN 0 ELSE i + 1) /\ Inc(i) \in Indices
<1>1. IdxMod \in Nat \ {0}
  BY DEF VConstants
<1>2. CASE i + 1 = IdxMod
  <2>1. i + 1 \in IdxMod..(2 * IdxMod - 1)
    BY <1>1, <1>2
  <2>2. (i + 1) % IdxMod = (i + 1) - IdxMod
    BY <1>1, <2>1, LapMod
  <2> QED BY <1>1, <1>2, <2>2 DEF Inc, Indices
<1>3. CASE i + 1 # IdxMod
  <2>1. i + 1 \in 0..(IdxMod - 1)
    BY <1>1, <1>3 DEF Indices
  <2>2. (i + 1) % IdxMod = i + 1
    BY <1>1, <2>1, BelowMod
  <2> QED BY <1>1, <1>3, <2>1, <2>2 DEF Inc, Indices
<1> QED BY <1>2, <1>3

LEMMA BetweenIs ==
  ASSUME VConstants, NEW i \in Indices, NEW j \in Indices
  PROVE  Between(i, j) = (IF i <= j THEN j - i ELSE j - i + IdxMod) /\ Between(i, j) \in Indices
<1>1. IdxMod \in Nat \ {0} /\ i \in Int /\ j \in Int /\ i < IdxMod /\ j < IdxMod /\ 0 <= i /\ 0 <= j
  BY DEF VConstants, Indices
<1>2. CASE i <= j
  <2>1. j - i + IdxMod \in IdxMod..(2 * IdxMod - 1)
    BY <1>1, <1>2
  <2>2. (j - i + IdxMod) % IdxMod = (j - i + IdxMod) - IdxMod
    BY <1>1, <2>1, LapMod
  <2> QED BY <1>1, <1>2, <2>2 DEF Between, Indices
<1>3. CASE ~(i <= j)
  <2>1. j - i + IdxMod \in 0..(IdxMod - 1)
    BY <1>1, <1>3
  <2>2. (j - i + IdxMod) % IdxMod = j - i + IdxMod
    BY <1>1, <2>1, BelowMod
  <2> QED BY <1>1, <1>3, <2>1, <2>2 DEF Between, Indices
<1> QED BY <1>2, <1>3

\* Either end of a stretch of the ring moves by one.
LEMMA Advance ==
  ASSUME VConstants, NEW i \in Indices, NEW j \in Indices
  PROVE  /\ Between(i, j) + 1 < IdxMod => Between(i, Inc(j)) = Between(i, j) + 1
         /\ i # j => Between(Inc(i), j) = Between(i, j) - 1
         /\ Between(i, j) = 0 <=> i = j
<1>1. /\ Inc(i) = (IF i + 1 = IdxMod THEN 0 ELSE i + 1) /\ Inc(i) \in Indices
      /\ Inc(j) = (IF j + 1 = IdxMod THEN 0 ELSE j + 1) /\ Inc(j) \in Indices
  BY IncIs
<1>2. /\ Between(i, j) = (IF i <= j THEN j - i ELSE j - i + IdxMod)
      /\ Between(Inc(i), j) = (IF Inc(i) <= j THEN j - Inc(i) ELSE j - Inc(i) + IdxMod)
      /\ Between(i, Inc(j)) = (IF i <= Inc(j) THEN Inc(j) - i ELSE Inc(j) - i + IdxMod)
  BY <1>1, BetweenIs
<1>3. IdxMod \in Nat \ {0} /\ i \in Int /\ j \in Int /\ i < IdxMod /\ j < IdxMod /\ 0 <= i /\ 0 <= j
  BY DEF VConstants, Indices
<1> QED BY <1>1, <1>2, <1>3

\* A queue's length and what VConstants says of it.
Fits(q) == q \in Nat \ {0} /\ \E m \in Nat : IdxMod = q * m

\* Slots do not notice that an index wraps.
LEMMA SlotInc ==
  ASSUME VConstants, NEW q, Fits(q), NEW i \in Indices, NEW k \in Nat
  PROVE  (Inc(i) + k) % q = (i + (k + 1)) % q
<1>1. IdxMod \in Nat \ {0} /\ i \in Nat /\ q \in Nat \ {0}
  BY DEF VConstants, Indices, Fits
<1>2. CASE i + 1 # IdxMod
  BY <1>1, <1>2, IncIs
<1>3. CASE i + 1 = IdxMod
  <2>1. PICK m \in Nat : IdxMod = q * m
    BY DEF Fits
  <2>2. Inc(i) = 0 /\ i + (k + 1) = k + IdxMod /\ k + IdxMod \in Nat /\ m \in Int
    BY <1>1, <1>3, <2>1, IncIs
  <2>3. k + IdxMod = k + q * m
    BY <2>1
  <2>4. (k + IdxMod) % q = k % q
    BY <1>1, <2>2, <2>3, SameRemainder
  <2>5. Inc(i) + k = k
    BY <2>2
  <2> QED BY <2>2, <2>4, <2>5
<1> QED BY <1>2, <1>3

LEMMA SlotEnd ==
  ASSUME VConstants, NEW q, Fits(q), NEW i \in Indices, NEW j \in Indices
  PROVE  (i + Between(i, j)) % q = j % q
<1>1. IdxMod \in Nat \ {0} /\ i \in Nat /\ j \in Nat /\ q \in Nat \ {0}
  BY DEF VConstants, Indices, Fits
<1>2. CASE i <= j
  BY <1>1, <1>2, BetweenIs
<1>3. CASE ~(i <= j)
  <2>1. PICK m \in Nat : IdxMod = q * m
    BY DEF Fits
  <2>2. i + Between(i, j) = j + IdxMod /\ j + IdxMod \in Nat /\ m \in Int
    <3>1. Between(i, j) = j - i + IdxMod
      BY <1>3, BetweenIs
    <3> QED BY <1>1, <2>1, <3>1
  <2>3. j + IdxMod = j + q * m
    BY <2>1
  <2>4. (j + IdxMod) % q = j % q
    BY <1>1, <2>2, <2>3, SameRemainder
  <2> QED BY <2>2, <2>4
<1> QED BY <1>2, <1>3

----------------------------------------------------------------------------
(* Stretches of a ring *)

\* The n entries from index i on.
Window(ring, i, n, q) == {ring[(i + k) % q] : k \in 0..(n - 1)}

Lengths(q) == Fits(q) /\ q <= MAX_QUEUE_SIZE

\* new is ring with v at s
Written(ring, s, v, new) ==
  DOMAIN ring = 0..MAX_QUEUE_SIZE /\ new = [ring EXCEPT ![s] = v]

LEMMA WindowSize ==
  ASSUME NEW ring, NEW i, NEW n \in Nat, NEW q
  PROVE  IsFiniteSet(Window(ring, i, n, q)) /\ Cardinality(Window(ring, i, n, q)) <= n
<1> DEFINE W == Window(ring, i, n, q)
           f == [x \in 1..n |-> ring[(i + (x - 1)) % q]]
<1>1. \A x \in 1..n : f[x] \in W
  BY DEF Window
<1>2. ASSUME NEW w \in W PROVE \E x \in 1..n : f[x] = w
  <2>1. PICK k \in 0..(n - 1) : w = ring[(i + k) % q]
    BY DEF Window
  <2>2. k + 1 \in 1..n /\ (k + 1) - 1 = k
    BY <2>1
  <2>3. f[k + 1] = ring[(i + ((k + 1) - 1)) % q]
    BY <2>2
  <2> QED BY <2>1, <2>2, <2>3
<1>3. f \in [1..n -> W]
  BY <1>1
<1>4. ExistsSurjection(1..n, W)
  BY <1>2, <1>3 DEF ExistsSurjection, Surjection
<1> HIDE DEF W, f
<1>5. IsFiniteSet(W) /\ Cardinality(W) <= n
  BY <1>4, FS_NatSurjection, FS_SurjCardinalityBound
<1> QED BY <1>5 DEF W

\* The first entry leaves.
LEMMA WindowDrop ==
  ASSUME VConstants, NEW q, Fits(q), NEW ring, NEW i \in Indices, NEW n \in Nat \ {0}
  PROVE  Window(ring, i, n, q) = Window(ring, Inc(i), n - 1, q) \cup {ring[i % q]}
<1>1. ASSUME NEW k \in 0..(n - 2)
      PROVE  k + 1 \in 0..(n - 1) /\ ring[(Inc(i) + k) % q] = ring[(i + (k + 1)) % q]
  BY SlotInc
<1>2. i + 0 = i /\ 0 \in 0..(n - 1) /\ (n - 1) - 1 = n - 2
  BY DEF Indices
<1>3. ASSUME NEW k \in 0..(n - 1)
      PROVE  ring[(i + k) % q] \in Window(ring, Inc(i), n - 1, q) \cup {ring[i % q]}
  <2>1. CASE k = 0
    BY <1>2, <2>1
  <2>2. CASE k # 0
    <3>1. k - 1 \in 0..(n - 2) /\ (k - 1) + 1 = k
      BY <2>2
    <3>2. ring[(Inc(i) + (k - 1)) % q] = ring[(i + k) % q]
      BY <1>1, <3>1
    <3> QED BY <1>2, <3>1, <3>2 DEF Window
  <2> QED BY <2>1, <2>2
<1>4. Window(ring, Inc(i), n - 1, q) \subseteq Window(ring, i, n, q)
  BY <1>1, <1>2 DEF Window
<1>5. ring[i % q] \in Window(ring, i, n, q)
  BY <1>2 DEF Window
<1>6. Window(ring, i, n, q) \subseteq Window(ring, Inc(i), n - 1, q) \cup {ring[i % q]}
  BY <1>3 DEF Window
<1> QED BY <1>4, <1>5, <1>6

\* new has the n entries of ring from i on, and v after them
Appended(ring, i, n, q, v, new) ==
  /\ new[(i + n) % q] = v
  /\ \A k \in 0..(n - 1) : new[(i + k) % q] = ring[(i + k) % q]
  /\ Window(new, i, n + 1, q) = Window(ring, i, n, q) \cup {v}

\* An entry after the last one: the others stay as they are.
LEMMA WriteNext ==
  ASSUME VConstants, NEW q, Lengths(q), NEW ring,
         NEW i \in Indices, NEW j \in Indices, Between(i, j) < q,
         NEW v, NEW new, Written(ring, j % q, v, new)
  PROVE  Appended(ring, i, Between(i, j), q, v, new)
<1> DEFINE n == Between(i, j)
<1>1. q \in Nat \ {0} /\ i \in Nat /\ j \in Nat /\ n \in Nat /\ MAX_QUEUE_SIZE \in Nat
  BY BetweenIs DEF Lengths, Fits, Indices, VConstants
<1>2. (i + n) % q = j % q
  BY SlotEnd DEF Lengths
<1>3. j % q \in DOMAIN ring
  BY <1>1, DivMod DEF Lengths, Written
<1>4. ASSUME NEW k \in 0..(n - 1)
      PROVE  (i + k) % q # j % q /\ (i + k) % q \in DOMAIN ring
  <2>1. i + k \in Nat /\ i + n \in Nat /\ i + k < i + n /\ i + n < (i + k) + q
    BY <1>1
  <2>2. (i + k) % q # (i + n) % q
    BY <1>1, <2>1, SlotsDiffer
  <2>3. (i + k) % q \in DOMAIN ring
    BY <1>1, <2>1, DivMod DEF Lengths, Written
  <2> QED BY <1>2, <2>2, <2>3
<1>5. new[(i + n) % q] = v /\ \A k \in 0..(n - 1) : new[(i + k) % q] = ring[(i + k) % q]
  BY <1>2, <1>3, <1>4 DEF Written
<1> HIDE DEF n
<1>6. 0..((n + 1) - 1) = 0..(n - 1) \cup {n}
  BY <1>1
<1>7. ASSUME NEW k \in 0..((n + 1) - 1)
      PROVE  new[(i + k) % q] \in Window(ring, i, n, q) \cup {v}
  <2>1. CASE k = n
    BY <1>5, <2>1
  <2>2. CASE k \in 0..(n - 1)
    BY <1>5, <2>2 DEF Window
  <2> QED BY <1>6, <2>1, <2>2
<1>8. ASSUME NEW k \in 0..(n - 1)
      PROVE  ring[(i + k) % q] \in Window(new, i, n + 1, q)
  BY <1>5, <1>6 DEF Window
<1>9. v \in Window(new, i, n + 1, q)
  BY <1>5, <1>6 DEF Window
<1>10. Window(new, i, n + 1, q) \subseteq Window(ring, i, n, q) \cup {v}
  BY <1>7 DEF Window
<1>11. Window(ring, i, n, q) \subseteq Window(new, i, n + 1, q)
  BY <1>8 DEF Window
<1>12. Window(new, i, n + 1, q) = Window(ring, i, n, q) \cup {v}
  BY <1>9, <1>10, <1>11
<1> QED BY <1>5, <1>12 DEF n, Appended

----------------------------------------------------------------------------
(* The invariant *)

Before  == {"find", "reset", "confirm", "none"}
Stopped == {"panic"}
Setting == {"queues", "txqueue", "msix", "fill", "go"}
On      == {"transmit", "poll", "ready"}
Numbers == 0..(FrameMod - 1)

VTypeOK ==
  /\ dev \in NetDevices /\ vpc \in Before \cup Stopped \cup Setting \cup On
  /\ avail \in [0..MAX_QUEUE_SIZE -> Bufs] /\ used \in [0..MAX_QUEUE_SIZE -> Bufs]
  /\ availMem \in Indices /\ availIdx \in Indices /\ devAvail \in Indices
  /\ usedMem \in Indices /\ lastUsed \in Indices /\ devUsed \in Indices
  /\ devHas \in SUBSET Bufs /\ buf \in [Bufs -> Numbers]
  /\ whole \in [Bufs -> BOOLEAN] /\ rxNo \in Numbers /\ taken \in Numbers /\ lost \in SUBSET Bufs
  /\ hpc \in {"out", "pop", "post", "publish"} /\ inHand \in Bufs \cup {None}

\* How far the set-up has come, by where init is.
Staged ==
  /\ Live <=> vpc \in On
  /\ vpc \in Setting \cup On => QSize # 0 /\ dev.txsize # 0 /\ dev.keeps
  /\ vpc \in Setting \cup On \cup {"confirm"} => HasVersion1(dev.features) /\ "failed" \notin devStatus
  /\ vpc \in Before \cup {"queues"} => setup = {}
  /\ vpc = "txqueue" => setup = {"rx"}
  /\ vpc = "msix" => setup = {"rx", "tx"}
  /\ vpc \in {"fill", "go"} \cup On => setup = {"rx", "tx", "msix"}
  /\ hpc # "out" => vpc = "ready"

\* Before DRIVER_OK nothing has moved but the buffers being posted.
Filling ==
  ~Live => /\ devAvail = 0 /\ devHas = {} /\ devUsed = 0 /\ usedMem = 0 /\ lastUsed = 0
           /\ rxNo = 0 /\ taken = 0 /\ lost = {}
           /\ vpc \notin {"fill", "go"} => availIdx = 0
           /\ availIdx <= RX_BUFFER_COUNT
           /\ \A i \in 0..(availIdx - 1) : avail[i] = i
           /\ vpc = "go" => availIdx = RX_BUFFER_COUNT

\* The handler and the two index fields.
Handling ==
  /\ hpc \in {"out", "pop"} => inHand = None
  /\ hpc \in {"post", "publish"} => inHand \in Bufs
  /\ hpc # "publish" => availMem = availIdx
  /\ hpc = "publish" => /\ availIdx = Inc(availMem) /\ avail[RingSlot(availMem)] = inHand
                        /\ Between(devAvail, availIdx) = Between(devAvail, availMem) + 1
  /\ devUsed # usedMem => Between(lastUsed, devUsed) = Between(lastUsed, usedMem) + 1

Posted   == Window(avail, devAvail, Between(devAvail, availIdx), QSize)
Returned == Window(used, lastUsed, Between(lastUsed, devUsed), QSize)
Held     == IF hpc = "post" THEN {inHand} ELSE {}
NHeld    == IF hpc = "post" THEN 1 ELSE 0
Popped   == Held \cup lost
NPopped  == NHeld + Cardinality(lost)

\* Every buffer is somewhere, and there is no room for one to be twice.
Owning ==
  Live => /\ Posted \cup devHas \cup Returned \cup Popped = Bufs
          /\ Between(devAvail, availIdx) + Cardinality(devHas) + Between(lastUsed, devUsed) + NPopped
               = RX_BUFFER_COUNT
          /\ \A b \in lost : ~whole[b]

\* The used ring holds the last frames received, in order.
Ordered ==
  /\ rxNo = (taken + Between(lastUsed, devUsed)) % FrameMod
  /\ FramesInOrder

VInv == VConstants /\ VTypeOK /\ Staged /\ Filling /\ Handling /\ Owning /\ Ordered /\ NoFrameForgotten

LEMMA QueueFits ==
  ASSUME VInv, vpc \in Setting \cup On
  PROVE  Lengths(QSize) /\ RX_BUFFER_COUNT <= QSize /\ QSize \in Nat \ {0} /\ RX_BUFFER_COUNT < IdxMod
<1>1. dev \in NetDevices /\ QSize # 0 /\ QSize = SizeOf(dev) /\ MAX_QUEUE_SIZE \in Nat
  BY DEF VInv, VTypeOK, Staged, QSize, SizeOf, VConstants
<1>2. dev.size \in Nat /\ RX_BUFFER_COUNT <= SizeOf(dev) /\ \E m \in Nat : IdxMod = SizeOf(dev) * m
  BY <1>1 DEF VInv, VConstants
<1>3. SizeOf(dev) \in Nat /\ SizeOf(dev) <= MAX_QUEUE_SIZE
  BY <1>1, <1>2 DEF SizeOf
<1>4. RX_BUFFER_COUNT < IdxMod
  BY DEF VInv, VConstants
<1> QED BY <1>1, <1>2, <1>3, <1>4 DEF Lengths, Fits

\* Every index has its slot in the ring.
LEMMA SlotIn ==
  ASSUME VInv, Lengths(QSize), NEW i \in Indices
  PROVE  RingSlot(i) \in 0..MAX_QUEUE_SIZE
<1>1. QSize \in Nat \ {0} /\ QSize <= MAX_QUEUE_SIZE /\ MAX_QUEUE_SIZE \in Nat /\ i \in Nat
  BY DEF Lengths, Fits, VInv, VConstants, Indices
<1>2. i % QSize \in 0..(QSize - 1)
  BY <1>1, DivMod
<1> QED BY <1>1, <1>2 DEF RingSlot

LEMMA InitV ==
  ASSUME VConstants, VInit
  PROVE  VInv
<1>0. 0 \in Indices /\ 0 \in Bufs /\ 0 \in Numbers /\ IdxMod \in Nat \ {0} /\ FrameMod \in Nat \ {0}
  BY DEF VConstants, Indices, Bufs, Numbers
<1>1. VTypeOK
  BY <1>0 DEF VInit, VTypeOK, Before, Stopped, Setting, On
<1>2. Staged /\ Filling
  BY <1>0 DEF VInit, VConstants, Staged, Filling, Live, Before, Stopped, Setting, On
<1>3. Handling /\ NoFrameForgotten /\ Owning
  BY DEF VInit, Handling, Owning, Live, NoFrameForgotten
<1>4. Between(lastUsed, devUsed) = 0
  BY <1>0, BetweenIs DEF VInit
<1>5. 0 % FrameMod = 0
  BY <1>0, BelowMod
<1>6. Ordered
  BY <1>4, <1>5 DEF VInit, Ordered, FramesInOrder
<1> QED BY <1>1, <1>2, <1>3, <1>6 DEF VInv

Still == dev' = dev /\ UNCHANGED Rings /\ UNCHANGED Device /\ UNCHANGED NetHandler

\* A step that touches neither rings nor buffers nor the handler.
LEMMA StillV ==
  ASSUME VInv, Still, vpc' \in Before \cup Stopped \cup Setting \cup On, Staged', Filling', Live' => Live
  PROVE  VInv'
<1>1. VTypeOK'
  BY DEF VInv, VTypeOK, Still, Rings, Device, NetHandler
<1>2. Handling' /\ NoFrameForgotten'
  BY DEF VInv, Handling, NoFrameForgotten, Still, Rings, Device, NetHandler, Between, Inc, RingSlot, QSize
<1>3. Posted' = Posted /\ Returned' = Returned /\ Popped' = Popped /\ NPopped' = NPopped
  BY DEF Posted, Returned, Popped, NPopped, Held, NHeld, Window, Still, Rings, Device, NetHandler, Between, QSize
<1>4. Owning'
  BY <1>3 DEF VInv, Owning, Still, Rings, Device, NetHandler, Between
<1>5. Ordered'
  BY DEF VInv, Ordered, FramesInOrder, Still, Rings, Device, NetHandler, Between, RingSlot, QSize
<1>6. VConstants'
  BY DEF VInv, VConstants
<1> QED BY <1>1, <1>2, <1>4, <1>5, <1>6 DEF VInv

LEMMA BootV ==
  ASSUME VInv, Find \/ Negotiate \/ Confirm \/ SetupRx \/ SetupTx \/ MsixEnable \/ Transmit \/ PollTx \/ DevTx
  PROVE  VInv'
<1>1. Still
  BY DEF Still, Find, Negotiate, Confirm, SetupRx, SetupTx, SetupQueue, MsixEnable, Transmit, PollTx, DevTx
<1>2. hpc' = hpc /\ QSize' = QSize
  BY <1>1 DEF Still, NetHandler, QSize
<1>3. /\ vpc' \in Before \cup Stopped \cup Setting \cup On /\ Staged' /\ (Live' <=> Live)
      /\ vpc' \notin {"fill", "go"} => vpc \notin {"fill", "go"}
      /\ vpc' # "go"
  <2>1. CASE Find
    BY <1>2, <2>1 DEF Find, VInv, VTypeOK, Staged, Live, Before, Stopped, Setting, On
  <2>2. CASE Negotiate
    BY <1>2, <2>2 DEF Negotiate, VInv, VTypeOK, Staged, Live, Before, Stopped, Setting, On, HasVersion1, NegotiateFeatures
  <2>3. CASE Confirm
    BY <1>2, <2>3 DEF Confirm, VInv, VTypeOK, Staged, Live, Before, Stopped, Setting, On
  <2>4. CASE SetupRx
    BY <1>2, <2>4 DEF SetupRx, SetupQueue, VInv, VTypeOK, Staged, Live, Before, Stopped, Setting, On
  <2>5. CASE SetupTx
    BY <1>2, <2>5 DEF SetupTx, SetupQueue, VInv, VTypeOK, Staged, Live, Before, Stopped, Setting, On
  <2>6. CASE MsixEnable
    BY <1>2, <2>6 DEF MsixEnable, VInv, VTypeOK, Staged, Live, Before, Stopped, Setting, On
  <2>7. CASE Transmit
    BY <1>2, <2>7 DEF Transmit, VInv, VTypeOK, Staged, Live, Before, Stopped, Setting, On
  <2>8. CASE PollTx
    BY <1>2, <2>8 DEF PollTx, VInv, VTypeOK, Staged, Live, Before, Stopped, Setting, On
  <2>9. CASE DevTx
    BY <1>2, <2>9 DEF DevTx, VInv, VTypeOK, Staged, Live, Before, Stopped, Setting, On
  <2> QED BY <2>1, <2>2, <2>3, <2>4, <2>5, <2>6, <2>7, <2>8, <2>9
<1>4. Filling'
  BY <1>1, <1>3 DEF VInv, Filling, Still, Rings, Device, NetHandler
<1> QED BY <1>1, <1>3, <1>4, StillV

\* Buffer after buffer is posted while the device looks at nothing.
LEMMA FillRxV ==
  ASSUME VInv, FillRx
  PROVE  VInv'
<1>1. vpc = "fill" /\ ~Live /\ dev' = dev /\ UNCHANGED <<devStatus, used, usedMem, lastUsed, setup>>
      /\ UNCHANGED Device /\ UNCHANGED NetHandler
  BY DEF FillRx, VInv, Staged, On
<1>2. Lengths(QSize) /\ RX_BUFFER_COUNT <= QSize /\ QSize \in Nat \ {0} /\ RX_BUFFER_COUNT < IdxMod
  BY <1>1, QueueFits DEF Setting
<1>3. ~Live' /\ hpc = "out" /\ hpc' = "out" /\ QSize' = QSize
  BY <1>1 DEF Live, VInv, Staged, NetHandler, QSize
<1>4. VConstants'
  BY DEF VInv, VConstants
<1>5. CASE availIdx < RX_BUFFER_COUNT
  <2>1. /\ avail' = [avail EXCEPT ![RingSlot(availIdx)] = availIdx] /\ vpc' = "fill"
        /\ availIdx' = Inc(availIdx) /\ availMem' = Inc(availIdx)
    BY <1>1, <1>5 DEF FillRx
  <2>2. availIdx \in Indices /\ availIdx \in Nat /\ RX_BUFFER_COUNT \in Nat /\ IdxMod \in Nat /\ MAX_QUEUE_SIZE \in Nat
    BY DEF VInv, VTypeOK, Indices, VConstants
  <2>3. availIdx' = availIdx + 1 /\ availIdx' \in Indices
    BY <1>2, <1>5, <2>1, <2>2, IncIs DEF VInv
  <2>4. RingSlot(availIdx) = availIdx
    <3>1. availIdx \in 0..(QSize - 1)
      BY <1>2, <1>5, <2>2
    <3> QED BY <1>2, <3>1, BelowMod DEF RingSlot
  <2>5. availIdx \in Bufs /\ availIdx \in 0..MAX_QUEUE_SIZE
    BY <1>2, <1>5, <2>2 DEF Bufs, Lengths
  <2>6. VTypeOK'
    BY <1>1, <2>1, <2>3, <2>5 DEF VInv, VTypeOK, Device, NetHandler, Setting
  <2>7. Staged'
    BY <1>1, <1>3, <2>1 DEF VInv, Staged, Before, Stopped, Setting, On
  <2>8. Filling'
    <3>1. \A i \in 0..(availIdx' - 1) : avail'[i] = i
      BY <2>1, <2>2, <2>3, <2>4, <2>5, <1>1 DEF VInv, VTypeOK, Filling
    <3> QED BY <1>1, <1>5, <2>1, <2>2, <2>3, <3>1 DEF VInv, Filling, Device, NetHandler
  <2>9. Handling' /\ Owning' /\ NoFrameForgotten'
    BY <1>1, <1>3, <2>1 DEF VInv, Handling, Owning, NoFrameForgotten, Device, NetHandler, Filling
  <2>10. Ordered'
    BY <1>1, <1>3 DEF VInv, Ordered, FramesInOrder, Device, NetHandler, Between, RingSlot
  <2> QED BY <1>4, <2>6, <2>7, <2>8, <2>9, <2>10 DEF VInv
<1>6. CASE ~(availIdx < RX_BUFFER_COUNT)
  <2>1. vpc' = "go" /\ UNCHANGED <<avail, availMem, availIdx>>
    BY <1>6 DEF FillRx
  <2>2. Still
    BY <1>1, <2>1 DEF Still, Rings
  <2>3. Staged'
    BY <1>1, <1>3, <2>1 DEF VInv, Staged, Before, Stopped, Setting, On
  <2>4. availIdx = RX_BUFFER_COUNT
    BY <1>1, <1>6 DEF VInv, VTypeOK, VConstants, Indices, Filling
  <2>5. Filling'
    BY <1>1, <2>1, <2>4 DEF VInv, Filling, Device, NetHandler
  <2> QED BY <1>3, <2>1, <2>2, <2>3, <2>5, StillV DEF Setting
<1> QED BY <1>5, <1>6

\* DRIVER_OK: every buffer is in the available ring.
LEMMA SetDriverOkV ==
  ASSUME VInv, SetDriverOk
  PROVE  VInv'
<1>1. vpc = "go" /\ vpc' = "transmit" /\ ~Live /\ Live' /\ Still /\ UNCHANGED <<setup>>
      /\ devStatus' = {"ack", "driver", "features_ok", "driver_ok"} /\ hpc = "out"
  BY DEF SetDriverOk, Still, VInv, Staged, Live, On
<1>2. Lengths(QSize) /\ RX_BUFFER_COUNT <= QSize /\ QSize \in Nat \ {0} /\ RX_BUFFER_COUNT < IdxMod
  BY <1>1, QueueFits DEF Setting
<1>3. Staged' /\ Filling'
  BY <1>1 DEF VInv, Staged, Filling, Still, NetHandler, QSize, Before, Stopped, Setting, On
<1>4. /\ devAvail = 0 /\ availIdx = RX_BUFFER_COUNT /\ devHas = {} /\ lastUsed = 0 /\ devUsed = 0
      /\ \A i \in 0..(RX_BUFFER_COUNT - 1) : avail[i] = i
      /\ availIdx \in Indices /\ RX_BUFFER_COUNT \in Nat
  BY <1>1 DEF VInv, Filling, VTypeOK, VConstants
<1>5. Between(devAvail, availIdx) = RX_BUFFER_COUNT /\ Between(lastUsed, devUsed) = 0
  BY <1>4, BetweenIs DEF VInv, VTypeOK, Indices
<1>6. Posted = Bufs
  <2>1. \A k \in 0..(RX_BUFFER_COUNT - 1) : avail[(0 + k) % QSize] = k
    <3> SUFFICES ASSUME NEW k \in 0..(RX_BUFFER_COUNT - 1) PROVE avail[(0 + k) % QSize] = k
      OBVIOUS
    <3>1. k \in 0..(QSize - 1) /\ 0 + k = k
      BY <1>2, <1>4
    <3>2. k % QSize = k
      BY <1>2, <3>1, BelowMod
    <3> QED BY <1>4, <3>1, <3>2
  <2> QED BY <1>4, <1>5, <2>1 DEF Posted, Window, Bufs
<1>7. Returned = {} /\ Popped = {} /\ NPopped = 0 /\ Cardinality(devHas) = 0 /\ lost = {}
  <2>1. lost = {} /\ Held = {} /\ NHeld = 0
    BY <1>1 DEF VInv, Filling, Held, NHeld
  <2>2. Returned = {}
    BY <1>5 DEF Returned, Window
  <2> QED BY <1>4, <2>1, <2>2, FS_EmptySet DEF Popped, NPopped
<1>8. Owning'
  BY <1>1, <1>4, <1>5, <1>6, <1>7 DEF Owning, Posted, Returned, Popped, NPopped, Held, NHeld, Window, Still, Rings, Device, NetHandler, Between, QSize
<1>9. VTypeOK' /\ Handling' /\ NoFrameForgotten'
  BY <1>1 DEF VInv, VTypeOK, Handling, NoFrameForgotten, Still, Rings, Device, NetHandler, Between, Inc, RingSlot, QSize, On
<1>10. Ordered'
  BY <1>1 DEF VInv, Ordered, FramesInOrder, Still, Rings, Device, NetHandler, Between, RingSlot, QSize
<1>11. VConstants'
  BY DEF VInv, VConstants
<1> QED BY <1>3, <1>8, <1>9, <1>10, <1>11 DEF VInv

----------------------------------------------------------------------------
(* The device and the handler *)

\* Once the device is live, with what the steps below use.
LEMMA LiveFacts ==
  ASSUME VInv, Live
  PROVE  /\ Lengths(QSize) /\ Fits(QSize) /\ QSize \in Nat \ {0} /\ RX_BUFFER_COUNT <= QSize
         /\ RX_BUFFER_COUNT \in Nat /\ IdxMod \in Nat /\ RX_BUFFER_COUNT < IdxMod
         /\ Between(devAvail, availIdx) \in Nat /\ Between(lastUsed, devUsed) \in Nat
         /\ IsFiniteSet(devHas) /\ Cardinality(devHas) \in Nat
         /\ IsFiniteSet(Bufs) /\ Cardinality(Bufs) = RX_BUFFER_COUNT
         /\ IsFiniteSet(Posted) /\ Cardinality(Posted) <= Between(devAvail, availIdx)
         /\ IsFiniteSet(Returned) /\ Cardinality(Returned) <= Between(lastUsed, devUsed)
         /\ IsFiniteSet(Popped) /\ Cardinality(Popped) <= NPopped /\ NPopped \in Nat
         /\ IsFiniteSet(lost) /\ Cardinality(lost) \in Nat
<1>1. vpc \in On
  BY DEF VInv, Staged
<1>2. Lengths(QSize) /\ Fits(QSize) /\ QSize \in Nat \ {0} /\ RX_BUFFER_COUNT <= QSize /\ RX_BUFFER_COUNT < IdxMod
  BY <1>1, QueueFits DEF Lengths
<1>3. RX_BUFFER_COUNT \in Nat /\ IdxMod \in Nat
  BY DEF VInv, VConstants
<1>4. Between(devAvail, availIdx) \in Nat /\ Between(lastUsed, devUsed) \in Nat
  BY BetweenIs DEF VInv, VTypeOK, Indices
<1>5. IsFiniteSet(Bufs) /\ Cardinality(Bufs) = RX_BUFFER_COUNT
  BY <1>3, FS_Interval DEF Bufs, VInv, VConstants
<1>6. IsFiniteSet(devHas) /\ Cardinality(devHas) \in Nat
  BY <1>5, FS_Subset, FS_CardinalityType DEF VInv, VTypeOK
<1>7. IsFiniteSet(Posted) /\ Cardinality(Posted) <= Between(devAvail, availIdx)
  BY <1>4, WindowSize, Zenon DEF Posted
<1>8. IsFiniteSet(Returned) /\ Cardinality(Returned) <= Between(lastUsed, devUsed)
  BY <1>4, WindowSize, Zenon DEF Returned
<1>9. IsFiniteSet(lost) /\ Cardinality(lost) \in Nat
  BY <1>5, FS_Subset, FS_CardinalityType DEF VInv, VTypeOK
<1>10. IsFiniteSet(Popped) /\ Cardinality(Popped) <= NPopped /\ NPopped \in Nat
  <2>1. IsFiniteSet(Held) /\ Cardinality(Held) = NHeld /\ NHeld \in Nat
    BY FS_EmptySet, FS_Singleton DEF Held, NHeld
  <2>2. /\ IsFiniteSet(Held \cup lost)
        /\ Cardinality(Held \cup lost) = Cardinality(Held) + Cardinality(lost) - Cardinality(Held \cap lost)
    BY <1>9, <2>1, FS_Union
  <2>3. Cardinality(Held \cap lost) \in Nat
    BY <2>1, FS_Intersection, FS_CardinalityType, <1>9
  <2> QED BY <1>9, <2>1, <2>2, <2>3 DEF Popped, NPopped
<1> QED BY <1>2, <1>3, <1>4, <1>5, <1>6, <1>7, <1>8, <1>9, <1>10

\* Four sets that cover more than they have room for ...
LEMMA Pigeons ==
  ASSUME NEW A, NEW B, NEW C, NEW D,
         IsFiniteSet(A), IsFiniteSet(B), IsFiniteSet(C), IsFiniteSet(D)
  PROVE  /\ IsFiniteSet(A \cup B \cup C \cup D)
         /\ Cardinality(A \cup B \cup C \cup D)
              <= Cardinality(A) + Cardinality(B) + Cardinality(C) + Cardinality(D)
<1>1. \A S, T : IsFiniteSet(S) /\ IsFiniteSet(T) =>
         /\ IsFiniteSet(S \cup T) /\ Cardinality(S \cup T) <= Cardinality(S) + Cardinality(T)
  <2> SUFFICES ASSUME NEW S, NEW T, IsFiniteSet(S), IsFiniteSet(T)
               PROVE  IsFiniteSet(S \cup T) /\ Cardinality(S \cup T) <= Cardinality(S) + Cardinality(T)
    OBVIOUS
  <2>1. IsFiniteSet(S \cup T) /\ Cardinality(S \cup T) = Cardinality(S) + Cardinality(T) - Cardinality(S \cap T)
    BY FS_Union
  <2>2. IsFiniteSet(S \cap T)
    BY FS_Intersection
  <2>3. Cardinality(S) \in Nat /\ Cardinality(T) \in Nat /\ Cardinality(S \cap T) \in Nat
    BY <2>2, FS_CardinalityType
  <2> QED BY <2>1, <2>3
<1>2. IsFiniteSet(A \cup B) /\ Cardinality(A \cup B) <= Cardinality(A) + Cardinality(B)
  BY <1>1
<1>3. IsFiniteSet(A \cup B \cup C) /\ Cardinality(A \cup B \cup C) <= Cardinality(A \cup B) + Cardinality(C)
  BY <1>1, <1>2
<1>4. /\ IsFiniteSet(A \cup B \cup C \cup D)
      /\ Cardinality(A \cup B \cup C \cup D) <= Cardinality(A \cup B \cup C) + Cardinality(D)
  BY <1>1, <1>3
<1>5. /\ Cardinality(A) \in Nat /\ Cardinality(B) \in Nat /\ Cardinality(C) \in Nat /\ Cardinality(D) \in Nat
      /\ Cardinality(A \cup B) \in Nat /\ Cardinality(A \cup B \cup C) \in Nat
      /\ Cardinality(A \cup B \cup C \cup D) \in Nat
  BY <1>2, <1>3, <1>4, FS_CardinalityType
<1> QED BY <1>2, <1>3, <1>4, <1>5

\* The sum of the parts cannot be less than the whole.
LEMMA Short ==
  ASSUME NEW all \in Nat, NEW a \in Nat, NEW b \in Nat, NEW c \in Nat, NEW d \in Nat,
         NEW n \in Nat, NEW h \in Nat, NEW u \in Nat, NEW e \in Nat,
         all <= a + b + c + d, n + h + u + e = all, c <= u, d <= e, a + b < n + h
  PROVE  FALSE
OBVIOUS

\* ... so no buffer is in two places.
LEMMA NotTwice ==
  ASSUME VInv, Live
  PROVE  /\ devAvail # availIdx =>
              /\ avail[RingSlot(devAvail)] \notin devHas
              /\ Posted = Window(avail, Inc(devAvail), Between(devAvail, availIdx) - 1, QSize)
                            \cup {avail[RingSlot(devAvail)]}
         /\ devHas \cap (Returned \cup Popped) = {}
         /\ lastUsed # devUsed => used[RingSlot(lastUsed)] \notin Popped
<1> DEFINE n == Between(devAvail, availIdx)
           u == Between(lastUsed, devUsed)
<1>0. /\ Lengths(QSize) /\ Fits(QSize) /\ QSize \in Nat \ {0} /\ RX_BUFFER_COUNT \in Nat
      /\ n \in Nat /\ u \in Nat /\ IsFiniteSet(devHas) /\ Cardinality(devHas) \in Nat
      /\ Cardinality(Bufs) = RX_BUFFER_COUNT
      /\ IsFiniteSet(Posted) /\ Cardinality(Posted) <= n /\ IsFiniteSet(Returned) /\ Cardinality(Returned) <= u
      /\ IsFiniteSet(Popped) /\ Cardinality(Popped) <= NPopped /\ NPopped \in Nat
  BY LiveFacts
<1>1. Posted \cup devHas \cup Returned \cup Popped = Bufs /\ n + Cardinality(devHas) + u + NPopped = RX_BUFFER_COUNT
  BY DEF VInv, Owning
<1>2. devAvail \in Indices /\ availIdx \in Indices /\ VConstants
  BY DEF VInv, VTypeOK
<1>3. ASSUME devAvail # availIdx
      PROVE  /\ avail[RingSlot(devAvail)] \notin devHas
             /\ Posted = Window(avail, Inc(devAvail), n - 1, QSize) \cup {avail[RingSlot(devAvail)]}
  <2> DEFINE x == avail[RingSlot(devAvail)]
             W == Window(avail, Inc(devAvail), n - 1, QSize)
  <2>1. n # 0
    BY <1>2, <1>3, Advance
  <2>2. n \in Nat \ {0} /\ n - 1 \in Nat
    BY <1>0, <2>1
  <2>3. Posted = W \cup {x}
    BY <1>0, <1>2, <2>2, WindowDrop DEF Posted, RingSlot
  <2>4. IsFiniteSet(W) /\ Cardinality(W) <= n - 1
    BY <2>2, WindowSize, Zenon
  <2> HIDE DEF W, x, n, u
  <2>5. ASSUME x \in devHas PROVE FALSE
    <3>1. W \cup devHas \cup Returned \cup Popped = Bufs
      BY <1>1, <2>3, <2>5
    <3>2. Cardinality(W \cup devHas \cup Returned \cup Popped)
            <= Cardinality(W) + Cardinality(devHas) + Cardinality(Returned) + Cardinality(Popped)
      BY <1>0, <2>4, Pigeons, Zenon
    <3>3. Cardinality(W) \in Nat /\ Cardinality(Returned) \in Nat
      BY <1>0, <2>4, FS_CardinalityType
    <3>4. Cardinality(W) + Cardinality(devHas) < n + Cardinality(devHas)
      BY <1>0, <2>2, <2>4, <3>3
    <3>5. Cardinality(Popped) \in Nat /\ RX_BUFFER_COUNT = Cardinality(W \cup devHas \cup Returned \cup Popped)
      BY <1>0, <3>1, FS_CardinalityType
    <3> QED BY <1>0, <1>1, <3>2, <3>3, <3>4, <3>5, Short
  <2> QED BY <2>3, <2>5 DEF W, x, n
<1>4. ASSUME NEW b \in devHas, b \in Returned \cup Popped
      PROVE  FALSE
  <2>1. Posted \cup (devHas \ {b}) \cup Returned \cup Popped = Bufs
    BY <1>1, <1>4
  <2>2. IsFiniteSet(devHas \ {b}) /\ Cardinality(devHas \ {b}) = Cardinality(devHas) - 1
    BY <1>0, <1>4, FS_RemoveElement
  <2>3. Cardinality(Posted \cup (devHas \ {b}) \cup Returned \cup Popped)
          <= Cardinality(Posted) + Cardinality(devHas \ {b}) + Cardinality(Returned) + Cardinality(Popped)
    BY <1>0, <2>2, Pigeons, Zenon
  <2>4. Cardinality(Posted) \in Nat /\ Cardinality(Returned) \in Nat
    BY <1>0, FS_CardinalityType
  <2> HIDE DEF n, u
  <2>5. Cardinality(devHas \ {b}) \in Nat
    BY <2>2, FS_CardinalityType
  <2>6. Cardinality(Posted) + Cardinality(devHas \ {b}) < n + Cardinality(devHas)
    BY <1>0, <2>2, <2>4, <2>5
  <2>7. Cardinality(Popped) \in Nat /\ RX_BUFFER_COUNT = Cardinality(Posted \cup (devHas \ {b}) \cup Returned \cup Popped)
    BY <1>0, <2>1, FS_CardinalityType
  <2> QED BY <1>0, <1>1, <2>3, <2>4, <2>5, <2>6, <2>7, Short
<1>5. ASSUME lastUsed # devUsed, used[RingSlot(lastUsed)] \in Popped
      PROVE  FALSE
  <2> DEFINE x == used[RingSlot(lastUsed)]
             W == Window(used, Inc(lastUsed), u - 1, QSize)
  <2>0. lastUsed \in Indices /\ devUsed \in Indices
    BY DEF VInv, VTypeOK
  <2>1. u # 0
    BY <1>2, <1>5, <2>0, Advance
  <2>2. u \in Nat \ {0} /\ u - 1 \in Nat
    BY <1>0, <2>1
  <2>3. Returned = W \cup {x}
    BY <1>0, <1>2, <2>0, <2>2, WindowDrop DEF Returned, RingSlot
  <2>4. IsFiniteSet(W) /\ Cardinality(W) <= u - 1
    BY <2>2, WindowSize, Zenon
  <2>5. x \in Popped
    BY <1>5
  <2> HIDE DEF W, x, n, u
  <2>6. W \cup devHas \cup Posted \cup Popped = Bufs
    BY <1>1, <2>3, <2>5
  <2>7. Cardinality(W \cup devHas \cup Posted \cup Popped)
          <= Cardinality(W) + Cardinality(devHas) + Cardinality(Posted) + Cardinality(Popped)
    BY <1>0, <2>4, Pigeons, Zenon
  <2>8. Cardinality(W) \in Nat /\ Cardinality(Posted) \in Nat /\ Cardinality(Popped) \in Nat
    BY <1>0, <2>4, FS_CardinalityType
  <2>9. Cardinality(W) + Cardinality(devHas) < u + Cardinality(devHas)
    BY <1>0, <2>2, <2>4, <2>8
  <2>10. u + Cardinality(devHas) + n + NPopped = RX_BUFFER_COUNT
    BY <1>0, <1>1
  <2>11. RX_BUFFER_COUNT <= Cardinality(W) + Cardinality(devHas) + Cardinality(Posted) + Cardinality(Popped)
    BY <1>0, <2>6, <2>7
  <2> QED BY <1>0, <2>8, <2>9, <2>10, <2>11, Short
<1> QED BY <1>3, <1>4, <1>5

LEMMA DevTakeV ==
  ASSUME VInv, DevTake
  PROVE  VInv'
<1> DEFINE n == Between(devAvail, availIdx)
           x == avail[RingSlot(devAvail)]
<1>1. /\ Live /\ devAvail # availMem /\ devHas' = devHas \cup {x} /\ devAvail' = Inc(devAvail)
      /\ UNCHANGED <<dev, vpc, devStatus, setup, devUsed, buf, whole, rxNo>> /\ UNCHANGED Rings /\ UNCHANGED NetHandler
  BY DEF DevTake
<1>2. VConstants /\ devAvail \in Indices /\ availIdx \in Indices /\ availMem \in Indices
  BY DEF VInv, VTypeOK
<1>3. devAvail # availIdx
  <2>1. CASE hpc = "publish"
    <3>1. n = Between(devAvail, availMem) + 1 /\ Between(devAvail, availMem) \in Nat
      BY <1>2, <2>1, BetweenIs DEF VInv, Handling, Indices
    <3>2. n # 0
      BY <3>1
    <3> QED BY <1>2, <3>2, Advance
  <2> QED BY <1>1, <2>1 DEF VInv, Handling
<1>4. /\ n \in Nat /\ IsFiniteSet(devHas) /\ Cardinality(devHas) \in Nat /\ RX_BUFFER_COUNT \in Nat
      /\ QSize \in Nat \ {0} /\ Lengths(QSize) /\ Between(lastUsed, devUsed) \in Nat /\ NPopped \in Nat
  BY <1>1, LiveFacts
<1>5. x \notin devHas /\ Posted = Window(avail, Inc(devAvail), n - 1, QSize) \cup {x}
  BY <1>1, <1>3, NotTwice
<1>6. Between(devAvail', availIdx) = n - 1
  BY <1>1, <1>2, <1>3, Advance
<1>7. Cardinality(devHas') = Cardinality(devHas) + 1
  BY <1>1, <1>4, <1>5, FS_AddElement
<1>8. UNCHANGED <<Returned, Popped, NPopped>> /\ QSize' = QSize /\ (Live' <=> Live)
  BY <1>1 DEF Returned, Popped, NPopped, Held, NHeld, Window, Rings, NetHandler, Between, QSize, Live
<1>9. Posted' = Window(avail, Inc(devAvail), n - 1, QSize)
  BY <1>1, <1>6, <1>8 DEF Posted, Rings, Window
<1>10. Owning'
  <2>1. (Posted \cup devHas \cup Returned \cup Popped)' = Bufs
    BY <1>1, <1>5, <1>8, <1>9 DEF VInv, Owning
  <2>2. Between(devAvail', availIdx') = n - 1 /\ Between(lastUsed', devUsed') = Between(lastUsed, devUsed)
    BY <1>1, <1>6 DEF Rings
  <2>3. n + Cardinality(devHas) + Between(lastUsed, devUsed) + NPopped = RX_BUFFER_COUNT
    BY <1>1 DEF VInv, Owning
  <2> HIDE DEF n
  <2>4. (n - 1) + Cardinality(devHas') + Between(lastUsed, devUsed) + NPopped = RX_BUFFER_COUNT
    BY <1>4, <1>7, <2>3
  <2>5. Between(devAvail', availIdx') + Cardinality(devHas') + Between(lastUsed', devUsed') + NPopped' = RX_BUFFER_COUNT
    BY <1>8, <2>2, <2>4
  <2>6. \A b \in lost' : ~whole'[b]
    BY <1>1 DEF VInv, Owning, NetHandler
  <2> QED BY <2>1, <2>5, <2>6 DEF Owning
<1>11. x \in Bufs /\ Inc(devAvail) \in Indices
  BY <1>2, <1>4, SlotIn, IncIs DEF VInv, VTypeOK
<1>12. VTypeOK'
  BY <1>1, <1>11 DEF VInv, VTypeOK, Rings, NetHandler
<1>13. Staged' /\ Filling' /\ NoFrameForgotten'
  BY <1>1, <1>8 DEF VInv, Staged, Filling, NoFrameForgotten, Rings, NetHandler
<1>14. Handling'
  <2>1. ASSUME hpc = "publish"
        PROVE  Between(devAvail', availIdx) = Between(devAvail', availMem) + 1
    <3>1. n = Between(devAvail, availMem) + 1 /\ Between(devAvail, availMem) \in Nat
      BY <1>2, <2>1, BetweenIs DEF VInv, Handling, Indices
    <3>2. Between(devAvail', availMem) = Between(devAvail, availMem) - 1
      BY <1>1, <1>2, Advance
    <3> QED BY <1>6, <3>1, <3>2
  <2>2. RingSlot(availMem)' = RingSlot(availMem)
    BY <1>1, <1>8 DEF RingSlot, Rings
  <2> QED BY <1>1, <2>1, <2>2 DEF VInv, Handling, Rings, NetHandler
<1>15. Ordered'
  BY <1>1, <1>8 DEF VInv, Ordered, FramesInOrder, Rings, NetHandler, Between, RingSlot
<1>16. VConstants'
  BY <1>2 DEF VConstants
<1> QED BY <1>10, <1>12, <1>13, <1>14, <1>15, <1>16 DEF VInv

\* Numbers of frames wrap where it does not matter.
LEMMA ModAdd ==
  ASSUME NEW f \in Nat \ {0}, NEW x \in Nat, NEW y \in Nat
  PROVE  ((x % f) + y) % f = (x + y) % f
<1> DEFINE q == x \div f
           r == x % f
<1>1. r \in Nat /\ x = f * q + r /\ q \in Int
  BY DivMod
<1> HIDE DEF q, r
<1>2. r + y \in Nat /\ x + y \in Nat /\ f * q \in Int
  BY <1>1
<1>3. x + y = (r + y) + f * q
  BY <1>1, <1>2
<1>4. (x + y) % f = (r + y) % f
  BY <1>1, <1>2, <1>3, SameRemainder
<1> QED BY <1>4 DEF r

\* A frame arrives in a buffer that is not in the used ring: the entry goes
\* behind the ones there and overwrites none of them.
LEMMA DevFillV ==
  ASSUME VInv, NEW b \in Bufs, NEW ok \in BOOLEAN, DevFill(b, ok)
  PROVE  VInv'
<1> DEFINE u == Between(lastUsed, devUsed)
           n == Between(devAvail, availIdx)
<1>1. /\ b \in devHas /\ devUsed = usedMem /\ rxNo' = (rxNo + 1) % FrameMod /\ buf' = [buf EXCEPT ![b] = rxNo']
      /\ whole' = [whole EXCEPT ![b] = ok]
      /\ used' = [used EXCEPT ![RingSlot(devUsed)] = b] /\ devUsed' = Inc(devUsed) /\ devHas' = devHas \ {b}
      /\ UNCHANGED <<dev, vpc, devStatus, setup, devAvail, avail, availMem, availIdx, usedMem, lastUsed>>
      /\ UNCHANGED NetHandler
  BY DEF DevFill
<1>2. Live
  BY <1>1 DEF VInv, Filling
<1>3. VConstants /\ lastUsed \in Indices /\ devUsed \in Indices /\ rxNo \in Nat /\ taken \in Nat /\ FrameMod \in Nat \ {0}
  BY DEF VInv, VTypeOK, Numbers, VConstants
<1>4. /\ n \in Nat /\ u \in Nat /\ IsFiniteSet(devHas) /\ Cardinality(devHas) \in Nat /\ RX_BUFFER_COUNT \in Nat
      /\ QSize \in Nat \ {0} /\ Lengths(QSize) /\ NPopped \in Nat
  BY <1>2, LiveFacts
<1>5. RX_BUFFER_COUNT <= QSize /\ RX_BUFFER_COUNT < IdxMod /\ IdxMod \in Nat
  BY <1>2, QueueFits DEF VInv, Staged, VConstants
<1>6. Cardinality(devHas') = Cardinality(devHas) - 1 /\ Cardinality(devHas') \in Nat
  BY <1>1, <1>4, FS_RemoveElement, FS_CardinalityType
<1>7. n + Cardinality(devHas) + u + NPopped = RX_BUFFER_COUNT
  BY <1>2 DEF VInv, Owning
<1>8. u < QSize /\ u + 1 < IdxMod
  <2> HIDE DEF n, u
  <2> QED BY <1>4, <1>5, <1>6, <1>7
<1>9. Between(lastUsed, devUsed') = u + 1
  BY <1>1, <1>3, <1>8, Advance
<1>10. Written(used, devUsed % QSize, b, used')
  BY <1>1 DEF Written, VInv, VTypeOK, RingSlot
<1>11. /\ used'[(lastUsed + u) % QSize] = b
       /\ \A k \in 0..(u - 1) : used'[(lastUsed + k) % QSize] = used[(lastUsed + k) % QSize]
       /\ Window(used', lastUsed, u + 1, QSize) = Window(used, lastUsed, u, QSize) \cup {b}
  <2>1. VConstants /\ Lengths(QSize) /\ lastUsed \in Indices /\ devUsed \in Indices /\ Between(lastUsed, devUsed) < QSize
    BY <1>3, <1>4, <1>8
  <2>2. Appended(used, lastUsed, Between(lastUsed, devUsed), QSize, b, used')
    BY <2>1, <1>10, WriteNext, Zenon
  <2> QED BY <2>2 DEF Appended
<1>12. QSize' = QSize /\ (Live' <=> Live) /\ Posted' = Posted /\ Popped' = Popped /\ NPopped' = NPopped
  BY <1>1 DEF QSize, Live, Posted, Popped, NPopped, Held, NHeld, Window, Between, NetHandler
<1>13. Returned' = Returned \cup {b}
  <2>1. Returned' = Window(used', lastUsed, u + 1, QSize)
    BY <1>1, <1>9, <1>12 DEF Returned
  <2> QED BY <1>11, <2>1 DEF Returned
<1>14. Owning'
  <2>1. (Posted \cup devHas \cup Returned \cup Popped)' = Bufs
    BY <1>1, <1>2, <1>12, <1>13 DEF VInv, Owning
  <2>2. Between(devAvail', availIdx') = n /\ Between(lastUsed', devUsed') = u + 1
    BY <1>1, <1>9
  <2> HIDE DEF n, u
  <2>3. n + Cardinality(devHas') + (u + 1) + NPopped = RX_BUFFER_COUNT
    BY <1>4, <1>6, <1>7
  <2>4. Between(devAvail', availIdx') + Cardinality(devHas') + Between(lastUsed', devUsed') + NPopped' = RX_BUFFER_COUNT
    BY <1>12, <2>2, <2>3
  <2>5. \A c \in lost' : ~whole'[c]
    <3>1. lost' = lost /\ lost \subseteq Bufs /\ b \notin lost
      BY <1>1, <1>2, NotTwice DEF NetHandler, Popped, VInv, VTypeOK
    <3> QED BY <1>1, <1>2, <3>1 DEF VInv, VTypeOK, Owning
  <2> QED BY <2>1, <2>4, <2>5 DEF Owning
<1>15. rxNo' \in Numbers /\ Inc(devUsed) \in Indices
  BY <1>1, <1>3, DivMod, IncIs DEF Numbers
<1>16. VTypeOK'
  BY <1>1, <1>15 DEF VInv, VTypeOK, NetHandler
<1>17. Staged' /\ Filling' /\ NoFrameForgotten'
  BY <1>1, <1>2, <1>12 DEF VInv, Staged, Filling, NoFrameForgotten, NetHandler
<1>18. Handling'
  <2>1. Between(lastUsed', devUsed') = Between(lastUsed', usedMem') + 1
    BY <1>1, <1>9
  <2> QED BY <1>1, <1>12, <2>1 DEF VInv, Handling, NetHandler, RingSlot
<1>19. Ordered'
  <2>1. rxNo' = (taken + (u + 1)) % FrameMod
    <3>1. rxNo = (taken + u) % FrameMod /\ taken + u \in Nat
      BY <1>3, <1>4 DEF VInv, Ordered
    <3>2. (((taken + u) % FrameMod) + 1) % FrameMod = ((taken + u) + 1) % FrameMod
      BY <1>3, <3>1, ModAdd
    <3>3. (taken + u) + 1 = taken + (u + 1)
      BY <1>3, <1>4
    <3> QED BY <1>1, <3>1, <3>2, <3>3
  <2>2. ASSUME NEW k \in 0..u
        PROVE  buf'[used'[(lastUsed + k) % QSize]] = (taken + k + 1) % FrameMod
    <3>1. CASE k = u
      <4>1. buf'[b] = rxNo'
        BY <1>1 DEF VInv, VTypeOK
      <4>2. taken + k + 1 = taken + (u + 1)
        BY <1>3, <1>4, <3>1
      <4> QED BY <1>11, <2>1, <3>1, <4>1, <4>2
    <3>2. CASE k \in 0..(u - 1)
      <4> DEFINE y == used[(lastUsed + k) % QSize]
      <4>1. y \in Returned
        BY <3>2 DEF Returned, Window
      <4>2. y # b
        BY <1>1, <1>2, <4>1, NotTwice
      <4>3. buf'[y] = buf[y]
        BY <1>1, <4>2 DEF VInv, VTypeOK
      <4>4. buf[y] = (taken + k + 1) % FrameMod
        BY <3>2 DEF VInv, Ordered, FramesInOrder, RingSlot
      <4> QED BY <1>11, <3>2, <4>3, <4>4
    <3> QED BY <1>4, <3>1, <3>2
  <2>3. 0..((u + 1) - 1) = 0..u /\ Between(lastUsed', devUsed') = u + 1 /\ lastUsed' = lastUsed /\ taken' = taken
    BY <1>1, <1>4, <1>9 DEF NetHandler
  <2> QED BY <1>12, <2>1, <2>2, <2>3 DEF Ordered, FramesInOrder, RingSlot
<1>20. VConstants'
  BY <1>3 DEF VConstants
<1> QED BY <1>14, <1>16, <1>17, <1>18, <1>19, <1>20 DEF VInv

LEMMA SignalEnterPublishV ==
  ASSUME VInv, DevSignal \/ NetEnter \/ PublishAvail
  PROVE  VInv'
<1>1. /\ UNCHANGED <<dev, vpc, devStatus, setup, avail, availIdx, used, lastUsed, taken, lost>> /\ UNCHANGED Device
      /\ hpc' = hpc \/ (hpc = "out" /\ hpc' = "pop" /\ vpc = "ready") \/ (hpc = "publish" /\ hpc' = "pop")
  BY DEF DevSignal, NetEnter, PublishAvail, Rings
<1>2. UNCHANGED <<Posted, Returned, Popped, NPopped, QSize, Live>>
  <2>1. UNCHANGED <<Popped, NPopped>>
    BY DEF DevSignal, NetEnter, PublishAvail, Popped, NPopped, Held, NHeld, VInv, VTypeOK
  <2> QED BY <1>1, <2>1 DEF Posted, Returned, Window, Between, QSize, Live, Device
<1>3. Owning' /\ Ordered'
  BY <1>1, <1>2 DEF VInv, Owning, Ordered, FramesInOrder, Between, RingSlot, Device
<1>4. VTypeOK'
  BY DEF DevSignal, NetEnter, PublishAvail, VInv, VTypeOK, Device, Rings
<1>5. Staged'
  BY <1>1, <1>2 DEF VInv, Staged
<1>6. Filling'
  <2>1. CASE Live
    BY <1>2, <2>1 DEF Filling
  <2>2. CASE ~Live
    BY <1>1, <1>2, <2>2 DEF VInv, Filling, Staged, DevSignal, NetEnter, PublishAvail, Device, Rings, On
  <2> QED BY <2>1, <2>2
<1>7. Handling' /\ NoFrameForgotten'
  <2>1. CASE DevSignal
    BY <1>1, <1>2, <2>1 DEF DevSignal, VInv, Handling, NoFrameForgotten, Device, RingSlot
  <2>2. CASE NetEnter
    BY <1>1, <1>2, <2>2 DEF NetEnter, VInv, Handling, NoFrameForgotten, Device, Rings, RingSlot
  <2>3. CASE PublishAvail
    BY <1>1, <1>2, <2>3 DEF PublishAvail, VInv, Handling, NoFrameForgotten, Device, RingSlot
  <2> QED BY <2>1, <2>2, <2>3
<1>8. VConstants'
  BY DEF VInv, VConstants
<1> QED BY <1>3, <1>4, <1>5, <1>6, <1>7, <1>8 DEF VInv

\* The handler takes the first used entry, refuses it, or finds none and leaves.
LEMMA PopUsedV ==
  ASSUME VInv, PopUsed
  PROVE  VInv'
<1> DEFINE u == Between(lastUsed, devUsed)
           x == used[RingSlot(lastUsed)]
<1>1. /\ hpc = "pop" /\ UNCHANGED <<dev, vpc, devStatus, setup, avail, availMem, availIdx, used, usedMem, message>>
      /\ UNCHANGED Device
  BY DEF PopUsed
<1>2. Live /\ vpc = "ready" /\ inHand = None /\ Held = {} /\ NHeld = 0
  BY <1>1 DEF VInv, Staged, Handling, Held, NHeld, On
<1>3. QSize' = QSize /\ (Live' <=> Live) /\ Posted' = Posted /\ VConstants'
  BY <1>1 DEF QSize, Live, Posted, Window, Between, Device, VInv, VConstants
<1>4. CASE usedMem = lastUsed
  <2>1. hpc' = "out" /\ UNCHANGED <<lastUsed, inHand, taken, lost>>
    BY <1>4 DEF PopUsed
  <2>2. Returned' = Returned /\ Popped' = Popped /\ NPopped' = NPopped
    BY <1>1, <1>2, <1>3, <2>1 DEF Returned, Popped, NPopped, Held, NHeld, Window, Between, Device
  <2>3. Owning' /\ Ordered'
    BY <1>1, <1>2, <1>3, <2>1, <2>2 DEF VInv, Owning, Ordered, FramesInOrder, Between, RingSlot, Device
  <2>4. VTypeOK' /\ Staged' /\ Filling'
    BY <1>1, <1>2, <1>3, <2>1 DEF VInv, VTypeOK, Staged, Filling, Device
  <2>5. Handling' /\ NoFrameForgotten'
    BY <1>1, <1>2, <1>4, <2>1 DEF VInv, Handling, NoFrameForgotten, Device
  <2> QED BY <1>3, <2>3, <2>4, <2>5 DEF VInv
<1>5. CASE usedMem # lastUsed
  <2>0. \/ inHand' = x /\ hpc' = "post" /\ lost' = lost
        \/ inHand' = None /\ hpc' = "pop" /\ lost' = lost \cup {x} /\ ~whole[x]
    BY <1>1, <1>2, <1>5 DEF PopUsed
  <2>1. lastUsed' = Inc(lastUsed) /\ taken' = buf[x]
    BY <1>5 DEF PopUsed
  <2>2. VConstants /\ lastUsed \in Indices /\ devUsed \in Indices /\ usedMem \in Indices /\ taken \in Nat /\ FrameMod \in Nat \ {0}
    BY DEF VInv, VTypeOK, Numbers, VConstants
  <2>3. /\ u \in Nat /\ Lengths(QSize) /\ Fits(QSize) /\ QSize \in Nat \ {0} /\ RX_BUFFER_COUNT \in Nat
        /\ Between(devAvail, availIdx) \in Nat /\ Cardinality(devHas) \in Nat
        /\ NPopped \in Nat /\ IsFiniteSet(lost) /\ Cardinality(lost) \in Nat
    BY <1>2, LiveFacts
  <2>4. lastUsed # devUsed
    <3>1. CASE devUsed # usedMem
      <4>1. u = Between(lastUsed, usedMem) + 1 /\ Between(lastUsed, usedMem) \in Nat
        BY <2>2, <3>1, BetweenIs DEF VInv, Handling, Indices
      <4>2. u # 0
        BY <4>1
      <4> QED BY <2>2, <4>2, Advance
    <3> QED BY <1>5, <3>1
  <2>5. Between(lastUsed', devUsed) = u - 1 /\ Between(lastUsed', usedMem) = Between(lastUsed, usedMem) - 1
    BY <1>5, <2>1, <2>2, <2>4, Advance
  <2>6. u # 0
    BY <2>2, <2>4, Advance
  <2>7. u \in Nat \ {0} /\ u - 1 \in Nat
    BY <2>3, <2>6
  <2>8. Returned = Window(used, Inc(lastUsed), u - 1, QSize) \cup {x}
    BY <2>2, <2>3, <2>7, WindowDrop DEF Returned, RingSlot
  <2>9. Returned' = Window(used, Inc(lastUsed), u - 1, QSize)
    <3>1. devUsed' = devUsed /\ Between(lastUsed', devUsed') = u - 1 /\ used' = used
      BY <1>1, <2>5 DEF Device
    <3> QED BY <1>3, <2>1, <3>1 DEF Returned
  <2>10. Popped' = Popped \cup {x} /\ NPopped' = NPopped + 1
    <3>1. Popped = lost /\ NPopped = Cardinality(lost)
      BY <1>2, <2>3 DEF Popped, NPopped
    <3>2. CASE hpc' = "post" /\ inHand' = x /\ lost' = lost
      <4>1. Held' = {x} /\ NHeld' = 1
        BY <3>2 DEF Held, NHeld
      <4> QED BY <2>3, <3>1, <3>2, <4>1 DEF Popped, NPopped
    <3>3. CASE hpc' = "pop" /\ lost' = lost \cup {x}
      <4>1. Held' = {} /\ NHeld' = 0
        BY <3>3 DEF Held, NHeld
      <4>2. x \notin lost
        BY <1>2, <2>4, <3>1, NotTwice
      <4>3. Cardinality(lost') = Cardinality(lost) + 1
        BY <2>3, <3>3, <4>2, FS_AddElement
      <4> QED BY <2>3, <3>1, <3>3, <4>1, <4>3 DEF Popped, NPopped
    <3> QED BY <2>0, <3>2, <3>3
  <2>11. Owning'
    <3>1. (Posted \cup devHas \cup Returned \cup Popped)' = Bufs
      BY <1>1, <1>2, <1>3, <2>8, <2>9, <2>10 DEF VInv, Owning, Device
    <3>2. Between(devAvail, availIdx) + Cardinality(devHas) + u + NPopped = RX_BUFFER_COUNT
      BY <1>2 DEF VInv, Owning
    <3>3. Between(devAvail', availIdx') = Between(devAvail, availIdx) /\ Between(lastUsed', devUsed') = u - 1 /\ devHas' = devHas
      BY <1>1, <2>5 DEF Device
    <3> HIDE DEF u
    <3>4. Between(devAvail, availIdx) + Cardinality(devHas) + (u - 1) + (NPopped + 1) = RX_BUFFER_COUNT
      BY <2>3, <3>2
    <3>5. Between(devAvail', availIdx') + Cardinality(devHas') + Between(lastUsed', devUsed') + NPopped' = RX_BUFFER_COUNT
      BY <2>10, <3>3, <3>4
    <3>6. \A b \in lost' : ~whole'[b]
      BY <1>1, <1>2, <2>0 DEF VInv, Owning, Device
    <3> QED BY <3>1, <3>5, <3>6 DEF Owning
  <2>12. x \in Bufs /\ Inc(lastUsed) \in Indices
    BY <2>2, <2>3, SlotIn, IncIs DEF VInv, VTypeOK
  <2>13. VTypeOK' /\ Staged' /\ Filling' /\ NoFrameForgotten'
    BY <1>1, <1>2, <1>3, <2>0, <2>1, <2>12 DEF VInv, VTypeOK, Staged, Filling, NoFrameForgotten, Device
  <2>14. Handling'
    <3>1. ASSUME devUsed # usedMem PROVE u - 1 = (Between(lastUsed, usedMem) - 1) + 1
      <4>1. u = Between(lastUsed, usedMem) + 1 /\ Between(lastUsed, usedMem) \in Nat
        BY <2>2, <3>1, BetweenIs DEF VInv, Handling, Indices
      <4> QED BY <4>1
    <3>2. devUsed' # usedMem' => Between(lastUsed', devUsed') = Between(lastUsed', usedMem') + 1
      BY <1>1, <2>5, <3>1 DEF Device
    <3> QED BY <1>1, <2>0, <2>1, <2>12, <3>2 DEF VInv, Handling, Device
  <2>15. Ordered'
    <3>1. taken' = (taken + 1) % FrameMod
      <4>1. 0 \in 0..(u - 1) /\ lastUsed + 0 = lastUsed /\ taken + 0 + 1 = taken + 1
        BY <2>2, <2>7 DEF Indices
      <4>2. buf[used[RingSlot(lastUsed + 0)]] = (taken + 0 + 1) % FrameMod
        BY <4>1 DEF VInv, Ordered, FramesInOrder
      <4> QED BY <2>1, <4>1, <4>2
    <3>2. rxNo = (taken' + (u - 1)) % FrameMod
      <4>0. FrameMod \in Nat \ {0} /\ taken + 1 \in Nat /\ u - 1 \in Nat
        BY <2>2, <2>7
      <4>1. (((taken + 1) % FrameMod) + (u - 1)) % FrameMod = ((taken + 1) + (u - 1)) % FrameMod
        BY <4>0, ModAdd, Zenon
      <4>2. (taken + 1) + (u - 1) = taken + u
        BY <2>2, <2>3
      <4> QED BY <3>1, <4>1, <4>2 DEF VInv, Ordered
    <3>3. ASSUME NEW k \in 0..((u - 1) - 1)
          PROVE  buf[used[(Inc(lastUsed) + k) % QSize]] = (taken' + k + 1) % FrameMod
      <4>1. k \in Nat /\ k + 1 \in Nat /\ k + 1 \in 0..(u - 1)
        BY <2>7
      <4>2. (Inc(lastUsed) + k) % QSize = (lastUsed + (k + 1)) % QSize
        BY <2>2, <2>3, <4>1, SlotInc
      <4>3. buf[used[(lastUsed + (k + 1)) % QSize]] = (taken + (k + 1) + 1) % FrameMod
        BY <4>1 DEF VInv, Ordered, FramesInOrder, RingSlot
      <4>0. FrameMod \in Nat \ {0} /\ taken + 1 \in Nat
        BY <2>2
      <4>4. (((taken + 1) % FrameMod) + (k + 1)) % FrameMod = ((taken + 1) + (k + 1)) % FrameMod
        BY <4>0, <4>1, ModAdd, Zenon
      <4>5. (taken + 1) + (k + 1) = taken + (k + 1) + 1
        BY <2>2, <4>1
      <4>6. taken' \in Nat
        BY <2>2, <3>1, DivMod
      <4>7. taken' + k + 1 = taken' + (k + 1)
        BY <4>1, <4>6
      <4> QED BY <3>1, <4>2, <4>3, <4>4, <4>5, <4>7
    <3>4. /\ Between(lastUsed', devUsed') = u - 1 /\ lastUsed' = Inc(lastUsed) /\ used' = used /\ buf' = buf /\ rxNo' = rxNo
      BY <1>1, <2>1, <2>5 DEF Device
    <3> QED BY <1>3, <3>2, <3>3, <3>4 DEF Ordered, FramesInOrder, RingSlot
  <2> QED BY <1>3, <2>11, <2>13, <2>14, <2>15 DEF VInv
<1> QED BY <1>4, <1>5

\* The handler gives the buffer back: behind the entries the device has not
\* taken, of which it overwrites none.
LEMMA PushEntryV ==
  ASSUME VInv, PushEntry
  PROVE  VInv'
<1> DEFINE n == Between(devAvail, availIdx)
<1>1. /\ hpc = "post" /\ hpc' = "publish" /\ availIdx' = Inc(availIdx)
      /\ avail' = [avail EXCEPT ![RingSlot(availIdx)] = inHand]
      /\ UNCHANGED <<dev, vpc, devStatus, setup, availMem, used, usedMem, lastUsed, taken, lost, message, inHand>>
      /\ UNCHANGED Device
  BY DEF PushEntry
<1>2. Live /\ vpc = "ready" /\ inHand \in Bufs /\ availMem = availIdx /\ Held = {inHand} /\ NHeld = 1
  BY <1>1 DEF VInv, Staged, Handling, Held, NHeld, On
<1>3. VConstants /\ devAvail \in Indices /\ availIdx \in Indices
  BY DEF VInv, VTypeOK
<1>4. /\ n \in Nat /\ Lengths(QSize) /\ QSize \in Nat \ {0} /\ RX_BUFFER_COUNT \in Nat /\ IdxMod \in Nat
      /\ RX_BUFFER_COUNT <= QSize /\ RX_BUFFER_COUNT < IdxMod
      /\ Between(lastUsed, devUsed) \in Nat /\ Cardinality(devHas) \in Nat /\ Cardinality(lost) \in Nat
  BY <1>2, LiveFacts
<1>5. n + Cardinality(devHas) + Between(lastUsed, devUsed) + (1 + Cardinality(lost)) = RX_BUFFER_COUNT
  BY <1>2 DEF VInv, Owning, NPopped
<1>6. n < QSize /\ n + 1 < IdxMod
  <2> HIDE DEF n
  <2> QED BY <1>4, <1>5
<1>7. Between(devAvail, availIdx') = n + 1
  BY <1>1, <1>3, <1>6, Advance
<1>8. Written(avail, availIdx % QSize, inHand, avail')
  BY <1>1 DEF Written, VInv, VTypeOK, RingSlot
<1>9. Window(avail', devAvail, n + 1, QSize) = Window(avail, devAvail, n, QSize) \cup {inHand}
  <2>1. VConstants /\ Lengths(QSize) /\ devAvail \in Indices /\ availIdx \in Indices /\ Between(devAvail, availIdx) < QSize
    BY <1>3, <1>4, <1>6
  <2>2. Appended(avail, devAvail, Between(devAvail, availIdx), QSize, inHand, avail')
    BY <2>1, <1>8, WriteNext, Zenon
  <2> QED BY <2>2 DEF Appended
<1>10. QSize' = QSize /\ (Live' <=> Live) /\ Returned' = Returned /\ Popped' = lost /\ NPopped' = Cardinality(lost) /\ VConstants'
  <2>1. Held' = {} /\ NHeld' = 0
    BY <1>1 DEF Held, NHeld
  <2>2. Popped' = lost /\ NPopped' = Cardinality(lost)
    BY <1>1, <1>4, <2>1 DEF Popped, NPopped
  <2> QED BY <1>1, <1>3, <2>2 DEF QSize, Live, Returned, Window, Between, Device, VConstants
<1>11. Posted' = Posted \cup {inHand}
  <2>1. devAvail' = devAvail
    BY <1>1 DEF Device
  <2>2. Posted' = Window(avail', devAvail, n + 1, QSize)
    BY <1>7, <1>10, <2>1 DEF Posted
  <2> QED BY <1>9, <2>2 DEF Posted
<1>12. Owning'
  <2>1. (Posted \cup devHas \cup Returned \cup Popped)' = Bufs
    BY <1>1, <1>2, <1>10, <1>11 DEF VInv, Owning, Popped, Device
  <2>2. Between(devAvail', availIdx') = n + 1 /\ Between(lastUsed', devUsed') = Between(lastUsed, devUsed) /\ devHas' = devHas
    BY <1>1, <1>7 DEF Device
  <2> HIDE DEF n
  <2>3. (n + 1) + Cardinality(devHas) + Between(lastUsed, devUsed) + Cardinality(lost) = RX_BUFFER_COUNT
    BY <1>4, <1>5
  <2>4. Between(devAvail', availIdx') + Cardinality(devHas') + Between(lastUsed', devUsed') + NPopped' = RX_BUFFER_COUNT
    BY <1>10, <2>2, <2>3
  <2>5. \A b \in lost' : ~whole'[b]
    BY <1>1, <1>2 DEF VInv, Owning, Device
  <2> QED BY <2>1, <2>4, <2>5 DEF Owning
<1>13. Inc(availIdx) \in Indices /\ RingSlot(availIdx) \in 0..MAX_QUEUE_SIZE
  BY <1>3, <1>4, IncIs, SlotIn
<1>14. VTypeOK' /\ Staged' /\ Filling' /\ NoFrameForgotten'
  BY <1>1, <1>2, <1>10, <1>13 DEF VInv, VTypeOK, Staged, Filling, NoFrameForgotten, Device
<1>15. Handling'
  <2>1. avail'[RingSlot(availMem)'] = inHand
    BY <1>1, <1>2, <1>10, <1>13 DEF VInv, VTypeOK, RingSlot
  <2>2. Between(devAvail', availIdx') = Between(devAvail', availMem') + 1
    BY <1>1, <1>2, <1>7 DEF Device
  <2> QED BY <1>1, <1>2, <2>1, <2>2 DEF VInv, Handling, Device
<1>16. Ordered'
  BY <1>1, <1>10 DEF VInv, Ordered, FramesInOrder, Between, RingSlot, Device
<1> QED BY <1>10, <1>12, <1>14, <1>15, <1>16 DEF VInv

LEMMA NextV ==
  ASSUME VInv, [VNext]_vvars
  PROVE  VInv'
<1>1. CASE VNext
  BY <1>1, BootV, FillRxV, SetDriverOkV, DevTakeV, DevFillV, SignalEnterPublishV, PopUsedV, PushEntryV DEF VNext
<1>2. CASE UNCHANGED vvars
  <2>1. Still /\ UNCHANGED <<vpc, devStatus, setup>>
    BY <1>2 DEF vvars, Still, Rings, Device, NetHandler
  <2>2. vpc' \in Before \cup Stopped \cup Setting \cup On /\ (Live' => Live)
    BY <2>1 DEF VInv, VTypeOK, Live
  <2>3. Staged' /\ Filling'
    BY <2>1 DEF VInv, Staged, Filling, Still, Rings, Device, NetHandler, Live, QSize
  <2> QED BY <2>1, <2>2, <2>3, StillV
<1> QED BY <1>1, <1>2

LEMMA WindowLast ==
  ASSUME NEW ring, NEW i, NEW n \in Nat, NEW q
  PROVE  Window(ring, i, n + 1, q) = Window(ring, i, n, q) \cup {ring[(i + n) % q]}
<1>1. 0..((n + 1) - 1) = 0..(n - 1) \cup {n}
  OBVIOUS
<1> QED BY <1>1 DEF Window

\* What the driver has published is what is posted, but for the entry on its way.
LEMMA OwnedV ==
  ASSUME VInv
  PROVE  BuffersOwned
<1> SUFFICES ASSUME vpc = "ready" PROVE BuffersOwned
  BY DEF BuffersOwned
<1> DEFINE hand == {inHand} \ {None}
           a == Between(devAvail, availMem)
<1>1. Live
  BY DEF VInv, Staged, On
<1>2. VConstants /\ devAvail \in Indices /\ availMem \in Indices
  BY DEF VInv, VTypeOK
<1>3. Fits(QSize) /\ Cardinality(devHas) \in Nat /\ Between(lastUsed, devUsed) \in Nat /\ RX_BUFFER_COUNT \in Nat /\ Cardinality(lost) \in Nat
  BY <1>1, LiveFacts
<1>4. a \in Nat
  BY <1>2, BetweenIs DEF Indices
<1>5. InUsed = Returned /\ InAvail = Window(avail, devAvail, a, QSize)
  BY DEF InUsed, Returned, InAvail, Window, RingSlot
<1>6. /\ Posted \cup devHas \cup Returned \cup Popped = Bufs
      /\ Between(devAvail, availIdx) + Cardinality(devHas) + Between(lastUsed, devUsed) + NPopped = RX_BUFFER_COUNT
      /\ \A b \in lost : ~whole[b]
  BY <1>1 DEF VInv, Owning
<1>7. inHand \in Bufs => hand = {inHand} /\ Cardinality(hand) = 1
  BY FS_Singleton DEF Bufs, None
<1>8. /\ InAvail \cup devHas \cup InUsed \cup hand \cup lost = Bufs
      /\ a + Cardinality(devHas) + Between(lastUsed, devUsed) + Cardinality(hand) + Cardinality(lost) = RX_BUFFER_COUNT
  <2>1. CASE hpc \in {"out", "pop"}
    <3>1. inHand = None /\ availMem = availIdx /\ Popped = lost /\ NPopped = Cardinality(lost)
      BY <1>3, <2>1 DEF VInv, Handling, Popped, NPopped, Held, NHeld
    <3>2. hand = {} /\ Cardinality(hand) = 0
      BY <3>1, FS_EmptySet
    <3> QED BY <1>3, <1>4, <1>5, <1>6, <3>1, <3>2 DEF Posted
  <2>2. CASE hpc = "post"
    <3>1. inHand \in Bufs /\ availMem = availIdx /\ Popped = {inHand} \cup lost /\ NPopped = 1 + Cardinality(lost)
      BY <2>2 DEF VInv, Handling, Popped, NPopped, Held, NHeld
    <3>2. InAvail \cup devHas \cup InUsed \cup hand \cup lost = Bufs
      BY <1>5, <1>6, <1>7, <3>1 DEF Posted
    <3>3. a + Cardinality(devHas) + Between(lastUsed, devUsed) + (1 + Cardinality(lost)) = RX_BUFFER_COUNT
      BY <1>6, <3>1
    <3> HIDE DEF a, hand
    <3>4. a + Cardinality(devHas) + Between(lastUsed, devUsed) + 1 + Cardinality(lost) = RX_BUFFER_COUNT
      BY <1>3, <1>4, <3>3
    <3> QED BY <1>7, <3>1, <3>2, <3>4
  <2>3. CASE hpc = "publish"
    <3>1. /\ inHand \in Bufs /\ avail[RingSlot(availMem)] = inHand /\ Between(devAvail, availIdx) = a + 1
          /\ Popped = lost /\ NPopped = Cardinality(lost)
      BY <1>3, <2>3 DEF VInv, Handling, Popped, NPopped, Held, NHeld
    <3>2. Posted = Window(avail, devAvail, a, QSize) \cup {avail[(devAvail + a) % QSize]}
      <4>1. Posted = Window(avail, devAvail, a + 1, QSize)
        BY <3>1 DEF Posted
      <4> HIDE DEF a
      <4>2. Window(avail, devAvail, a + 1, QSize) = Window(avail, devAvail, a, QSize) \cup {avail[(devAvail + a) % QSize]}
        BY <1>4, WindowLast
      <4> QED BY <4>1, <4>2
    <3>3. avail[(devAvail + a) % QSize] = inHand
      BY <1>2, <1>3, <3>1, SlotEnd DEF RingSlot
    <3>4. InAvail \cup devHas \cup InUsed \cup hand \cup lost = Bufs
      BY <1>5, <1>6, <1>7, <3>1, <3>2, <3>3
    <3>5. (a + 1) + Cardinality(devHas) + Between(lastUsed, devUsed) + Cardinality(lost) = RX_BUFFER_COUNT
      BY <1>6, <3>1
    <3> HIDE DEF a, hand
    <3>6. a + Cardinality(devHas) + Between(lastUsed, devUsed) + 1 + Cardinality(lost) = RX_BUFFER_COUNT
      BY <1>3, <1>4, <3>5
    <3> QED BY <1>7, <3>1, <3>4, <3>6
  <2> QED BY <2>1, <2>2, <2>3 DEF VInv, VTypeOK
<1> QED BY <1>6, <1>8 DEF BuffersOwned

\* For every queue length, number of buffers and range of the indices that fit
\* together: each receive buffer is in one place, the available ring, the
\* device, the used ring, the handler's hands or, once its entry was refused as
\* too short (poll_rx), out of use, and the device is told DRIVER_OK only with
\* its queues and its interrupt in place.
THEOREM VirtioBuffersOwned == VConstants /\ VSpec => []DeviceSound
<1>1. VConstants /\ VInit => VInv
  BY InitV
<1>2. VInv /\ [VNext]_vvars => VInv'
  BY NextV
<1>3. VInv => DeviceSound
  BY OwnedV DEF VInv, Staged, LiveIsSetUp, On, DeviceSound
<1> QED BY <1>1, <1>2, <1>3, PTL DEF VSpec

\* Frames are taken in the order the device received them, and a used
\* entry the handler has not seen has a message or the handler after it.
THEOREM VirtioFramesInOrder == VConstants /\ VSpec => []FramesKept
<1>1. VConstants /\ VInit => VInv
  BY InitV
<1>2. VInv /\ [VNext]_vvars => VInv'
  BY NextV
<1>3. VInv => FramesKept
  BY DEF VInv, Ordered, FramesKept
<1> QED BY <1>1, <1>2, <1>3, PTL DEF VSpec
=============================================================================
