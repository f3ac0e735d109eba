----------------------------- MODULE PipeProofs -----------------------------
(***************************************************************************)
(* Proofs about Pipe: its state keeps its type, and no wake-up is lost on  *)
(* either side, for any number of threads, any capacity and any number of  *)
(* calls.  The theorems' hypothesis is what the code needs: every buffer   *)
(* is non-empty.                                                           *)
(***************************************************************************)
EXTENDS Pipe, TLAPS

(* A wait queue links each thread once. *)
NoDup(q) == \A i, j \in 1..Len(q) : q[i] = q[j] => i = j

-----------------------------------------------------------------------------
(* enqueue_raw adds exactly the thread it links. *)
LEMMA EnqueueFacts ==
  ASSUME NEW S, NEW q \in Seq(S), NEW t \in S, NoDup(q), t \notin Waiting(q)
  PROVE  /\ Enqueue(q, t) \in Seq(S)
         /\ NoDup(Enqueue(q, t))
         /\ Waiting(Enqueue(q, t)) = Waiting(q) \cup {t}
<1> DEFINE p == Enqueue(q, t)
<1>1. p \in Seq(S) /\ Len(p) = Len(q) + 1 /\ p[Len(q) + 1] = t
      /\ \A i \in 1..Len(q) : p[i] = q[i]
  BY DEF Enqueue
<1>2. NoDup(p)
  BY <1>1 DEF NoDup, Waiting
<1>3. Waiting(p) = Waiting(q) \cup {t}
  BY <1>1 DEF Waiting
<1> QED BY <1>1, <1>2, <1>3

(* wake_one on a non-empty queue takes out exactly the thread at its head. *)
LEMMA WakeOneFacts ==
  ASSUME NEW S, NEW q \in Seq(S), NoDup(q), q # << >>
  PROVE  /\ Tail(q) \in Seq(S)
         /\ NoDup(Tail(q))
         /\ Head(q) \in Waiting(q)
         /\ Waiting(Tail(q)) = Waiting(q) \ {Head(q)}
<1> DEFINE p == Tail(q)
<1>1. p \in Seq(S) /\ Len(q) \in Nat \ {0} /\ Len(p) = Len(q) - 1 /\ Head(q) = q[1]
      /\ \A i \in 1..Len(p) : p[i] = q[i + 1]
  OBVIOUS
<1>2. NoDup(p)
  BY <1>1 DEF NoDup
<1>3. Head(q) \in Waiting(q)
  BY <1>1 DEF Waiting
<1>4. Waiting(p) = Waiting(q) \ {Head(q)}
  <2>1. ASSUME NEW x \in Waiting(p) PROVE x \in Waiting(q) \ {Head(q)}
    <3>1. PICK i \in 1..Len(p) : x = p[i]
      BY DEF Waiting
    <3>2. i + 1 \in 1..Len(q) /\ x = q[i + 1] /\ 1 \in 1..Len(q) /\ i + 1 # 1
      BY <1>1, <3>1
    <3> QED BY <3>2, <1>1 DEF Waiting, NoDup
  <2>2. ASSUME NEW x \in Waiting(q) \ {Head(q)} PROVE x \in Waiting(p)
    <3>1. PICK i \in 1..Len(q) : x = q[i] /\ i # 1
      BY <1>1 DEF Waiting
    <3>2. i - 1 \in 1..Len(p) /\ x = p[i - 1]
      BY <1>1, <3>1
    <3> QED BY <3>2 DEF Waiting
  <2> QED BY <2>1, <2>2
<1> QED BY <1>1, <1>2, <1>3, <1>4

(* The threads of a queue of S are members of S, and the empty queue is one. *)
LEMMA QueueFacts ==
  ASSUME NEW S, NEW q \in Seq(S)
  PROVE  /\ Waiting(q) \subseteq S
         /\ Waiting(<< >>) = {}
         /\ << >> \in Seq(S)
         /\ NoDup(<< >>)
         /\ Waiting(q) = {} => q = << >>
BY DEF Waiting, NoDup

-----------------------------------------------------------------------------
(* The hypotheses of the theorems. *)
NonemptyBuffers == 0 \notin Lens

(* Each wait queue links exactly the threads that sleep, each once. *)
QueuesInv ==
  /\ NoDup(read_waiters) /\ Waiting(read_waiters) = {r \in Readers : pc[r] = "blocked"}
  /\ NoDup(write_waiters) /\ Waiting(write_waiters) = {w \in Writers : pc[w] = "blocked"}

(* A snapshot is never ahead of its counter, and a call that may still look *)
(* at the ring has a buffer of one of the allowed lengths.                  *)
CallsInv ==
  /\ \A r \in Readers : snap[r] <= read_seq
  /\ \A w \in Writers : snap[w] <= write_seq
  /\ \A t \in Threads :
       pc[t] \in {"enter", "sample", "ring", "check", "block", "blocked"} => want[t] \in Lens

(* The read side of the protocol, for one reader.  Besides NoLostReadWake it *)
(* says what makes the re-check under the queue lock sufficient: as long as  *)
(* a reader that saw the ring empty (or a writer present) still holds the    *)
(* current counter, whoever changed that has not bumped the counter yet.     *)
ReadInvAt(r) ==
  /\ (pc[r] = "blocked" /\ write_open = {}) => OwesCloseWake(Writers)
  /\ (pc[r] = "block" /\ snap[r] = read_seq /\ write_open = {}) =>
       \E w \in Writers : pc[w] = "close_bump"
  /\ (pc[r] = "blocked" /\ Lone(r, Readers) /\ len > 0) => OwesWake(Writers)
  /\ (pc[r] \in {"check", "block"} /\ snap[r] = read_seq /\ Lone(r, Readers) /\ len > 0) =>
       \E w \in Writers : pc[w] = "bump"

ReadInv == \A r \in Readers : ReadInvAt(r)

(* The write side, symmetrically. *)
WriteInvAt(w) ==
  /\ (pc[w] = "blocked" /\ read_open = {}) => OwesCloseWake(Readers)
  /\ (pc[w] = "block" /\ snap[w] = write_seq /\ read_open = {}) =>
       \E r \in Readers : pc[r] = "close_bump"
  /\ (pc[w] = "blocked" /\ Lone(w, Writers) /\ len < Capacity) => OwesWake(Readers)
  /\ (pc[w] \in {"check", "block"} /\ snap[w] = write_seq /\ Lone(w, Writers) /\ len < Capacity) =>
       \E r \in Readers : pc[r] = "bump"

WriteInv == \A w \in Writers : WriteInvAt(w)

(* A thread on its way through a call has begun one. *)
Within == {"enter", "sample", "ring", "bump", "wake", "check", "block", "blocked"}
Begun == \A t \in Threads : pc[t] \in Within => calls[t] # 0

Shape == TypeOK /\ QueuesInv /\ CallsInv


IInv == Shape /\ Begun /\ ReadInv /\ WriteInv

-----------------------------------------------------------------------------
LEMMA LensFact == ASSUME NEW n \in Lens \cup {0} PROVE n \in Nat
BY PipeAssumption

(* Every step keeps the types, the queues and the calls in shape. *)
LEMMA ShapeStep ==
  ASSUME NonemptyBuffers, Shape, [Next]_vars
  PROVE  Shape'
<1> USE PipeAssumption DEF Shape, Threads, Goto, vars, ringVars, endVars, seqVars, waitVars, callVars
<1>1. CASE UNCHANGED vars
  BY <1>1 DEF TypeOK, QueuesInv, CallsInv
<1>2. CASE Finished
  BY <1>2 DEF TypeOK, QueuesInv, CallsInv, Finished
<1>3. ASSUME NEW r \in Readers, ReadCall(r) PROVE Shape'
  <2>1. TypeOK'
    BY <1>3 DEF TypeOK, Labels, ReadCall, Call
  <2>2. QueuesInv'
    BY <1>3 DEF TypeOK, QueuesInv, ReadCall, Call
  <2>3. CallsInv'
    BY <1>3 DEF TypeOK, CallsInv, ReadCall, Call
  <2> QED BY <2>1, <2>2, <2>3
<1>4. ASSUME NEW r \in Readers, ReadSample(r) PROVE Shape'
  <2>1. TypeOK'
    BY <1>4 DEF TypeOK, Labels, ReadSample
  <2>2. QueuesInv'
    BY <1>4 DEF TypeOK, QueuesInv, ReadSample
  <2>3. CallsInv'
    BY <1>4 DEF TypeOK, CallsInv, ReadSample
  <2> QED BY <2>1, <2>2, <2>3
<1>5. ASSUME NEW r \in Readers, ReadRing(r) PROVE Shape'
  <2>0. len' \in 0..Capacity
    <3>0. want[r] \in Lens \cup {0}
      BY DEF TypeOK
    <3>1. want[r] \in Nat
      BY <3>0, LensFact, Zenon
    <3>2. len \in 0..Capacity /\ Capacity \in Nat
      BY PipeAssumption DEF TypeOK
    <3>3. Smaller(want[r], len) \in 0..(len)
      BY <3>1, <3>2 DEF Smaller
    <3> QED BY <1>5, <3>2, <3>3 DEF ReadRing
  <2>1. TypeOK'
    BY <1>5, <2>0, Zenon DEF TypeOK, Labels, ReadRing, Return
  <2>2. QueuesInv'
    BY <1>5 DEF TypeOK, QueuesInv, ReadRing, Smaller, Return
  <2>3. CallsInv'
    BY <1>5 DEF TypeOK, CallsInv, ReadRing, Smaller, Return
  <2> QED BY <2>1, <2>2, <2>3
<1>6. ASSUME NEW r \in Readers, ReadBump(r) PROVE Shape'
  <2>1. TypeOK'
    BY <1>6 DEF TypeOK, Labels, ReadBump
  <2>2. QueuesInv'
    BY <1>6 DEF TypeOK, QueuesInv, ReadBump
  <2>3. CallsInv'
    BY <1>6 DEF TypeOK, CallsInv, ReadBump
  <2> QED BY <2>1, <2>2, <2>3
<1>7. ASSUME NEW r \in Readers, ReadCheck(r) PROVE Shape'
  <2>1. TypeOK'
    BY <1>7, Zenon DEF TypeOK, Labels, ReadCheck, Return
  <2>2. QueuesInv'
    BY <1>7 DEF TypeOK, QueuesInv, ReadCheck, Return
  <2>3. CallsInv'
    BY <1>7 DEF TypeOK, CallsInv, ReadCheck, Return
  <2> QED BY <2>1, <2>2, <2>3
<1>8. ASSUME NEW r \in Readers, ReadRelease(r) PROVE Shape'
  <2>1. TypeOK'
    BY <1>8 DEF TypeOK, Labels, ReadRelease
  <2>2. QueuesInv'
    BY <1>8 DEF TypeOK, QueuesInv, ReadRelease
  <2>3. CallsInv'
    BY <1>8 DEF TypeOK, CallsInv, ReadRelease
  <2> QED BY <2>1, <2>2, <2>3
<1>9. ASSUME NEW r \in Readers, ReadCloseBump(r) PROVE Shape'
  <2>1. TypeOK'
    BY <1>9 DEF TypeOK, Labels, ReadCloseBump
  <2>2. QueuesInv'
    BY <1>9 DEF TypeOK, QueuesInv, ReadCloseBump
  <2>3. CallsInv'
    BY <1>9 DEF TypeOK, CallsInv, ReadCloseBump
  <2> QED BY <2>1, <2>2, <2>3
<1>10. ASSUME NEW w \in Writers, WriteCall(w) PROVE Shape'
  <2>1. TypeOK'
    BY <1>10 DEF TypeOK, Labels, WriteCall, Call
  <2>2. QueuesInv'
    BY <1>10 DEF TypeOK, QueuesInv, WriteCall, Call
  <2>3. CallsInv'
    BY <1>10 DEF TypeOK, CallsInv, WriteCall, Call
  <2> QED BY <2>1, <2>2, <2>3
<1>11. ASSUME NEW w \in Writers, WriteEnter(w) PROVE Shape'
  <2>1. TypeOK'
    BY <1>11, Zenon DEF TypeOK, Labels, WriteEnter, Return
  <2>2. QueuesInv'
    BY <1>11 DEF TypeOK, QueuesInv, WriteEnter, Return
  <2>3. CallsInv'
    BY <1>11 DEF TypeOK, CallsInv, WriteEnter, Return
  <2> QED BY <2>1, <2>2, <2>3
<1>12. ASSUME NEW w \in Writers, WriteSample(w) PROVE Shape'
  <2>1. TypeOK'
    BY <1>12 DEF TypeOK, Labels, WriteSample
  <2>2. QueuesInv'
    BY <1>12 DEF TypeOK, QueuesInv, WriteSample
  <2>3. CallsInv'
    BY <1>12 DEF TypeOK, CallsInv, WriteSample
  <2> QED BY <2>1, <2>2, <2>3
<1>13. ASSUME NEW w \in Writers, WriteRing(w) PROVE Shape'
  <2>0. len' \in 0..Capacity
    <3>0. want[w] \in Lens \cup {0}
      BY DEF TypeOK
    <3>1. want[w] \in Nat
      BY <3>0, LensFact, Zenon
    <3>2. len \in 0..Capacity /\ Capacity \in Nat
      BY PipeAssumption DEF TypeOK
    <3>3. Smaller(want[w], Capacity - len) \in 0..(Capacity - len)
      BY <3>1, <3>2 DEF Smaller
    <3> QED BY <1>13, <3>2, <3>3 DEF WriteRing
  <2>1. TypeOK'
    BY <1>13, <2>0, Zenon DEF TypeOK, Labels, WriteRing, Return
  <2>2. QueuesInv'
    BY <1>13 DEF TypeOK, QueuesInv, WriteRing, Smaller, Return
  <2>3. CallsInv'
    BY <1>13 DEF TypeOK, CallsInv, WriteRing, Smaller, Return
  <2> QED BY <2>1, <2>2, <2>3
<1>14. ASSUME NEW w \in Writers, WriteBump(w) PROVE Shape'
  <2>1. TypeOK'
    BY <1>14 DEF TypeOK, Labels, WriteBump
  <2>2. QueuesInv'
    BY <1>14 DEF TypeOK, QueuesInv, WriteBump
  <2>3. CallsInv'
    BY <1>14 DEF TypeOK, CallsInv, WriteBump
  <2> QED BY <2>1, <2>2, <2>3
<1>15. ASSUME NEW w \in Writers, WriteCheck(w) PROVE Shape'
  <2>1. TypeOK'
    BY <1>15, Zenon DEF TypeOK, Labels, WriteCheck, Return
  <2>2. QueuesInv'
    BY <1>15 DEF TypeOK, QueuesInv, WriteCheck, Return
  <2>3. CallsInv'
    BY <1>15 DEF TypeOK, CallsInv, WriteCheck, Return
  <2> QED BY <2>1, <2>2, <2>3
<1>16. ASSUME NEW w \in Writers, WriteRelease(w) PROVE Shape'
  <2>1. TypeOK'
    BY <1>16 DEF TypeOK, Labels, WriteRelease
  <2>2. QueuesInv'
    BY <1>16 DEF TypeOK, QueuesInv, WriteRelease
  <2>3. CallsInv'
    BY <1>16 DEF TypeOK, CallsInv, WriteRelease
  <2> QED BY <2>1, <2>2, <2>3
<1>17. ASSUME NEW w \in Writers, WriteCloseBump(w) PROVE Shape'
  <2>1. TypeOK'
    BY <1>17 DEF TypeOK, Labels, WriteCloseBump
  <2>2. QueuesInv'
    BY <1>17 DEF TypeOK, QueuesInv, WriteCloseBump
  <2>3. CallsInv'
    BY <1>17 DEF TypeOK, CallsInv, WriteCloseBump
  <2> QED BY <2>1, <2>2, <2>3
<1>18. ASSUME NEW r \in Readers, ReadBlock(r) PROVE Shape'
  <2> DEFINE q == read_waiters
  <2>0. r \notin Waiting(q) /\ q \in Seq(Readers) /\ NoDup(q)
    BY <1>18 DEF TypeOK, QueuesInv, ReadBlock
  <2>1. /\ Enqueue(q, r) \in Seq(Readers) /\ NoDup(Enqueue(q, r))
        /\ Waiting(Enqueue(q, r)) = Waiting(q) \cup {r}
    BY <2>0, EnqueueFacts
  <2>2. TypeOK'
    BY <1>18, <2>1, Zenon DEF TypeOK, Labels, ReadBlock
  <2>3. QueuesInv'
    BY <1>18, <2>1 DEF TypeOK, QueuesInv, ReadBlock
  <2>4. CallsInv'
    BY <1>18 DEF TypeOK, CallsInv, ReadBlock
  <2> QED BY <2>2, <2>3, <2>4
<1>19. ASSUME NEW w \in Writers, WriteBlock(w) PROVE Shape'
  <2> DEFINE q == write_waiters
  <2>0. w \notin Waiting(q) /\ q \in Seq(Writers) /\ NoDup(q)
    BY <1>19 DEF TypeOK, QueuesInv, WriteBlock
  <2>1. /\ Enqueue(q, w) \in Seq(Writers) /\ NoDup(Enqueue(q, w))
        /\ Waiting(Enqueue(q, w)) = Waiting(q) \cup {w}
    BY <2>0, EnqueueFacts
  <2>2. TypeOK'
    BY <1>19, <2>1, Zenon DEF TypeOK, Labels, WriteBlock
  <2>3. QueuesInv'
    BY <1>19, <2>1 DEF TypeOK, QueuesInv, WriteBlock
  <2>4. CallsInv'
    BY <1>19 DEF TypeOK, CallsInv, WriteBlock
  <2> QED BY <2>2, <2>3, <2>4
<1>20. ASSUME NEW r \in Readers, ReadWake(r) PROVE Shape'
  <2> DEFINE q == write_waiters
             o == WakeOne(q)
  <2>0. q \in Seq(Writers) /\ NoDup(q) /\ Waiting(q) \subseteq Writers
    BY QueueFacts DEF TypeOK, QueuesInv
  <2>1. o.left \in Seq(Writers) /\ NoDup(o.left) /\ Waiting(o.left) = Waiting(q) \ o.woken
        /\ o.woken \subseteq Waiting(q)
    BY <2>0, WakeOneFacts, QueueFacts DEF WakeOne, Outcome
  <2>2. q' = o.left /\ Resume(r, "idle", o.woken)
    BY <1>20 DEF ReadWake
  <2>3. TypeOK'
    BY <1>20, <2>0, <2>1, <2>2 DEF TypeOK, Labels, ReadWake, Resume
  <2>4. QueuesInv'
    BY <1>20, <2>0, <2>1, <2>2 DEF TypeOK, QueuesInv, ReadWake, Resume
  <2>5. CallsInv'
    BY <1>20, <2>0, <2>1, <2>2 DEF TypeOK, QueuesInv, CallsInv, ReadWake, Resume
  <2> QED BY <2>3, <2>4, <2>5
<1>21. ASSUME NEW w \in Writers, WriteWake(w) PROVE Shape'
  <2> DEFINE q == read_waiters
             o == WakeOne(q)
  <2>0. q \in Seq(Readers) /\ NoDup(q) /\ Waiting(q) \subseteq Readers
    BY QueueFacts DEF TypeOK, QueuesInv
  <2>1. o.left \in Seq(Readers) /\ NoDup(o.left) /\ Waiting(o.left) = Waiting(q) \ o.woken
        /\ o.woken \subseteq Waiting(q)
    BY <2>0, WakeOneFacts, QueueFacts DEF WakeOne, Outcome
  <2>2. q' = o.left /\ Resume(w, "idle", o.woken)
    BY <1>21 DEF WriteWake
  <2>3. TypeOK'
    BY <1>21, <2>0, <2>1, <2>2 DEF TypeOK, Labels, WriteWake, Resume
  <2>4. QueuesInv'
    BY <1>21, <2>0, <2>1, <2>2 DEF TypeOK, QueuesInv, WriteWake, Resume
  <2>5. CallsInv'
    BY <1>21, <2>0, <2>1, <2>2 DEF TypeOK, QueuesInv, CallsInv, WriteWake, Resume
  <2> QED BY <2>3, <2>4, <2>5
<1>22. ASSUME NEW r \in Readers, ReadCloseWake(r) PROVE Shape'
  <2> DEFINE q == write_waiters
  <2>0. q \in Seq(Writers) /\ Waiting(q) \subseteq Writers /\ Waiting(<< >>) = {}
        /\ << >> \in Seq(Writers) /\ NoDup(<< >>)
    BY QueueFacts DEF TypeOK
  <2>1. q' = << >> /\ Resume(r, "closed", Waiting(q))
    BY <1>22 DEF ReadCloseWake, WakeAll, Outcome
  <2>2. TypeOK'
    BY <1>22, <2>0, <2>1 DEF TypeOK, Labels, ReadCloseWake, Resume
  <2>3. QueuesInv'
    BY <1>22, <2>0, <2>1 DEF TypeOK, QueuesInv, ReadCloseWake, Resume
  <2>4. CallsInv'
    BY <1>22, <2>0, <2>1 DEF TypeOK, QueuesInv, CallsInv, ReadCloseWake, Resume
  <2> QED BY <2>2, <2>3, <2>4
<1>23. ASSUME NEW w \in Writers, WriteCloseWake(w) PROVE Shape'
  <2> DEFINE q == read_waiters
  <2>0. q \in Seq(Readers) /\ Waiting(q) \subseteq Readers /\ Waiting(<< >>) = {}
        /\ << >> \in Seq(Readers) /\ NoDup(<< >>)
    BY QueueFacts DEF TypeOK
  <2>1. q' = << >> /\ Resume(w, "closed", Waiting(q))
    BY <1>23 DEF WriteCloseWake, WakeAll, Outcome
  <2>2. TypeOK'
    BY <1>23, <2>0, <2>1 DEF TypeOK, Labels, WriteCloseWake, Resume
  <2>3. QueuesInv'
    BY <1>23, <2>0, <2>1 DEF TypeOK, QueuesInv, WriteCloseWake, Resume
  <2>4. CallsInv'
    BY <1>23, <2>0, <2>1 DEF TypeOK, QueuesInv, CallsInv, WriteCloseWake, Resume
  <2> QED BY <2>2, <2>3, <2>4
<1> QED
  BY <1>1, <1>2, <1>3, <1>4, <1>5, <1>6, <1>7, <1>8, <1>9, <1>10, <1>11, <1>12, <1>13, <1>14, <1>15, <1>16, <1>17, <1>18, <1>19, <1>20, <1>21, <1>22, <1>23 DEF Next, ReaderStep, WriterStep

-----------------------------------------------------------------------------
(* What a wake does: it resumes threads of the queue only, and *)
(* at least one when the queue is not empty.                                *)
LEMMA WakeFacts ==
  ASSUME NEW S, NEW q \in Seq(S)
  PROVE  /\ \A o \in {WakeOne(q), WakeAll(q)} :
              /\ o.woken \subseteq Waiting(q)
              /\ Waiting(q) # {} => o.woken # {}
<1>1. q # << >> => Head(q) \in Waiting(q)
  BY DEF Waiting
<1>2. Waiting(q) # {} => q # << >>
  BY DEF Waiting
<1> QED BY <1>1, <1>2 DEF WakeOne, WakeAll, Outcome

(* A call, once begun, is counted: the count of a thread only grows, and it *)
(* is not zero while the thread is within a call.                            *)
LEMMA BegunStep ==
  ASSUME Shape, Begun, [Next]_vars
  PROVE  Begun' /\ \A t \in Threads : calls'[t] = 0 => calls[t] = 0
<1> DEFINE Goal == Begun' /\ \A t \in Threads : calls'[t] = 0 => calls[t] = 0
<1>a. pc \in [Threads -> Labels] /\ calls \in [Threads -> 0..MaxCalls] /\ MaxCalls \in Nat
      /\ Readers \subseteq Threads /\ Writers \subseteq Threads
  BY PipeAssumption DEF Shape, TypeOK, Threads
<1>b. \A t \in Waiting(read_waiters) \cup Waiting(write_waiters) : pc[t] \in Within
  BY DEF Shape, QueuesInv, Within
<1>c. ASSUME calls' = calls, \A t \in Threads : pc'[t] \in Within => pc[t] \in Within
      PROVE  Goal
  BY <1>c DEF Begun
<1>d. ASSUME NEW a \in Threads, NEW l, pc' = [pc EXCEPT ![a] = l], l \in Within => pc[a] \in Within, calls' = calls
      PROVE  Goal
  BY <1>a, <1>c, <1>d
<1>e. ASSUME NEW a \in Threads, NEW l, NEW W, Resume(a, l, W), l \notin Within, calls' = calls,
             \A t \in W : pc[t] \in Within
      PROVE  Goal
  BY <1>a, <1>c, <1>e DEF Resume
<1>f. ASSUME NEW a \in Threads, NEW l, Call(a, l)
      PROVE  Goal
  <2>1. pc' = [pc EXCEPT ![a] = l] /\ calls' = [calls EXCEPT ![a] = @ + 1]
    BY <1>f DEF Call, Goto
  <2>2. ASSUME NEW t \in Threads
        PROVE  calls'[t] = 0 => t # a /\ calls[t] = 0 /\ pc'[t] = pc[t]
    BY <1>a, <2>1
  <2> QED BY <2>2 DEF Begun
<1>g. ASSUME NEW S, NEW q \in Seq(S) PROVE WakeOne(q).woken \subseteq Waiting(q) /\ WakeAll(q).woken \subseteq Waiting(q)
  BY <1>g, WakeFacts
<1>h. read_waiters \in Seq(Readers) /\ write_waiters \in Seq(Writers)
  BY DEF Shape, TypeOK
<1> HIDE DEF Goal
<1>1. CASE UNCHANGED vars \/ Finished
  <2>1. calls' = calls /\ pc' = pc
    BY <1>1 DEF vars, Finished
  <2>2. \A t \in Threads : pc'[t] \in Within => pc[t] \in Within
    BY <2>1
  <2> QED BY <2>1, <2>2, <1>c, Zenon DEF Goal
<1>2. ASSUME NEW r \in Readers, ReadCall(r) PROVE Goal
  BY <1>a, <1>2, <1>f DEF ReadCall
<1>3. ASSUME NEW r \in Readers, ReadSample(r) PROVE Goal
  BY <1>a, <1>3, <1>d DEF Goto, Within, callVars, ReadSample
<1>4. ASSUME NEW r \in Readers, ReadRing(r) PROVE Goal
  BY <1>a, <1>4, <1>d DEF Goto, Within, callVars, Smaller, Return, ReadRing
<1>5. ASSUME NEW r \in Readers, ReadBump(r) PROVE Goal
  BY <1>a, <1>5, <1>d DEF Goto, Within, callVars, ReadBump
<1>6. ASSUME NEW r \in Readers, ReadWake(r) PROVE Goal
  <2>1. Resume(r, "idle", WakeOne(write_waiters).woken) /\ calls' = calls
    BY <1>6 DEF ReadWake, callVars
  <2>2. \A t \in WakeOne(write_waiters).woken : pc[t] \in Within
    BY <1>b, <1>g, <1>h
  <2>3. "idle" \notin Within /\ r \in Threads
    BY <1>a DEF Within
  <2> QED BY <2>1, <2>2, <2>3, <1>e
<1>7. ASSUME NEW r \in Readers, ReadCheck(r) PROVE Goal
  BY <1>a, <1>7, <1>d DEF Goto, Within, callVars, Return, ReadCheck
<1>8. ASSUME NEW r \in Readers, ReadBlock(r) PROVE Goal
  BY <1>a, <1>8, <1>d DEF Goto, Within, callVars, ReadBlock
<1>9. ASSUME NEW r \in Readers, ReadRelease(r) PROVE Goal
  BY <1>a, <1>9, <1>d DEF Goto, Within, callVars, ReadRelease
<1>10. ASSUME NEW r \in Readers, ReadCloseBump(r) PROVE Goal
  BY <1>a, <1>10, <1>d DEF Goto, Within, callVars, ReadCloseBump
<1>11. ASSUME NEW r \in Readers, ReadCloseWake(r) PROVE Goal
  <2>1. Resume(r, "closed", WakeAll(write_waiters).woken) /\ calls' = calls
    BY <1>11 DEF ReadCloseWake, callVars
  <2>2. \A t \in WakeAll(write_waiters).woken : pc[t] \in Within
    BY <1>b, <1>g, <1>h
  <2>3. "closed" \notin Within /\ r \in Threads
    BY <1>a DEF Within
  <2> QED BY <2>1, <2>2, <2>3, <1>e
<1>12. ASSUME NEW w \in Writers, WriteCall(w) PROVE Goal
  BY <1>a, <1>12, <1>f DEF WriteCall
<1>13. ASSUME NEW w \in Writers, WriteEnter(w) PROVE Goal
  BY <1>a, <1>13, <1>d DEF Goto, Within, callVars, Return, WriteEnter
<1>14. ASSUME NEW w \in Writers, WriteSample(w) PROVE Goal
  BY <1>a, <1>14, <1>d DEF Goto, Within, callVars, WriteSample
<1>15. ASSUME NEW w \in Writers, WriteRing(w) PROVE Goal
  BY <1>a, <1>15, <1>d DEF Goto, Within, callVars, Smaller, Return, WriteRing
<1>16. ASSUME NEW w \in Writers, WriteBump(w) PROVE Goal
  BY <1>a, <1>16, <1>d DEF Goto, Within, callVars, WriteBump
<1>17. ASSUME NEW w \in Writers, WriteWake(w) PROVE Goal
  <2>1. Resume(w, "idle", WakeOne(read_waiters).woken) /\ calls' = calls
    BY <1>17 DEF WriteWake, callVars
  <2>2. \A t \in WakeOne(read_waiters).woken : pc[t] \in Within
    BY <1>b, <1>g, <1>h
  <2>3. "idle" \notin Within /\ w \in Threads
    BY <1>a DEF Within
  <2> QED BY <2>1, <2>2, <2>3, <1>e
<1>18. ASSUME NEW w \in Writers, WriteCheck(w) PROVE Goal
  BY <1>a, <1>18, <1>d DEF Goto, Within, callVars, Return, WriteCheck
<1>19. ASSUME NEW w \in Writers, WriteBlock(w) PROVE Goal
  BY <1>a, <1>19, <1>d DEF Goto, Within, callVars, WriteBlock
<1>20. ASSUME NEW w \in Writers, WriteRelease(w) PROVE Goal
  BY <1>a, <1>20, <1>d DEF Goto, Within, callVars, WriteRelease
<1>21. ASSUME NEW w \in Writers, WriteCloseBump(w) PROVE Goal
  BY <1>a, <1>21, <1>d DEF Goto, Within, callVars, WriteCloseBump
<1>22. ASSUME NEW w \in Writers, WriteCloseWake(w) PROVE Goal
  <2>1. Resume(w, "closed", WakeAll(read_waiters).woken) /\ calls' = calls
    BY <1>22 DEF WriteCloseWake, callVars
  <2>2. \A t \in WakeAll(read_waiters).woken : pc[t] \in Within
    BY <1>b, <1>g, <1>h
  <2>3. "closed" \notin Within /\ w \in Threads
    BY <1>a DEF Within
  <2> QED BY <2>1, <2>2, <2>3, <1>e
<1> QED BY <1>1, <1>2, <1>3, <1>4, <1>5, <1>6, <1>7, <1>8, <1>9, <1>10, <1>11, <1>12, <1>13, <1>14, <1>15, <1>16, <1>17, <1>18, <1>19, <1>20, <1>21, <1>22 DEF Next, ReaderStep, WriterStep, Goal

-----------------------------------------------------------------------------
(* The read side of the protocol. *)

(* A thread that owes a wake still owes it after the step. *)
KeepsWriteDebts ==
  \A w \in Writers : pc[w] \in {"bump", "wake", "close_bump", "close_wake"} => pc'[w] = pc[w]

(* A step that pays no debt, changes neither counter nor ends, and does not *)
(* bring r to a later point of the blocking path keeps ReadInvAt(r).      *)
LEMMA ReadInvFrame ==
  ASSUME NEW r \in Readers, ReadInvAt(r), Lone(r, Readers)' => Lone(r, Readers), KeepsWriteDebts,
         write_open' = {} => write_open = {}, read_seq' = read_seq, (len > 0)' => (len > 0),
         pc'[r] \in {"check", "block", "blocked"} => pc'[r] = pc[r] /\ snap'[r] = snap[r]
  PROVE  ReadInvAt(r)'
BY DEF ReadInvAt, OwesWake, OwesCloseWake, KeepsWriteDebts

LEMMA ReadInvStep ==
  ASSUME NonemptyBuffers, Shape, Shape', Begun, ReadInv, [Next]_vars, NEW r \in Readers
  PROVE  ReadInvAt(r)'
<1> USE PipeAssumption DEF Shape, TypeOK, Threads, Goto, vars, ringVars, endVars, seqVars, waitVars, callVars
<1>0. ReadInvAt(r) BY DEF ReadInv
<1>l. Lone(r, Readers)' => Lone(r, Readers)
  BY BegunStep DEF Lone
<1>1. CASE UNCHANGED vars
  BY <1>1, <1>0, <1>l, ReadInvFrame DEF KeepsWriteDebts
<1>2. CASE Finished
  BY <1>2, <1>0, <1>l, ReadInvFrame DEF KeepsWriteDebts, Finished
<1>3. ASSUME NEW r0 \in Readers, ReadCall(r0) PROVE ReadInvAt(r)'
  BY <1>3, <1>0, <1>l, ReadInvFrame DEF KeepsWriteDebts, ReadCall, Call
<1>4. ASSUME NEW r0 \in Readers, ReadSample(r0) PROVE ReadInvAt(r)'
  BY <1>4, <1>0, <1>l, ReadInvFrame DEF KeepsWriteDebts, ReadSample
<1>5. ASSUME NEW r0 \in Readers, ReadRing(r0) PROVE ReadInvAt(r)'
  <2>1. CASE r0 = r /\ pc'[r] = "check"
    <3>1. want[r] \in Lens /\ want[r] \in Nat \ {0}
      BY <1>5, <2>1, LensFact, Zenon DEF CallsInv, NonemptyBuffers, ReadRing
    <3>2. ~((len > 0)')
      BY <1>5, <2>1, <3>1 DEF ReadRing, Smaller, Return
    <3> QED BY <2>1, <3>2 DEF ReadInvAt
  <2>2. CASE r0 # r \/ pc'[r] # "check"
    <3>1. want[r0] \in Lens \cup {0}
      OBVIOUS
    <3>2. want[r0] \in Nat
      BY <3>1, LensFact, Zenon
    <3>3. (len > 0)' => (len > 0)
      BY <1>5, <3>2 DEF ReadRing, Smaller, Return
    <3> QED BY <1>5, <2>2, <3>3, <1>0, <1>l, ReadInvFrame, Zenon DEF KeepsWriteDebts, ReadRing, Smaller, Return
  <2> QED BY <1>5, <2>1, <2>2
<1>6. ASSUME NEW r0 \in Readers, ReadBump(r0) PROVE ReadInvAt(r)'
  BY <1>6, <1>0, <1>l, ReadInvFrame DEF KeepsWriteDebts, ReadBump
<1>7. ASSUME NEW r0 \in Readers, ReadWake(r0) PROVE ReadInvAt(r)'
  <2>1. PICK o : o.woken \subseteq Waiting(write_waiters) /\ Resume(r0, "idle", o.woken)
    BY <1>7, WakeFacts DEF ReadWake
  <2>2. \A t \in o.woken : t \in Writers /\ pc[t] = "blocked"
    BY <2>1, Zenon DEF QueuesInv
  <2>3. KeepsWriteDebts
    BY <1>7, <2>1, <2>2 DEF KeepsWriteDebts, ReadWake, Resume
  <2>4. pc'[r] \in {"check", "block", "blocked"} => pc'[r] = pc[r]
    BY <2>1, <2>2 DEF Resume
  <2>5. UNCHANGED <<len, write_open, read_seq, snap>>
    BY <1>7 DEF ReadWake
  <2> QED BY <2>3, <2>4, <2>5, <1>0, <1>l, ReadInvFrame
<1>8. ASSUME NEW r0 \in Readers, ReadCheck(r0) PROVE ReadInvAt(r)'
  <2>1. CASE r0 = r /\ pc'[r] = "block"
    <3>1. write_open' # {} /\ pc[r] = "check" /\ \A w \in Writers : pc'[w] = pc[w]
      BY <1>8, <2>1 DEF ReadCheck, Return
    <3> QED BY <1>8, <2>1, <3>1, <1>0, <1>l DEF ReadInvAt, ReadCheck
  <2>2. CASE r0 # r \/ pc'[r] # "block"
    BY <1>8, <2>2, <1>0, <1>l, ReadInvFrame, Zenon DEF KeepsWriteDebts, ReadCheck, Return
  <2> QED BY <1>8, <2>1, <2>2
<1>9. ASSUME NEW r0 \in Readers, ReadBlock(r0) PROVE ReadInvAt(r)'
  <2>1. CASE r0 = r /\ pc'[r] = "blocked"
    <3>1. pc[r] = "block" /\ snap[r] = read_seq /\ \A w \in Writers : pc'[w] = pc[w]
      BY <1>9, <2>1 DEF ReadBlock
    <3>2. write_open' = write_open /\ len' = len
      BY <1>9 DEF ReadBlock
    <3> QED BY <2>1, <3>1, <3>2, <1>0, <1>l, Zenon DEF ReadInvAt, OwesWake, OwesCloseWake
  <2>2. CASE r0 # r \/ pc'[r] # "blocked"
    BY <1>9, <2>2, <1>0, <1>l, ReadInvFrame, Zenon DEF KeepsWriteDebts, ReadBlock
  <2> QED BY <1>9, <2>1, <2>2
<1>10. ASSUME NEW r0 \in Readers, ReadRelease(r0) PROVE ReadInvAt(r)'
  BY <1>10, <1>0, <1>l, ReadInvFrame DEF KeepsWriteDebts, ReadRelease
<1>11. ASSUME NEW r0 \in Readers, ReadCloseBump(r0) PROVE ReadInvAt(r)'
  BY <1>11, <1>0, <1>l, ReadInvFrame DEF KeepsWriteDebts, ReadCloseBump
<1>12. ASSUME NEW r0 \in Readers, ReadCloseWake(r0) PROVE ReadInvAt(r)'
  <2>1. PICK o : o.woken \subseteq Waiting(write_waiters) /\ Resume(r0, "closed", o.woken)
    BY <1>12, WakeFacts DEF ReadCloseWake
  <2>2. \A t \in o.woken : t \in Writers /\ pc[t] = "blocked"
    BY <2>1, Zenon DEF QueuesInv
  <2>3. KeepsWriteDebts
    BY <1>12, <2>1, <2>2 DEF KeepsWriteDebts, ReadCloseWake, Resume
  <2>4. pc'[r] \in {"check", "block", "blocked"} => pc'[r] = pc[r]
    BY <2>1, <2>2 DEF Resume
  <2>5. UNCHANGED <<len, write_open, read_seq, snap>>
    BY <1>12 DEF ReadCloseWake
  <2> QED BY <2>3, <2>4, <2>5, <1>0, <1>l, ReadInvFrame
<1>13. ASSUME NEW w \in Writers, WriteCall(w) PROVE ReadInvAt(r)'
  BY <1>13, <1>0, <1>l, ReadInvFrame, Zenon DEF KeepsWriteDebts, WriteCall, Call
<1>14. ASSUME NEW w \in Writers, WriteEnter(w) PROVE ReadInvAt(r)'
  BY <1>14, <1>0, <1>l, ReadInvFrame, Zenon DEF KeepsWriteDebts, WriteEnter, Return
<1>15. ASSUME NEW w \in Writers, WriteSample(w) PROVE ReadInvAt(r)'
  BY <1>15, <1>0, <1>l, ReadInvFrame, Zenon DEF KeepsWriteDebts, WriteSample
<1>16. ASSUME NEW w \in Writers, WriteRing(w) PROVE ReadInvAt(r)'
  <2>1. CASE (len > 0)' /\ ~((len > 0))
    <3>1. pc'[w] = "bump" /\ pc'[r] = pc[r]
      BY <1>16, <2>1 DEF WriteRing, Smaller, Return
    <3>2. KeepsWriteDebts /\ write_open' = write_open /\ read_seq' = read_seq /\ snap' = snap
      BY <1>16 DEF KeepsWriteDebts, WriteRing, Smaller, Return
    <3> QED BY <3>1, <3>2, <1>0, <1>l, Zenon DEF ReadInvAt, OwesWake, OwesCloseWake, KeepsWriteDebts
  <2>2. CASE (len > 0)' => (len > 0)
    BY <1>16, <2>2, <1>0, <1>l, ReadInvFrame, ZenonT(40) DEF KeepsWriteDebts, WriteRing, Smaller, Return
  <2> QED BY <2>1, <2>2
<1>17. ASSUME NEW w \in Writers, WriteBump(w) PROVE ReadInvAt(r)'
  <2>1. snap'[r] # read_seq'
    BY <1>17 DEF CallsInv, WriteBump
  <2>2. pc'[r] = pc[r] /\ pc'[w] = "wake" /\ write_open' = write_open /\ len' = len
    BY <1>17 DEF WriteBump
  <2>3. \A t \in Writers : t # w => pc'[t] = pc[t]
    BY <1>17 DEF WriteBump
  <2> QED BY <1>17, <2>1, <2>2, <2>3, <1>0, <1>l, Zenon DEF ReadInvAt, OwesWake, OwesCloseWake, WriteBump
<1>18. ASSUME NEW w \in Writers, WriteWake(w) PROVE ReadInvAt(r)'
  <2> DEFINE q == read_waiters
  <2>1. PICK o : /\ o.woken \subseteq Waiting(q) /\ Resume(w, "idle", o.woken)
                 /\ Waiting(q) # {} => o.woken # {}
    BY <1>18, WakeFacts, Zenon DEF WriteWake
  <2>2. \A t \in o.woken : t \in Readers /\ pc[t] = "blocked"
    BY <2>1, Zenon DEF QueuesInv
  <2>3. write_open' = write_open /\ len' = len /\ read_seq' = read_seq /\ snap' = snap
    BY <1>18 DEF WriteWake
  <2>4. \A t \in Writers : t # w => pc'[t] = pc[t]
    BY <2>1, <2>2, Zenon DEF Resume
  <2>5. pc'[r] = IF r \in o.woken THEN "sample" ELSE pc[r]
    BY <2>1 DEF Resume
  <2>6. (Lone(r, Readers) /\ pc[r] = "blocked") => r \in o.woken
    <3> SUFFICES ASSUME Lone(r, Readers), pc[r] = "blocked" PROVE r \in o.woken
      OBVIOUS
    <3>1. r \in Waiting(q)
      BY DEF QueuesInv
    <3>2. PICK t : t \in o.woken
      BY <2>1, <3>1
    <3>3. calls[t] # 0
      BY <2>2, <3>2 DEF Begun, Within
    <3>4. t = r
      BY <2>2, <3>2, <3>3 DEF Lone
    <3> QED BY <3>2, <3>4
  <2> QED BY <1>18, <2>3, <2>4, <2>5, <2>6, <1>0, <1>l, Zenon DEF ReadInvAt, OwesWake, OwesCloseWake, WriteWake
<1>19. ASSUME NEW w \in Writers, WriteCheck(w) PROVE ReadInvAt(r)'
  BY <1>19, <1>0, <1>l, ReadInvFrame, ZenonT(40) DEF KeepsWriteDebts, WriteCheck, Return
<1>20. ASSUME NEW w \in Writers, WriteBlock(w) PROVE ReadInvAt(r)'
  BY <1>20, <1>0, <1>l, ReadInvFrame, Zenon DEF KeepsWriteDebts, WriteBlock
<1>21. ASSUME NEW w \in Writers, WriteRelease(w) PROVE ReadInvAt(r)'
  <2>1. CASE write_open' = {}
    <3>1. pc'[w] = "close_bump" /\ pc'[r] = pc[r]
      BY <1>21, <2>1 DEF WriteRelease
    <3>2. KeepsWriteDebts /\ len' = len /\ read_seq' = read_seq /\ snap' = snap
      BY <1>21 DEF KeepsWriteDebts, WriteRelease
    <3> QED BY <3>1, <3>2, <1>0, <1>l, Zenon DEF ReadInvAt, OwesWake, OwesCloseWake, KeepsWriteDebts
  <2>2. CASE write_open' # {}
    BY <1>21, <2>2, <1>0, <1>l, ReadInvFrame, Zenon DEF KeepsWriteDebts, WriteRelease
  <2> QED BY <2>1, <2>2
<1>22. ASSUME NEW w \in Writers, WriteCloseBump(w) PROVE ReadInvAt(r)'
  <2>1. snap'[r] # read_seq'
    BY <1>22 DEF CallsInv, WriteCloseBump
  <2>2. pc'[r] = pc[r] /\ pc'[w] = "close_wake" /\ write_open' = write_open /\ len' = len
    BY <1>22 DEF WriteCloseBump
  <2>3. \A t \in Writers : t # w => pc'[t] = pc[t]
    BY <1>22 DEF WriteCloseBump
  <2> QED BY <1>22, <2>1, <2>2, <2>3, <1>0, <1>l, Zenon DEF ReadInvAt, OwesWake, OwesCloseWake, WriteCloseBump
<1>23. ASSUME NEW w \in Writers, WriteCloseWake(w) PROVE ReadInvAt(r)'
  <2> DEFINE q == read_waiters
  <2>1. Resume(w, "closed", Waiting(q))
    BY <1>23 DEF WriteCloseWake, WakeAll, Outcome
  <2>2. Waiting(q) = {t \in Readers : pc[t] = "blocked"}
    BY DEF QueuesInv
  <2>3. write_open' = write_open /\ len' = len /\ read_seq' = read_seq /\ snap' = snap
    BY <1>23 DEF WriteCloseWake
  <2>4. \A t \in Writers : t # w => pc'[t] = pc[t]
    BY <2>1, <2>2 DEF Resume
  <2>5. pc'[r] = IF pc[r] = "blocked" THEN "sample" ELSE pc[r]
    BY <2>1, <2>2 DEF Resume
  <2> QED BY <1>23, <2>3, <2>4, <2>5, <1>0, <1>l DEF ReadInvAt, OwesWake, OwesCloseWake, WriteCloseWake
<1> QED
  BY <1>1, <1>2, <1>3, <1>4, <1>5, <1>6, <1>7, <1>8, <1>9, <1>10, <1>11, <1>12, <1>13, <1>14, <1>15, <1>16, <1>17, <1>18, <1>19, <1>20, <1>21, <1>22, <1>23, Zenon DEF Next, ReaderStep, WriterStep

-----------------------------------------------------------------------------
(* The write side of the protocol. *)

(* A thread that owes a wake still owes it after the step. *)
KeepsReadDebts ==
  \A r \in Readers : pc[r] \in {"bump", "wake", "close_bump", "close_wake"} => pc'[r] = pc[r]

(* A step that pays no debt, changes neither counter nor ends, and does not *)
(* bring w to a later point of the blocking path keeps WriteInvAt(w).      *)
LEMMA WriteInvFrame ==
  ASSUME NEW w \in Writers, WriteInvAt(w), Lone(w, Writers)' => Lone(w, Writers), KeepsReadDebts,
         read_open' = {} => read_open = {}, write_seq' = write_seq, (len < Capacity)' => (len < Capacity),
         pc'[w] \in {"check", "block", "blocked"} => pc'[w] = pc[w] /\ snap'[w] = snap[w]
  PROVE  WriteInvAt(w)'
BY DEF WriteInvAt, OwesWake, OwesCloseWake, KeepsReadDebts

LEMMA WriteInvStep ==
  ASSUME NonemptyBuffers, Shape, Shape', Begun, WriteInv, [Next]_vars, NEW w \in Writers
  PROVE  WriteInvAt(w)'
<1> USE PipeAssumption DEF Shape, TypeOK, Threads, Goto, vars, ringVars, endVars, seqVars, waitVars, callVars
<1>0. WriteInvAt(w) BY DEF WriteInv
<1>l. Lone(w, Writers)' => Lone(w, Writers)
  BY BegunStep DEF Lone
<1>1. CASE UNCHANGED vars
  BY <1>1, <1>0, <1>l, WriteInvFrame DEF KeepsReadDebts
<1>2. CASE Finished
  BY <1>2, <1>0, <1>l, WriteInvFrame DEF KeepsReadDebts, Finished
<1>3. ASSUME NEW w0 \in Writers, WriteCall(w0) PROVE WriteInvAt(w)'
  BY <1>3, <1>0, <1>l, WriteInvFrame DEF KeepsReadDebts, WriteCall, Call
<1>4. ASSUME NEW w0 \in Writers, WriteEnter(w0) PROVE WriteInvAt(w)'
  BY <1>4, <1>0, <1>l, WriteInvFrame, Zenon DEF KeepsReadDebts, WriteEnter, Return
<1>5. ASSUME NEW w0 \in Writers, WriteSample(w0) PROVE WriteInvAt(w)'
  BY <1>5, <1>0, <1>l, WriteInvFrame DEF KeepsReadDebts, WriteSample
<1>6. ASSUME NEW w0 \in Writers, WriteRing(w0) PROVE WriteInvAt(w)'
  <2>1. CASE w0 = w /\ pc'[w] = "check"
    <3>1. want[w] \in Lens /\ want[w] \in Nat \ {0}
      BY <1>6, <2>1, LensFact, Zenon DEF CallsInv, NonemptyBuffers, WriteRing
    <3>2. ~((len < Capacity)')
      BY <1>6, <2>1, <3>1 DEF WriteRing, Smaller, Return
    <3> QED BY <2>1, <3>2 DEF WriteInvAt
  <2>2. CASE w0 # w \/ pc'[w] # "check"
    <3>1. want[w0] \in Lens \cup {0}
      OBVIOUS
    <3>2. want[w0] \in Nat
      BY <3>1, LensFact, Zenon
    <3>3. (len < Capacity)' => (len < Capacity)
      BY <1>6, <3>2 DEF WriteRing, Smaller, Return
    <3> QED BY <1>6, <2>2, <3>3, <1>0, <1>l, WriteInvFrame, Zenon DEF KeepsReadDebts, WriteRing, Smaller, Return
  <2> QED BY <1>6, <2>1, <2>2
<1>7. ASSUME NEW w0 \in Writers, WriteBump(w0) PROVE WriteInvAt(w)'
  BY <1>7, <1>0, <1>l, WriteInvFrame DEF KeepsReadDebts, WriteBump
<1>8. ASSUME NEW w0 \in Writers, WriteWake(w0) PROVE WriteInvAt(w)'
  <2>1. PICK o : o.woken \subseteq Waiting(read_waiters) /\ Resume(w0, "idle", o.woken)
    BY <1>8, WakeFacts DEF WriteWake
  <2>2. \A t \in o.woken : t \in Readers /\ pc[t] = "blocked"
    BY <2>1, Zenon DEF QueuesInv
  <2>3. KeepsReadDebts
    BY <1>8, <2>1, <2>2 DEF KeepsReadDebts, WriteWake, Resume
  <2>4. pc'[w] \in {"check", "block", "blocked"} => pc'[w] = pc[w]
    BY <2>1, <2>2 DEF Resume
  <2>5. UNCHANGED <<len, read_open, write_seq, snap>>
    BY <1>8 DEF WriteWake
  <2> QED BY <2>3, <2>4, <2>5, <1>0, <1>l, WriteInvFrame
<1>9. ASSUME NEW w0 \in Writers, WriteCheck(w0) PROVE WriteInvAt(w)'
  <2>1. CASE w0 = w /\ pc'[w] = "block"
    <3>1. read_open' # {} /\ pc[w] = "check" /\ \A r \in Readers : pc'[r] = pc[r]
      BY <1>9, <2>1 DEF WriteCheck, Return
    <3> QED BY <1>9, <2>1, <3>1, <1>0, <1>l DEF WriteInvAt, WriteCheck
  <2>2. CASE w0 # w \/ pc'[w] # "block"
    BY <1>9, <2>2, <1>0, <1>l, WriteInvFrame, Zenon DEF KeepsReadDebts, WriteCheck, Return
  <2> QED BY <1>9, <2>1, <2>2
<1>10. ASSUME NEW w0 \in Writers, WriteBlock(w0) PROVE WriteInvAt(w)'
  <2>1. CASE w0 = w /\ pc'[w] = "blocked"
    <3>1. pc[w] = "block" /\ snap[w] = write_seq /\ \A r \in Readers : pc'[r] = pc[r]
      BY <1>10, <2>1 DEF WriteBlock
    <3>2. read_open' = read_open /\ len' = len
      BY <1>10 DEF WriteBlock
    <3> QED BY <2>1, <3>1, <3>2, <1>0, <1>l, Zenon DEF WriteInvAt, OwesWake, OwesCloseWake
  <2>2. CASE w0 # w \/ pc'[w] # "blocked"
    BY <1>10, <2>2, <1>0, <1>l, WriteInvFrame, Zenon DEF KeepsReadDebts, WriteBlock
  <2> QED BY <1>10, <2>1, <2>2
<1>11. ASSUME NEW w0 \in Writers, WriteRelease(w0) PROVE WriteInvAt(w)'
  BY <1>11, <1>0, <1>l, WriteInvFrame DEF KeepsReadDebts, WriteRelease
<1>12. ASSUME NEW w0 \in Writers, WriteCloseBump(w0) PROVE WriteInvAt(w)'
  BY <1>12, <1>0, <1>l, WriteInvFrame DEF KeepsReadDebts, WriteCloseBump
<1>13. ASSUME NEW w0 \in Writers, WriteCloseWake(w0) PROVE WriteInvAt(w)'
  <2>1. PICK o : o.woken \subseteq Waiting(read_waiters) /\ Resume(w0, "closed", o.woken)
    BY <1>13, WakeFacts DEF WriteCloseWake
  <2>2. \A t \in o.woken : t \in Readers /\ pc[t] = "blocked"
    BY <2>1, Zenon DEF QueuesInv
  <2>3. KeepsReadDebts
    BY <1>13, <2>1, <2>2 DEF KeepsReadDebts, WriteCloseWake, Resume
  <2>4. pc'[w] \in {"check", "block", "blocked"} => pc'[w] = pc[w]
    BY <2>1, <2>2 DEF Resume
  <2>5. UNCHANGED <<len, read_open, write_seq, snap>>
    BY <1>13 DEF WriteCloseWake
  <2> QED BY <2>3, <2>4, <2>5, <1>0, <1>l, WriteInvFrame
<1>14. ASSUME NEW r \in Readers, ReadCall(r) PROVE WriteInvAt(w)'
  BY <1>14, <1>0, <1>l, WriteInvFrame, Zenon DEF KeepsReadDebts, ReadCall, Call
<1>15. ASSUME NEW r \in Readers, ReadSample(r) PROVE WriteInvAt(w)'
  BY <1>15, <1>0, <1>l, WriteInvFrame DEF KeepsReadDebts, ReadSample
<1>16. ASSUME NEW r \in Readers, ReadRing(r) PROVE WriteInvAt(w)'
  <2>1. CASE (len < Capacity)' /\ ~((len < Capacity))
    <3>1. pc'[r] = "bump" /\ pc'[w] = pc[w]
      BY <1>16, <2>1 DEF ReadRing, Smaller, Return
    <3>2. KeepsReadDebts /\ read_open' = read_open /\ write_seq' = write_seq /\ snap' = snap
      BY <1>16 DEF KeepsReadDebts, ReadRing, Smaller, Return
    <3> QED BY <3>1, <3>2, <1>0, <1>l, Zenon DEF WriteInvAt, OwesWake, OwesCloseWake, KeepsReadDebts
  <2>2. CASE (len < Capacity)' => (len < Capacity)
    BY <1>16, <2>2, <1>0, <1>l, WriteInvFrame, ZenonT(40) DEF KeepsReadDebts, ReadRing, Smaller, Return
  <2> QED BY <2>1, <2>2
<1>17. ASSUME NEW r \in Readers, ReadBump(r) PROVE WriteInvAt(w)'
  <2>1. snap'[w] # write_seq'
    BY <1>17 DEF CallsInv, ReadBump
  <2>2. pc'[w] = pc[w] /\ pc'[r] = "wake" /\ read_open' = read_open /\ len' = len
    BY <1>17 DEF ReadBump
  <2>3. \A t \in Readers : t # r => pc'[t] = pc[t]
    BY <1>17 DEF ReadBump
  <2> QED BY <1>17, <2>1, <2>2, <2>3, <1>0, <1>l, Zenon DEF WriteInvAt, OwesWake, OwesCloseWake, ReadBump
<1>18. ASSUME NEW r \in Readers, ReadWake(r) PROVE WriteInvAt(w)'
  <2> DEFINE q == write_waiters
  <2>1. PICK o : /\ o.woken \subseteq Waiting(q) /\ Resume(r, "idle", o.woken)
                 /\ Waiting(q) # {} => o.woken # {}
    BY <1>18, WakeFacts, Zenon DEF ReadWake
  <2>2. \A t \in o.woken : t \in Writers /\ pc[t] = "blocked"
    BY <2>1, Zenon DEF QueuesInv
  <2>3. read_open' = read_open /\ len' = len /\ write_seq' = write_seq /\ snap' = snap
    BY <1>18 DEF ReadWake
  <2>4. \A t \in Readers : t # r => pc'[t] = pc[t]
    BY <2>1, <2>2, Zenon DEF Resume
  <2>5. pc'[w] = IF w \in o.woken THEN "sample" ELSE pc[w]
    BY <2>1 DEF Resume
  <2>6. (Lone(w, Writers) /\ pc[w] = "blocked") => w \in o.woken
    <3> SUFFICES ASSUME Lone(w, Writers), pc[w] = "blocked" PROVE w \in o.woken
      OBVIOUS
    <3>1. w \in Waiting(q)
      BY DEF QueuesInv
    <3>2. PICK t : t \in o.woken
      BY <2>1, <3>1
    <3>3. calls[t] # 0
      BY <2>2, <3>2 DEF Begun, Within
    <3>4. t = w
      BY <2>2, <3>2, <3>3 DEF Lone
    <3> QED BY <3>2, <3>4
  <2> QED BY <1>18, <2>3, <2>4, <2>5, <2>6, <1>0, <1>l, Zenon DEF WriteInvAt, OwesWake, OwesCloseWake, ReadWake
<1>19. ASSUME NEW r \in Readers, ReadCheck(r) PROVE WriteInvAt(w)'
  BY <1>19, <1>0, <1>l, WriteInvFrame, ZenonT(40) DEF KeepsReadDebts, ReadCheck, Return
<1>20. ASSUME NEW r \in Readers, ReadBlock(r) PROVE WriteInvAt(w)'
  BY <1>20, <1>0, <1>l, WriteInvFrame, Zenon DEF KeepsReadDebts, ReadBlock
<1>21. ASSUME NEW r \in Readers, ReadRelease(r) PROVE WriteInvAt(w)'
  <2>1. CASE read_open' = {}
    <3>1. pc'[r] = "close_bump" /\ pc'[w] = pc[w]
      BY <1>21, <2>1 DEF ReadRelease
    <3>2. KeepsReadDebts /\ len' = len /\ write_seq' = write_seq /\ snap' = snap
      BY <1>21 DEF KeepsReadDebts, ReadRelease
    <3> QED BY <3>1, <3>2, <1>0, <1>l, Zenon DEF WriteInvAt, OwesWake, OwesCloseWake, KeepsReadDebts
  <2>2. CASE read_open' # {}
    BY <1>21, <2>2, <1>0, <1>l, WriteInvFrame, Zenon DEF KeepsReadDebts, ReadRelease
  <2> QED BY <2>1, <2>2
<1>22. ASSUME NEW r \in Readers, ReadCloseBump(r) PROVE WriteInvAt(w)'
  <2>1. snap'[w] # write_seq'
    BY <1>22 DEF CallsInv, ReadCloseBump
  <2>2. pc'[w] = pc[w] /\ pc'[r] = "close_wake" /\ read_open' = read_open /\ len' = len
    BY <1>22 DEF ReadCloseBump
  <2>3. \A t \in Readers : t # r => pc'[t] = pc[t]
    BY <1>22 DEF ReadCloseBump
  <2> QED BY <1>22, <2>1, <2>2, <2>3, <1>0, <1>l, Zenon DEF WriteInvAt, OwesWake, OwesCloseWake, ReadCloseBump
<1>23. ASSUME NEW r \in Readers, ReadCloseWake(r) PROVE WriteInvAt(w)'
  <2> DEFINE q == write_waiters
  <2>1. Resume(r, "closed", Waiting(q))
    BY <1>23 DEF ReadCloseWake, WakeAll, Outcome
  <2>2. Waiting(q) = {t \in Writers : pc[t] = "blocked"}
    BY DEF QueuesInv
  <2>3. read_open' = read_open /\ len' = len /\ write_seq' = write_seq /\ snap' = snap
    BY <1>23 DEF ReadCloseWake
  <2>4. \A t \in Readers : t # r => pc'[t] = pc[t]
    BY <2>1, <2>2 DEF Resume
  <2>5. pc'[w] = IF pc[w] = "blocked" THEN "sample" ELSE pc[w]
    BY <2>1, <2>2 DEF Resume
  <2> QED BY <1>23, <2>3, <2>4, <2>5, <1>0, <1>l DEF WriteInvAt, OwesWake, OwesCloseWake, ReadCloseWake
<1> QED
  BY <1>1, <1>2, <1>3, <1>4, <1>5, <1>6, <1>7, <1>8, <1>9, <1>10, <1>11, <1>12, <1>13, <1>14, <1>15, <1>16, <1>17, <1>18, <1>19, <1>20, <1>21, <1>22, <1>23, Zenon DEF Next, ReaderStep, WriterStep

-----------------------------------------------------------------------------
(* IInv is inductive. *)
LEMMA IInvInit == Init => IInv
<1> SUFFICES ASSUME Init PROVE IInv
  OBVIOUS
<1> USE PipeAssumption DEF Init, Threads
<1>1. TypeOK
  BY DEF TypeOK, Labels
<1>2. QueuesInv
  <2>1. Waiting(<< >>) = {} /\ NoDup(<< >>)
    BY DEF Waiting, NoDup
  <2>2. {r \in Readers : pc[r] = "blocked"} = {} /\ {w \in Writers : pc[w] = "blocked"} = {}
    OBVIOUS
  <2> QED BY <2>1, <2>2 DEF QueuesInv
<1>3. CallsInv
  BY DEF CallsInv
<1>4. ReadInv /\ WriteInv
  BY DEF ReadInv, WriteInv, ReadInvAt, WriteInvAt
<1>5. Begun
  BY DEF Begun, Within
<1> QED BY <1>1, <1>2, <1>3, <1>4, <1>5 DEF IInv, Shape

LEMMA IInvStep == ASSUME NonemptyBuffers PROVE IInv /\ [Next]_vars => IInv'
<1> SUFFICES ASSUME IInv, [Next]_vars PROVE IInv'
  OBVIOUS
<1>1. Shape'
  BY ShapeStep DEF IInv
<1>2. ReadInv'
  BY <1>1, ReadInvStep DEF IInv, ReadInv
<1>3. WriteInv'
  BY <1>1, WriteInvStep DEF IInv, WriteInv
<1>4. Begun'
  BY BegunStep DEF IInv
<1> QED BY <1>1, <1>2, <1>3, <1>4 DEF IInv

(* The pipe keeps its type: the ring never overflows or underflows           *)
(* (read_into, write_from), and only readers wait in read_waiters and only   *)
(* writers in write_waiters.                                                 *)
THEOREM PipeTypeCorrect == ASSUME NonemptyBuffers PROVE Spec => []TypeOK
<1>1. IInv => TypeOK
  BY DEF IInv, Shape
<1> QED BY IInvInit, IInvStep, <1>1, PTL DEF Spec

(* pipe_read loses no wake-up, however many threads share the pipe: a reader *)
(* asleep after the last close has its waker on the way, and so has one that *)
(* does all the reading and sleeps on a non-empty ring.                      *)
THEOREM PipeReadersWoken == ASSUME NonemptyBuffers PROVE Spec => []NoLostReadWake
<1>1. IInv => NoLostReadWake
  BY DEF IInv, ReadInv, ReadInvAt, NoLostReadWake
<1> QED BY IInvInit, IInvStep, <1>1, PTL DEF Spec

(* pipe_write loses no wake-up, however many threads share the pipe. *)
THEOREM PipeWritersWoken == ASSUME NonemptyBuffers PROVE Spec => []NoLostWriteWake
<1>1. IInv => NoLostWriteWake
  BY DEF IInv, WriteInv, WriteInvAt, NoLostWriteWake
<1> QED BY IInvInit, IInvStep, <1>1, PTL DEF Spec
=============================================================================
