-------------------------------- MODULE Pipe --------------------------------
(***************************************************************************)
(* Anonymous pipes, crates/fs/src/pipe.rs: pipe_read, pipe_write and the   *)
(* two release hooks as they interleave on one pipe.                       *)
(*                                                                         *)
(* The ring is represented by its fill level: no branch of these functions *)
(* looks at a byte or at a cursor.  Each step between two accesses to      *)
(* shared state is one action: the sample of the sequence counter, the     *)
(* ring-lock section, the counter bump, the wake, the load of the peer's   *)
(* refcount, the wait-queue lock section of thread_block_if.  The calls    *)
(* interleave at these points as they would on several CPUs.  On one CPU   *)
(* fewer interleavings remain, since a call runs with interrupts off until *)
(* its first thread_block_if returns; module PipeUni has only those.       *)
(*                                                                         *)
(* Every reader and every writer thread owns one descriptor of its end.    *)
(***************************************************************************)
EXTENDS Naturals, WaitQueue

CONSTANTS
  Readers,        \* threads that own a read-end descriptor
  Writers,        \* threads that own a write-end descriptor
  Capacity,       \* PIPE_BUF_SIZE
  Lens,           \* buffer lengths a caller passes
  MaxCalls        \* bound: read or write calls a thread makes

ASSUME PipeAssumption ==
  /\ Readers \cap Writers = {}
  /\ Capacity \in Nat \ {0}
  /\ Lens \subseteq Nat
  /\ MaxCalls \in Nat

Threads == Readers \cup Writers

VARIABLES
  len,            \* PipeRing.len
  read_open,      \* read_vn.refcount as a set: threads whose end is still referenced
  write_open,     \* write_vn.refcount, likewise
  read_seq,       \* Pipe.read_seq
  write_seq,      \* Pipe.write_seq
  read_waiters,   \* Pipe.read_waiters
  write_waiters,  \* Pipe.write_waiters
  pc,             \* where each thread is
  snap,           \* its read_snap or write_snap
  want,           \* its buf.len()
  ret,            \* what its last call returned
  calls           \* how many calls it has made

ringVars == <<len>>
endVars  == <<read_open, write_open>>
seqVars  == <<read_seq, write_seq>>
waitVars == <<read_waiters, write_waiters>>
callVars == <<snap, want, ret, calls>>
vars == <<len, read_open, write_open, read_seq, write_seq, read_waiters,
          write_waiters, pc, snap, want, ret, calls>>

Smaller(a, b) == IF a <= b THEN a ELSE b

Init ==
  /\ len = 0
  /\ read_open = Readers
  /\ write_open = Writers
  /\ read_seq = 0
  /\ write_seq = 0
  /\ read_waiters = << >>
  /\ write_waiters = << >>
  /\ pc = [t \in Threads |-> "idle"]
  /\ snap = [t \in Threads |-> 0]
  /\ want = [t \in Threads |-> 0]
  /\ ret = [t \in Threads |-> "none"]
  /\ calls = [t \in Threads |-> 0]

Goto(t, l) == pc' = [pc EXCEPT ![t] = l]

Return(t, v) == Goto(t, "idle") /\ ret' = [ret EXCEPT ![t] = v]

(* The woken threads go back to the top of their loop, the waker goes to l. *)
Resume(t, l, woken) ==
  pc' = [u \in Threads |-> IF u = t THEN l ELSE IF u \in woken THEN "sample" ELSE pc[u]]

Call(t, first) ==
  /\ pc[t] = "idle"
  /\ calls[t] < MaxCalls
  /\ \E n \in Lens : want' = [want EXCEPT ![t] = n]
  /\ calls' = [calls EXCEPT ![t] = @ + 1]
  /\ ret' = [ret EXCEPT ![t] = "none"]
  /\ Goto(t, first)
  /\ UNCHANGED <<ringVars, endVars, seqVars, waitVars, snap>>

-----------------------------------------------------------------------------
(* pipe_read *)

ReadCall(r) == Call(r, "sample")

ReadSample(r) ==
  /\ pc[r] = "sample"
  /\ snap' = [snap EXCEPT ![r] = read_seq]
  /\ Goto(r, "ring")
  /\ UNCHANGED <<ringVars, endVars, seqVars, waitVars, want, ret, calls>>

(* Mutant of ReadRing: was_full is taken after the bytes are gone. *)
ReadRingLateFull(r) ==
  LET n == Smaller(want[r], len) IN
  /\ pc[r] = "ring"
  /\ len' = len - n
  /\ \/ n = 0 /\ Goto(r, "check") /\ UNCHANGED ret
     \/ n > 0 /\ len' = Capacity /\ Goto(r, "bump") /\ UNCHANGED ret
     \/ n > 0 /\ len' # Capacity /\ Return(r, "data")
  /\ UNCHANGED <<endVars, seqVars, waitVars, snap, want, calls>>

(* The ring-lock section: n = 0 when the ring is empty or the buffer is. *)
ReadRing(r) ==
  LET n == Smaller(want[r], len) IN
  /\ pc[r] = "ring"
  /\ len' = len - n
  /\ \/ n = 0 /\ Goto(r, "check") /\ UNCHANGED ret
     \/ n > 0 /\ len = Capacity /\ Goto(r, "bump") /\ UNCHANGED ret
     \/ n > 0 /\ len # Capacity /\ Return(r, "data")
  /\ UNCHANGED <<endVars, seqVars, waitVars, snap, want, calls>>

ReadBump(r) ==
  /\ pc[r] = "bump"
  /\ write_seq' = write_seq + 1
  /\ Goto(r, "wake")
  /\ UNCHANGED <<ringVars, endVars, read_seq, waitVars, callVars>>

ReadWake(r) ==
  /\ pc[r] = "wake"
  /\ LET o == WakeOne(write_waiters) IN write_waiters' = o.left /\ Resume(r, "idle", o.woken)
  /\ ret' = [ret EXCEPT ![r] = "data"]
  /\ UNCHANGED <<ringVars, endVars, seqVars, read_waiters, snap, want, calls>>

(* reader_step_when_empty on the write end's refcount *)
ReadCheck(r) ==
  /\ pc[r] = "check"
  /\ IF write_open # {} THEN Goto(r, "block") /\ UNCHANGED ret ELSE Return(r, "eof")
  /\ UNCHANGED <<ringVars, endVars, seqVars, waitVars, snap, want, calls>>

(* Mutant of ReadBlock: thread_block, which does not look at read_seq again. *)
ReadBlockUnchecked(r) ==
  /\ pc[r] = "block"
  /\ read_waiters' = Enqueue(read_waiters, r) /\ Goto(r, "blocked")
  /\ UNCHANGED <<ringVars, endVars, seqVars, write_waiters, callVars>>

(* thread_block_if(read_waiters, read_seq == read_snap) *)
ReadBlock(r) ==
  /\ pc[r] = "block"
  /\ IF read_seq = snap[r]
       THEN read_waiters' = Enqueue(read_waiters, r) /\ Goto(r, "blocked")
       ELSE UNCHANGED read_waiters /\ Goto(r, "sample")
  /\ UNCHANGED <<ringVars, endVars, seqVars, write_waiters, callVars>>

-----------------------------------------------------------------------------
(* pipe_write *)

WriteCall(w) == Call(w, "enter")

WriteEnter(w) ==
  /\ pc[w] = "enter"
  /\ IF read_open # {} THEN Goto(w, "sample") /\ UNCHANGED ret ELSE Return(w, "epipe")
  /\ UNCHANGED <<ringVars, endVars, seqVars, waitVars, snap, want, calls>>

WriteSample(w) ==
  /\ pc[w] = "sample"
  /\ snap' = [snap EXCEPT ![w] = write_seq]
  /\ Goto(w, "ring")
  /\ UNCHANGED <<ringVars, endVars, seqVars, waitVars, want, ret, calls>>

(* Mutant of WriteRing: was_empty is taken after the bytes are in. *)
WriteRingLateEmpty(w) ==
  LET n == Smaller(want[w], Capacity - len) IN
  /\ pc[w] = "ring"
  /\ len' = len + n
  /\ \/ n = 0 /\ Goto(w, "check") /\ UNCHANGED ret
     \/ n > 0 /\ len' = 0 /\ Goto(w, "bump") /\ UNCHANGED ret
     \/ n > 0 /\ len' # 0 /\ Return(w, "data")
  /\ UNCHANGED <<endVars, seqVars, waitVars, snap, want, calls>>

(* The ring-lock section: n = 0 when the ring is full or the buffer is empty. *)
WriteRing(w) ==
  LET n == Smaller(want[w], Capacity - len) IN
  /\ pc[w] = "ring"
  /\ len' = len + n
  /\ \/ n = 0 /\ Goto(w, "check") /\ UNCHANGED ret
     \/ n > 0 /\ len = 0 /\ Goto(w, "bump") /\ UNCHANGED ret
     \/ n > 0 /\ len # 0 /\ Return(w, "data")
  /\ UNCHANGED <<endVars, seqVars, waitVars, snap, want, calls>>

WriteBump(w) ==
  /\ pc[w] = "bump"
  /\ read_seq' = read_seq + 1
  /\ Goto(w, "wake")
  /\ UNCHANGED <<ringVars, endVars, write_seq, waitVars, callVars>>

WriteWake(w) ==
  /\ pc[w] = "wake"
  /\ LET o == WakeOne(read_waiters) IN read_waiters' = o.left /\ Resume(w, "idle", o.woken)
  /\ ret' = [ret EXCEPT ![w] = "data"]
  /\ UNCHANGED <<ringVars, endVars, seqVars, write_waiters, snap, want, calls>>

(* writer_step_when_full on the read end's refcount *)
WriteCheck(w) ==
  /\ pc[w] = "check"
  /\ IF read_open # {} THEN Goto(w, "block") /\ UNCHANGED ret ELSE Return(w, "epipe")
  /\ UNCHANGED <<ringVars, endVars, seqVars, waitVars, snap, want, calls>>

(* thread_block_if(write_waiters, write_seq == write_snap) *)
WriteBlock(w) ==
  /\ pc[w] = "block"
  /\ IF write_seq = snap[w]
       THEN write_waiters' = Enqueue(write_waiters, w) /\ Goto(w, "blocked")
       ELSE UNCHANGED write_waiters /\ Goto(w, "sample")
  /\ UNCHANGED <<ringVars, endVars, seqVars, read_waiters, callVars>>

-----------------------------------------------------------------------------
(* pipe_read_release, pipe_write_release: the close of a descriptor *)

ReadRelease(r) ==
  /\ pc[r] = "idle" /\ r \in read_open
  /\ read_open' = read_open \ {r}
  /\ Goto(r, IF read_open = {r} THEN "close_bump" ELSE "closed")
  /\ UNCHANGED <<ringVars, write_open, seqVars, waitVars, callVars>>

ReadCloseBump(r) ==
  /\ pc[r] = "close_bump"
  /\ write_seq' = write_seq + 1
  /\ Goto(r, "close_wake")
  /\ UNCHANGED <<ringVars, endVars, read_seq, waitVars, callVars>>

(* Mutant of ReadCloseWake: wake_one where every writer must see the EPIPE. *)
ReadCloseWakeOne(r) ==
  /\ pc[r] = "close_wake"
  /\ LET o == WakeOne(write_waiters) IN write_waiters' = o.left /\ Resume(r, "closed", o.woken)
  /\ UNCHANGED <<ringVars, endVars, seqVars, read_waiters, callVars>>

ReadCloseWake(r) ==
  /\ pc[r] = "close_wake"
  /\ LET o == WakeAll(write_waiters) IN write_waiters' = o.left /\ Resume(r, "closed", o.woken)
  /\ UNCHANGED <<ringVars, endVars, seqVars, read_waiters, callVars>>

WriteRelease(w) ==
  /\ pc[w] = "idle" /\ w \in write_open
  /\ write_open' = write_open \ {w}
  /\ Goto(w, IF write_open = {w} THEN "close_bump" ELSE "closed")
  /\ UNCHANGED <<ringVars, read_open, seqVars, waitVars, callVars>>

WriteCloseBump(w) ==
  /\ pc[w] = "close_bump"
  /\ read_seq' = read_seq + 1
  /\ Goto(w, "close_wake")
  /\ UNCHANGED <<ringVars, endVars, write_seq, waitVars, callVars>>

WriteCloseWake(w) ==
  /\ pc[w] = "close_wake"
  /\ LET o == WakeAll(read_waiters) IN read_waiters' = o.left /\ Resume(w, "closed", o.woken)
  /\ UNCHANGED <<ringVars, endVars, seqVars, write_waiters, callVars>>

-----------------------------------------------------------------------------
(* What a thread does inside a call it has begun, and what it may begin. *)
ReaderStep(r) ==
  \/ ReadSample(r) \/ ReadRing(r) \/ ReadBump(r) \/ ReadWake(r)
  \/ ReadCheck(r) \/ ReadBlock(r) \/ ReadCloseBump(r) \/ ReadCloseWake(r)

WriterStep(w) ==
  \/ WriteEnter(w) \/ WriteSample(w) \/ WriteRing(w) \/ WriteBump(w) \/ WriteWake(w)
  \/ WriteCheck(w) \/ WriteBlock(w) \/ WriteCloseBump(w) \/ WriteCloseWake(w)

(* Every descriptor is closed: the programs have ended. *)
Finished == (\A t \in Threads : pc[t] = "closed") /\ UNCHANGED vars

Next ==
  \/ Finished
  \/ \E r \in Readers : ReadCall(r) \/ ReadRelease(r) \/ ReaderStep(r)
  \/ \E w \in Writers : WriteCall(w) \/ WriteRelease(w) \/ WriterStep(w)

Spec == Init /\ [][Next]_vars

(* The scheduler runs every runnable thread again and again (timer_handler   *)
(* calls schedule on every tick, and boost_all returns every thread to the   *)
(* top level), so a thread inside a call keeps taking its steps.  Nothing    *)
(* makes a program begin a call or close a descriptor.                       *)
FairSpec ==
  /\ Spec
  /\ \A r \in Readers : WF_vars(ReaderStep(r))
  /\ \A w \in Writers : WF_vars(WriterStep(w))
-----------------------------------------------------------------------------
(* Properties *)

Labels == {"idle", "enter", "sample", "ring", "bump", "wake", "check", "block",
           "blocked", "close_bump", "close_wake", "closed"}

(* The type of the state.  For the code: the ring never holds more than     *)
(* PIPE_BUF_SIZE bytes and its length never underflows (read_into,          *)
(* write_from), and only threads of the right end wait on each queue.       *)
TypeOK ==
  /\ len \in 0..Capacity
  /\ read_open \subseteq Readers
  /\ write_open \subseteq Writers
  /\ read_seq \in Nat
  /\ write_seq \in Nat
  /\ read_waiters \in Seq(Readers)
  /\ write_waiters \in Seq(Writers)
  /\ pc \in [Threads -> Labels]
  /\ snap \in [Threads -> Nat]
  /\ want \in [Threads -> Lens \cup {0}]
  /\ ret \in [Threads -> {"none", "data", "eof", "epipe"}]
  /\ calls \in [Threads -> 0..MaxCalls]

(* A thread of the set that still owes the other side a wake. *)
OwesWake(S)      == \E t \in S : pc[t] \in {"bump", "wake"}
OwesCloseWake(S) == \E t \in S : pc[t] \in {"close_bump", "close_wake"}

(* The other threads with a descriptor of that end have made no call on it. *)
Lone(t, S) == \A u \in S \ {t} : calls[u] = 0

(* No wake-up is lost on the read side (pipe.rs:265-304).  Whenever a reader *)
(* sleeps in read_waiters although the last writer has closed, the closer is *)
(* still on its way to wake_all; and when one thread does all the reading,   *)
(* whenever it sleeps although the ring holds data, the writer that made the *)
(* ring non-empty is still on its way to wake_one.                           *)
NoLostReadWake ==
  \A r \in Readers : pc[r] = "blocked" =>
    /\ write_open = {} => OwesCloseWake(Writers)
    /\ (Lone(r, Readers) /\ len > 0) => OwesWake(Writers)

(* No wake-up is lost on the write side (pipe.rs:337-379): the same for a   *)
(* writer asleep in write_waiters although the last reader has closed, or,  *)
(* when it does all the writing, although the ring has room.                *)
NoLostWriteWake ==
  \A w \in Writers : pc[w] = "blocked" =>
    /\ read_open = {} => OwesCloseWake(Readers)
    /\ (Lone(w, Writers) /\ len < Capacity) => OwesWake(Readers)

InCall(t) == pc[t] \notin {"idle", "closed"}

(* A read call returns once the last writer has closed, and a lone reader's *)
(* call returns once the ring holds data (pipe_read's loop terminates).     *)
ReadReturns ==
  \A r \in Readers :
    (InCall(r) /\ (write_open = {} \/ (Readers = {r} /\ len > 0))) ~> ~InCall(r)

(* A write call returns once the last reader has closed, and a lone writer's *)
(* call returns once the ring has room (pipe_write's loop terminates).       *)
WriteReturns ==
  \A w \in Writers :
    (InCall(w) /\ (read_open = {} \/ (Writers = {w} /\ len < Capacity))) ~> ~InCall(w)

(* "a racing publisher is serialized against this decision and no wakeup is *)
(* lost" (pipe.rs:303): a reader never sleeps on a non-empty ring while no  *)
(* thread is awake inside a call of this pipe.  Checked with two readers.   *)
NoStrandedReader ==
  \A r \in Readers :
    (pc[r] = "blocked" /\ len > 0) => \E t \in Threads : InCall(t) /\ pc[t] # "blocked"

(* "Reader hit an empty ring: EOF (return 0) iff no writer remains"          *)
(* (pipe.rs:160): a read reports end of file only when the ring is empty.    *)
EofMeansDrained ==
  [][\A r \in Readers : (ret'[r] = "eof" /\ ret[r] # "eof") => len = 0]_vars
=============================================================================
