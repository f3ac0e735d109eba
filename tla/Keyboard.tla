------------------------------ MODULE Keyboard ------------------------------
(***************************************************************************)
(* Keyboard input on CPU 0, crates/keyboard/src/lib.rs: keyboard_read,     *)
(* keyboard_irq_handler and the thread_block_if between them, with the     *)
(* interrupt flag, the two spin locks a reader takes while interrupts may  *)
(* be on (KBD_RING, and the scheduler lock thread_block_if reads current   *)
(* under) and the timer tick.                                              *)
(*                                                                         *)
(* A system call starts with interrupts off; thread_block_if ends with     *)
(* sti, so the loop's later iterations run with interrupts on.  The ring   *)
(* is its fill level.  KBD_WAITERS' own lock is only taken with interrupts *)
(* off, so its sections are atomic on this CPU.                            *)
(***************************************************************************)
EXTENDS Naturals, WaitQueue

CONSTANTS
  Readers,        \* threads that read /dev/keyboard
  Idle,           \* whatever CPU 0 runs when it runs no reader
  None,           \* the holder of a free lock
  KBD_RING_SIZE,
  Lens,           \* buffer lengths a reader passes (empty ones return at once)
  MaxKeys,        \* bound: key presses
  IrqHitsLock     \* may an interrupt arrive while the running reader holds a lock?

ASSUME KeyboardAssumption ==
  /\ Idle \notin Readers /\ None \notin Readers
  /\ KBD_RING_SIZE \in Nat \ {0}
  /\ Lens \subseteq Nat \ {0}
  /\ MaxKeys \in Nat
  /\ IrqHitsLock \in BOOLEAN

VARIABLES
  len,         \* KBD_RING.len
  ring_lock,   \* KBD_RING's holder
  sched_lock,  \* the holder of CPU 0's scheduler lock
  seq,         \* KBD_SEQ
  waiters,     \* KBD_WAITERS
  run,         \* CPU 0's current thread
  irq,         \* the interrupt handler's position, "none" outside one
  intr,        \* readers whose interrupt flag is set
  pc,          \* where each reader is
  snap,        \* its seq
  want,        \* its buf.len()
  keys         \* key presses so far

locks == <<ring_lock, sched_lock>>
call  == <<snap, want>>
vars  == <<len, ring_lock, sched_lock, seq, waiters, run, irq, intr, pc, snap, want, keys>>

Init ==
  /\ len = 0 /\ ring_lock = None /\ sched_lock = None
  /\ seq = 0 /\ waiters = << >>
  /\ run = Idle /\ irq = "none"
  /\ intr = Readers
  /\ pc = [r \in Readers |-> "user"]
  /\ snap = [r \in Readers |-> 0]
  /\ want = [r \in Readers |-> 0]
  /\ keys = 0

Goto(r, l) == pc' = [pc EXCEPT ![r] = l]

(* r is on the CPU, at l, and no handler is. *)
At(r, l) == run = r /\ irq = "none" /\ pc[r] = l

(* The threads schedule may switch to. *)
Ready == {Idle} \cup {r \in Readers : pc[r] # "blocked"}

(* An interrupt is delivered now. *)
Interruptible ==
  /\ irq = "none"
  /\ run = Idle \/ run \in intr
  /\ IrqHitsLock \/ run \notin {ring_lock, sched_lock}
-----------------------------------------------------------------------------
(* keyboard_read *)

Call(r) ==
  /\ At(r, "user")
  /\ \E n \in Lens : want' = [want EXCEPT ![r] = n]
  /\ intr' = intr \ {r}
  /\ Goto(r, "sample")
  /\ UNCHANGED <<len, locks, seq, waiters, run, irq, snap, keys>>

Sample(r) ==
  /\ At(r, "sample")
  /\ snap' = [snap EXCEPT ![r] = seq]
  /\ Goto(r, "ring")
  /\ UNCHANGED <<len, locks, seq, waiters, run, irq, intr, want, keys>>

RingLock(r) ==
  /\ At(r, "ring") /\ ring_lock = None
  /\ ring_lock' = r
  /\ Goto(r, "ring_held")
  /\ UNCHANGED <<len, sched_lock, seq, waiters, run, irq, intr, call, keys>>

(* pop_into and the return to user mode, or the guard dropped before blocking *)
RingUnlock(r) ==
  /\ At(r, "ring_held")
  /\ ring_lock' = None
  /\ IF len > 0
       THEN /\ len' = IF want[r] < len THEN len - want[r] ELSE 0
            /\ intr' = intr \cup {r}
            /\ Goto(r, "user")
       ELSE UNCHANGED <<len, intr>> /\ Goto(r, "current")
  /\ UNCHANGED <<sched_lock, seq, waiters, run, irq, call, keys>>

(* thread_block_if: sched_cpu(cpu_id).lock().current, before its cli *)
CurrentLock(r) ==
  /\ At(r, "current") /\ sched_lock = None
  /\ sched_lock' = r
  /\ Goto(r, "current_held")
  /\ UNCHANGED <<len, ring_lock, seq, waiters, run, irq, intr, call, keys>>

CurrentUnlock(r) ==
  /\ At(r, "current_held")
  /\ sched_lock' = None
  /\ intr' = intr \ {r}
  /\ Goto(r, "block")
  /\ UNCHANGED <<len, ring_lock, seq, waiters, run, irq, call, keys>>

(* Mutant of Block: thread_block, which does not look at KBD_SEQ again. *)
BlockUnchecked(r) ==
  /\ At(r, "block")
  /\ waiters' = Enqueue(waiters, r)
  /\ Goto(r, "blocked")
  /\ intr' = intr \cup {r}
  /\ run' \in Ready \ {r}
  /\ UNCHANGED <<len, locks, seq, irq, call, keys>>

(* The rest of thread_block_if: KBD_SEQ is compared under the queue's lock;  *)
(* the thread sleeps and schedule switches, or it goes on.  Either way the   *)
(* next thing the thread does is sti.                                        *)
Block(r) ==
  /\ At(r, "block")
  /\ intr' = intr \cup {r}
  /\ IF seq = snap[r]
       THEN waiters' = Enqueue(waiters, r) /\ Goto(r, "blocked") /\ run' \in Ready \ {r}
       ELSE Goto(r, "sample") /\ UNCHANGED <<waiters, run>>
  /\ UNCHANGED <<len, locks, seq, irq, call, keys>>
-----------------------------------------------------------------------------
(* keyboard_irq_handler *)

KeyIrq ==
  /\ Interruptible /\ keys < MaxKeys
  /\ irq' = "feed"
  /\ keys' = keys + 1
  /\ UNCHANGED <<len, locks, seq, waiters, run, intr, pc, call>>

(* feed: the scancode produces a byte, and a full ring drops its oldest one, *)
(* or it produces none.                                                      *)
IrqFeed ==
  /\ irq = "feed" /\ ring_lock = None
  /\ \/ len' = (IF len = KBD_RING_SIZE THEN len ELSE len + 1) /\ irq' = "bump"
     \/ UNCHANGED len /\ irq' = "none"
  /\ UNCHANGED <<locks, seq, waiters, run, intr, pc, call, keys>>

(* Mutant of IrqBump: the wake comes without the bump. *)
IrqBumpForgotten ==
  /\ irq = "bump"
  /\ irq' = "wake"
  /\ UNCHANGED <<len, locks, seq, waiters, run, intr, pc, call, keys>>

IrqBump ==
  /\ irq = "bump"
  /\ seq' = seq + 1
  /\ irq' = "wake"
  /\ UNCHANGED <<len, locks, waiters, run, intr, pc, call, keys>>

(* wake_one_from_irq: its try_locks fail when the interrupted thread holds *)
(* the scheduler lock.                                                     *)
IrqWake ==
  LET o == IF sched_lock = None THEN WakeOne(waiters) ELSE WakeDropped(waiters) IN
  /\ irq = "wake"
  /\ waiters' = o.left
  /\ pc' = [r \in Readers |-> IF r \in o.woken THEN "sample" ELSE pc[r]]
  /\ irq' = "none"
  /\ UNCHANGED <<len, locks, seq, run, intr, call, keys>>
-----------------------------------------------------------------------------
(* timer_handler: schedule takes the scheduler lock, waiting for it, and     *)
(* switches.                                                                 *)
TickIrq ==
  /\ Interruptible
  /\ irq' = "tick"
  /\ UNCHANGED <<len, locks, seq, waiters, run, intr, pc, call, keys>>

Switch(t) ==
  /\ irq = "tick" /\ sched_lock = None
  /\ t \in Ready
  /\ run' = t
  /\ irq' = "none"
  /\ UNCHANGED <<len, locks, seq, waiters, intr, pc, call, keys>>

Step(r) ==
  Sample(r) \/ RingLock(r) \/ RingUnlock(r) \/ CurrentLock(r) \/ CurrentUnlock(r) \/ Block(r)

Handler == IrqFeed \/ IrqBump \/ IrqWake

Next ==
  \/ \E r \in Readers : Call(r) \/ Step(r)
  \/ KeyIrq \/ Handler
  \/ TickIrq \/ \E t \in Readers \cup {Idle} : Switch(t)

Spec == Init /\ [][Next]_vars

(* The thread on the CPU executes between two ticks (strongly fair: a tick    *)
(* interrupts it again and again), ticks keep coming, and the scheduler gives *)
(* every ready thread the CPU again and again (Sched's NoStarvation).         *)
FairSpec ==
  /\ Spec
  /\ \A r \in Readers : SF_vars(Step(r)) /\ SF_vars(Switch(r))
  /\ WF_vars(Handler) /\ WF_vars(TickIrq) /\ WF_vars(\E t \in Readers \cup {Idle} : Switch(t))
-----------------------------------------------------------------------------
(* Properties *)

InCall(r) == pc[r] # "user"

(* "no lost wakeup" (lib.rs:232): while a reader sleeps on a ring that holds *)
(* bytes, the handler that pushed them has not woken anyone yet, or another  *)
(* reader it woke is awake in its call and will take them.                   *)
NoLostKey ==
  \A r \in Readers : (pc[r] = "blocked" /\ len > 0) =>
    irq \in {"bump", "wake"} \/ \E s \in Readers : pc[s] \notin {"user", "blocked"}

(* A key press reaches a reader: as long as bytes are buffered and a reader  *)
(* is inside keyboard_read, that reader returns or the bytes are taken.      *)
KeyIsRead ==
  \A r \in Readers : (InCall(r) /\ len > 0) ~> (~InCall(r) \/ len = 0)

(* "no self-deadlock" (lib.rs:232): an interrupt handler never waits for a   *)
(* lock that the thread it interrupted holds.                                *)
NoSelfDeadlock ==
  /\ irq = "feed" => ring_lock # run
  /\ irq = "tick" => sched_lock # run
=============================================================================
