----------------------------- MODULE WaitQueue -----------------------------
(***************************************************************************)
(* The wait queue of crates/sched/src/waitqueue.rs: a doubly linked FIFO   *)
(* list of WaitNodes under one spin lock.  Every operation runs inside one *)
(* lock section, so each is one atomic step of the module that uses it and *)
(* is given here as an operator on the queue, the sequence of the waiting  *)
(* threads in list order (a node is its thread: a thread waits on one      *)
(* queue at a time, with a node on its own kernel stack).                  *)
(*                                                                         *)
(* A wake walks the list from the head and asks try_make_runnable for each *)
(* node.  That call takes CPU 0's scheduler lock with two try_lock         *)
(* attempts and gives up when both fail; the walk then goes on to the next *)
(* node and the node it gave up on stays queued.                           *)
(***************************************************************************)
EXTENDS Naturals, Sequences

(* The threads whose nodes are linked in q. *)
Waiting(q) == {q[i] : i \in 1..Len(q)}

(* enqueue_raw: link at the tail. *)
Enqueue(q, t) == Append(q, t)

(* What a wake leaves behind: the queue, and the threads made runnable. *)
Outcome(q, w) == [left |-> q, woken |-> w]

(* wake_one when CPU 0's scheduler lock is free at every try_lock. *)
WakeOne(q) ==
  IF q = << >> THEN Outcome(q, {}) ELSE Outcome(Tail(q), {Head(q)})

(* wake_all when CPU 0's scheduler lock is free at every try_lock. *)
WakeAll(q) == Outcome(<< >>, Waiting(q))

(* A wake during which CPU 0's scheduler lock is held throughout: every    *)
(* try_make_runnable fails and every node stays linked.                    *)
WakeDropped(q) == Outcome(q, {})
=============================================================================
