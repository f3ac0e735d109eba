------------------------------ MODULE RunQueue ------------------------------
(***************************************************************************)
(* The run queue of one CPU, crates/sched/src/queue.rs: MLFQ_LEVELS ring   *)
(* queues of QUEUE_DEPTH slots, one of which stays empty.  A queue is a    *)
(* function from levels to sequences of threads; every operation runs      *)
(* under the CPU's scheduler lock, so each is an operator on its value.    *)
(***************************************************************************)
EXTENDS Naturals, Sequences
LOCAL INSTANCE SequencesExt

CONSTANTS
  MLFQ_LEVELS,
  QUEUE_DEPTH

Levels == 0..(MLFQ_LEVELS - 1)

timeslice(level) == 2^level

EmptyQueue == [l \in Levels |-> << >>]

(* The threads in q, and MlfqQueue.len: the counter total. *)
Queued(q) == UNION {ToSet(q[l]) : l \in Levels}

QueueLen(q) ==
  LET below[l \in 0..MLFQ_LEVELS] == IF l = 0 THEN 0 ELSE below[l - 1] + Len(q[l - 1])
  IN  below[MLFQ_LEVELS]

(* push clamps the level and fails when the level's ring is full. *)
Clamp(level) == IF level < MLFQ_LEVELS THEN level ELSE MLFQ_LEVELS - 1

HasRoom(q, level) == Len(q[Clamp(level)]) < QUEUE_DEPTH - 1

Push(q, t, level) ==
  IF HasRoom(q, level) THEN [q EXCEPT ![Clamp(level)] = Append(@, t)] ELSE q

(* pop takes from the first level that is not empty. *)
TopLevel(q) == CHOOSE l \in Levels : q[l] # << >> /\ \A k \in 0..(l - 1) : q[k] = << >>

First(q) == Head(q[TopLevel(q)])

Rest(q) == [q EXCEPT ![TopLevel(q)] = Tail(@)]

(* steal_into: at most n threads move from src to dst, each to the level of *)
(* its priority; a thread dst has no room for goes back and ends the loop.  *)
StealStep(s, priority) ==
  LET t == First(s.src) IN
  IF s.done \/ Queued(s.src) = {} THEN [s EXCEPT !.done = TRUE]
  ELSE IF HasRoom(s.dst, priority[t])
  THEN [s EXCEPT !.src = Rest(@), !.dst = Push(@, t, priority[t]), !.stolen = @ + 1]
  ELSE [s EXCEPT !.src = Push(Rest(@), t, priority[t]), !.done = TRUE]

StealInto(src, dst, n, priority) ==
  LET after[i \in 0..n] ==
        IF i = 0 THEN [src |-> src, dst |-> dst, stolen |-> 0, done |-> FALSE]
        ELSE StealStep(after[i - 1], priority)
  IN  after[n]

(* boost_all: level by level, the threads move to level 0 while it has room; *)
(* the first of a level that does not fit goes to the tail of that level.    *)
BoostAll(q) ==
  LET to[l \in Levels] == IF l = 0 THEN q[0] ELSE to[l - 1] \o q[l]
      moved(l) == LET room == QUEUE_DEPTH - 1 - Len(to[l - 1])
                  IN  IF Len(to[l - 1]) > QUEUE_DEPTH - 1 THEN 0
                      ELSE IF room < Len(q[l]) THEN room ELSE Len(q[l])
      left(l) == SubSeq(q[l], moved(l) + 1, Len(q[l]))
      all == to[MLFQ_LEVELS - 1]
  IN  [l \in Levels |->
         IF l = 0 THEN SubSeq(all, 1, IF Len(all) < QUEUE_DEPTH THEN Len(all) ELSE QUEUE_DEPTH - 1)
         ELSE IF left(l) = << >> THEN << >> ELSE Append(Tail(left(l)), Head(left(l)))]

(* The threads whose priority and ticks_used boost_all resets. *)
Boosted(q) ==
  LET r == BoostAll(q)
  IN  {t \in UNION {ToSet(q[l]) : l \in Levels \ {0}} :
         t \in ToSet(r[0]) \/ \E l \in Levels \ {0} : r[l] # << >> /\ t = Last(r[l])}
=============================================================================
