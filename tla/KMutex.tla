------------------------------- MODULE KMutex -------------------------------
(***************************************************************************)
(* The blocking mutex of crates/sched/src/futex.rs over futex_wait and     *)
(* futex_wake: state 0 is free, 1 held, 2 held with possible waiters.  The *)
(* waiters of one mutex are the nodes of its bucket with its key, so they  *)
(* form a FIFO queue of their own whatever else shares the bucket.  Each   *)
(* atomic instruction and each section under the queue's lock is a step.   *)
(***************************************************************************)
EXTENDS Naturals, Sequences

CONSTANT MutexThreads

VARIABLES word, sleepers, kpc

kvars == <<word, sleepers, kpc>>

KInit == word = 0 /\ sleepers = << >> /\ kpc = [t \in MutexThreads |-> "out"]

Go(t, l) == kpc' = [kpc EXCEPT ![t] = l]

\* lock: compare_exchange(0, 1)
Lock(t) ==
  /\ kpc[t] = "out"
  /\ IF word = 0 THEN word' = 1 /\ Go(t, "in") ELSE UNCHANGED word /\ Go(t, "swap")
  /\ UNCHANGED sleepers

TryLock(t) ==
  /\ kpc[t] = "out" /\ word = 0
  /\ word' = 1 /\ Go(t, "in")
  /\ UNCHANGED sleepers

(* Mutant of Swap: a waiter takes the mutex as a plain holder would. *)
SwapOne(t) ==
  /\ kpc[t] = "swap"
  /\ word' = IF word = 0 THEN 1 ELSE 2
  /\ Go(t, IF word = 0 THEN "in" ELSE "check")
  /\ UNCHANGED sleepers

\* the slow path of lock: swap(2)
Swap(t) ==
  /\ kpc[t] = "swap"
  /\ word' = 2
  /\ Go(t, IF word = 0 THEN "in" ELSE "check")
  /\ UNCHANGED sleepers

\* futex_wait's first look at the word
Check(t) ==
  /\ kpc[t] = "check"
  /\ Go(t, IF word = 2 THEN "recheck" ELSE "swap")
  /\ UNCHANGED <<word, sleepers>>

\* and the second one, under the queue's lock, where it is enqueued
Recheck(t) ==
  /\ kpc[t] = "recheck"
  /\ IF word = 2 THEN sleepers' = Append(sleepers, t) /\ Go(t, "asleep")
     ELSE UNCHANGED sleepers /\ Go(t, "swap")
  /\ UNCHANGED word

\* KMutexGuard::drop: swap(0), and a wake when there may be sleepers
Unlock(t) ==
  /\ kpc[t] = "in"
  /\ word' = 0
  /\ Go(t, IF word = 2 THEN "wake" ELSE "out")
  /\ UNCHANGED sleepers

\* futex_wake(.., 1): the first node with the key, with CPU 0's scheduler lock
\* free at try_make_runnable (module WaitQueue)
Wake(t) ==
  /\ kpc[t] = "wake"
  /\ IF sleepers = << >> THEN UNCHANGED sleepers /\ Go(t, "out")
     ELSE /\ sleepers' = Tail(sleepers)
          /\ kpc' = [kpc EXCEPT ![t] = "out", ![Head(sleepers)] = "swap"]
  /\ UNCHANGED word

KNext == \E t \in MutexThreads : \/ Lock(t) \/ TryLock(t) \/ Swap(t) \/ Check(t) \/ Recheck(t)
                            \/ Unlock(t) \/ Wake(t)

KSpec == KInit /\ [][KNext]_kvars

(* ---------------------------- properties ---------------------------- *)

\* At most one thread is between lock and the guard's drop.
Exclusion == \A t, u \in MutexThreads : kpc[t] = "in" /\ kpc[u] = "in" => t = u

\* A thread never sleeps on a mutex nobody will wake it from: while the queue
\* is not empty the word says so, or a thread is on its way to a wake or to
\* the swap that marks the word again.
NoForgottenWaiter ==
  sleepers # << >> => word = 2 \/ \E t \in MutexThreads : kpc[t] \in {"wake", "swap"}
=============================================================================
