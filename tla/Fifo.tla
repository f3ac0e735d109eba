-------------------------------- MODULE Fifo --------------------------------
(***************************************************************************)
(* What the rings of crates/ipc promise: a bounded queue.  out is the      *)
(* value the last successful pop returned.                                 *)
(***************************************************************************)
EXTENDS Naturals, Sequences

CONSTANTS Cap, Items

VARIABLES q, out

FifoInit == q = << >> /\ out \in Items

Put(v) == Len(q) < Cap /\ q' = Append(q, v) /\ UNCHANGED out

Take == q # << >> /\ out' = Head(q) /\ q' = Tail(q)

FifoNext == (\E v \in Items : Put(v)) \/ Take

FifoSpec == FifoInit /\ [][FifoNext]_<<q, out>>
=============================================================================
