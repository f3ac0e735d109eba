------------------------------ MODULE MCSched ------------------------------
(* Model values for the runs of Sched. *)
EXTENDS Sched, TLC

CONSTANTS u1, u2
=============================================================================
