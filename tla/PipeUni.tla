------------------------------ MODULE PipeUni ------------------------------
(* The interleavings of Pipe that remain when every thread runs on CPU 0. *)
EXTENDS Pipe

VARIABLE intr   \* threads whose current call runs with interrupts on

(* A system call starts with interrupts off (SFMASK). *)
Masked(t) == InCall(t) /\ pc[t] # "blocked" /\ t \notin intr

UniInit == Init /\ intr = {}

(* A call that runs with interrupts off is not preempted; thread_block_if     *)
(* ends with sti whether it slept or not.                                     *)
UniNext ==
  /\ Next
  /\ \A t \in Threads : Masked(t) =>
       \A u \in Threads \ {t} : pc'[u] = pc[u] \/ pc[u] = "blocked"
  /\ intr' = {t \in Threads : InCall(t)' /\ (t \in intr \/ (pc[t] = "block" /\ pc'[t] # "block"))}

UniSpec == UniInit /\ [][UniNext]_<<vars, intr>>
=============================================================================
