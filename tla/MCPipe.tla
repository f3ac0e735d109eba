------------------------------- MODULE MCPipe -------------------------------
(* Model values and symmetry for the runs of Pipe. *)
EXTENDS Pipe, TLC

EndSymmetry == Permutations(Readers) \cup Permutations(Writers)
=============================================================================
