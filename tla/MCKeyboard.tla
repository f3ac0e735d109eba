----------------------------- MODULE MCKeyboard -----------------------------
(* Model values for the runs of Keyboard. *)
EXTENDS Keyboard, TLC

CONSTANTS r1, r2

ReaderSymmetry == Permutations(Readers)
=============================================================================
