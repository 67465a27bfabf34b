------------------------------ MODULE MCUtHash -------------------------------
(* Values for TLC: the keys are interchangeable. *)
EXTENDS UtHash, TLC
Symm == Permutations(Keys)
=============================================================================
