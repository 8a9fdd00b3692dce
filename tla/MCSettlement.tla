---------------------------- MODULE MCSettlement -----------------------------
(***************************************************************************)
(* TLC instances of Settlement.                                            *)
(***************************************************************************)
EXTENDS Settlement, TLC

Symmetry == Permutations(Worker)
=============================================================================
