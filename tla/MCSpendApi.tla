----------------------------- MODULE MCSpendApi ------------------------------
(***************************************************************************)
(* TLC instance of SpendApi.                                               *)
(***************************************************************************)
EXTENDS SpendApi, TLC

Symmetry == Permutations(Handler) \cup Permutations(Call) \cup Permutations(KeyId)
=============================================================================
