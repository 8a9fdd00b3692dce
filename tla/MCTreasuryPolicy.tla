-------------------------- MODULE MCTreasuryPolicy --------------------------
(***************************************************************************)
(* TLC instances of TreasuryPolicy.                                        *)
(***************************************************************************)
EXTENDS TreasuryPolicy, TLC

Symmetry == Permutations(RequestId)
=============================================================================
