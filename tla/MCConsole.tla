------------------------------ MODULE MCConsole ------------------------------
(***************************************************************************)
(* TLC instances of Console.                                               *)
(***************************************************************************)
EXTENDS Console

Symmetry == Permutations(Account)
=============================================================================
