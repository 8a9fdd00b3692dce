------------------------------- MODULE MCSetup -------------------------------
(***************************************************************************)
(* TLC instances of Setup.                                                 *)
(***************************************************************************)
EXTENDS Setup

Symmetry == Permutations(Handler) \cup Permutations(PolicyId)
            \cup Permutations(Grant)
=============================================================================
