--------------------------- MODULE MCAgentTreasury ---------------------------
(***************************************************************************)
(* TLC instance of AgentTreasury.                                          *)
(***************************************************************************)
EXTENDS AgentTreasury, TLC

Symmetry == Permutations(RequestId)
=============================================================================
