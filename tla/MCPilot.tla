------------------------------- MODULE MCPilot -------------------------------
(* A small instance of Pilot: limits of one or two instead of 60, 180, 10.  *)
EXTENDS Pilot, TLC

CONSTANTS KeyLimit, AgentLimit, FeedbackLimit

MCLimit == [i \in Identifier |-> CASE i = Agent -> AgentLimit
                                   [] i = Tester -> FeedbackLimit
                                   [] OTHER -> KeyLimit]
MCWindow == [i \in Identifier |-> IF i = Tester THEN 3 ELSE 2]
Symmetry == Permutations(Handler) \cup Permutations(Key)
=============================================================================
