\* Every pair of chains, every shape of Circle's fee answer; policies of two backends.
CONSTANTS
  Agent = {a1, a2}
  Account = {x1, x2}
  PolicyChain = {"baseSepolia", "arcTestnet"}
  UnknownId = "unknown"
  Amount = {0, 1}
  FeeReply <- MCFeeReply
  Reserve = {0, 2, 4}
SPECIFICATION RulesSpec
INVARIANTS
  AdmissionAgrees
  TransfersDeliver
CHECK_DEADLOCK FALSE
