\* One request that may be cross-chain, with two possible transaction hashes.
CONSTANTS
  RequestId = {r1}
  Recipient = {payee}
  Account = {owner, gateway}
  Owner = owner
  Gateway = gateway
  InvoiceKey = {}
  NoInvoice = NoInvoice
  Chain = {arc, base}
  SettlementChain = arc
  Backend = "arc-vault"
  Hash = {h1, h2}
  NoHash = NoHash
  NoRequest = NoRequest
  Amount = {1}
  Cap = {1}
  Week = 2
  Lease = 1
  MaxTime = 2
  MaxNonce = 1
SPECIFICATION Spec
INVARIANTS
  HashTrail
  SettlementChainPayable
PROPERTIES
  DecisionIsFinal
CHECK_DEADLOCK FALSE
