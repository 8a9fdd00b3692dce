\* Two submissions and two key calls at a time, three of each in all, one fault.
CONSTANTS
  RequestId <- DerivedIds
  KeyId = {k1, k2, k3}
  IdempotencyKey = {i1}
  Recipient = {payee}
  Account = {owner, gateway, agent}
  Owner = owner
  Gateway = gateway
  Agent = agent
  InvoiceKey = {}
  NoInvoice = NoInvoice
  Chain = {arc, base}
  SettlementChain = arc
  Backend = "arc-vault"
  Hash = {}
  NoHash = NoHash
  NoRequest = NoRequest
  Amount = {1}
  Cap = {1}
  Week = 1
  Lease = 1
  MaxTime = 0
  MaxNonce = 0
  Handler = {h1, h2}
  Call = {c1, c2}
  Nobody = Nobody
  MaxWrites = 1
  MaxCalls = 3
  MaxPosts = 3
  MaxFaults = 1
SPECIFICATION SpendSpec
SYMMETRY Symmetry
INVARIANTS
  SpendTypeOK
  Idempotent
  FencedByRotation
  LiveKeyAfterRotation
CHECK_DEADLOCK FALSE
