\* 1Shot: a payment that outlives the wait for it is made again.
CONSTANTS
  RequestId = {r1}
  Recipient = {payee}
  Account = {owner, gateway, signer}
  Owner = owner
  Gateway = gateway
  Agent = signer
  Signer = signer
  Self = vault
  InvoiceKey = {}
  NoInvoice = NoInvoice
  SettlementChain = arc
  NoHash = NoHash
  NoRequest = NoRequest
  Nobody = Nobody
  PayHash = pay
  MintHash = mint
  Hash = {pay, mint}
  Chain = {arc}
  Backend = "delegated-7710"
  Amount = {1}
  Cap = {1}
  Fee = {}
  Week = 5
  Lease = 2
  MaxTime = 0
  MaxNonce = 0
  Worker = {w1}
  MaxHeld = 0
  Reserve = 0
  MaxDuration = 1
  MaxFaults = 1
  OwnerActs = FALSE
SPECIFICATION SettlementSpec
INVARIANTS
  PaidAtMostOnce
CHECK_DEADLOCK FALSE
