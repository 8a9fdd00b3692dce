\* One worker, no faults: requests on either chain are executed in the end.
CONSTANTS
  RequestId = {r1, r2}
  Recipient = {payee}
  Account = {owner, gateway, signer}
  Owner = owner
  Gateway = gateway
  Agent = signer
  Signer = signer
  Self = vault
  InvoiceKey = {}
  NoInvoice = NoInvoice
  SettlementChain = arc
  NoHash = NoHash
  NoRequest = NoRequest
  Nobody = Nobody
  PayHash = pay
  MintHash = mint
  Hash = {pay, mint}
  Chain = {arc, base}
  Backend = "arc-vault"
  Amount = {1}
  Cap = {2}
  Fee = {1}
  Week = 5
  Lease = 2
  MaxTime = 0
  MaxNonce = 0
  Worker = {w1}
  MaxHeld = 4
  Reserve = 2
  MaxDuration = 1
  MaxFaults = 0
  OwnerActs = FALSE
SPECIFICATION FairSpec
PROPERTIES
  ApprovedIsExecuted
CHECK_DEADLOCK FALSE
