\* One request on either chain, two workers, two faults, an owner who interferes: the vault keeps the promise.
CONSTANTS
  RequestId = {r1}
  Recipient = {payee}
  Account = {owner, gateway, signer}
  Owner = owner
  Gateway = gateway
  Agent = signer
  Signer = signer
  Self = vault
  InvoiceKey = {}
  NoInvoice = NoInvoice
  SettlementChain = arc
  NoHash = NoHash
  NoRequest = NoRequest
  Nobody = Nobody
  PayHash = pay
  MintHash = mint
  Hash = {pay, mint}
  Chain = {arc, base}
  Backend = "arc-vault"
  Amount = {1}
  Cap = {1}
  Fee = {1}
  Week = 5
  Lease = 2
  MaxTime = 2
  MaxNonce = 0
  Worker = {w1, w2}
  MaxHeld = 2
  Reserve = 1
  MaxDuration = 1
  MaxFaults = 2
  OwnerActs = TRUE
SPECIFICATION SettlementSpec
SYMMETRY Symmetry
INVARIANTS
  SettlementTypeOK
PROPERTIES
  KeepsPromise
CHECK_DEADLOCK FALSE
