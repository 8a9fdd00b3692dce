\* Two requests and one invoice over two budget windows, with failures, retries, takeovers and a cap that is changed.
CONSTANTS
  RequestId = {r1, r2}
  Recipient = {payee}
  Account = {owner, gateway}
  Owner = owner
  Gateway = gateway
  InvoiceKey = {k1}
  NoInvoice = NoInvoice
  Chain = {arc}
  SettlementChain = arc
  Backend = "delegated-7710"
  Hash = {h1}
  NoHash = NoHash
  NoRequest = NoRequest
  Amount = {1, 2}
  Cap = {1, 2}
  Week = 2
  Lease = 1
  MaxTime = 2
  MaxNonce = 1
SPECIFICATION Spec
SYMMETRY Symmetry
INVARIANTS
  TypeOK
  FirstWindowLedger
  InvoicePaidOnce
PROPERTIES
  ChargeWithinCap
  ChargeMatchesRequest
CHECK_DEADLOCK FALSE
