\* Two requests on a vault of up to three units, paying outside and itself.
CONSTANTS
  RequestId = {r1, r2}
  Recipient = {payee, vault}
  Account = {owner, signer}
  Owner = owner
  Self = vault
  Amount = {0, 1, 2}
  Fee = {0, 1}
  MaxHeld = 3
SPECIFICATION Spec
SYMMETRY Symmetry
INVARIANTS
  TypeOK
  SettledOnce
  FeeReserveBacked
  ReserveWithinCap
PROPERTIES
  PrincipalFromAvailable
CHECK_DEADLOCK FALSE
