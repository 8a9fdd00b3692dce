\* One owner with two plans for one slot, two invocations at a time, one fault.
CONSTANTS
  Owner = {owner}
  Gateway = gateway
  PolicyId = {p1, p2, p3}
  Slot = {slot}
  Grant = {g1, g2}
  NoGrant = NoGrant
  Caps = {c1}
  Handler = {h1, h2}
  NoPolicy = NoPolicy
  MaxSigned = 2
  MaxPosts = 3
  MaxControls = 1
  MaxFaults = 1
SPECIFICATION SetupSpec
SYMMETRY Symmetry
INVARIANTS
  SetupTypeOK
  OnePolicyPerSlot
  NonceSpentOnce
  GrantsAuthorized
  KeysUsable
  LegacyRetired
  ChangesOnce
CHECK_DEADLOCK FALSE
