\* Two accounts, a vault chain, two delegation chains of which one is served; four functions, two changes meanwhile.
CONSTANTS
  Account = {alice, bob}
  NoAccount = NoAccount
  Agent = {agent}
  GrantChain = {baseSepolia, base}
  VaultChain = {arc}
  Served = {baseSepolia}
  Amount = {1, 2}
  None = None
  MaxClicks = 4
  MaxChanges = 2
SPECIFICATION ConsoleSpec
SYMMETRY Symmetry
INVARIANTS
  ConsoleTypeOK
  SetupAsSigned
  PostsWhatWasSigned
  GrantHonoured
CHECK_DEADLOCK FALSE
