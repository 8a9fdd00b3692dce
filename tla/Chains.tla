------------------------------- MODULE Chains --------------------------------
(***************************************************************************)
(* The chain registry of packages/shared and the two questions asked of    *)
(* it: which backend settles on a chain (executionBackend.ts) and which    *)
(* route Circle's CCTP takes between two chains (cctp.ts).                 *)
(*                                                                         *)
(* A chain is named by its key, which stands for its chain id as well; a   *)
(* string that is no key is an id the registry does not have.  A refusal   *)
(* is a record with the stage the code names.                              *)
(***************************************************************************)
EXTENDS Naturals

CCTP_DOMAIN ==
  [ethereum |-> 0, avalanche |-> 1, optimism |-> 2, arbitrum |-> 3, base |-> 6,
   polygon |-> 7, unichain |-> 10, linea |-> 11, codex |-> 12, sonic |-> 13,
   worldchain |-> 14, monad |-> 15, sei |-> 16, xdc |-> 18, hyperEvm |-> 19,
   ink |-> 21, plume |-> 22, arc |-> 26]

(* Circle's two environments: each has contracts and attestations of its    *)
(* own, and repeats the domains of the other.                               *)
CCTP_TESTNET == [attestationApi |-> "sandbox", tokenMessenger |-> "0x8FE6"]
CCTP_MAINNET == [attestationApi |-> "production", tokenMessenger |-> "0x28b5"]

settlementChain(network, environment, backend, relayed) ==
  [domain |-> CCTP_DOMAIN[network], cctp |-> environment,
   executionBackend |-> backend, relayed |-> relayed, destinationOnly |-> FALSE]

destinationChain(network, environment) ==
  [domain |-> CCTP_DOMAIN[network], cctp |-> environment,
   executionBackend |-> "delegated-7710", relayed |-> FALSE,
   destinationOnly |-> TRUE]

SettlementChains ==
  [baseSepolia     |-> settlementChain("base", CCTP_TESTNET, "delegated-7710", TRUE),
   base            |-> settlementChain("base", CCTP_MAINNET, "delegated-7710", TRUE),
   arbitrumSepolia |-> settlementChain("arbitrum", CCTP_TESTNET, "delegated-7710", FALSE),
   arcTestnet      |-> settlementChain("arc", CCTP_TESTNET, "arc-vault", FALSE),
   arc             |-> settlementChain("arc", CCTP_MAINNET, "arc-vault", FALSE)]

(* The network of each payout destination.                                  *)
MainnetDestinations ==
  [n \in {"ethereum", "avalanche", "optimism", "arbitrum", "polygon", "unichain",
          "linea", "codex", "sonic", "worldchain", "monad", "sei", "xdc",
          "hyperEvm", "ink", "plume"} |-> n]

TestnetDestinations ==
  [ethereumSepolia |-> "ethereum", avalancheFuji |-> "avalanche",
   optimismSepolia |-> "optimism", polygonAmoy |-> "polygon",
   unichainSepolia |-> "unichain", lineaSepolia |-> "linea",
   codexTestnet |-> "codex", worldchainSepolia |-> "worldchain",
   monadTestnet |-> "monad", seiTestnet |-> "sei", inkSepolia |-> "ink"]

Chain == DOMAIN SettlementChains \cup DOMAIN MainnetDestinations
                                 \cup DOMAIN TestnetDestinations

SUPPORTED_CHAINS ==
  [key \in Chain |->
     CASE key \in DOMAIN SettlementChains -> SettlementChains[key]
       [] key \in DOMAIN MainnetDestinations ->
            destinationChain(MainnetDestinations[key], CCTP_MAINNET)
       [] key \in DOMAIN TestnetDestinations ->
            destinationChain(TestnetDestinations[key], CCTP_TESTNET)]

(* chainById(id) is defined.                                                *)
Supported(id) == id \in Chain

Environment(key) == SUPPORTED_CHAINS[key].cctp.attestationApi

(* The destinations a new policy permits: the chains of its environment.    *)
cctpDestinationChainIds(key) ==
  {d \in Chain : Environment(d) = Environment(key)}

-----------------------------------------------------------------------------
(* executionBackend.ts *)

canSettleOnChain(id) == Supported(id) /\ ~SUPPORTED_CHAINS[id].destinationOnly

(* A chain that holds no treasury has no backend: the code throws.          *)
settlementBackendForChainId(id) ==
  IF canSettleOnChain(id) THEN SUPPORTED_CHAINS[id].executionBackend ELSE "refused"

isVaultSettledChain(id) ==
  canSettleOnChain(id) /\ settlementBackendForChainId(id) = "arc-vault"

assertSettlementAvailable(id, arcSettlementEnabled) ==
  isVaultSettledChain(id) => arcSettlementEnabled

-----------------------------------------------------------------------------
(* cctp.ts *)

Refused(stage) == [refused |-> stage]
IsRefused(result) == "refused" \in DOMAIN result

(* Every chain of the registry has CCTP, so requireCctpChain only refuses    *)
(* unknown ones.                                                             *)
resolveRoute(source, destination) ==
  IF ~Supported(source) THEN Refused("source")
  ELSE IF ~Supported(destination) THEN Refused("destination")
  ELSE IF Environment(source) # Environment(destination) THEN Refused("environment")
  ELSE IF SUPPORTED_CHAINS[source].domain = SUPPORTED_CHAINS[destination].domain
       THEN Refused("route")
  ELSE [domain |-> SUPPORTED_CHAINS[destination].domain,
        tokenMessenger |-> SUPPORTED_CHAINS[source].cctp.tokenMessenger]

(* Circle (external): where a burn at a messenger for a domain is minted.   *)
MintedOn(tokenMessenger, domain) ==
  {d \in Chain : SUPPORTED_CHAINS[d].cctp.tokenMessenger = tokenMessenger
                 /\ SUPPORTED_CHAINS[d].domain = domain}
=============================================================================
