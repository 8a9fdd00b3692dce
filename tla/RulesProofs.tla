----------------------------- MODULE RulesProofs -----------------------------
(***************************************************************************)
(* Theorems about Rules, for every agent, account and amount, and every    *)
(* fee answer of Circle's that is as it publishes them.                    *)
(*                                                                         *)
(* Whether two places agree on a policy needs nothing of the registry but  *)
(* that a vault settles where the backend is a vault.  Where a burn is     *)
(* minted needs the registry itself: that the environment and the domain   *)
(* name one chain (KeyAt).                                                 *)
(***************************************************************************)
EXTENDS Rules, SequenceTheorems, TLAPS

-----------------------------------------------------------------------------
(* One policy, key, binding and deployment: what spend admits is bound and  *)
(* executable, and is blocked by nothing but money.                         *)
LEMMA AdmittedIsServed ==
  ASSUME NEW policy \in PolicyState, Deployed(policy), NEW claims \in Claims,
         NEW bind \in Binding, NEW deployment, NEW balance,
         submitSpendThroughPolicy(policy, claims, bind, deployment)
  PROVE  /\ policySecurityProfile(policy).settlement_binding_registered
         /\ executeApprovedPolicyRequest(policy, bind, deployment)
         /\ spendBlockers(policy, balance) \subseteq
              {"vault_unfunded", "weekly_cap_exhausted"}
<1>1. /\ SameFunding(policy, claims) /\ SameFunding(bind, claims)
      /\ policy.reporter = "platform" /\ bind.active
      /\ policy.chain = claims.chain /\ policy.version \in 4..6
      /\ assertPolicyAllowed(deployment)
  BY DEF submitSpendThroughPolicy, assertPolicyMatchesApiKey, assertRegistryBinding,
         SameFunding, PolicyState
<1>2. SameFunding(bind, policy)
  BY <1>1 DEF SameFunding
<1>3. policySecurityProfile(policy).settlement_binding_registered
  <2>1. CASE isVaultSettledChain(policy.chain)
    <3>1. policy.version = 6
      BY <1>1, <2>1 DEF Deployed
    <3>2. vault_registered(policy)
      BY <1>1, <2>1, <3>1 DEF submitSpendThroughPolicy, assertPolicyMatchesApiKey
    <3>3. settlement_backend(policy) = "arc-vault"
      BY <2>1, <3>1 DEF settlement_backend, isVaultSettledChain
    <3>4. QED
      BY <3>2, <3>3 DEF policySecurityProfile
  <2>2. CASE ~isVaultSettledChain(policy.chain)
    <3>1. delegation_registered(policy) /\ canSettleOnChain(policy.chain)
      BY <1>1, <2>2 DEF submitSpendThroughPolicy, assertPolicyMatchesApiKey
    <3>2. settlement_backend(policy) # "arc-vault"
      BY <2>2, <3>1 DEF settlement_backend, isVaultSettledChain
    <3>3. QED
      BY <3>1, <3>2 DEF policySecurityProfile
  <2>3. QED
    BY <2>1, <2>2
<1>4. executeApprovedPolicyRequest(policy, bind, deployment)
  <2>1. policy.account \in Account
    BY DEF PolicyState
  <2>2. QED
    BY <1>1, <1>2, <2>1
    DEF executeApprovedPolicyRequest, submitSpendThroughPolicy, assertPolicyMatchesApiKey,
        vaultAddressFor
<1>5. spendBlockers(policy, balance) \subseteq {"vault_unfunded", "weekly_cap_exhausted"}
  BY <1>3 DEF spendBlockers
<1>6. QED
  BY <1>3, <1>4, <1>5

(* And a key that names the policy and the binding the executor would pay   *)
(* from is admitted.                                                        *)
LEMMA ServedIsAdmitted ==
  ASSUME NEW policy \in PolicyState, Deployed(policy), NEW claims \in Claims,
         NEW bind \in Binding, NEW deployment,
         executeApprovedPolicyRequest(policy, bind, deployment),
         policySecurityProfile(policy).settlement_binding_registered,
         policy.threshold = 0, SameFunding(claims, bind),
         claims.keyVersion = bind.api_key_version
  PROVE  submitSpendThroughPolicy(policy, claims, bind, deployment)
<1>1. /\ assertPolicyAllowed(deployment) /\ policy.reporter = "platform"
      /\ bind.active /\ SameFunding(bind, policy)
      /\ policy.version \in 4..6 /\ canSettleOnChain(policy.chain)
  BY DEF executeApprovedPolicyRequest, PolicyState
<1>2. SameFunding(policy, claims) /\ SameFunding(bind, claims) /\ policy.chain = claims.chain
  BY <1>1 DEF SameFunding
<1>3. CASE isVaultSettledChain(policy.chain)
  <2>1. policy.version = 6
    BY <1>1, <1>3 DEF Deployed
  <2>2. settlement_backend(policy) = "arc-vault"
    BY <1>3, <2>1 DEF settlement_backend, isVaultSettledChain
  <2>3. vault_registered(policy)
    BY <2>2 DEF policySecurityProfile
  <2>4. QED
    BY <1>1, <1>2, <1>3, <2>3
    DEF submitSpendThroughPolicy, assertPolicyMatchesApiKey, assertRegistryBinding,
        executeApprovedPolicyRequest
<1>4. CASE ~isVaultSettledChain(policy.chain)
  BY <1>1, <1>2, <1>4
  DEF submitSpendThroughPolicy, assertPolicyMatchesApiKey, assertRegistryBinding,
      executeApprovedPolicyRequest
<1>5. QED
  BY <1>3, <1>4

(* What spend admits, what the routes report and what the executor will not *)
(* refuse are one thing, for every policy, key, binding and deployment.     *)
THEOREM AdmissionIsOne == RulesSpec => []AdmissionAgrees
<1>1. Init => AdmissionAgrees
  BY DEF Init, Unanswered, AdmissionAgrees
<1>2. AdmissionAgrees /\ [Next]_vars => AdmissionAgrees'
  <2> SUFFICES ASSUME AdmissionAgrees, [Next]_vars PROVE AdmissionAgrees'
    OBVIOUS
  <2>1. CASE FundArc \/ PayFromVault
    <3>1. asked'.kind \in {"fund", "pay"}
      BY <2>1 DEF FundArc, PayFromVault
    <3>2. QED
      BY <3>1 DEF AdmissionAgrees
  <2>2. CASE Spend
    <3>1. PICK policy \in PolicyState, claims \in Claims, bind \in Binding,
               balance \in 0..1,
               deployment \in [arcSettlementEnabled : BOOLEAN,
                               allowed : SUBSET {"policy", "other"}] :
            /\ Deployed(policy)
            /\ asked' = [kind |-> "spend", policy |-> policy, claims |-> claims,
                         binding |-> bind]
            /\ answer' =
                 [kind |-> "admission",
                  admitted |-> submitSpendThroughPolicy(policy, claims, bind, deployment),
                  executable |-> executeApprovedPolicyRequest(policy, bind, deployment),
                  bound |-> policySecurityProfile(policy).settlement_binding_registered,
                  blockers |-> spendBlockers(policy, balance)]
      BY <2>2 DEF Spend
    <3>2. /\ asked'.policy = policy /\ asked'.claims = claims /\ asked'.binding = bind
          /\ answer'.admitted = submitSpendThroughPolicy(policy, claims, bind, deployment)
          /\ answer'.executable = executeApprovedPolicyRequest(policy, bind, deployment)
          /\ answer'.bound = policySecurityProfile(policy).settlement_binding_registered
          /\ answer'.blockers = spendBlockers(policy, balance)
      BY <3>1
    <3>3. QED
      BY <3>1, <3>2, AdmittedIsServed, ServedIsAdmitted DEF AdmissionAgrees
  <2>3. CASE UNCHANGED vars
    BY <2>3 DEF vars, AdmissionAgrees
  <2>4. QED
    BY <2>1, <2>2, <2>3 DEF Next
<1>3. QED
  BY <1>1, <1>2, PTL DEF RulesSpec

-----------------------------------------------------------------------------
(* Which network has a domain, and which chain of an environment it is.     *)
NetworkAt(n) ==
  CASE n = 0 -> "ethereum" [] n = 1 -> "avalanche" [] n = 2 -> "optimism"
    [] n = 3 -> "arbitrum" [] n = 6 -> "base" [] n = 7 -> "polygon"
    [] n = 10 -> "unichain" [] n = 11 -> "linea" [] n = 12 -> "codex"
    [] n = 13 -> "sonic" [] n = 14 -> "worldchain" [] n = 15 -> "monad"
    [] n = 16 -> "sei" [] n = 18 -> "xdc" [] n = 19 -> "hyperEvm" [] n = 21 -> "ink"
    [] n = 22 -> "plume" [] n = 26 -> "arc"

SandboxChain ==
  [base |-> "baseSepolia", arbitrum |-> "arbitrumSepolia", arc |-> "arcTestnet",
   ethereum |-> "ethereumSepolia", avalanche |-> "avalancheFuji",
   optimism |-> "optimismSepolia", polygon |-> "polygonAmoy",
   unichain |-> "unichainSepolia", linea |-> "lineaSepolia", codex |-> "codexTestnet",
   worldchain |-> "worldchainSepolia", monad |-> "monadTestnet", sei |-> "seiTestnet",
   ink |-> "inkSepolia"]

KeyAt(api, n) == IF api = "production" THEN NetworkAt(n) ELSE SandboxChain[NetworkAt(n)]

(* What the proofs use of a chain's entry: its environment and domain are   *)
(* its own, the messenger is the environment's, and a vault settles where a *)
(* policy may be.                                                           *)
Entry(key, c) ==
  /\ c.cctp \in {CCTP_TESTNET, CCTP_MAINNET}
  /\ KeyAt(c.cctp.attestationApi, c.domain) = key
  /\ c.executionBackend = "arc-vault" => ~c.destinationOnly

(* Each network has the domain of its name.                                 *)
LEMMA NetworkDomains ==
  ASSUME NEW n \in DOMAIN CCTP_DOMAIN
  PROVE  NetworkAt(CCTP_DOMAIN[n]) = n
BY DEF CCTP_DOMAIN, NetworkAt

(* The entry of a payout destination on a main network.                     *)
LEMMA MainnetEntry ==
  ASSUME NEW key \in DOMAIN MainnetDestinations
  PROVE  Entry(key, destinationChain(MainnetDestinations[key], CCTP_MAINNET))
<1>1. MainnetDestinations[key] = key /\ key \in DOMAIN CCTP_DOMAIN
  BY DEF MainnetDestinations, CCTP_DOMAIN
<1>2. CCTP_MAINNET.attestationApi = "production"
  BY DEF CCTP_MAINNET
<1>3. QED
  BY <1>1, <1>2, NetworkDomains DEF Entry, destinationChain, KeyAt

(* The entry of a payout destination on a test network.                     *)
LEMMA TestnetEntry ==
  ASSUME NEW key \in DOMAIN TestnetDestinations
  PROVE  Entry(key, destinationChain(TestnetDestinations[key], CCTP_TESTNET))
<1>1. /\ TestnetDestinations[key] \in DOMAIN CCTP_DOMAIN
      /\ SandboxChain[TestnetDestinations[key]] = key
  BY DEF TestnetDestinations, CCTP_DOMAIN, SandboxChain
<1>2. CCTP_TESTNET.attestationApi = "sandbox"
  BY DEF CCTP_TESTNET
<1>3. QED
  BY <1>1, <1>2, NetworkDomains DEF Entry, destinationChain, KeyAt

(* The entry of a chain that policies settle on.                            *)
LEMMA SettlementEntry ==
  ASSUME NEW key \in DOMAIN SettlementChains
  PROVE  Entry(key, SettlementChains[key])
<1>1. /\ CCTP_TESTNET.attestationApi = "sandbox"
      /\ CCTP_MAINNET.attestationApi = "production"
  BY DEF CCTP_TESTNET, CCTP_MAINNET
<1>2. {"base", "arbitrum", "arc"} \subseteq DOMAIN CCTP_DOMAIN
  BY DEF CCTP_DOMAIN
<1>3. /\ SandboxChain["base"] = "baseSepolia" /\ SandboxChain["arbitrum"] = "arbitrumSepolia"
      /\ SandboxChain["arc"] = "arcTestnet"
  BY DEF SandboxChain
<1>4. QED
  BY <1>1, <1>2, <1>3, NetworkDomains
  DEF Entry, SettlementChains, settlementChain, KeyAt

(* The entry of any chain of the registry.                                  *)
LEMMA ChainEntry ==
  ASSUME NEW key \in Chain
  PROVE  Entry(key, SUPPORTED_CHAINS[key])
<1>1. /\ DOMAIN SettlementChains \cap DOMAIN MainnetDestinations = {}
      /\ DOMAIN SettlementChains \cap DOMAIN TestnetDestinations = {}
      /\ DOMAIN MainnetDestinations \cap DOMAIN TestnetDestinations = {}
  BY DEF SettlementChains, MainnetDestinations, TestnetDestinations
<1>2. CASE key \in DOMAIN SettlementChains
  BY <1>1, <1>2, SettlementEntry DEF SUPPORTED_CHAINS
<1>3. CASE key \in DOMAIN MainnetDestinations
  BY <1>1, <1>3, MainnetEntry DEF SUPPORTED_CHAINS
<1>4. CASE key \in DOMAIN TestnetDestinations
  BY <1>1, <1>4, TestnetEntry DEF SUPPORTED_CHAINS
<1>5. QED
  BY <1>2, <1>3, <1>4 DEF Chain

(* A chain is named by its environment's API and its domain.                *)
LEMMA OneChain ==
  ASSUME NEW d \in Chain, NEW e \in Chain,
         Environment(d) = Environment(e),
         SUPPORTED_CHAINS[d].domain = SUPPORTED_CHAINS[e].domain
  PROVE  d = e
<1>1. /\ KeyAt(SUPPORTED_CHAINS[d].cctp.attestationApi, SUPPORTED_CHAINS[d].domain) = d
      /\ KeyAt(SUPPORTED_CHAINS[e].cctp.attestationApi, SUPPORTED_CHAINS[e].domain) = e
  BY ChainEntry DEF Entry
<1>2. SUPPORTED_CHAINS[d].cctp.attestationApi = SUPPORTED_CHAINS[e].cctp.attestationApi
  BY DEF Environment
<1>3. QED
  BY <1>1, <1>2

(* A messenger and the API of its environment belong together.              *)
LEMMA MessengerIsEnvironment ==
  ASSUME NEW d \in Chain, NEW e \in Chain
  PROVE  SUPPORTED_CHAINS[d].cctp.tokenMessenger = SUPPORTED_CHAINS[e].cctp.tokenMessenger
           <=> Environment(d) = Environment(e)
<1>1. /\ SUPPORTED_CHAINS[d].cctp \in {CCTP_TESTNET, CCTP_MAINNET}
      /\ SUPPORTED_CHAINS[e].cctp \in {CCTP_TESTNET, CCTP_MAINNET}
  BY ChainEntry DEF Entry
<1>2. /\ CCTP_TESTNET.tokenMessenger # CCTP_MAINNET.tokenMessenger
      /\ CCTP_TESTNET.attestationApi # CCTP_MAINNET.attestationApi
  BY DEF CCTP_TESTNET, CCTP_MAINNET
<1>3. QED
  BY <1>1, <1>2 DEF Environment

(* A route that is not refused mints on its destination and nowhere else.   *)
LEMMA RouteMintsOnce ==
  ASSUME NEW source, NEW destination, ~IsRefused(resolveRoute(source, destination))
  PROVE  LET route == resolveRoute(source, destination)
         IN  MintedOn(route.tokenMessenger, route.domain) = {destination}
<1>1. /\ source \in Chain /\ destination \in Chain
      /\ Environment(source) = Environment(destination)
      /\ SUPPORTED_CHAINS[source].domain # SUPPORTED_CHAINS[destination].domain
  BY DEF resolveRoute, IsRefused, Refused, Supported
<1> DEFINE route == resolveRoute(source, destination)
<1>2. /\ route.domain = SUPPORTED_CHAINS[destination].domain
      /\ route.tokenMessenger = SUPPORTED_CHAINS[source].cctp.tokenMessenger
  BY <1>1 DEF resolveRoute, Supported
<1>3. ASSUME NEW d \in Chain
      PROVE  /\ SUPPORTED_CHAINS[d].cctp.tokenMessenger = route.tokenMessenger
             /\ SUPPORTED_CHAINS[d].domain = route.domain
             <=> d = destination
  <2>1. SUPPORTED_CHAINS[d].cctp.tokenMessenger = route.tokenMessenger
          <=> Environment(d) = Environment(destination)
    BY <1>1, <1>2, MessengerIsEnvironment
  <2>2. QED
    BY <1>1, <1>2, <2>1, OneChain
<1>4. QED
  BY <1>1, <1>3 DEF MintedOn

(* No destination a policy permits by default is refused a route.           *)
LEMMA PermittedHasRoute ==
  ASSUME NEW source \in Chain, NEW destination \in DefaultDestinations(source),
         destination # source
  PROVE  ~IsRefused(resolveRoute(source, destination))
<1>1. destination \in Chain /\ Environment(destination) = Environment(source)
  BY DEF DefaultDestinations, cctpDestinationChainIds
<1>2. SUPPORTED_CHAINS[source].domain # SUPPORTED_CHAINS[destination].domain
  BY <1>1, OneChain
<1>3. QED
  BY <1>1, <1>2 DEF resolveRoute, IsRefused, Supported

-----------------------------------------------------------------------------
(* The highest tier is no less than any other.                              *)
LEMMA HighestCovers ==
  ASSUME NEW fees, Published(fees), NEW entry \in Range(fees)
  PROVE  /\ HighestTier(entry.forwardFee) \in Nat
         /\ \A t \in DOMAIN entry.forwardFee :
              /\ entry.forwardFee[t] \in Nat
              /\ entry.forwardFee[t] <= HighestTier(entry.forwardFee)
<1> DEFINE ff == entry.forwardFee
<1>1. /\ ff \in [DOMAIN ff -> Nat]
      /\ DOMAIN ff \subseteq {"low", "med", "high"}
      /\ \A s, t \in DOMAIN ff : Tier[s] <= Tier[t] => ff[s] <= ff[t]
  BY DEF Published, Tier
<1>2. Tier["low"] = 1 /\ Tier["med"] = 2 /\ Tier["high"] = 3
  BY DEF Tier
<1>3. \A t \in DOMAIN ff : ff[t] \in Nat
  BY <1>1
<1> HIDE DEF ff
<1>4. CASE "high" \in DOMAIN ff
  <2>1. HighestTier(ff) = ff["high"]
    BY <1>4 DEF HighestTier
  <2>2. \A t \in DOMAIN ff : Tier[t] <= Tier["high"]
    BY <1>1, <1>2
  <2>3. QED
    BY <1>1, <1>3, <1>4, <2>1, <2>2 DEF ff
<1>5. CASE "high" \notin DOMAIN ff /\ "med" \in DOMAIN ff
  <2>1. HighestTier(ff) = ff["med"]
    BY <1>5 DEF HighestTier
  <2>2. \A t \in DOMAIN ff : Tier[t] <= Tier["med"]
    BY <1>1, <1>2, <1>5
  <2>3. QED
    BY <1>1, <1>3, <1>5, <2>1, <2>2 DEF ff
<1>6. CASE "high" \notin DOMAIN ff /\ "med" \notin DOMAIN ff /\ "low" \in DOMAIN ff
  <2>1. HighestTier(ff) = ff["low"]
    BY <1>6 DEF HighestTier
  <2>2. \A t \in DOMAIN ff : t = "low"
    BY <1>1, <1>6
  <2>3. QED
    BY <1>1, <1>3, <1>6, <2>1, <2>2 DEF ff
<1>7. CASE DOMAIN ff = {}
  <2>1. HighestTier(ff) = 0
    BY <1>7 DEF HighestTier
  <2>2. QED
    BY <1>7, <2>1 DEF ff
<1>8. QED
  BY <1>1, <1>4, <1>5, <1>6, <1>7

(* The entry a quote is read from is one Circle published.                  *)
LEMMA EntryIsPublished ==
  ASSUME NEW fees, Published(fees), fees # <<>>, NEW wanted
  PROVE  EntryFor(fees, wanted) \in Range(fees)
<1>1. 1 \in DOMAIN fees
  <2>1. fees \in Seq(Range(fees))
    BY DEF Published
  <2>2. QED
    BY <2>1
<1> DEFINE matching == {i \in DOMAIN fees : fees[i].finalityThreshold = wanted}
<1>2. CASE matching = {}
  BY <1>1, <1>2 DEF EntryFor, Range
<1>3. CASE matching # {}
  <2>1. PICK i \in matching : TRUE
    BY <1>3
  <2>2. \A j \in matching : j = i
    BY <2>1 DEF Published
  <2>3. i \in Nat
    <3>1. fees \in Seq(Range(fees))
      BY DEF Published
    <3>2. QED
      BY <2>1, <3>1
  <2>4. \A j \in matching : i <= j
    BY <2>2, <2>3
  <2> DEFINE first == CHOOSE j \in matching : \A k \in matching : j <= k
  <2>5. first \in matching
    BY <2>1, <2>4
  <2>6. EntryFor(fees, wanted) = fees[first]
    BY <1>3 DEF EntryFor
  <2>7. QED
    BY <2>5, <2>6 DEF Range
<1>4. QED
  BY <1>2, <1>3

(* A quote is no less than what Circle may charge for its threshold.        *)
LEMMA QuoteCovers ==
  ASSUME NEW fees, Published(fees), NEW wanted, ~IsRefused(quoteFee(fees, wanted))
  PROVE  LET quote == quoteFee(fees, wanted)
         IN  /\ quote.maxFee \in Nat
             /\ \A charge \in Charges(fees, quote.minFinalityThreshold) :
                  charge \in Nat /\ charge <= quote.maxFee
<1> DEFINE entry == EntryFor(fees, wanted)
           quote == quoteFee(fees, wanted)
<1>1. fees # <<>>
  BY DEF quoteFee, IsRefused, Refused
<1>2. entry \in Range(fees)
  BY <1>1, EntryIsPublished
<1>3. /\ quote.maxFee = entry.minimumFee + HighestTier(entry.forwardFee)
      /\ quote.minFinalityThreshold = entry.finalityThreshold
  BY <1>1 DEF quoteFee, IsRefused, Refused
<1>4. entry.minimumFee \in Nat
  BY <1>2 DEF Published
<1>5. /\ HighestTier(entry.forwardFee) \in Nat
      /\ \A t \in DOMAIN entry.forwardFee :
           /\ entry.forwardFee[t] \in Nat
           /\ entry.forwardFee[t] <= HighestTier(entry.forwardFee)
  BY <1>2, HighestCovers
<1>6. ASSUME NEW charge \in Charges(fees, quote.minFinalityThreshold)
      PROVE  charge \in Nat /\ charge <= quote.maxFee
  <2>1. PICK e \in Range(fees) :
          /\ e.finalityThreshold = entry.finalityThreshold
          /\ \E tier \in DOMAIN e.forwardFee : charge = e.minimumFee + e.forwardFee[tier]
    BY <1>3, <1>6 DEF Charges
  <2>2. e = entry
    BY <1>2, <2>1 DEF Published, Range
  <2>3. PICK tier \in DOMAIN entry.forwardFee :
          charge = entry.minimumFee + entry.forwardFee[tier]
    BY <2>1, <2>2
  <2> HIDE DEF entry, quote
  <2>4. QED
    BY <1>3, <1>4, <1>5, <2>3
<1>7. QED
  BY <1>3, <1>4, <1>5, <1>6

(* What TransfersDeliver says of a burn for a destination and a recipient.  *)
Delivers(burn, destination, recipient, amount, fees) ==
  /\ MintedOn(burn.at, burn.domain) = {destination}
  /\ burn.mintRecipient = recipient
  /\ \A charge \in Charges(fees, burn.threshold) :
       /\ charge <= burn.maxFee
       /\ burn.total - charge >= amount

(* A burn on a route and a quote that were not refused delivers.            *)
LEMMA BurnDelivers ==
  ASSUME NEW source, NEW destination, NEW recipient, NEW amount \in Nat,
         NEW fees, Published(fees),
         ~IsRefused(resolveRoute(source, destination)),
         ~IsRefused(quoteFee(fees, FINALITY_FAST))
  PROVE  Delivers(Burn(resolveRoute(source, destination), quoteFee(fees, FINALITY_FAST),
                       amount, recipient),
                  destination, recipient, amount, fees)
<1> DEFINE route == resolveRoute(source, destination)
           quote == quoteFee(fees, FINALITY_FAST)
           burn == Burn(route, quote, amount, recipient)
<1>1. /\ burn.at = route.tokenMessenger /\ burn.domain = route.domain
      /\ burn.total = amount + quote.maxFee /\ burn.maxFee = quote.maxFee
      /\ burn.threshold = quote.minFinalityThreshold /\ burn.mintRecipient = recipient
  BY DEF Burn
<1>2. MintedOn(route.tokenMessenger, route.domain) = {destination}
  BY RouteMintsOnce
<1>3. /\ quote.maxFee \in Nat
      /\ \A charge \in Charges(fees, quote.minFinalityThreshold) :
           charge \in Nat /\ charge <= quote.maxFee
  BY QuoteCovers
<1> HIDE DEF route, quote, burn
<1>4. Delivers(burn, destination, recipient, amount, fees)
  BY <1>1, <1>2, <1>3 DEF Delivers
<1>5. QED
  BY <1>4 DEF burn, route, quote

(* The funding plan: refused, or a burn that delivers and an allowance for  *)
(* it, to a chain a vault settles on.                                       *)
LEMMA FundingDelivers ==
  ASSUME NEW source, NEW destination, NEW vault, NEW amount \in Nat,
         NEW fees, Published(fees)
  PROVE  LET plan == buildArcFundingPlan(source, destination, vault, amount, fees)
         IN  \/ "burn" \notin DOMAIN plan /\ "approved" \notin DOMAIN plan
             \/ /\ Delivers(plan.burn, destination, vault, amount, fees)
                /\ plan.approved = [spender |-> plan.burn.at, amount |-> plan.burn.total]
                /\ isVaultSettledChain(destination)
<1> DEFINE plan == buildArcFundingPlan(source, destination, vault, amount, fees)
           route == resolveRoute(source, destination)
           quote == quoteFee(fees, FINALITY_FAST)
<1>1. ASSUME NEW stage PROVE DOMAIN Refused(stage) = {"refused"}
  BY DEF Refused
<1>2. CASE amount = 0 \/ ~Supported(source) \/ ~Supported(destination)
           \/ SUPPORTED_CHAINS[destination].executionBackend # "arc-vault"
  BY <1>1, <1>2 DEF buildArcFundingPlan
<1>3. CASE ~(amount = 0 \/ ~Supported(source) \/ ~Supported(destination)
             \/ SUPPORTED_CHAINS[destination].executionBackend # "arc-vault")
  <2>1. plan = IF IsRefused(route) THEN route ELSE IF IsRefused(quote) THEN quote
               ELSE [approved |-> [spender |-> route.tokenMessenger,
                                   amount |-> amount + quote.maxFee],
                     burn |-> Burn(route, quote, amount, vault)]
    BY <1>3 DEF buildArcFundingPlan
  <2>2. isVaultSettledChain(destination)
    BY <1>3, ChainEntry
    DEF Supported, Entry, isVaultSettledChain, canSettleOnChain, settlementBackendForChainId
  <2>3. CASE IsRefused(route)
    <3>1. DOMAIN route = {"refused"}
      BY <1>1, <2>3 DEF resolveRoute, IsRefused
    <3>2. QED
      BY <2>1, <2>3, <3>1
  <2>4. CASE ~IsRefused(route) /\ IsRefused(quote)
    <3>1. DOMAIN quote = {"refused"}
      BY <1>1, <2>4 DEF quoteFee, IsRefused
    <3>2. QED
      BY <2>1, <2>4, <3>1
  <2>5. CASE ~IsRefused(route) /\ ~IsRefused(quote)
    <3>1. Delivers(Burn(route, quote, amount, vault), destination, vault, amount, fees)
      BY <2>5, BurnDelivers
    <3>2. /\ plan.burn = Burn(route, quote, amount, vault)
          /\ plan.approved = [spender |-> route.tokenMessenger,
                              amount |-> amount + quote.maxFee]
      BY <2>1, <2>5
    <3>3. /\ plan.burn.at = route.tokenMessenger
          /\ plan.burn.total = amount + quote.maxFee
      BY <3>2 DEF Burn
    <3>4. QED
      BY <2>2, <3>1, <3>2, <3>3
  <2>6. QED
    BY <2>3, <2>4, <2>5
<1>4. QED
  BY <1>2, <1>3

(* A vault's payment: a payout or a refusal for want of money or of a fee,  *)
(* or a burn that delivers.                                                 *)
LEMMA PayoutDelivers ==
  ASSUME NEW source \in Chain, NEW destination \in DefaultDestinations(source),
         NEW recipient, NEW amount \in Nat, NEW fees, Published(fees),
         NEW available, NEW reserve
  PROVE  LET paid == executeArcVaultPayout(source, destination, recipient, amount, fees,
                                           available, reserve)
         IN  /\ "approved" \notin DOMAIN paid
             /\ "burn" \in DOMAIN paid =>
                  Delivers(paid.burn, destination, recipient, amount, fees)
             /\ IsRefused(paid) => paid.refused \in {"fee", "forwarding", "funds", "reserve"}
<1> DEFINE paid == executeArcVaultPayout(source, destination, recipient, amount, fees,
                                         available, reserve)
           route == resolveRoute(source, destination)
           quote == quoteFee(fees, FINALITY_FAST)
<1>1. ASSUME NEW stage
      PROVE  DOMAIN Refused(stage) = {"refused"} /\ Refused(stage).refused = stage
  BY DEF Refused
<1>2. CASE destination = source
  <2>1. \/ paid = Refused("funds")
        \/ paid = [kind |-> "payout", recipient |-> recipient, amount |-> amount]
    BY <1>2 DEF executeArcVaultPayout
  <2>2. QED
    BY <1>1, <2>1 DEF IsRefused
<1>3. CASE destination # source
  <2>1. ~IsRefused(route)
    BY <1>3, PermittedHasRoute
  <2>2. CASE IsRefused(quote)
    <3>1. paid = quote
      BY <1>3, <2>1, <2>2 DEF executeArcVaultPayout
    <3>2. quote \in {Refused("fee"), Refused("forwarding")}
      BY <2>2 DEF quoteFee, IsRefused
    <3>3. QED
      BY <1>1, <3>1, <3>2
  <2>3. CASE ~IsRefused(quote)
    <3>1. Delivers(Burn(route, quote, amount, recipient), destination, recipient, amount, fees)
      BY <2>1, <2>3, BurnDelivers
    <3>2. \/ paid = Refused("funds") \/ paid = Refused("reserve")
          \/ paid = [burn |-> Burn(route, quote, amount, recipient)]
      BY <1>3, <2>1, <2>3 DEF executeArcVaultPayout
    <3>3. QED
      BY <1>1, <3>1, <3>2 DEF IsRefused
  <2>4. QED
    BY <2>2, <2>3
<1>4. QED
  BY <1>2, <1>3

(* A burn mints on the chain that was asked for, for the recipient, and     *)
(* delivers the whole amount, for every account, amount and published fee.  *)
THEOREM BurnsDeliver == RulesSpec => []TransfersDeliver
<1>1. Init => TransfersDeliver
  BY DEF Init, Unanswered, TransfersDeliver
<1>2. TransfersDeliver /\ [Next]_vars => TransfersDeliver'
  <2> SUFFICES ASSUME TransfersDeliver, [Next]_vars PROVE TransfersDeliver'
    OBVIOUS
  <2>1. CASE FundArc
    <3>1. PICK source \in Chain \cup {UnknownId}, destination \in Chain \cup {UnknownId},
               vault \in Account, amount \in Amount, fees \in FeeReply :
            /\ asked' = [kind |-> "fund", source |-> source, fees |-> fees,
                         amount |-> amount, destination |-> destination,
                         recipient |-> vault]
            /\ answer' = buildArcFundingPlan(source, destination, vault, amount, fees)
      BY <2>1 DEF FundArc
    <3>2. amount \in Nat /\ Published(fees)
      BY RulesAssumption
    <3>3. /\ asked'.kind = "fund" /\ asked'.destination = destination
          /\ asked'.recipient = vault /\ asked'.amount = amount /\ asked'.fees = fees
      BY <3>1
    <3>4. \/ "burn" \notin DOMAIN answer' /\ "approved" \notin DOMAIN answer'
          \/ /\ Delivers(answer'.burn, destination, vault, amount, fees)
             /\ answer'.approved = [spender |-> answer'.burn.at,
                                    amount |-> answer'.burn.total]
             /\ isVaultSettledChain(destination)
      BY <3>1, <3>2, FundingDelivers
    <3>5. QED
      BY <3>3, <3>4 DEF TransfersDeliver, Delivers
  <2>2. CASE PayFromVault
    <3>1. PICK source \in {c \in Chain : isVaultSettledChain(c)}, recipient \in Account,
               amount \in Amount, fees \in FeeReply,
               available \in Reserve, reserve \in Reserve :
            \E destination \in DefaultDestinations(source) :
              /\ asked' = [kind |-> "pay", source |-> source, fees |-> fees,
                           amount |-> amount, destination |-> destination,
                           recipient |-> recipient]
              /\ answer' = executeArcVaultPayout(source, destination, recipient, amount,
                                                 fees, available, reserve)
      BY <2>2 DEF PayFromVault
    <3>2. PICK destination \in DefaultDestinations(source) :
            /\ asked' = [kind |-> "pay", source |-> source, fees |-> fees,
                         amount |-> amount, destination |-> destination,
                         recipient |-> recipient]
            /\ answer' = executeArcVaultPayout(source, destination, recipient, amount,
                                               fees, available, reserve)
      BY <3>1
    <3>3. source \in Chain /\ amount \in Nat /\ Published(fees)
      BY RulesAssumption
    <3>4. /\ asked'.kind = "pay" /\ asked'.destination = destination
          /\ asked'.recipient = recipient /\ asked'.amount = amount /\ asked'.fees = fees
      BY <3>2
    <3>5. /\ "approved" \notin DOMAIN answer'
          /\ "burn" \in DOMAIN answer' =>
               Delivers(answer'.burn, destination, recipient, amount, fees)
          /\ IsRefused(answer') =>
               answer'.refused \in {"fee", "forwarding", "funds", "reserve"}
      BY <3>2, <3>3, PayoutDelivers
    <3>6. QED
      BY <3>4, <3>5 DEF TransfersDeliver, Delivers
  <2>3. CASE Spend
    <3>1. asked'.kind = "spend" /\ "burn" \notin DOMAIN answer'
          /\ "approved" \notin DOMAIN answer'
      BY <2>3 DEF Spend
    <3>2. QED
      BY <3>1 DEF TransfersDeliver
  <2>4. CASE UNCHANGED vars
    BY <2>4 DEF vars, TransfersDeliver
  <2>5. QED
    BY <2>1, <2>2, <2>3, <2>4 DEF Next
<1>3. QED
  BY <1>1, <1>2, PTL DEF RulesSpec
=============================================================================
