-------------------------------- MODULE Rules --------------------------------
(***************************************************************************)
(* The decisions the web application takes without keeping state: whether  *)
(* a spend is admitted, what the agent is told about its policy, whether   *)
(* the executor will take the payment, and which CCTP burn pays it or      *)
(* funds a vault.  They are written in several places that have to agree.  *)
(*                                                                         *)
(* A behavior is one question and its answer.  The token of a policy is    *)
(* the USDC of its chain and is compared with it; what a policy says of    *)
(* its owner is what its binding says, since setup writes both.            *)
(***************************************************************************)
EXTENDS Chains, Sequences, FiniteSets, Functions

CONSTANTS
  Agent,        \* agent addresses
  Account,      \* funding accounts: smart accounts or vaults
  PolicyChain,  \* chains of the policies that are asked about
  UnknownId,    \* a chain id the registry does not have
  Amount,       \* amounts in base units
  FeeReply,     \* what Circle may answer when it is asked for fees
  Reserve       \* what a vault may hold, and may hold for fees

(* What Circle publishes for a route (external): nothing, or one entry per  *)
(* finality threshold in which a faster tier costs no less.                 *)
Tier == [low |-> 1, med |-> 2, high |-> 3]

Published(fees) ==
  /\ fees \in Seq(Range(fees))
  /\ \A i, j \in DOMAIN fees :
       fees[i].finalityThreshold = fees[j].finalityThreshold => i = j
  /\ \A e \in Range(fees) :
       /\ e.minimumFee \in Nat
       /\ e.forwardFee \in [DOMAIN e.forwardFee -> Nat]
       /\ DOMAIN e.forwardFee \subseteq DOMAIN Tier
       /\ \A s, t \in DOMAIN e.forwardFee :
            Tier[s] <= Tier[t] => e.forwardFee[s] <= e.forwardFee[t]

ASSUME RulesAssumption ==
  /\ \A fees \in FeeReply : Published(fees)
  /\ Amount \subseteq Nat /\ Reserve \subseteq Nat
  /\ UnknownId \notin Chain /\ PolicyChain \subseteq Chain

VARIABLES
  asked,   \* the question
  answer   \* what the code answers

vars == <<asked, answer>>

Unanswered == [kind |-> "none"]

-----------------------------------------------------------------------------
(* cctp.ts quoteFee.  A missing minimum fee counts as zero.                 *)

FINALITY_FAST == 1000

(* Mutant: the cheapest published forwarding tier.                          *)
LowestTier(forwardFee) ==
  IF "low" \in DOMAIN forwardFee THEN forwardFee.low
  ELSE IF "med" \in DOMAIN forwardFee THEN forwardFee.med
  ELSE IF "high" \in DOMAIN forwardFee THEN forwardFee.high ELSE 0

HighestTier(forwardFee) ==
  IF "high" \in DOMAIN forwardFee THEN forwardFee.high
  ELSE IF "med" \in DOMAIN forwardFee THEN forwardFee.med
  ELSE IF "low" \in DOMAIN forwardFee THEN forwardFee.low ELSE 0

EntryFor(fees, wanted) ==
  LET matching == {i \in DOMAIN fees : fees[i].finalityThreshold = wanted}
  IN  fees[IF matching = {} THEN 1
           ELSE CHOOSE i \in matching : \A j \in matching : i <= j]

quoteFee(fees, wanted) ==
  IF fees = <<>> THEN Refused("fee")
  ELSE LET entry == EntryFor(fees, wanted)
           forwardFee == HighestTier(entry.forwardFee)
       IN  IF forwardFee = 0 THEN Refused("forwarding")
           ELSE [maxFee |-> entry.minimumFee + forwardFee,
                 minFinalityThreshold |-> entry.finalityThreshold]

(* Circle (external): what it may charge for a forwarded burn, by the fees  *)
(* it published for the burn's threshold.                                   *)
Charges(fees, threshold) ==
  UNION {{e.minimumFee + e.forwardFee[tier] : tier \in DOMAIN e.forwardFee} :
         e \in {e \in Range(fees) : e.finalityThreshold = threshold}}

-----------------------------------------------------------------------------
(* arcFunding.ts and arcVault.ts *)

Burn(route, quote, amount, recipient) ==
  [kind |-> "burn", at |-> route.tokenMessenger, domain |-> route.domain,
   total |-> amount + quote.maxFee, maxFee |-> quote.maxFee,
   threshold |-> quote.minFinalityThreshold, mintRecipient |-> recipient]

(* The transactions the owner signs: an allowance and a burn.               *)
buildArcFundingPlan(source, destination, vault, amount, fees) ==
  IF amount = 0 THEN Refused("amount")
  ELSE IF ~Supported(source) THEN Refused("source")
  ELSE IF ~Supported(destination) THEN Refused("destination")
  ELSE IF SUPPORTED_CHAINS[destination].executionBackend # "arc-vault"
       THEN Refused("destination")
  ELSE LET route == resolveRoute(source, destination)
           quote == quoteFee(fees, FINALITY_FAST)
       IN  IF IsRefused(route) THEN route
           ELSE IF IsRefused(quote) THEN quote
           ELSE [approved |-> [spender |-> route.tokenMessenger,
                               amount |-> amount + quote.maxFee],
                 burn |-> Burn(route, quote, amount, vault)]

FundArc ==
  /\ answer = Unanswered
  /\ \E source, destination \in Chain \cup {UnknownId}, vault \in Account,
        amount \in Amount, fees \in FeeReply :
       /\ asked' = [kind |-> "fund", source |-> source, fees |-> fees, amount |-> amount,
                    destination |-> destination, recipient |-> vault]
       /\ answer' = buildArcFundingPlan(source, destination, vault, amount, fees)

(* planVaultPayout and the amounts preflightArcVaultPayout compares; the    *)
(* vault burns the amount and the fee.                                      *)
executeArcVaultPayout(source, destination, recipient, amount, fees, available, reserve) ==
  IF destination = source
  THEN IF amount = 0 \/ available < amount THEN Refused("funds")
       ELSE [kind |-> "payout", recipient |-> recipient, amount |-> amount]
  ELSE LET route == resolveRoute(source, destination)
           quote == quoteFee(fees, FINALITY_FAST)
       IN  IF IsRefused(route) THEN route
           ELSE IF IsRefused(quote) THEN quote
           ELSE IF amount = 0 \/ available < amount THEN Refused("funds")
           ELSE IF reserve < quote.maxFee THEN Refused("reserve")
           ELSE [burn |-> Burn(route, quote, amount, recipient)]

(* setup/route.ts: a new policy permits cctpDestinationChainIds, and its    *)
(* contract adds its own chain.                                             *)
DefaultDestinations(chain) == cctpDestinationChainIds(chain) \cup {chain}

PayFromVault ==
  /\ answer = Unanswered
  /\ \E source \in {c \in Chain : isVaultSettledChain(c)}, recipient \in Account,
        amount \in Amount, fees \in FeeReply, available, reserve \in Reserve :
     \E destination \in DefaultDestinations(source) :
       /\ asked' = [kind |-> "pay", source |-> source, fees |-> fees, amount |-> amount,
                    destination |-> destination, recipient |-> recipient]
       /\ answer' = executeArcVaultPayout(source, destination, recipient, amount,
                                          fees, available, reserve)

-----------------------------------------------------------------------------
(* apiServer.ts: the policy as get_policy shows it, by contract version.    *)
(* Versions before 6 know nothing of vaults; version 4 is the last with a   *)
(* fast approval.  A binding, once registered, is a delegation payload or a *)
(* vault, which version 6 requires to be the policy's funding account.      *)

PolicyState ==
  [version : 4..6, threshold : 0..1, agent : Agent, account : Account,
   chain : {c \in PolicyChain : canSettleOnChain(c)}, reporter : {"platform", "other"},
   bound : BOOLEAN, weekly_spent : 0..1]

Deployed(policy) == /\ policy.threshold > 0 => policy.version = 4
                    /\ policy.version < 6 => ~isVaultSettledChain(policy.chain)

settlement_backend(policy) ==
  IF policy.version < 6 THEN "delegated-7710" ELSE settlementBackendForChainId(policy.chain)

delegation_registered(policy) == policy.bound /\ ~isVaultSettledChain(policy.chain)
vault_registered(policy) == policy.bound /\ isVaultSettledChain(policy.chain)

(* The vault a policy names, or its funding account, which is an address.   *)
vaultAddressFor(policy) == policy.account

Claims == [agent : Agent, account : Account, chain : PolicyChain, keyVersion : 1..2]
Binding == [agent : Agent, account : Account, chain : PolicyChain,
            active : BOOLEAN, api_key_version : {2}]

SameFunding(x, y) == x.agent = y.agent /\ x.account = y.account /\ x.chain = y.chain

WeeklyCap == 1

(* Mutant: every policy is asked for a delegation.                          *)
ProfileAsksDelegation(policy) ==
  [settlement_backend |-> settlement_backend(policy),
   settlement_binding_registered |-> delegation_registered(policy)]

policySecurityProfile(policy) ==
  [settlement_backend |-> settlement_backend(policy),
   settlement_binding_registered |->
     IF settlement_backend(policy) = "arc-vault" THEN vault_registered(policy)
                                                 ELSE delegation_registered(policy)]

spendBlockers(policy, balance) ==
  LET profile == policySecurityProfile(policy)
  IN  (IF profile.settlement_binding_registered THEN {}
       ELSE {IF profile.settlement_backend = "arc-vault" THEN "vault_not_registered"
                                                         ELSE "delegation_not_registered"})
      \cup (IF balance = 0 THEN {"vault_unfunded"} ELSE {})
      \cup (IF policy.weekly_spent >= WeeklyCap THEN {"weekly_cap_exhausted"} ELSE {})

(* An empty list allows every policy.                                       *)
assertPolicyAllowed(deployment) ==
  deployment.allowed = {} \/ "policy" \in deployment.allowed

assertPolicyMatchesApiKey(policy, claims, deployment) ==
  /\ policy.version >= 4
  /\ policy.threshold = 0
  /\ SameFunding(policy, claims)
  /\ policy.reporter = "platform"
  /\ canSettleOnChain(claims.chain)
  /\ IF isVaultSettledChain(claims.chain)
     THEN /\ assertSettlementAvailable(claims.chain, deployment.arcSettlementEnabled)
          /\ policy.version >= 6 => vault_registered(policy)
     ELSE delegation_registered(policy)

assertRegistryBinding(binding, claims) ==
  /\ binding.active
  /\ SameFunding(binding, claims)
  /\ binding.api_key_version = claims.keyVersion

submitSpendThroughPolicy(policy, claims, binding, deployment) ==
  /\ assertPolicyAllowed(deployment)
  /\ assertPolicyMatchesApiKey(policy, claims, deployment)
  /\ assertRegistryBinding(binding, claims)

(* What the executor checks before it claims.                               *)
executeApprovedPolicyRequest(policy, binding, deployment) ==
  /\ assertPolicyAllowed(deployment)
  /\ policy.reporter = "platform"
  /\ IF isVaultSettledChain(policy.chain)
     THEN /\ assertSettlementAvailable(policy.chain, deployment.arcSettlementEnabled)
          /\ vaultAddressFor(policy) \in Account
     ELSE delegation_registered(policy)
  /\ binding.active
  /\ SameFunding(binding, policy)

Spend ==
  /\ answer = Unanswered
  /\ \E policy \in PolicyState, claims \in Claims, binding \in Binding, balance \in 0..1,
        deployment \in [arcSettlementEnabled : BOOLEAN, allowed : SUBSET {"policy", "other"}] :
       /\ Deployed(policy)
       /\ asked' = [kind |-> "spend", policy |-> policy, claims |-> claims, binding |-> binding]
       /\ answer' =
            [kind |-> "admission",
             admitted |-> submitSpendThroughPolicy(policy, claims, binding, deployment),
             executable |-> executeApprovedPolicyRequest(policy, binding, deployment),
             bound |-> policySecurityProfile(policy).settlement_binding_registered,
             blockers |-> spendBlockers(policy, balance)]

-----------------------------------------------------------------------------
Init == asked = Unanswered /\ answer = Unanswered

Next == FundArc \/ PayFromVault \/ Spend

RulesSpec == Init /\ [][Next]_vars

-----------------------------------------------------------------------------
(* apiServer.ts:241-242, 120-122 -- "each backend is checked against the    *)
(* binding it actually requires": what spend admits, the policy and balance *)
(* routes report as bound, and the executor will not refuse; and a key that *)
(* names the policy and binding the executor would pay from is admitted.    *)
AdmissionAgrees ==
  asked.kind = "spend" =>
    /\ answer.admitted =>
         /\ answer.bound /\ answer.executable
         /\ answer.blockers \subseteq {"vault_unfunded", "weekly_cap_exhausted"}
    /\ /\ answer.executable /\ answer.bound /\ asked.policy.threshold = 0
       /\ SameFunding(asked.claims, asked.binding)
       /\ asked.claims.keyVersion = asked.binding.api_key_version
       => answer.admitted

(* arcFunding.ts:110, "burning amount + maxFee delivers amount"; cctp.ts    *)
(* 99-105; shared/src/index.ts:488-494.  A burn is minted on the chain that *)
(* was asked for and nowhere else, for the recipient, and leaves the whole  *)
(* amount whatever Circle charges of what it published for its threshold;   *)
(* the owner's allowance covers it.  A vault is only refused a destination  *)
(* its policy permits for want of money or of a fee from Circle.            *)
TransfersDeliver ==
  /\ "burn" \in DOMAIN answer =>
       /\ MintedOn(answer.burn.at, answer.burn.domain) = {asked.destination}
       /\ answer.burn.mintRecipient = asked.recipient
       /\ \A charge \in Charges(asked.fees, answer.burn.threshold) :
            /\ charge <= answer.burn.maxFee
            /\ answer.burn.total - charge >= asked.amount
  /\ "approved" \in DOMAIN answer =>
       /\ answer.approved = [spender |-> answer.burn.at, amount |-> answer.burn.total]
       /\ isVaultSettledChain(asked.destination)
  /\ asked.kind = "pay" /\ IsRefused(answer) =>
       answer.refused \in {"fee", "forwarding", "funds", "reserve"}
=============================================================================
