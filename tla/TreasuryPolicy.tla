--------------------------- MODULE TreasuryPolicy ---------------------------
(***************************************************************************)
(* One treasury policy: the GenLayer contract TreasuryPolicy.py.           *)
(*                                                                         *)
(* Every public write of the contract is an action.  A write that raises   *)
(* is rolled back by GenLayer, so the conditions under which the code      *)
(* raises are negated in the action's guard and a raising call is a        *)
(* stuttering step.  Named guards (CanClaim, CanRecordExecution, ...) let  *)
(* the module that composes the contract with its callers say when a call  *)
(* is refused.                                                             *)
(*                                                                         *)
(* The clock `now' counts abstract time units: the contract only compares  *)
(* differences of timestamps with a week and with the ten minute lease.    *)
(* Transaction hashes are members of a set; texts (category,               *)
(* justification, reasoning, policy text) are left out, and so are the     *)
(* checks on their length and format, which only ever raise.  The LLM's    *)
(* verdict is a free choice.                                               *)
(***************************************************************************)
EXTENDS Integers, Functions

CONSTANTS
  RequestId,        \* request ids the spend API can derive
  Recipient,        \* payee addresses
  Account,          \* addresses that may call the contracts or act as agent
  Owner,            \* the human wallet that owns the policy
  Gateway,          \* the platform account that owns the registry
  InvoiceKey,       \* invoice keys produced by evidence verification
  NoInvoice,        \* the empty invoice key
  Chain,            \* chain ids
  SettlementChain,  \* evm_chain_id of this policy
  Backend,          \* settlement_backend: "arc-vault" or "delegated-7710"
  Hash,             \* transaction hashes
  NoHash,           \* the empty hash
  NoRequest,        \* an unused entry of evidence_keys
  Amount,           \* amounts a spend request may carry
  Cap,              \* values the owner may choose for a cap
  Week,             \* length of the budget window
  Lease,            \* length of an execution lease
  MaxTime,          \* bound on the clock
  MaxNonce          \* bound on the number of policy administration calls

ASSUME AccountAssumption == Owner \in Account /\ Gateway \in Account
ASSUME ChainAssumption   == /\ SettlementChain \in Chain
                            /\ Backend \in {"arc-vault", "delegated-7710"}
ASSUME NullAssumption    == /\ NoHash \notin Hash
                            /\ NoInvoice \notin InvoiceKey
                            /\ NoRequest \notin RequestId
ASSUME NumberAssumption  == /\ Amount \subseteq Nat
                            /\ Cap \subseteq Nat
                            /\ Week \in Nat \ {0} /\ Lease \in Nat
                            /\ MaxTime \in Nat /\ MaxNonce \in Nat

VARIABLES
  requests,         \* stored PolicyRequest records; verdict "none" = not stored
  evidence_keys,    \* which request consumed an invoice key
  weekly_spent,     \* weekly_spent_atto
  week_started_at,  \* start of the budget window, or Deployment
  policy,           \* the owner-controlled settings and their nonce
  binding,          \* the registry's record of this policy
  now               \* block time

vars == <<requests, evidence_keys, weekly_spent, week_started_at,
          policy, binding, now>>

budget == <<weekly_spent, week_started_at>>
settings == <<policy, binding>>

Deployment == -1    \* week_started_at = "deployment"
NoClaim == -1       \* execution_claimed_at = ""

Verdict == {"none", "approved", "denied"}
Status  == {"none", "not_applicable", "ready", "executing", "failed",
            "bridging", "executed"}
Route   == {"direct", "cctp"}

Terms == [recipient : Recipient, amount : Amount,
          invoice : InvoiceKey \cup {NoInvoice}, destination : Chain]

(* A stored request: the terms it was submitted with, the verdict, and the *)
(* trail of its execution.  `finalized' is not kept apart from the verdict: *)
(* queue_request stores, reviews and finalizes in one transaction, so every *)
(* stored request is finalized.                                            *)
Request == [terms : Terms, verdict : Verdict, status : Status,
            created_at : Nat, claimed_at : Nat \cup {NoClaim},
            tx_hash : Hash \cup {NoHash},
            bridge_tx_hash : Hash \cup {NoHash},
            destination_tx_hash : Hash \cup {NoHash}]

NotStored == [verdict |-> "none", status |-> "none"]

Policy == [authorized_agent : Account, execution_reporter : Account,
           per_tx_cap : Nat, weekly_cap : Nat,
           whitelist_enabled : BOOLEAN, whitelist : SUBSET Recipient,
           destinations : SUBSET Chain, policy_nonce : Nat,
           registered : SUBSET {"vault", "delegation"}]

Stored(r)     == requests[r].verdict # "none"
Approved(r)   == requests[r].verdict = "approved"
RouteOf(dest) == IF dest = SettlementChain THEN "direct" ELSE "cctp"
RouteOfRequest(r) == RouteOf(requests[r].terms.destination)

TypeOK ==
  /\ requests \in [RequestId -> Request \cup {NotStored}]
  /\ evidence_keys \in [InvoiceKey -> RequestId \cup {NoRequest}]
  /\ weekly_spent \in Nat
  /\ week_started_at \in Nat \cup {Deployment}
  /\ policy \in Policy
  /\ binding \in [active : BOOLEAN, agent : Account]
  /\ now \in Nat

-----------------------------------------------------------------------------
(* Deployment by the setup route, which also registers the policy with the *)
(* registry: the binding starts active and names the policy's agent.       *)
Init ==
  /\ requests = [r \in RequestId |-> NotStored]
  /\ evidence_keys = [k \in InvoiceKey |-> NoRequest]
  /\ weekly_spent = 0
  /\ week_started_at = Deployment
  /\ \E agent \in Account, perTx \in Cap, weekly \in Cap,
        listed \in SUBSET Recipient, others \in SUBSET Chain :
       /\ perTx <= weekly
       /\ policy = [authorized_agent |-> agent, execution_reporter |-> Gateway,
                    per_tx_cap |-> perTx, weekly_cap |-> weekly,
                    whitelist_enabled |-> listed # {}, whitelist |-> listed,
                    destinations |-> {SettlementChain} \cup others,
                    policy_nonce |-> 0, registered |-> {}]
       /\ binding = [active |-> TRUE, agent |-> agent]
  /\ now = 0

-----------------------------------------------------------------------------
(* _maybe_reset_weekly_window: what the two budget variables are once the  *)
(* call has rolled an elapsed window over.                                 *)
WindowElapsed ==
  week_started_at # Deployment /\ now - week_started_at >= Week

WindowSpent == IF WindowElapsed THEN 0 ELSE weekly_spent
WindowStart ==
  IF week_started_at = Deployment \/ WindowElapsed THEN now ELSE week_started_at

is_reporter(sender) == sender = policy.execution_reporter
is_owner_or_reporter(sender) ==
  sender \in {Owner, policy.execution_reporter}

(* _require_active_registry_binding, with the attribution check before it. *)
BindingAdmits(agent) ==
  /\ agent = policy.authorized_agent
  /\ binding.active
  /\ binding.agent = agent

(* The deterministic guards of queue_request, each of which stores a denial. *)
BreaksRule(t) ==
  \/ t.amount = 0
  \/ t.amount > policy.per_tx_cap
  \/ WindowSpent + t.amount > policy.weekly_cap
  \/ policy.whitelist_enabled /\ t.recipient \notin policy.whitelist
  \/ t.destination \notin policy.destinations

InvoiceUsed(t) == t.invoice \in InvoiceKey /\ evidence_keys[t.invoice] # NoRequest

(* Mutant: the evidence key is stored without looking it up.                *)
QueuesUsedInvoice(sender, agent, r, t) ==
  is_reporter(sender) /\ ~Stored(r) /\ BindingAdmits(agent)

(* A denial for a used invoice calls _store_deterministic_denial without   *)
(* the destination and route arguments, so that call raises: the request   *)
(* is not stored and the whole write is rolled back.                       *)
CanQueue(sender, agent, r, t) ==
  /\ is_reporter(sender)
  /\ ~Stored(r)
  /\ BindingAdmits(agent)
  /\ BreaksRule(t) \/ ~InvoiceUsed(t)

StoredRequest(t, verdict, status) ==
  [terms |-> t, verdict |-> verdict, status |-> status,
   created_at |-> now, claimed_at |-> NoClaim,
   tx_hash |-> NoHash, bridge_tx_hash |-> NoHash,
   destination_tx_hash |-> NoHash]

queue_request(sender, agent, r, t, approved) ==
  /\ CanQueue(sender, agent, r, t)
  /\ week_started_at' = WindowStart
  /\ \/ /\ BreaksRule(t)
        /\ requests' = [requests EXCEPT
                          ![r] = StoredRequest(t, "denied", "not_applicable")]
        /\ weekly_spent' = WindowSpent
        /\ UNCHANGED evidence_keys
     \/ /\ ~BreaksRule(t)
        /\ requests' = [requests EXCEPT
                          ![r] = IF approved
                                 THEN StoredRequest(t, "approved", "ready")
                                 ELSE StoredRequest(t, "denied", "not_applicable")]
        /\ weekly_spent' = IF approved THEN WindowSpent + t.amount ELSE WindowSpent
        /\ evidence_keys' = IF t.invoice \in InvoiceKey
                            THEN [evidence_keys EXCEPT ![t.invoice] = r]
                            ELSE evidence_keys
  /\ UNCHANGED <<settings, now>>

-----------------------------------------------------------------------------
(* Mutants: a lease that excludes nobody, a retry that skips the cap.       *)
LeaseAlwaysFree(r) == TRUE
RetryUnchecked(r) == TRUE

(* The execution lease.  A lease of a request already "executing" can be   *)
(* taken over once it is Lease old; a "failed" request is charged to the   *)
(* budget again; any other status is claimed as it is.                     *)
LeaseFree(r) ==
  requests[r].status = "executing" => now - requests[r].claimed_at >= Lease

RetryFits(r) ==
  requests[r].status = "failed" =>
    WindowSpent + requests[r].terms.amount <= policy.weekly_cap

(* Mutant: a claim that does not look for a recorded payment.               *)
ReclaimsExecuted(sender, r) ==
  is_reporter(sender) /\ Approved(r) /\ LeaseFree(r) /\ RetryFits(r)

CanClaim(sender, r) ==
  /\ is_reporter(sender)
  /\ Approved(r)
  /\ requests[r].tx_hash = NoHash
  /\ LeaseFree(r)
  /\ RetryFits(r)

(* Mutants: a retry is not charged again; a lease takeover is charged too;  *)
(* the claim keeps an earlier claim's time.                                 *)
ClaimUncharged(sender, r) ==
  /\ CanClaim(sender, r)
  /\ requests' = [requests EXCEPT ![r].status = "executing", ![r].claimed_at = now]
  /\ UNCHANGED <<evidence_keys, budget, settings, now>>

ClaimChargesTakeover(sender, r) ==
  /\ CanClaim(sender, r)
  /\ requests' = [requests EXCEPT ![r].status = "executing", ![r].claimed_at = now]
  /\ IF requests[r].status \in {"failed", "executing"}
     THEN /\ weekly_spent' = WindowSpent + requests[r].terms.amount
          /\ week_started_at' = WindowStart
     ELSE UNCHANGED budget
  /\ UNCHANGED <<evidence_keys, settings, now>>

ClaimUndated(sender, r) ==
  /\ CanClaim(sender, r)
  /\ requests' = [requests EXCEPT ![r].status = "executing"]
  /\ IF requests[r].status = "failed"
     THEN /\ weekly_spent' = WindowSpent + requests[r].terms.amount
          /\ week_started_at' = WindowStart
     ELSE UNCHANGED budget
  /\ UNCHANGED <<evidence_keys, settings, now>>

claim_execution(sender, r) ==
  /\ CanClaim(sender, r)
  /\ requests' = [requests EXCEPT ![r].status = "executing", ![r].claimed_at = now]
  /\ IF requests[r].status = "failed"
     THEN /\ weekly_spent' = WindowSpent + requests[r].terms.amount
          /\ week_started_at' = WindowStart
     ELSE UNCHANGED budget
  /\ UNCHANGED <<evidence_keys, settings, now>>

CanRecordExecution(sender, r) ==
  /\ is_reporter(sender)
  /\ Approved(r)
  /\ requests[r].status = "executing"
  /\ requests[r].tx_hash = NoHash

record_execution(sender, r, hash) ==
  /\ CanRecordExecution(sender, r)
  /\ requests' = [requests EXCEPT ![r].tx_hash = hash, ![r].status = "executed"]
  /\ UNCHANGED <<evidence_keys, budget, settings, now>>

CanRecordFailure(sender, r) ==
  /\ is_reporter(sender)
  /\ Approved(r)
  /\ requests[r].tx_hash = NoHash
  /\ requests[r].status = "executing"

(* Mutant: the refund is not guarded.                                       *)
RefundUnchecked(sender, r) ==
  /\ CanRecordFailure(sender, r)
  /\ requests' = [requests EXCEPT ![r].status = "failed", ![r].claimed_at = NoClaim]
  /\ weekly_spent' = weekly_spent - requests[r].terms.amount
  /\ UNCHANGED <<evidence_keys, week_started_at, settings, now>>

(* The refund does not roll the window over first, and is skipped when the *)
(* current window has less than the amount to give back.                   *)
record_execution_failure(sender, r) ==
  /\ CanRecordFailure(sender, r)
  /\ requests' = [requests EXCEPT ![r].status = "failed", ![r].claimed_at = NoClaim]
  /\ weekly_spent' = IF weekly_spent >= requests[r].terms.amount
                     THEN weekly_spent - requests[r].terms.amount
                     ELSE weekly_spent
  /\ UNCHANGED <<evidence_keys, week_started_at, settings, now>>

-----------------------------------------------------------------------------
(* Mutant: a payment on the policy's own chain may be recorded as a bridge. *)
BridgesDirect(sender, r) ==
  /\ is_reporter(sender)
  /\ Approved(r)
  /\ requests[r].status = "executing"
  /\ requests[r].bridge_tx_hash = NoHash

(* Cross-chain payments: the burn, then Circle's attestation and mint.     *)
CanRecordBridge(sender, r) ==
  /\ is_reporter(sender)
  /\ Approved(r)
  /\ RouteOfRequest(r) = "cctp"
  /\ requests[r].status = "executing"
  /\ requests[r].bridge_tx_hash = NoHash

record_bridge_initiated(sender, r, hash) ==
  /\ CanRecordBridge(sender, r)
  /\ requests' = [requests EXCEPT ![r].bridge_tx_hash = hash,
                                  ![r].status = "bridging"]
  /\ UNCHANGED <<evidence_keys, budget, settings, now>>

CanRecordAttested(sender, r) ==
  /\ is_reporter(sender)
  /\ Stored(r)
  /\ requests[r].bridge_tx_hash # NoHash
  /\ requests[r].status = "bridging"

(* Mutant: the request is not handed back for completion.                   *)
AttestedStaysBridging(sender, r, hash) ==
  /\ CanRecordAttested(sender, r)
  /\ requests' = [requests EXCEPT ![r].destination_tx_hash = hash]
  /\ UNCHANGED <<evidence_keys, budget, settings, now>>

record_bridge_attested(sender, r, hash) ==
  /\ CanRecordAttested(sender, r)
  /\ requests' = [requests EXCEPT ![r].destination_tx_hash = hash,
                                  ![r].status = "executing"]
  /\ UNCHANGED <<evidence_keys, budget, settings, now>>

-----------------------------------------------------------------------------
(* Administration.  Each signed change carries the policy nonce it was     *)
(* signed for.                                                             *)
TakesNonce(sender, nonce) ==
  /\ is_owner_or_reporter(sender)
  /\ nonce = policy.policy_nonce
  /\ policy.policy_nonce < MaxNonce

update_policy(sender, nonce, agent, reporter, perTx, weekly) ==
  /\ TakesNonce(sender, nonce)
  /\ perTx > 0 /\ weekly > 0
  /\ perTx <= weekly
  /\ policy' = [policy EXCEPT !.authorized_agent = agent,
                              !.execution_reporter = reporter,
                              !.per_tx_cap = perTx, !.weekly_cap = weekly,
                              !.policy_nonce = @ + 1]
  /\ UNCHANGED <<requests, evidence_keys, budget, binding, now>>

set_whitelist_entry(sender, nonce, recipient, allowed) ==
  /\ TakesNonce(sender, nonce)
  /\ policy' = [policy EXCEPT !.whitelist = IF allowed THEN @ \cup {recipient}
                                                       ELSE @ \ {recipient},
                              !.whitelist_enabled = TRUE,
                              !.policy_nonce = @ + 1]
  /\ UNCHANGED <<requests, evidence_keys, budget, binding, now>>

set_whitelist_enabled(sender, nonce, enabled) ==
  /\ TakesNonce(sender, nonce)
  /\ policy' = [policy EXCEPT !.whitelist_enabled = enabled,
                              !.policy_nonce = @ + 1]
  /\ UNCHANGED <<requests, evidence_keys, budget, binding, now>>

(* Mutant: the owner can disallow its own chain.                            *)
DisallowsOwnChain(sender, nonce, chain, allowed) ==
  /\ TakesNonce(sender, nonce)
  /\ policy' = [policy EXCEPT !.destinations = IF allowed THEN @ \cup {chain}
                                                          ELSE @ \ {chain},
                              !.policy_nonce = @ + 1]
  /\ UNCHANGED <<requests, evidence_keys, budget, binding, now>>

set_destination_chain_entry(sender, nonce, chain, allowed) ==
  /\ TakesNonce(sender, nonce)
  /\ chain = SettlementChain => allowed
  /\ policy' = [policy EXCEPT !.destinations = IF allowed THEN @ \cup {chain}
                                                          ELSE @ \ {chain},
                              !.policy_nonce = @ + 1]
  /\ UNCHANGED <<requests, evidence_keys, budget, binding, now>>

(* The settlement authority: an ERC-7715 delegation or, for a policy that  *)
(* settles from an Arc vault, the vault.  Both may be registered again;    *)
(* neither takes a nonce.                                                  *)
register_delegation(sender) ==
  /\ is_owner_or_reporter(sender)
  /\ policy' = [policy EXCEPT !.registered = @ \cup {"delegation"}]
  /\ UNCHANGED <<requests, evidence_keys, budget, binding, now>>

register_vault(sender) ==
  /\ is_owner_or_reporter(sender)
  /\ Backend = "arc-vault"
  /\ policy' = [policy EXCEPT !.registered = @ \cup {"vault"}]
  /\ UNCHANGED <<requests, evidence_keys, budget, binding, now>>

(* What the web application requires of the two before it submits or        *)
(* executes a request.                                                      *)
Authority == IF Backend = "arc-vault" THEN "vault" ELSE "delegation"

register_authority(sender) ==
  IF Authority = "vault" THEN register_vault(sender) ELSE register_delegation(sender)

(* TreasuryRegistry.set_policy_active: the kill switch this contract reads. *)
set_policy_active(sender, active) ==
  /\ sender \in {Gateway, Owner}
  /\ binding' = [binding EXCEPT !.active = active]
  /\ UNCHANGED <<requests, evidence_keys, budget, policy, now>>

(* Block time moves on.                                                    *)
Tick ==
  /\ now < MaxTime
  /\ now' = now + 1
  /\ UNCHANGED <<requests, evidence_keys, budget, settings>>

-----------------------------------------------------------------------------
RequestStep(sender, r) ==
  \/ \E agent \in Account, t \in Terms, approved \in BOOLEAN :
       queue_request(sender, agent, r, t, approved)
  \/ claim_execution(sender, r)
  \/ \E hash \in Hash : record_execution(sender, r, hash)
  \/ record_execution_failure(sender, r)
  \/ \E hash \in Hash : record_bridge_initiated(sender, r, hash)
  \/ \E hash \in Hash : record_bridge_attested(sender, r, hash)

AdminStep(sender, nonce) ==
  \/ \E agent, reporter \in Account, perTx, weekly \in Cap :
       update_policy(sender, nonce, agent, reporter, perTx, weekly)
  \/ \E recipient \in Recipient, allowed \in BOOLEAN :
       set_whitelist_entry(sender, nonce, recipient, allowed)
  \/ \E enabled \in BOOLEAN : set_whitelist_enabled(sender, nonce, enabled)
  \/ \E chain \in Chain, allowed \in BOOLEAN :
       set_destination_chain_entry(sender, nonce, chain, allowed)

Next ==
  \/ \E sender \in Account, r \in RequestId : RequestStep(sender, r)
  \/ \E sender \in Account, nonce \in 0..MaxNonce : AdminStep(sender, nonce)
  \/ \E sender \in Account : register_delegation(sender)
  \/ \E sender \in Account : register_vault(sender)
  \/ \E sender \in Account, active \in BOOLEAN : set_policy_active(sender, active)
  \/ Tick

Spec == Init /\ [][Next]_vars

-----------------------------------------------------------------------------
(* The trail a request leaves is consistent with its status: a denied       *)
(* request never has a transaction, "executed" is exactly the status with a *)
(* recorded transaction, a request can only bridge on a cross-chain route,  *)
(* and a destination transaction only follows a recorded burn.  Every       *)
(* handler checks a part of it; none checks all of it.                      *)
TrailOf(q, clock) ==
  /\ q.verdict = "denied" <=> q.status = "not_applicable"
  /\ q.verdict = "denied" => q.bridge_tx_hash = NoHash
  /\ q.status = "executed" <=> q.tx_hash # NoHash
  /\ q.status = "bridging" =>
        q.bridge_tx_hash # NoHash /\ q.destination_tx_hash = NoHash
  /\ q.bridge_tx_hash # NoHash => RouteOf(q.terms.destination) = "cctp"
  /\ q.destination_tx_hash # NoHash => q.bridge_tx_hash # NoHash
  /\ q.status \in {"executing", "bridging"} => q.claimed_at \in 0..clock

HashTrail == \A r \in RequestId : Stored(r) => TrailOf(requests[r], now)

(* One invoice pays once: two approved requests never carry the same        *)
(* invoice key, whatever was denied, failed or retried in between.          *)
InvoicePaidOnce ==
  \A r1, r2 \in RequestId :
    /\ Approved(r1) /\ Approved(r2)
    /\ requests[r1].terms.invoice \in InvoiceKey
    /\ requests[r1].terms.invoice = requests[r2].terms.invoice
    => r1 = r2

(* What makes it inductive: an approved request still owns its invoice key. *)
InvoiceOwned ==
  \A r \in RequestId :
    /\ Approved(r)
    /\ requests[r].terms.invoice \in InvoiceKey
    => evidence_keys[requests[r].terms.invoice] = r

(* The owner can never be locked out of its own chain: no sequence of       *)
(* deployment and allowlist changes removes the settlement chain.           *)
SettlementChainPayable == SettlementChain \in policy.destinations

(* A decision is final: once a request is stored its terms, verdict and     *)
(* creation time never change, and a recorded payment transaction is never  *)
(* replaced or reopened -- neither by a replayed submission, a retry, a     *)
(* late failure report nor a policy change.                                 *)
DecisionKept ==
  \A r \in RequestId : Stored(r) =>
    /\ requests'[r].terms = requests[r].terms
    /\ requests'[r].verdict = requests[r].verdict
    /\ requests'[r].created_at = requests[r].created_at
    /\ requests[r].tx_hash # NoHash => requests'[r] = requests[r]

DecisionIsFinal == [][DecisionKept]_vars

(* What the budget is meant to carry for each request: its amount, when it  *)
(* is approved and not refunded by a failure.                               *)
Charge ==
  [r \in RequestId |-> IF Approved(r) /\ requests[r].status # "failed"
                       THEN requests[r].terms.amount ELSE 0]

(* In the first budget window weekly_spent is exactly the total of the      *)
(* approved requests that have not been refunded: no failure refunds twice, *)
(* no retry runs uncharged, no lease takeover or bridge step charges again. *)
FirstWindow ==
  \A r \in RequestId : Stored(r) => requests[r].created_at >= week_started_at

FirstWindowLedger == FirstWindow => weekly_spent = SumFunction(Charge)

(* A charge never takes the budget past the weekly cap in force, whether it *)
(* charges a new approval or a retry of a refunded payment.                 *)
ChargeFits ==
  weekly_spent' > weekly_spent => weekly_spent' <= policy'.weekly_cap

ChargeWithinCap == [][ChargeFits]_vars

(* Money is only charged for a payment that still has to be made: the       *)
(* budget grows only in the step that makes a request "ready" or takes a    *)
(* refunded one back into execution, and by exactly its amount over the     *)
(* spend of the window the charge falls in.                                 *)
ChargeMatchesRequest ==
  [][weekly_spent' > weekly_spent =>
       \E r \in RequestId :
         /\ Approved(r)'
         /\ requests[r].status \in {"none", "failed"}
         /\ requests'[r].status \in {"ready", "executing"}
         /\ weekly_spent' - WindowSpent = requests'[r].terms.amount]_vars
=============================================================================
