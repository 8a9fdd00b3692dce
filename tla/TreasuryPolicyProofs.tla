------------------------ MODULE TreasuryPolicyProofs ------------------------
(***************************************************************************)
(* Theorems about TreasuryPolicy, for every choice of its constants.       *)
(***************************************************************************)
EXTENDS TreasuryPolicy, FiniteSetTheorems, TLAPS

(* A stored request is a full record: only the marker of an unused id is   *)
(* not.                                                                    *)
LEMMA StoredIsRequest ==
  ASSUME TypeOK, NEW r \in RequestId, Stored(r)
  PROVE  requests[r] \in Request
BY DEF TypeOK, Stored, NotStored

(* Replacing one entry of the store by a record keeps the store typed.     *)
LEMMA StoreTyped ==
  ASSUME TypeOK, NEW r \in RequestId, NEW q \in Request
  PROVE  [requests EXCEPT ![r] = q] \in [RequestId -> Request \cup {NotStored}]
BY DEF TypeOK

(* What the window roll-over returns is a budget again.                    *)
LEMMA WindowTyped ==
  ASSUME TypeOK
  PROVE  WindowSpent \in Nat /\ WindowStart \in Nat \cup {Deployment}
BY DEF TypeOK, WindowSpent, WindowStart

(* A freshly stored request is a record of the store.                      *)
LEMMA FreshTyped ==
  ASSUME TypeOK, NEW t \in Terms,
         NEW v \in {"approved", "denied"}, NEW s \in {"ready", "not_applicable"}
  PROVE  StoredRequest(t, v, s) \in Request
BY NullAssumption DEF TypeOK, StoredRequest, Request, Verdict, Status, NoClaim

(* A policy is deployed with a typed, empty state.                         *)
LEMMA TypeInit == Init => TypeOK
<1> SUFFICES ASSUME Init PROVE TypeOK
  OBVIOUS
<1>1. PICK agent \in Account, perTx \in Cap, weekly \in Cap,
           listed \in SUBSET Recipient, others \in SUBSET Chain :
        /\ policy = [authorized_agent |-> agent, execution_reporter |-> Gateway,
                     per_tx_cap |-> perTx, weekly_cap |-> weekly,
                     whitelist_enabled |-> listed # {}, whitelist |-> listed,
                     destinations |-> {SettlementChain} \cup others,
                     policy_nonce |-> 0, registered |-> {}]
        /\ binding = [active |-> TRUE, agent |-> agent]
  BY DEF Init
<1>2. policy \in Policy
  BY <1>1, AccountAssumption, ChainAssumption, NumberAssumption DEF Policy
<1>3. QED
  BY <1>1, <1>2 DEF Init, TypeOK, Deployment

(* Storing a denied or an approved request keeps the types.                *)
LEMMA TypeQueue ==
  ASSUME TypeOK, NEW sender \in Account, NEW agent \in Account,
         NEW r \in RequestId, NEW t \in Terms, NEW approved \in BOOLEAN,
         queue_request(sender, agent, r, t, approved)
  PROVE  TypeOK'
<1>1. t.amount \in Nat
  BY NumberAssumption DEF Terms
<1>2. /\ WindowSpent \in Nat /\ WindowStart \in Nat \cup {Deployment}
      /\ weekly_spent' \in Nat
      /\ week_started_at' \in Nat \cup {Deployment}
  BY <1>1, WindowTyped DEF queue_request
<1>3. requests' \in [RequestId -> Request \cup {NotStored}]
  <2>1. CASE requests' = [requests EXCEPT
                           ![r] = StoredRequest(t, "denied", "not_applicable")]
    BY <2>1, FreshTyped, StoreTyped
  <2>2. CASE requests' = [requests EXCEPT
                           ![r] = StoredRequest(t, "approved", "ready")]
    BY <2>2, FreshTyped, StoreTyped
  <2>3. QED
    BY <2>1, <2>2 DEF queue_request
<1>4. evidence_keys' \in [InvoiceKey -> RequestId \cup {NoRequest}]
  BY DEF queue_request, TypeOK
<1>5. QED
  BY <1>2, <1>3, <1>4 DEF queue_request, TypeOK, settings

(* The writes that work on one stored request keep the types.              *)
LEMMA TypeRequestUpdate ==
  ASSUME TypeOK, NEW r \in RequestId,
         NEW hash \in Hash \cup {NoHash}, NEW sender \in Account,
         \/ claim_execution(sender, r)
         \/ record_execution(sender, r, hash)
         \/ record_execution_failure(sender, r)
         \/ record_bridge_initiated(sender, r, hash)
         \/ record_bridge_attested(sender, r, hash)
  PROVE  TypeOK'
<1>1. Stored(r)
  BY DEF claim_execution, record_execution, record_execution_failure,
         record_bridge_initiated, record_bridge_attested, CanClaim,
         CanRecordExecution, CanRecordFailure, CanRecordBridge,
         CanRecordAttested, Approved, Stored
<1>2. requests[r] \in Request
  BY <1>1, StoredIsRequest
<1>3. requests[r].terms.amount \in Nat
  BY <1>2, NumberAssumption DEF Request, Terms
<1>4. /\ WindowSpent \in Nat /\ WindowStart \in Nat \cup {Deployment}
      /\ weekly_spent' \in Nat
      /\ week_started_at' \in Nat \cup {Deployment}
  BY <1>3, WindowTyped
  DEF claim_execution, record_execution, record_execution_failure,
      record_bridge_initiated, record_bridge_attested, budget, TypeOK
<1>5. PICK q \in Request : requests' = [requests EXCEPT ![r] = q]
  <2>1. CASE claim_execution(sender, r)
    <3> DEFINE q == [requests[r] EXCEPT !.status = "executing", !.claimed_at = now]
    <3>1. q \in Request
      BY <1>2 DEF Request, Status, TypeOK
    <3>2. requests' = [requests EXCEPT ![r] = q]
      BY <2>1, <1>2 DEF claim_execution, TypeOK, Request
    <3> QED BY <3>1, <3>2
  <2>2. CASE record_execution(sender, r, hash)
    <3> DEFINE q == [requests[r] EXCEPT !.tx_hash = hash, !.status = "executed"]
    <3>1. q \in Request
      BY <1>2 DEF Request, Status
    <3>2. requests' = [requests EXCEPT ![r] = q]
      BY <2>2, <1>2 DEF record_execution, TypeOK, Request
    <3> QED BY <3>1, <3>2
  <2>3. CASE record_execution_failure(sender, r)
    <3> DEFINE q == [requests[r] EXCEPT !.status = "failed", !.claimed_at = NoClaim]
    <3>1. q \in Request
      BY <1>2 DEF Request, Status
    <3>2. requests' = [requests EXCEPT ![r] = q]
      BY <2>3, <1>2 DEF record_execution_failure, TypeOK, Request
    <3> QED BY <3>1, <3>2
  <2>4. CASE record_bridge_initiated(sender, r, hash)
    <3> DEFINE q == [requests[r] EXCEPT !.bridge_tx_hash = hash, !.status = "bridging"]
    <3>1. q \in Request
      BY <1>2 DEF Request, Status
    <3>2. requests' = [requests EXCEPT ![r] = q]
      BY <2>4, <1>2 DEF record_bridge_initiated, TypeOK, Request
    <3> QED BY <3>1, <3>2
  <2>5. CASE record_bridge_attested(sender, r, hash)
    <3> DEFINE q == [requests[r] EXCEPT !.destination_tx_hash = hash,
                                        !.status = "executing"]
    <3>1. q \in Request
      BY <1>2 DEF Request, Status
    <3>2. requests' = [requests EXCEPT ![r] = q]
      BY <2>5, <1>2 DEF record_bridge_attested, TypeOK, Request
    <3> QED BY <3>1, <3>2
  <2>6. QED
    BY <2>1, <2>2, <2>3, <2>4, <2>5
<1>6. requests' \in [RequestId -> Request \cup {NotStored}]
  BY <1>5, StoreTyped
<1>7. QED
  BY <1>4, <1>6
  DEF claim_execution, record_execution, record_execution_failure,
      record_bridge_initiated, record_bridge_attested, TypeOK, settings

(* The settings stay typed when any of their fields is replaced by one of  *)
(* its type and the nonce is counted up.                                   *)
LEMMA TypeAdmin ==
  ASSUME TypeOK, NEW sender \in Account, NEW nonce \in 0..MaxNonce,
         AdminStep(sender, nonce)
  PROVE  TypeOK'
<1>1. policy \in Policy /\ policy.policy_nonce + 1 \in Nat
  BY DEF TypeOK, Policy
<1>2. ASSUME NEW agent \in Account, NEW reporter \in Account,
             NEW perTx \in Cap, NEW weekly \in Cap,
             update_policy(sender, nonce, agent, reporter, perTx, weekly)
      PROVE  policy' \in Policy
  <2>1. perTx \in Nat /\ weekly \in Nat
    BY NumberAssumption
  <2>2. QED
    BY <1>1, <1>2, <2>1 DEF update_policy, Policy
<1>3. ASSUME NEW recipient \in Recipient, NEW allowed \in BOOLEAN,
             set_whitelist_entry(sender, nonce, recipient, allowed)
      PROVE  policy' \in Policy
  <2> DEFINE listed == IF allowed THEN policy.whitelist \cup {recipient}
                                  ELSE policy.whitelist \ {recipient}
  <2>1. listed \in SUBSET Recipient
    BY <1>1 DEF Policy
  <2>2. policy' = [policy EXCEPT !.whitelist = listed,
                                 !.whitelist_enabled = TRUE,
                                 !.policy_nonce = policy.policy_nonce + 1]
    BY <1>3 DEF set_whitelist_entry
  <2> HIDE DEF listed
  <2>3. QED
    BY <1>1, <2>1, <2>2 DEF Policy
<1>4. ASSUME NEW enabled \in BOOLEAN,
             set_whitelist_enabled(sender, nonce, enabled)
      PROVE  policy' \in Policy
  BY <1>1, <1>4 DEF set_whitelist_enabled, Policy
<1>5. ASSUME NEW chain \in Chain, NEW allowed \in BOOLEAN,
             set_destination_chain_entry(sender, nonce, chain, allowed)
      PROVE  policy' \in Policy
  <2> DEFINE listed == IF allowed THEN policy.destinations \cup {chain}
                                  ELSE policy.destinations \ {chain}
  <2>1. listed \in SUBSET Chain
    BY <1>1 DEF Policy
  <2>2. policy' = [policy EXCEPT !.destinations = listed,
                                 !.policy_nonce = policy.policy_nonce + 1]
    BY <1>5 DEF set_destination_chain_entry
  <2> HIDE DEF listed
  <2>3. QED
    BY <1>1, <2>1, <2>2 DEF Policy
<1>6. UNCHANGED <<requests, evidence_keys, weekly_spent, week_started_at,
                  binding, now>>
  BY DEF AdminStep, update_policy, set_whitelist_entry, set_whitelist_enabled,
         set_destination_chain_entry, budget
<1>7. policy' \in Policy
  BY <1>2, <1>3, <1>4, <1>5 DEF AdminStep
<1>8. QED
  BY <1>6, <1>7 DEF TypeOK

(* Every step keeps the type invariant.                                    *)
LEMMA TypeStep == TypeOK /\ [Next]_vars => TypeOK'
<1> SUFFICES ASSUME TypeOK, [Next]_vars PROVE TypeOK'
  OBVIOUS
<1>1. ASSUME NEW sender \in Account, NEW r \in RequestId, RequestStep(sender, r)
      PROVE  TypeOK'
  <2>1. CASE \E agent \in Account, t \in Terms, approved \in BOOLEAN :
               queue_request(sender, agent, r, t, approved)
    BY <2>1, TypeQueue
  <2>2. CASE \E hash \in Hash \cup {NoHash} :
               \/ claim_execution(sender, r)
               \/ record_execution(sender, r, hash)
               \/ record_execution_failure(sender, r)
               \/ record_bridge_initiated(sender, r, hash)
               \/ record_bridge_attested(sender, r, hash)
    BY <2>2, TypeRequestUpdate
  <2>3. QED
    BY <1>1, <2>1, <2>2 DEF RequestStep
<1>2. ASSUME NEW sender \in Account, NEW nonce \in 0..MaxNonce,
             AdminStep(sender, nonce)
      PROVE  TypeOK'
  BY <1>2, TypeAdmin
<1>3. ASSUME NEW sender \in Account,
             register_delegation(sender) \/ register_vault(sender)
      PROVE  TypeOK'
  BY <1>3 DEF register_delegation, register_vault, TypeOK, Policy, budget
<1>4. ASSUME NEW sender \in Account, NEW active \in BOOLEAN,
             set_policy_active(sender, active)
      PROVE  TypeOK'
  BY <1>4 DEF set_policy_active, TypeOK, budget
<1>5. CASE Tick
  BY <1>5 DEF Tick, TypeOK, budget, settings
<1>6. CASE UNCHANGED vars
  BY <1>6 DEF vars, TypeOK
<1>7. QED
  BY <1>1, <1>2, <1>3, <1>4, <1>5, <1>6 DEF Next

(* The state of the contract always has the shape of its storage           *)
(* declarations: every public write and every roll-back keeps it.          *)
THEOREM TypeCorrect == Spec => []TypeOK
<1>1. QED
  BY TypeInit, TypeStep, PTL DEF Spec

-----------------------------------------------------------------------------
(* The inductive invariant behind the safety properties: the shape of every *)
(* stored trail, the ownership of invoice keys and the owner's own chain.   *)
PolicyInv == TypeOK /\ HashTrail /\ InvoiceOwned /\ SettlementChainPayable

(* A policy is deployed with the invariant: nothing is stored yet.          *)
LEMMA InvInit == Init => PolicyInv
<1> SUFFICES ASSUME Init PROVE PolicyInv
  OBVIOUS
<1>1. \A r \in RequestId : ~Stored(r) /\ ~Approved(r)
  BY DEF Init, Stored, Approved, NotStored
<1>2. SettlementChainPayable
  BY DEF Init, SettlementChainPayable
<1>3. QED
  BY <1>1, <1>2, TypeInit DEF PolicyInv, HashTrail, InvoiceOwned

(* A step that rewrites one stored request without touching its terms or    *)
(* verdict, and keeps that request's trail, keeps the invariant.            *)
LEMMA InvRequestUpdate ==
  ASSUME PolicyInv, TypeOK', NEW r \in RequestId, Stored(r),
         NEW q \in Request,
         requests' = [requests EXCEPT ![r] = q],
         q.terms = requests[r].terms, q.verdict = requests[r].verdict,
         TrailOf(q, now), UNCHANGED <<evidence_keys, policy, now>>
  PROVE  PolicyInv'
<1>1. \A x \in RequestId : x # r => requests'[x] = requests[x]
  BY DEF PolicyInv, TypeOK
<1>2. requests'[r] = q
  BY DEF PolicyInv, TypeOK
<1>3. HashTrail'
  BY <1>1, <1>2 DEF PolicyInv, HashTrail, Stored, TrailOf
<1>4. InvoiceOwned'
  BY <1>1, <1>2 DEF PolicyInv, InvoiceOwned, Approved
<1>5. SettlementChainPayable'
  BY DEF PolicyInv, SettlementChainPayable
<1>6. QED
  BY <1>3, <1>4, <1>5 DEF PolicyInv

(* A new request starts with a clean trail and takes an unused invoice key. *)
LEMMA InvQueue ==
  ASSUME PolicyInv, TypeOK', NEW sender \in Account, NEW agent \in Account,
         NEW r \in RequestId, NEW t \in Terms, NEW approved \in BOOLEAN,
         queue_request(sender, agent, r, t, approved)
  PROVE  PolicyInv'
<1> DEFINE denial   == StoredRequest(t, "denied", "not_applicable")
           approval == StoredRequest(t, "approved", "ready")
<1>1. ~Stored(r)
  BY DEF queue_request, CanQueue
<1>2. PICK q \in {denial, approval} : requests' = [requests EXCEPT ![r] = q]
  BY DEF queue_request
<1>3. /\ \A x \in RequestId : x # r => requests'[x] = requests[x]
      /\ requests'[r] = q
  BY <1>2 DEF PolicyInv, TypeOK
<1>4. TrailOf(q, now)
  BY <1>2 DEF StoredRequest, TrailOf
<1>5. HashTrail'
  BY <1>3, <1>4 DEF queue_request, PolicyInv, HashTrail, Stored, TrailOf
<1>6. InvoiceOwned'
  <2> SUFFICES ASSUME NEW x \in RequestId, Approved(x)',
                      requests'[x].terms.invoice \in InvoiceKey
               PROVE  evidence_keys'[requests'[x].terms.invoice] = x
    BY DEF InvoiceOwned
  <2>1. evidence_keys \in [InvoiceKey -> RequestId \cup {NoRequest}]
    BY DEF PolicyInv, TypeOK
  <2>2. CASE x = r
    <3>1. q = approval /\ q.terms = t
      BY <1>2, <1>3, <2>2 DEF Approved, StoredRequest
    <3>2. ~BreaksRule(t)
      <4>1. SUFFICES ASSUME requests' = [requests EXCEPT ![r] = denial]
                     PROVE  FALSE
        BY DEF queue_request
      <4>2. requests'[r] = denial
        BY <4>1 DEF PolicyInv, TypeOK
      <4>3. denial.verdict # approval.verdict
        BY DEF StoredRequest
      <4>4. QED
        BY <1>3, <3>1, <4>2, <4>3
    <3>3. evidence_keys' = [evidence_keys EXCEPT ![t.invoice] = r]
      BY <1>3, <2>2, <3>1, <3>2 DEF queue_request
    <3>4. QED
      BY <1>3, <2>1, <2>2, <3>1, <3>3
  <2>3. CASE x # r
    <3>1. Approved(x) /\ requests'[x] = requests[x]
      BY <1>3, <2>3 DEF Approved
    <3>2. evidence_keys[requests[x].terms.invoice] = x
      BY <3>1 DEF PolicyInv, InvoiceOwned
    <3>3. ~BreaksRule(t) => requests[x].terms.invoice # t.invoice
      BY <3>1, <3>2, NullAssumption DEF queue_request, CanQueue, InvoiceUsed
    <3>4. QED
      BY <2>1, <3>1, <3>2, <3>3 DEF queue_request
  <2>4. QED
    BY <2>2, <2>3
<1>7. SettlementChainPayable'
  BY DEF queue_request, settings, PolicyInv, SettlementChainPayable
<1>8. QED
  BY <1>5, <1>6, <1>7 DEF PolicyInv

(* The five writes that work on an existing request.                       *)
LEMMA InvHandlers ==
  ASSUME PolicyInv, TypeOK', NEW r \in RequestId, NEW sender \in Account
  PROVE  /\ claim_execution(sender, r) => PolicyInv'
         /\ record_execution_failure(sender, r) => PolicyInv'
         /\ \A hash \in Hash : record_execution(sender, r, hash) => PolicyInv'
         /\ \A hash \in Hash : record_bridge_initiated(sender, r, hash) => PolicyInv'
         /\ \A hash \in Hash : record_bridge_attested(sender, r, hash) => PolicyInv'
<1>1. Stored(r) => requests[r] \in Request /\ TrailOf(requests[r], now)
  BY StoredIsRequest DEF PolicyInv, HashTrail
<1>2. now \in Nat
  BY DEF PolicyInv, TypeOK
<1>3. ASSUME claim_execution(sender, r) PROVE PolicyInv'
  <2> DEFINE q == [requests[r] EXCEPT !.status = "executing", !.claimed_at = now]
  <2>1. Stored(r) /\ requests[r].verdict = "approved" /\ requests[r].tx_hash = NoHash
    BY <1>3 DEF claim_execution, CanClaim, Approved, Stored
  <2>2. q \in Request /\ TrailOf(q, now)
    <3>1. q \in Request
      BY <1>1, <1>2, <2>1 DEF Request, Status
    <3>2. /\ q.status = "executing" /\ q.claimed_at \in 0..now
          /\ q.verdict = "approved" /\ q.tx_hash = NoHash
          /\ q.terms = requests[r].terms
          /\ q.bridge_tx_hash = requests[r].bridge_tx_hash
          /\ q.destination_tx_hash = requests[r].destination_tx_hash
      BY <1>1, <1>2, <2>1 DEF Request
    <3>3. QED
      BY <1>1, <2>1, <3>1, <3>2 DEF TrailOf
  <2>3. requests' = [requests EXCEPT ![r] = q]
    BY <1>1, <1>3, <2>1 DEF claim_execution, PolicyInv, TypeOK, Request
  <2>4. q.terms = requests[r].terms /\ q.verdict = requests[r].verdict
    BY <1>1, <2>1 DEF Request
  <2>5. QED
    BY <1>3, <2>1, <2>2, <2>3, <2>4, InvRequestUpdate DEF claim_execution, settings
<1>4. ASSUME record_execution_failure(sender, r) PROVE PolicyInv'
  <2> DEFINE q == [requests[r] EXCEPT !.status = "failed", !.claimed_at = NoClaim]
  <2>1. Stored(r) /\ requests[r].verdict = "approved" /\ requests[r].tx_hash = NoHash
    BY <1>4 DEF record_execution_failure, CanRecordFailure, Approved, Stored
  <2>2. q \in Request /\ TrailOf(q, now)
    BY <1>1, <2>1 DEF Request, Status, TrailOf
  <2>3. requests' = [requests EXCEPT ![r] = q]
    BY <1>1, <1>4, <2>1 DEF record_execution_failure, PolicyInv, TypeOK, Request
  <2>4. q.terms = requests[r].terms /\ q.verdict = requests[r].verdict
    BY <1>1, <2>1 DEF Request
  <2>5. QED
    BY <1>4, <2>1, <2>2, <2>3, <2>4, InvRequestUpdate
    DEF record_execution_failure, settings
<1>5. ASSUME NEW hash \in Hash, record_execution(sender, r, hash) PROVE PolicyInv'
  <2> DEFINE q == [requests[r] EXCEPT !.tx_hash = hash, !.status = "executed"]
  <2>1. Stored(r) /\ requests[r].verdict = "approved"
    BY <1>5 DEF record_execution, CanRecordExecution, Approved, Stored
  <2>2. q \in Request /\ TrailOf(q, now)
    BY <1>1, <2>1, NullAssumption DEF Request, Status, TrailOf
  <2>3. requests' = [requests EXCEPT ![r] = q]
    BY <1>1, <1>5, <2>1 DEF record_execution, PolicyInv, TypeOK, Request
  <2>4. q.terms = requests[r].terms /\ q.verdict = requests[r].verdict
    BY <1>1, <2>1 DEF Request
  <2>5. QED
    BY <1>5, <2>1, <2>2, <2>3, <2>4, InvRequestUpdate DEF record_execution, settings
<1>6. ASSUME NEW hash \in Hash, record_bridge_initiated(sender, r, hash)
      PROVE  PolicyInv'
  <2> DEFINE q == [requests[r] EXCEPT !.bridge_tx_hash = hash, !.status = "bridging"]
  <2>1. /\ Stored(r) /\ requests[r].verdict = "approved"
        /\ RouteOf(requests[r].terms.destination) = "cctp"
        /\ requests[r].status = "executing" /\ requests[r].bridge_tx_hash = NoHash
    BY <1>6 DEF record_bridge_initiated, CanRecordBridge, Approved, Stored,
                RouteOfRequest
  <2>2. q \in Request /\ TrailOf(q, now)
    BY <1>1, <2>1, NullAssumption DEF Request, Status, TrailOf
  <2>3. requests' = [requests EXCEPT ![r] = q]
    BY <1>1, <1>6, <2>1 DEF record_bridge_initiated, PolicyInv, TypeOK, Request
  <2>4. q.terms = requests[r].terms /\ q.verdict = requests[r].verdict
    BY <1>1, <2>1 DEF Request
  <2>5. QED
    BY <1>6, <2>1, <2>2, <2>3, <2>4, InvRequestUpdate
    DEF record_bridge_initiated, settings
<1>7. ASSUME NEW hash \in Hash, record_bridge_attested(sender, r, hash)
      PROVE  PolicyInv'
  <2> DEFINE q == [requests[r] EXCEPT !.destination_tx_hash = hash,
                                      !.status = "executing"]
  <2>1. /\ Stored(r) /\ requests[r].status = "bridging"
        /\ requests[r].bridge_tx_hash # NoHash
    BY <1>7 DEF record_bridge_attested, CanRecordAttested
  <2>2. q \in Request /\ TrailOf(q, now)
    BY <1>1, <2>1, NullAssumption DEF Request, Status, TrailOf
  <2>3. requests' = [requests EXCEPT ![r] = q]
    BY <1>1, <1>7, <2>1 DEF record_bridge_attested, PolicyInv, TypeOK, Request
  <2>4. q.terms = requests[r].terms /\ q.verdict = requests[r].verdict
    BY <1>1, <2>1 DEF Request
  <2>5. QED
    BY <1>7, <2>1, <2>2, <2>3, <2>4, InvRequestUpdate
    DEF record_bridge_attested, settings
<1>8. QED
  BY <1>3, <1>4, <1>5, <1>6, <1>7

(* Steps that leave the requests and invoice keys alone, and never take the *)
(* settlement chain off the allowlist or turn the clock back.               *)
LEMMA InvQuiet ==
  ASSUME PolicyInv, TypeOK', UNCHANGED <<requests, evidence_keys>>,
         now' >= now, SettlementChainPayable'
  PROVE  PolicyInv'
<1>1. HashTrail'
  BY DEF PolicyInv, TypeOK, HashTrail, Stored, TrailOf
<1>2. InvoiceOwned'
  BY DEF PolicyInv, InvoiceOwned, Approved
<1>3. QED
  BY <1>1, <1>2 DEF PolicyInv

(* Every step keeps the inductive invariant.                                *)
LEMMA InvStep == PolicyInv /\ [Next]_vars => PolicyInv'
<1> SUFFICES ASSUME PolicyInv, [Next]_vars PROVE PolicyInv'
  OBVIOUS
<1>1. TypeOK /\ TypeOK' /\ now \in Nat
  BY TypeStep DEF PolicyInv, TypeOK
<1>2. policy \in Policy /\ SettlementChain \in policy.destinations
  BY DEF PolicyInv, TypeOK, SettlementChainPayable
<1>3. ASSUME NEW sender \in Account, NEW r \in RequestId, RequestStep(sender, r)
      PROVE  PolicyInv'
  BY <1>1, <1>3, InvQueue, InvHandlers DEF RequestStep
<1>4. ASSUME NEW sender \in Account, NEW nonce \in 0..MaxNonce,
             AdminStep(sender, nonce)
      PROVE  PolicyInv'
  <2>1. UNCHANGED <<requests, evidence_keys, now>>
    BY <1>4 DEF AdminStep, update_policy, set_whitelist_entry,
       set_whitelist_enabled, set_destination_chain_entry
  <2>2. SettlementChain \in policy'.destinations
    <3>1. ASSUME NEW chain \in Chain, NEW allowed \in BOOLEAN,
                 set_destination_chain_entry(sender, nonce, chain, allowed)
          PROVE  SettlementChain \in policy'.destinations
      BY <1>2, <3>1 DEF set_destination_chain_entry, Policy
    <3>2. ASSUME policy'.destinations = policy.destinations
          PROVE  SettlementChain \in policy'.destinations
      BY <1>2, <3>2
    <3>3. ASSUME NEW agent \in Account, NEW reporter \in Account,
                 NEW perTx \in Cap, NEW weekly \in Cap,
                 update_policy(sender, nonce, agent, reporter, perTx, weekly)
          PROVE  policy'.destinations = policy.destinations
      BY <1>2, <3>3 DEF update_policy, Policy
    <3>4. ASSUME NEW recipient \in Recipient, NEW allowed \in BOOLEAN,
                 set_whitelist_entry(sender, nonce, recipient, allowed)
          PROVE  policy'.destinations = policy.destinations
      BY <1>2, <3>4 DEF set_whitelist_entry, Policy
    <3>5. ASSUME NEW enabled \in BOOLEAN,
                 set_whitelist_enabled(sender, nonce, enabled)
          PROVE  policy'.destinations = policy.destinations
      BY <1>2, <3>5 DEF set_whitelist_enabled, Policy
    <3>6. QED
      BY <1>4, <3>1, <3>2, <3>3, <3>4, <3>5 DEF AdminStep
  <2>3. QED
    BY <1>1, <2>1, <2>2, InvQuiet DEF SettlementChainPayable
<1>5. ASSUME NEW sender \in Account,
             register_delegation(sender) \/ register_vault(sender)
      PROVE  PolicyInv'
  BY <1>1, <1>2, <1>5, InvQuiet
  DEF register_delegation, register_vault, SettlementChainPayable, Policy
<1>6. ASSUME NEW sender \in Account, NEW active \in BOOLEAN,
             set_policy_active(sender, active)
      PROVE  PolicyInv'
  BY <1>1, <1>2, <1>6, InvQuiet DEF set_policy_active, SettlementChainPayable
<1>7. CASE Tick
  BY <1>1, <1>2, <1>7, InvQuiet DEF Tick, settings, SettlementChainPayable
<1>8. CASE UNCHANGED vars
  BY <1>1, <1>2, <1>8, InvQuiet DEF vars, SettlementChainPayable
<1>9. QED
  BY <1>3, <1>4, <1>5, <1>6, <1>7, <1>8 DEF Next

(* The inductive invariant holds throughout.                                *)
LEMMA Invariance == Spec => []PolicyInv
<1>1. QED
  BY InvInit, InvStep, PTL DEF Spec

(* Whatever order claims, failures, burns and attestations are recorded in, *)
(* the trail of a request agrees with its status.                           *)
THEOREM TrailIsConsistent == Spec => []HashTrail
<1>1. PolicyInv => HashTrail
  BY DEF PolicyInv
<1>2. QED
  BY <1>1, Invariance, PTL

(* No two approved requests ever carry the same invoice key.               *)
THEOREM InvoicesPayOnce == Spec => []InvoicePaidOnce
<1>1. PolicyInv => InvoicePaidOnce
  BY DEF PolicyInv, InvoiceOwned, InvoicePaidOnce
<1>2. QED
  BY <1>1, Invariance, PTL

(* The settlement chain stays payable through every allowlist change.      *)
THEOREM OwnChainStaysPayable == Spec => []SettlementChainPayable
<1>1. PolicyInv => SettlementChainPayable
  BY DEF PolicyInv
<1>2. QED
  BY <1>1, Invariance, PTL

(* However claims, refunds and caps interleave, a charge fits the cap.      *)
THEOREM ChargesFitTheCap == Spec => ChargeWithinCap
<1>1. TypeOK /\ [Next]_vars => [ChargeFits]_vars
  <2> SUFFICES ASSUME TypeOK, Next, weekly_spent' > weekly_spent
               PROVE  weekly_spent' <= policy'.weekly_cap
    BY DEF ChargeFits
  <2>1. weekly_spent \in Nat /\ WindowSpent \in Nat /\ policy.weekly_cap \in Nat
    BY WindowTyped DEF TypeOK, Policy
  <2>2. WindowSpent <= weekly_spent
    BY <2>1 DEF WindowSpent
  <2>3. weekly_spent' # weekly_spent
    BY <2>1
  <2>4. PICK sender \in Account, r \in RequestId : RequestStep(sender, r)
    BY <2>3 DEF Next, AdminStep, update_policy, set_whitelist_entry,
                set_whitelist_enabled, set_destination_chain_entry,
                register_delegation, register_vault, set_policy_active, Tick,
                budget
  <2>5. ASSUME NEW agent \in Account, NEW t \in Terms, NEW approved \in BOOLEAN,
               queue_request(sender, agent, r, t, approved)
        PROVE  weekly_spent' <= policy'.weekly_cap
    <3>1. t.amount \in Nat /\ policy' = policy
      BY <2>5, NumberAssumption DEF Terms, queue_request, settings
    <3>2. ~BreaksRule(t) /\ weekly_spent' = WindowSpent + t.amount
      BY <2>1, <2>2, <2>5 DEF queue_request
    <3>3. QED
      BY <2>1, <3>1, <3>2 DEF BreaksRule
  <2>6. CASE claim_execution(sender, r)
    <3>1. /\ requests[r].status = "failed"
          /\ weekly_spent' = WindowSpent + requests[r].terms.amount
          /\ RetryFits(r) /\ policy' = policy
      BY <2>3, <2>6 DEF claim_execution, CanClaim, budget, settings
    <3>2. QED
      BY <3>1 DEF RetryFits
  <2>7. CASE record_execution_failure(sender, r)
    <3>1. requests[r].terms.amount \in Nat
      <4>1. Stored(r)
        BY <2>7 DEF record_execution_failure, CanRecordFailure, Approved, Stored
      <4>2. requests[r] \in Request
        BY <4>1, StoredIsRequest
      <4>3. QED
        BY <4>2, NumberAssumption DEF Request, Terms
    <3>2. QED
      BY <2>1, <2>7, <3>1 DEF record_execution_failure
  <2>8. ASSUME NEW hash \in Hash,
               \/ record_execution(sender, r, hash)
               \/ record_bridge_initiated(sender, r, hash)
               \/ record_bridge_attested(sender, r, hash)
        PROVE  FALSE
    BY <2>3, <2>8 DEF record_execution, record_bridge_initiated,
                      record_bridge_attested, budget
  <2>9. QED
    BY <2>4, <2>5, <2>6, <2>7, <2>8 DEF RequestStep
<1>2. QED
  BY <1>1, TypeCorrect, PTL DEF Spec, ChargeWithinCap

(* No step replaces the terms, the verdict or the age of a stored request,  *)
(* or reopens one with a recorded payment.                                  *)
LEMMA DecisionStep == PolicyInv /\ [Next]_vars => [DecisionKept]_vars
<1> SUFFICES ASSUME PolicyInv, Next, NEW s \in RequestId, Stored(s),
                    requests' # requests
             PROVE  /\ requests'[s].terms = requests[s].terms
                    /\ requests'[s].verdict = requests[s].verdict
                    /\ requests'[s].created_at = requests[s].created_at
                    /\ requests[s].tx_hash # NoHash => requests'[s] = requests[s]
  BY DEF DecisionKept
<1>1. /\ TypeOK /\ HashTrail
      /\ requests \in [RequestId -> Request \cup {NotStored}]
  BY DEF PolicyInv, TypeOK
<1>2. requests[s] \in Request
  BY <1>1, StoredIsRequest
<1>3. PICK sender \in Account, r \in RequestId : RequestStep(sender, r)
  BY DEF Next, AdminStep, update_policy, set_whitelist_entry,
         set_whitelist_enabled, set_destination_chain_entry,
         register_delegation, register_vault, set_policy_active, Tick, settings
<1>4. ASSUME NEW agent \in Account, NEW t \in Terms, NEW approved \in BOOLEAN,
             queue_request(sender, agent, r, t, approved)
      PROVE  requests'[s] = requests[s]
  <2>1. s # r
    BY <1>4 DEF queue_request, CanQueue
  <2>2. QED
    BY <1>1, <1>4, <2>1 DEF queue_request
<1>5. ASSUME NEW hash \in Hash \cup {NoHash},
             \/ claim_execution(sender, r)
             \/ record_execution(sender, r, hash)
             \/ record_execution_failure(sender, r)
      PROVE  /\ requests'[s].terms = requests[s].terms
             /\ requests'[s].verdict = requests[s].verdict
             /\ requests'[s].created_at = requests[s].created_at
             /\ requests[s].tx_hash # NoHash => requests'[s] = requests[s]
  <2>1. requests[r].tx_hash = NoHash
    BY <1>5 DEF claim_execution, CanClaim, record_execution,
                CanRecordExecution, record_execution_failure, CanRecordFailure
  <2>2. QED
    BY <1>1, <1>2, <1>5, <2>1 DEF claim_execution, record_execution,
                                  record_execution_failure, Request
<1>6. ASSUME NEW hash \in Hash,
             \/ record_bridge_initiated(sender, r, hash)
             \/ record_bridge_attested(sender, r, hash)
      PROVE  /\ requests'[s].terms = requests[s].terms
             /\ requests'[s].verdict = requests[s].verdict
             /\ requests'[s].created_at = requests[s].created_at
             /\ requests[s].tx_hash # NoHash => requests'[s] = requests[s]
  <2>1. Stored(r) /\ requests[r].status # "executed"
    BY <1>6 DEF record_bridge_initiated, CanRecordBridge, Approved, Stored,
                record_bridge_attested, CanRecordAttested
  <2>2. requests[r].tx_hash = NoHash
    BY <1>1, <2>1 DEF HashTrail, TrailOf
  <2>3. QED
    BY <1>1, <1>2, <1>6, <2>2 DEF record_bridge_initiated,
                                  record_bridge_attested, Request
<1>7. CASE claim_execution(sender, r) \/ record_execution_failure(sender, r)
  BY <1>5, <1>7
<1>8. CASE \E hash \in Hash : record_execution(sender, r, hash)
  BY <1>5, <1>8
<1>9. CASE \E agent \in Account, t \in Terms, approved \in BOOLEAN :
             queue_request(sender, agent, r, t, approved)
  BY <1>4, <1>9
<1>10. QED
  BY <1>3, <1>6, <1>7, <1>8, <1>9 DEF RequestStep

(* No write ever changes what was decided about a stored request, or a      *)
(* recorded payment.                                                        *)
THEOREM DecisionsAreFinal == Spec => DecisionIsFinal
<1>1. QED
  BY DecisionStep, Invariance, PTL DEF Spec, DecisionIsFinal

-----------------------------------------------------------------------------
(* Induction on the natural numbers, for a set of them.                     *)
LEMMA NatSetInduction ==
  ASSUME NEW T \in SUBSET Nat, 0 \in T, \A n \in T : n + 1 \in T
  PROVE  T = Nat
<1> SUFFICES ASSUME Nat \ T # {} PROVE FALSE
  OBVIOUS
<1>1. PICK n \in Nat \ T : \A m \in Nat \ T : <<m, n>> \notin OpToRel(<, Nat)
  BY NatLessThanWellFounded, WFMin, Nat \ T \subseteq Nat, Zenon
<1>2. \A m \in Nat \ T : ~(m < n)
  BY <1>1 DEF OpToRel
<1>3. n # 0 /\ n - 1 \in Nat /\ n - 1 < n /\ (n - 1) + 1 = n
  OBVIOUS
<1>4. QED
  BY <1>2, <1>3

(* The element a sum adds first.                                            *)
First(s) == CHOOSE x \in s : TRUE

(* Induction on the subsets of a finite set, in that order.                 *)
LEMMA SubsetInduction ==
  ASSUME NEW S, IsFiniteSet(S), NEW T, {} \in T,
         \A s \in SUBSET S : s # {} /\ s \ {First(s)} \in T => s \in T
  PROVE  \A s \in SUBSET S : s \in T
<1> DEFINE Sized(n) == \A s \in SUBSET S : Cardinality(s) = n => s \in T
           N == {n \in Nat : Sized(n)}
<1>1. \A s \in SUBSET S : IsFiniteSet(s) /\ Cardinality(s) \in Nat
  BY FS_Subset, FS_CardinalityType
<1>2. Sized(0)
  <2>1. \A s \in SUBSET S : Cardinality(s) = 0 => s = {}
    BY <1>1, FS_EmptySet
  <2>2. QED
    BY <2>1
<1>3. ASSUME NEW n \in Nat, Sized(n) PROVE Sized(n + 1)
  <2> SUFFICES ASSUME NEW s \in SUBSET S, Cardinality(s) = n + 1 PROVE s \in T
    OBVIOUS
  <2>1. s # {}
    BY FS_EmptySet
  <2>2. First(s) \in s
    BY <2>1 DEF First
  <2>3. Cardinality(s \ {First(s)}) = (n + 1) - 1
    BY <1>1, <2>2, FS_RemoveElement
  <2>4. QED
    BY <1>3, <2>1, <2>3
<1> HIDE DEF Sized
<1>4. N = Nat
  <2>1. N \in SUBSET Nat /\ 0 \in N /\ \A n \in N : n + 1 \in N
    BY <1>2, <1>3
  <2> HIDE DEF N
  <2>2. QED
    BY <2>1, NatSetInduction
<1>5. QED
  BY <1>1, <1>4 DEF Sized

(* g tells of each part of S what f adds up to on it.                       *)
AddsUp(g, f, S) ==
  g = [s \in SUBSET S |-> IF s = {} THEN 0 ELSE f[First(s)] + g[s \ {First(s)}]]

(* For a finite set there is such a g, by induction on the size of the      *)
(* parts.                                                                   *)
LEMMA AddsUpExists ==
  ASSUME NEW S, IsFiniteSet(S), NEW f
  PROVE  \E g : AddsUp(g, f, S)
<1> DEFINE Sized(n) == {s \in SUBSET S : Cardinality(s) <= n}
           Step(g, s) == IF s = {} THEN 0 ELSE f[First(s)] + g[s \ {First(s)}]
           Upto(n) == \E g : g = [s \in Sized(n) |-> Step(g, s)]
           N == {n \in Nat : Upto(n)}
<1>1. \A s \in SUBSET S : /\ IsFiniteSet(s) /\ Cardinality(s) \in Nat
                          /\ Cardinality(s) <= Cardinality(S)
  BY FS_Subset, FS_CardinalityType
<1>2. Upto(0)
  <2>1. Sized(0) = {{}}
    BY <1>1, FS_EmptySet
  <2> DEFINE g == [s \in Sized(0) |-> 0]
  <2>2. g = [s \in Sized(0) |-> Step(g, s)]
    BY <2>1
  <2>3. QED
    BY <2>2
<1>3. ASSUME NEW n \in Nat, Upto(n) PROVE Upto(n + 1)
  <2>1. PICK g : g = [s \in Sized(n) |-> Step(g, s)]
    BY <1>3
  <2> DEFINE h == [s \in Sized(n + 1) |-> Step(g, s)]
  <2>2. Sized(n) \subseteq Sized(n + 1)
    BY <1>1
  <2>3. \A s \in Sized(n) : h[s] = g[s]
    BY <2>1, <2>2
  <2>4. ASSUME NEW s \in Sized(n + 1), s # {}
        PROVE  s \ {First(s)} \in Sized(n)
    <3>1. First(s) \in s
      BY <2>4 DEF First
    <3>2. Cardinality(s \ {First(s)}) = Cardinality(s) - 1
      BY <1>1, <3>1, FS_RemoveElement
    <3>3. QED
      BY <1>1, <3>2
  <2>5. ASSUME NEW s \in Sized(n + 1) PROVE Step(h, s) = Step(g, s)
    <3>1. s # {} => h[s \ {First(s)}] = g[s \ {First(s)}]
      BY <2>3, <2>4
    <3> HIDE DEF h
    <3>2. QED
      BY <3>1
  <2>6. h = [s \in Sized(n + 1) |-> Step(h, s)]
    <3> HIDE DEF Step, Sized
    <3>1. QED
      BY <2>5
  <2>7. QED
    BY <2>6
<1>4. N = Nat
  <2> HIDE DEF Upto
  <2>1. N \in SUBSET Nat /\ 0 \in N /\ \A n \in N : n + 1 \in N
    BY <1>2, <1>3
  <2> HIDE DEF N
  <2>2. QED
    BY <2>1, NatSetInduction
<1>5. Sized(Cardinality(S)) = SUBSET S /\ Cardinality(S) \in Nat
  BY <1>1
<1>6. PICK g : g = [s \in SUBSET S |-> Step(g, s)]
  <2>1. Upto(Cardinality(S))
    <3> HIDE DEF Upto
    <3>1. QED
      BY <1>4, <1>5
  <2> HIDE DEF Sized, Step
  <2>2. QED
    BY <1>5, <2>1
<1>7. QED
  BY <1>6 DEF AddsUp

(* What SumFunction is the value of.                                        *)
LEMMA SumAddsUp ==
  ASSUME NEW S, IsFiniteSet(S), NEW f \in [S -> Int]
  PROVE  \E g : AddsUp(g, f, S) /\ SumFunction(f) = g[S]
<1> DEFINE g == CHOOSE g : AddsUp(g, f, S)
<1>1. AddsUp(g, f, S)
  BY AddsUpExists
<1>2. SumFunction(f) = g[S]
  <2>1. DOMAIN f = S
    OBVIOUS
  <2>2. QED
    BY <2>1 DEF SumFunction, SumFunctionOnSet, FoldFunctionOnSet, MapThenFoldSet, AddsUp, First
<1>3. QED
  BY <1>1, <1>2

(* The sum of naturals is one.                                              *)
LEMMA SumTyped ==
  ASSUME NEW S, IsFiniteSet(S), NEW f \in [S -> Nat]
  PROVE  SumFunction(f) \in Nat
<1>1. f \in [S -> Int]
  OBVIOUS
<1>2. PICK g : AddsUp(g, f, S) /\ SumFunction(f) = g[S]
  BY <1>1, SumAddsUp
<1> DEFINE T == {s \in SUBSET S : g[s] \in Nat}
<1>3. {} \in T
  BY <1>2 DEF AddsUp
<1>4. ASSUME NEW s \in SUBSET S, s # {}, s \ {First(s)} \in T PROVE s \in T
  <2>1. First(s) \in S
    BY <1>4 DEF First
  <2>2. g[s] = f[First(s)] + g[s \ {First(s)}]
    BY <1>2, <1>4 DEF AddsUp
  <2>3. QED
    BY <1>4, <2>1, <2>2
<1> HIDE DEF T
<1>5. S \in T
  BY <1>3, <1>4, SubsetInduction
<1>6. QED
  BY <1>2, <1>5 DEF T

(* Two functions that differ in one place have sums that differ by as much. *)
LEMMA SumUpdate ==
  ASSUME NEW S, IsFiniteSet(S), NEW f \in [S -> Int], NEW h \in [S -> Int], NEW x \in S,
         \A y \in S \ {x} : h[y] = f[y]
  PROVE  SumFunction(h) = SumFunction(f) + (h[x] - f[x])
<1>1. PICK F : AddsUp(F, f, S) /\ SumFunction(f) = F[S]
  BY SumAddsUp
<1>2. PICK H : AddsUp(H, h, S) /\ SumFunction(h) = H[S]
  BY SumAddsUp
<1> DEFINE T == {s \in SUBSET S :
                   /\ F[s] \in Int /\ H[s] \in Int
                   /\ H[s] = F[s] + (IF x \in s THEN h[x] - f[x] ELSE 0)}
<1>3. {} \in T
  BY <1>1, <1>2 DEF AddsUp
<1>4. ASSUME NEW s \in SUBSET S, s # {}, s \ {First(s)} \in T PROVE s \in T
  <2>1. First(s) \in S /\ First(s) \in s
    BY <1>4 DEF First
  <2>2. /\ F[s] = f[First(s)] + F[s \ {First(s)}]
        /\ H[s] = h[First(s)] + H[s \ {First(s)}]
    BY <1>1, <1>2, <1>4 DEF AddsUp
  <2>3. QED
    BY <1>4, <2>1, <2>2
<1> HIDE DEF T
<1>5. S \in T
  BY <1>3, <1>4, SubsetInduction
<1>6. QED
  BY <1>1, <1>2, <1>5 DEF T

(* Nothing adds up to nothing.                                              *)
LEMMA SumZero ==
  ASSUME NEW S, IsFiniteSet(S), NEW f \in [S -> Int], \A x \in S : f[x] = 0
  PROVE  SumFunction(f) = 0
<1>1. PICK g : AddsUp(g, f, S) /\ SumFunction(f) = g[S]
  BY SumAddsUp
<1> DEFINE T == {s \in SUBSET S : g[s] = 0}
<1>2. {} \in T
  BY <1>1 DEF AddsUp
<1>3. ASSUME NEW s \in SUBSET S, s # {}, s \ {First(s)} \in T PROVE s \in T
  <2>1. First(s) \in S
    BY <1>3 DEF First
  <2>2. g[s] = f[First(s)] + g[s \ {First(s)}]
    BY <1>1, <1>3 DEF AddsUp
  <2>3. QED
    BY <1>3, <2>1, <2>2
<1> HIDE DEF T
<1>4. S \in T
  BY <1>2, <1>3, SubsetInduction
<1>5. QED
  BY <1>1, <1>4 DEF T

(* No term of a sum of naturals exceeds it.                                 *)
LEMMA TermBelowSum ==
  ASSUME NEW S, IsFiniteSet(S), NEW f \in [S -> Nat], NEW x \in S
  PROVE  f[x] <= SumFunction(f)
<1> DEFINE h == [f EXCEPT ![x] = 0]
<1>1. h \in [S -> Nat] /\ h[x] = 0 /\ \A y \in S \ {x} : h[y] = f[y]
  OBVIOUS
<1> HIDE DEF h
<1>2. SumFunction(f) = SumFunction(h) + (f[x] - h[x])
  BY <1>1, SumUpdate
<1>3. SumFunction(h) \in Nat
  BY <1>1, SumTyped
<1>4. QED
  BY <1>1, <1>2, <1>3
-----------------------------------------------------------------------------
(* What a request is charged is a natural number.                           *)
LEMMA ChargeTyped ==
  ASSUME TypeOK
  PROVE  Charge \in [RequestId -> Nat] /\ Charge \in [RequestId -> Int]
<1>1. ASSUME NEW r \in RequestId, Approved(r) PROVE requests[r].terms.amount \in Nat
  <2>1. requests[r] \in Request
    BY <1>1, StoredIsRequest DEF Approved, Stored
  <2>2. QED
    BY <2>1, NumberAssumption DEF Request, Terms
<1>2. QED
  BY <1>1 DEF Charge

(* No request was created after the window that is open: the window of a    *)
(* creation is only followed by later ones.                                 *)
InWindow ==
  /\ week_started_at <= now
  /\ \A r \in RequestId : Stored(r) =>
       week_started_at # Deployment /\ requests[r].created_at < week_started_at + Week

LedgerInv == PolicyInv /\ InWindow /\ FirstWindowLedger

(* A step that rewrites one request changes the total by what it changes    *)
(* that request's charge.                                                   *)
LEMMA ChargeMoves ==
  ASSUME IsFiniteSet(RequestId), TypeOK, TypeOK', NEW r \in RequestId,
         \A x \in RequestId \ {r} : requests'[x] = requests[x]
  PROVE  SumFunction(Charge') = SumFunction(Charge) + (Charge'[r] - Charge[r])
<1>1. Charge \in [RequestId -> Int] /\ Charge' \in [RequestId -> Int]
  <2>1. TypeOK => Charge \in [RequestId -> Int]
    BY ChargeTyped
  <2>2. (TypeOK => Charge \in [RequestId -> Int])'
    BY ChargeTyped, PTL
  <2>3. QED
    BY <2>1, <2>2
<1>2. \A x \in RequestId \ {r} : Charge'[x] = Charge[x]
  BY DEF Charge, Approved
<1>3. QED
  BY <1>1, <1>2, SumUpdate

(* When the first window is still open after a step that rolled over or     *)
(* not, it was open before, and what the step starts from is the ledger.    *)
LEMMA WindowLedger ==
  ASSUME LedgerInv, IsFiniteSet(RequestId), FirstWindow',
         \A r \in RequestId : Stored(r) =>
           Stored(r)' /\ requests'[r].created_at = requests[r].created_at
  PROVE  /\ week_started_at' = week_started_at => weekly_spent = SumFunction(Charge)
         /\ week_started_at' = WindowStart => WindowSpent = SumFunction(Charge)
<1>1. /\ TypeOK /\ now \in Nat /\ week_started_at \in Nat \cup {Deployment}
      /\ week_started_at <= now /\ Week \in Nat \ {0}
      /\ \A r \in RequestId : Stored(r) => requests[r].created_at \in Nat
  BY StoredIsRequest, NumberAssumption DEF LedgerInv, PolicyInv, TypeOK, InWindow, Request
<1>2. \A r \in RequestId : Stored(r) => requests[r].created_at >= week_started_at'
  BY DEF FirstWindow
<1>3. CASE WindowElapsed /\ week_started_at' = WindowStart
  <2>1. week_started_at' = now /\ now - week_started_at >= Week /\ week_started_at \in Nat
    BY <1>1, <1>3 DEF WindowElapsed, WindowStart
  <2>2. ASSUME NEW r \in RequestId PROVE ~Stored(r)
    BY <1>1, <1>2, <2>1 DEF LedgerInv, InWindow
  <2>3. \A r \in RequestId : Charge[r] = 0
    BY <2>2 DEF Charge, Stored, Approved
  <2>4. SumFunction(Charge) = 0
    BY <1>1, <2>3, ChargeTyped, SumZero
  <2>5. WindowSpent = 0
    BY <1>3 DEF WindowSpent
  <2>6. weekly_spent = SumFunction(Charge)
    BY <2>2 DEF LedgerInv, FirstWindowLedger, FirstWindow
  <2>7. QED
    BY <2>4, <2>5, <2>6
<1>4. CASE ~WindowElapsed \/ week_started_at' = week_started_at
  <2>1. week_started_at' \in {week_started_at, WindowStart} => week_started_at' >= week_started_at
    BY <1>1, <1>4 DEF WindowStart, Deployment
  <2>2. week_started_at' \in {week_started_at, WindowStart} => FirstWindow
    <3>1. ASSUME week_started_at' \in {week_started_at, WindowStart},
                 NEW r \in RequestId, Stored(r)
          PROVE  requests[r].created_at >= week_started_at
      <4>1. /\ requests[r].created_at \in Nat
            /\ requests[r].created_at >= week_started_at'
            /\ week_started_at' >= week_started_at
        BY <1>1, <1>2, <2>1, <3>1
      <4>2. week_started_at' \in Int /\ week_started_at \in Int
        BY <1>1, <3>1 DEF WindowStart, Deployment
      <4>3. QED
        BY <4>1, <4>2
    <3>2. QED
      BY <3>1 DEF FirstWindow
  <2>3. week_started_at' \in {week_started_at, WindowStart} =>
          weekly_spent = SumFunction(Charge)
    BY <2>2 DEF LedgerInv, FirstWindowLedger
  <2>4. CASE ~WindowElapsed
    BY <2>3, <2>4 DEF WindowSpent
  <2>5. CASE WindowElapsed /\ week_started_at' = week_started_at
    <3>1. week_started_at # WindowStart
      BY <1>1, <2>5 DEF WindowElapsed, WindowStart
    <3>2. QED
      BY <2>3, <2>5, <3>1
  <2>6. QED
    BY <1>4, <2>4, <2>5
<1>5. QED
  BY <1>3, <1>4

(* The window only moves to later times, and a creation falls into it.      *)
LEMMA InWindowStep == LedgerInv /\ PolicyInv' /\ [Next]_vars => InWindow'
<1> SUFFICES ASSUME LedgerInv, PolicyInv', [Next]_vars PROVE InWindow'
  OBVIOUS
<1>1. /\ TypeOK /\ PolicyInv /\ now \in Nat /\ week_started_at \in Nat \cup {Deployment}
      /\ week_started_at <= now /\ Week \in Nat \ {0}
  BY NumberAssumption DEF LedgerInv, PolicyInv, TypeOK, InWindow
<1>2. ASSUME NEW r \in RequestId, Stored(r)
      PROVE  /\ week_started_at # Deployment
             /\ requests[r].created_at \in Nat
             /\ requests[r].created_at < week_started_at + Week
  BY <1>1, <1>2, StoredIsRequest DEF LedgerInv, InWindow, Request
<1>3. CASE WindowStart = week_started_at \/ WindowStart = now
  <2>1. /\ WindowStart \in Int /\ WindowStart <= now /\ week_started_at <= WindowStart
        /\ week_started_at \in Int /\ Deployment \in Int
    BY <1>1, <1>3 DEF Deployment
  <2>2. now < WindowStart + Week /\ WindowStart # Deployment
    BY <1>1 DEF WindowStart, WindowElapsed, Deployment
  <2>3. ASSUME NEW sender \in Account, NEW r \in RequestId, RequestStep(sender, r)
        PROVE  InWindow'
    <3>1. CASE \E agent \in Account, t \in Terms, approved \in BOOLEAN :
                 queue_request(sender, agent, r, t, approved)
      <4>1. PICK agent \in Account, t \in Terms, approved \in BOOLEAN :
              queue_request(sender, agent, r, t, approved)
        BY <3>1
      <4>2. /\ week_started_at' = WindowStart /\ now' = now
            /\ \A x \in RequestId \ {r} : requests'[x] = requests[x]
            /\ requests'[r].created_at = now
        BY <1>1, <4>1 DEF queue_request, StoredRequest, TypeOK
      <4>3. ASSUME NEW x \in RequestId, Stored(x)'
            PROVE  requests'[x].created_at < WindowStart + Week
        <5>1. CASE x = r
          BY <2>2, <4>2, <5>1
        <5>2. CASE x # r
          <6>1. Stored(x) /\ requests'[x] = requests[x]
            BY <4>2, <4>3, <5>2 DEF Stored
          <6>2. QED
            BY <1>1, <1>2, <2>1, <6>1
        <5>3. QED
          BY <5>1, <5>2
      <4>4. QED
        BY <2>1, <2>2, <4>2, <4>3 DEF InWindow
    <3>2. CASE ~\E agent \in Account, t \in Terms, approved \in BOOLEAN :
                  queue_request(sender, agent, r, t, approved)
      <4>1. /\ week_started_at' \in {week_started_at, WindowStart} /\ now' = now
            /\ \A x \in RequestId \ {r} : requests'[x] = requests[x]
            /\ Stored(r) /\ requests'[r].created_at = requests[r].created_at
        <5>1. Stored(r)
          BY <2>3, <3>2
          DEF RequestStep, claim_execution, CanClaim, record_execution, CanRecordExecution,
              record_execution_failure, CanRecordFailure, record_bridge_initiated,
              CanRecordBridge, record_bridge_attested, CanRecordAttested, Approved, Stored
        <5>2. requests'[r].created_at = requests[r].created_at
          BY <1>1, <5>1, DecisionStep DEF DecisionKept, vars
        <5>3. \A x \in RequestId \ {r} : requests'[x] = requests[x]
          BY <1>1, <2>3, <3>2
          DEF RequestStep, claim_execution, record_execution, record_execution_failure,
              record_bridge_initiated, record_bridge_attested, TypeOK
        <5>4. week_started_at' \in {week_started_at, WindowStart} /\ now' = now
          BY <2>3, <3>2
          DEF RequestStep, claim_execution, record_execution, record_execution_failure,
              record_bridge_initiated, record_bridge_attested, budget
        <5>5. QED
          BY <5>1, <5>2, <5>3, <5>4
      <4>2. week_started_at # Deployment
        BY <1>2, <4>1
      <4>3. ASSUME NEW x \in RequestId, Stored(x)'
            PROVE  requests'[x].created_at < week_started_at' + Week
        <5>1. Stored(x) /\ requests'[x].created_at = requests[x].created_at
          BY <4>1, <4>3 DEF Stored
        <5>2. week_started_at' \in Int /\ week_started_at <= week_started_at'
          BY <2>1, <4>1
        <5>3. QED
          BY <1>1, <1>2, <2>1, <5>1, <5>2
      <4>4. week_started_at' <= now' /\ week_started_at' # Deployment
        BY <1>1, <2>1, <2>2, <4>1, <4>2
      <4>5. QED
        BY <4>3, <4>4 DEF InWindow
    <3>3. QED
      BY <3>1, <3>2
  <2>4. CASE ~\E sender \in Account, r \in RequestId : RequestStep(sender, r)
    <3>1. UNCHANGED <<requests, week_started_at>> /\ now' \in {now, now + 1}
      BY <1>1, <2>4
      DEF Next, AdminStep, update_policy, set_whitelist_entry, set_whitelist_enabled,
          set_destination_chain_entry, register_delegation, register_vault,
          set_policy_active, Tick, budget, settings, vars
    <3>2. QED
      BY <1>1, <3>1 DEF LedgerInv, InWindow, Stored
  <2>5. QED
    BY <2>3, <2>4
<1>4. QED
  BY <1>3 DEF WindowStart

(* The ledger across a write on one request: a submission and a retry add   *)
(* the amount to the spend of the window they open, a failure gives it back *)
(* in full, and no other write changes what the request is charged.         *)
LEMMA LedgerRequest ==
  ASSUME IsFiniteSet(RequestId), LedgerInv, PolicyInv', FirstWindow',
         NEW sender \in Account, NEW r \in RequestId, RequestStep(sender, r)
  PROVE  weekly_spent' = SumFunction(Charge')
<1>1. /\ TypeOK /\ TypeOK'
      /\ requests \in [RequestId -> Request \cup {NotStored}]
      /\ Charge \in [RequestId -> Nat]
      /\ SumFunction(Charge) \in Nat
  BY ChargeTyped, SumTyped DEF LedgerInv, PolicyInv, TypeOK
<1>2. \A x \in RequestId : Stored(x) =>
        Stored(x)' /\ requests'[x].created_at = requests[x].created_at
  <2>1. [Next]_vars
    BY DEF Next
  <2>2. [DecisionKept]_vars
    BY <2>1, DecisionStep DEF LedgerInv
  <2>3. QED
    BY <2>2 DEF DecisionKept, vars, Stored
<1>3. /\ week_started_at' = week_started_at => weekly_spent = SumFunction(Charge)
      /\ week_started_at' = WindowStart => WindowSpent = SumFunction(Charge)
  BY <1>2, WindowLedger
<1>4. \A x \in RequestId \ {r} : requests'[x] = requests[x]
  BY <1>1 DEF RequestStep, queue_request, claim_execution, record_execution,
              record_execution_failure, record_bridge_initiated, record_bridge_attested
<1>5. SumFunction(Charge') = SumFunction(Charge) + (Charge'[r] - Charge[r])
  BY <1>1, <1>4, ChargeMoves
<1>6. Stored(r) => /\ requests[r] \in Request
                   /\ requests[r].terms.amount \in Nat
  BY <1>1, StoredIsRequest, NumberAssumption DEF Request, Terms
<1>7. /\ Charge[r] = IF Approved(r) /\ requests[r].status # "failed"
                     THEN requests[r].terms.amount ELSE 0
      /\ Charge'[r] = IF Approved(r)' /\ requests'[r].status # "failed"
                      THEN requests'[r].terms.amount ELSE 0
  BY DEF Charge
<1>8. ASSUME NEW agent \in Account, NEW t \in Terms, NEW approved \in BOOLEAN,
             queue_request(sender, agent, r, t, approved)
      PROVE  weekly_spent' = SumFunction(Charge')
  <2>1. Charge[r] = 0 /\ WindowSpent = SumFunction(Charge) /\ t.amount \in Nat
    BY <1>3, <1>7, <1>8, NumberAssumption
    DEF queue_request, CanQueue, Stored, Approved, Terms
  <2>2. CASE ~BreaksRule(t) /\ approved
    <3>1. requests'[r] = StoredRequest(t, "approved", "ready")
      BY <1>1, <1>8, <2>2 DEF queue_request
    <3>2. Charge'[r] = t.amount
      BY <1>7, <3>1 DEF StoredRequest, Approved
    <3>3. weekly_spent' = WindowSpent + t.amount
      BY <1>8, <2>2 DEF queue_request
    <3>4. QED
      BY <1>1, <1>5, <2>1, <3>2, <3>3
  <2>3. CASE BreaksRule(t) \/ ~approved
    <3>1. requests'[r] = StoredRequest(t, "denied", "not_applicable")
      BY <1>1, <1>8, <2>3 DEF queue_request
    <3>2. Charge'[r] = 0
      BY <1>7, <3>1 DEF StoredRequest, Approved
    <3>3. weekly_spent' = WindowSpent
      BY <1>8, <2>3 DEF queue_request
    <3>4. QED
      BY <1>1, <1>5, <2>1, <3>2, <3>3
  <2>4. QED
    BY <2>2, <2>3
<1>9. CASE claim_execution(sender, r)
  <2>1. /\ Approved(r) /\ Stored(r)
        /\ requests'[r] = [requests[r] EXCEPT !.status = "executing", !.claimed_at = now]
    BY <1>1, <1>9 DEF claim_execution, CanClaim, Approved, Stored
  <2>2. Charge'[r] = requests[r].terms.amount
    BY <1>6, <1>7, <2>1 DEF Approved, Request
  <2>3. CASE requests[r].status = "failed"
    <3>1. Charge[r] = 0
      BY <1>7, <2>3
    <3>2. /\ weekly_spent' = WindowSpent + requests[r].terms.amount
          /\ week_started_at' = WindowStart
      BY <1>9, <2>3 DEF claim_execution
    <3>3. QED
      BY <1>1, <1>3, <1>5, <1>6, <2>1, <2>2, <3>1, <3>2
  <2>4. CASE requests[r].status # "failed"
    <3>1. Charge[r] = requests[r].terms.amount
      BY <1>7, <2>1, <2>4
    <3>2. weekly_spent' = weekly_spent /\ week_started_at' = week_started_at
      BY <1>9, <2>4 DEF claim_execution, budget
    <3>3. QED
      BY <1>1, <1>3, <1>5, <1>6, <2>1, <2>2, <3>1, <3>2
  <2>5. QED
    BY <2>3, <2>4
<1>10. CASE record_execution_failure(sender, r)
  <2>1. /\ Approved(r) /\ Stored(r) /\ requests[r].status = "executing"
        /\ requests'[r] = [requests[r] EXCEPT !.status = "failed", !.claimed_at = NoClaim]
        /\ week_started_at' = week_started_at
    BY <1>1, <1>10 DEF record_execution_failure, CanRecordFailure, Approved, Stored
  <2>2. Charge[r] = requests[r].terms.amount
    BY <1>7, <2>1
  <2>3. Charge'[r] = 0
    BY <1>6, <1>7, <2>1 DEF Request
  <2>4. Charge[r] <= SumFunction(Charge)
    BY <1>1, TermBelowSum
  <2>5. weekly_spent = SumFunction(Charge)
    BY <1>3, <2>1
  <2>6. weekly_spent' = weekly_spent - requests[r].terms.amount
    BY <1>10, <2>2, <2>4, <2>5 DEF record_execution_failure
  <2>7. QED
    BY <1>1, <1>5, <1>6, <2>1, <2>2, <2>3, <2>5, <2>6
<1>11. CASE \E hash \in Hash : \/ record_execution(sender, r, hash)
                               \/ record_bridge_initiated(sender, r, hash)
                               \/ record_bridge_attested(sender, r, hash)
  <2>1. /\ Stored(r) /\ requests[r].status # "failed"
        /\ requests'[r].status # "failed"
        /\ requests'[r].terms = requests[r].terms
        /\ requests'[r].verdict = requests[r].verdict
    <3>1. Stored(r) /\ requests[r].status # "failed"
      BY <1>11
      DEF record_execution, CanRecordExecution, record_bridge_initiated, CanRecordBridge,
          record_bridge_attested, CanRecordAttested, Approved, Stored
    <3>2. QED
      BY <1>1, <1>6, <1>11, <3>1
      DEF record_execution, record_bridge_initiated, record_bridge_attested, Request
  <2>2. Charge'[r] = Charge[r]
    BY <1>7, <2>1 DEF Approved
  <2>3. weekly_spent' = weekly_spent /\ week_started_at' = week_started_at
    BY <1>11 DEF record_execution, record_bridge_initiated, record_bridge_attested, budget
  <2>4. Charge[r] \in Nat
    BY <1>1
  <2>5. QED
    BY <1>1, <1>3, <1>5, <2>2, <2>3, <2>4
<1>12. QED
  BY <1>8, <1>9, <1>10, <1>11 DEF RequestStep

(* Every step keeps the ledger.                                             *)
LEMMA LedgerStep ==
  ASSUME IsFiniteSet(RequestId), LedgerInv, [Next]_vars
  PROVE  LedgerInv'
<1>1. PolicyInv'
  BY InvStep DEF LedgerInv
<1>2. InWindow'
  BY <1>1, InWindowStep
<1>3. FirstWindowLedger'
  <2>1. CASE \E sender \in Account, r \in RequestId : RequestStep(sender, r)
    BY <1>1, <2>1, LedgerRequest DEF FirstWindowLedger
  <2>2. CASE ~\E sender \in Account, r \in RequestId : RequestStep(sender, r)
    <3>1. UNCHANGED <<requests, weekly_spent, week_started_at>>
      BY <2>2
      DEF Next, AdminStep, update_policy, set_whitelist_entry, set_whitelist_enabled,
          set_destination_chain_entry, register_delegation, register_vault,
          set_policy_active, Tick, budget, settings, vars
    <3>2. Charge' = Charge
      BY <3>1 DEF Charge, Approved
    <3>3. FirstWindow' => FirstWindow
      BY <3>1 DEF FirstWindow, Stored
    <3>4. QED
      BY <3>1, <3>2, <3>3 DEF LedgerInv, FirstWindowLedger
  <2>3. QED
    BY <2>1, <2>2
<1>4. QED
  BY <1>1, <1>2, <1>3 DEF LedgerInv

(* A policy is deployed with nothing spent and nothing charged.             *)
LEMMA LedgerInit == ASSUME IsFiniteSet(RequestId), Init PROVE LedgerInv
<1>1. PolicyInv
  BY InvInit
<1>2. \A r \in RequestId : ~Stored(r) /\ ~Approved(r)
  BY DEF Init, Stored, Approved, NotStored
<1>3. InWindow
  BY <1>2 DEF Init, InWindow, Deployment
<1>4. \A r \in RequestId : Charge[r] = 0
  BY <1>2 DEF Charge
<1>5. SumFunction(Charge) = 0
  BY <1>1, <1>4, ChargeTyped, SumZero DEF PolicyInv
<1>6. QED
  BY <1>1, <1>3, <1>5 DEF LedgerInv, FirstWindowLedger, Init

(* The budget is the ledger of the payments: as long as the first window is *)
(* open, weekly_spent is the total of the approved requests that have not   *)
(* been refunded, however claims, failures, retries, takeovers and bridges  *)
(* of any number of requests interleave.                                    *)
THEOREM BudgetIsLedger ==
  ASSUME IsFiniteSet(RequestId)
  PROVE  Spec => []FirstWindowLedger
<1>1. Init => LedgerInv
  BY LedgerInit
<1>2. LedgerInv /\ [Next]_vars => LedgerInv'
  BY LedgerStep
<1>3. LedgerInv => FirstWindowLedger
  BY DEF LedgerInv
<1>4. QED
  BY <1>1, <1>2, <1>3, PTL DEF Spec

-----------------------------------------------------------------------------
(* An id without a request has the marker, and nothing else.                *)
Unused == \A r \in RequestId : ~Stored(r) => requests[r] = NotStored

(* Every step keeps it: only queue_request stores a request.                *)
LEMMA UnusedStep == PolicyInv /\ Unused /\ [Next]_vars => Unused'
<1> SUFFICES ASSUME PolicyInv, Unused, [Next]_vars PROVE Unused'
  OBVIOUS
<1>1. requests \in [RequestId -> Request \cup {NotStored}]
  BY DEF PolicyInv, TypeOK
<1>2. \A x \in RequestId : Stored(x) => requests'[x].verdict = requests[x].verdict
  BY DecisionStep DEF DecisionKept, vars
<1>3. ASSUME NEW sender \in Account, NEW r \in RequestId, RequestStep(sender, r)
      PROVE  Unused'
  <2>1. \A x \in RequestId \ {r} : requests'[x] = requests[x]
    BY <1>1, <1>3 DEF RequestStep, queue_request, claim_execution, record_execution,
                      record_execution_failure, record_bridge_initiated,
                      record_bridge_attested
  <2>2. Stored(r) \/ requests'[r].verdict \in {"approved", "denied"}
    <3>1. ASSUME NEW agent \in Account, NEW t \in Terms, NEW approved \in BOOLEAN,
                 queue_request(sender, agent, r, t, approved)
          PROVE  requests'[r].verdict \in {"approved", "denied"}
      <4>1. requests'[r] \in {StoredRequest(t, "denied", "not_applicable"),
                              StoredRequest(t, "approved", "ready")}
        BY <1>1, <3>1 DEF queue_request
      <4>2. QED
        BY <4>1 DEF StoredRequest
    <3>2. CASE ~\E agent \in Account, t \in Terms, approved \in BOOLEAN :
                  queue_request(sender, agent, r, t, approved)
      BY <1>3, <3>2
      DEF RequestStep, claim_execution, CanClaim, record_execution, CanRecordExecution,
          record_execution_failure, CanRecordFailure, record_bridge_initiated,
          CanRecordBridge, record_bridge_attested, CanRecordAttested, Approved, Stored
    <3>3. QED
      BY <3>1, <3>2
  <2>3. Stored(r)'
    BY <1>2, <2>2 DEF Stored
  <2>4. QED
    BY <2>1, <2>3 DEF Unused, Stored
<1>4. CASE ~\E sender \in Account, r \in RequestId : RequestStep(sender, r)
  <2>1. UNCHANGED requests
    BY <1>4
    DEF Next, AdminStep, update_policy, set_whitelist_entry, set_whitelist_enabled,
        set_destination_chain_entry, register_delegation, register_vault,
        set_policy_active, Tick, vars
  <2>2. QED
    BY <2>1 DEF Unused, Stored
<1>5. QED
  BY <1>3, <1>4

(* Only an approval of a new request and a claim of a refunded one charge,  *)
(* each by its amount over what the window it falls in has spent.           *)
LEMMA ChargeStep ==
  ASSUME PolicyInv, Unused, [Next]_vars, weekly_spent' > weekly_spent
  PROVE  \E r \in RequestId :
           /\ Approved(r)'
           /\ requests[r].status \in {"none", "failed"}
           /\ requests'[r].status \in {"ready", "executing"}
           /\ weekly_spent' - WindowSpent = requests'[r].terms.amount
<1>1. /\ requests \in [RequestId -> Request \cup {NotStored}]
      /\ weekly_spent \in Nat /\ WindowSpent \in Nat /\ WindowSpent <= weekly_spent
      /\ ~(weekly_spent > weekly_spent)
  BY WindowTyped DEF PolicyInv, TypeOK, WindowSpent
<1>2. PICK sender \in Account, r \in RequestId : RequestStep(sender, r)
  BY <1>1 DEF Next, AdminStep, update_policy, set_whitelist_entry, set_whitelist_enabled,
              set_destination_chain_entry, register_delegation, register_vault,
              set_policy_active, Tick, budget, vars
<1>3. Stored(r) => requests[r] \in Request /\ requests[r].terms.amount \in Nat
  BY StoredIsRequest, NumberAssumption DEF PolicyInv, Request, Terms
<1>4. ASSUME NEW agent \in Account, NEW t \in Terms, NEW approved \in BOOLEAN,
             queue_request(sender, agent, r, t, approved)
      PROVE  /\ Approved(r)'
             /\ requests[r].status \in {"none", "failed"}
             /\ requests'[r].status \in {"ready", "executing"}
             /\ weekly_spent' - WindowSpent = requests'[r].terms.amount
  <2>1. t.amount \in Nat /\ requests[r].status = "none"
    <3>1. t.amount \in Nat
      BY NumberAssumption DEF Terms
    <3>2. requests[r] = NotStored
      BY <1>4 DEF queue_request, CanQueue, Unused
    <3>3. QED
      BY <3>1, <3>2 DEF NotStored
  <2>2. ~BreaksRule(t) /\ approved
    BY <1>1, <1>4 DEF queue_request
  <2>3. /\ requests'[r] = StoredRequest(t, "approved", "ready")
        /\ weekly_spent' = WindowSpent + t.amount
    BY <1>1, <1>4, <2>2 DEF queue_request
  <2>4. QED
    BY <1>1, <2>1, <2>3 DEF StoredRequest, Approved
<1>5. CASE claim_execution(sender, r)
  <2>1. /\ requests[r].status = "failed" /\ Approved(r) /\ Stored(r)
        /\ weekly_spent' = WindowSpent + requests[r].terms.amount
        /\ requests'[r] = [requests[r] EXCEPT !.status = "executing", !.claimed_at = now]
    BY <1>1, <1>5 DEF claim_execution, CanClaim, Approved, Stored, budget
  <2>2. requests'[r].terms = requests[r].terms /\ requests'[r].status = "executing"
        /\ Approved(r)'
    BY <1>3, <2>1 DEF Request, Approved
  <2>3. weekly_spent' - WindowSpent = requests'[r].terms.amount
    BY <1>1, <1>3, <2>1, <2>2
  <2>4. QED
    BY <2>1, <2>2, <2>3
<1>6. CASE record_execution_failure(sender, r)
  <2>1. weekly_spent' <= weekly_spent
    BY <1>1, <1>3, <1>6 DEF record_execution_failure, CanRecordFailure, Approved, Stored
  <2>2. QED
    BY <1>1, <1>3, <1>6, <2>1 DEF record_execution_failure, CanRecordFailure, Approved, Stored
<1>7. CASE \E hash \in Hash : \/ record_execution(sender, r, hash)
                              \/ record_bridge_initiated(sender, r, hash)
                              \/ record_bridge_attested(sender, r, hash)
  BY <1>1, <1>7 DEF record_execution, record_bridge_initiated, record_bridge_attested, budget
<1>8. QED
  BY <1>2, <1>4, <1>5, <1>6, <1>7 DEF RequestStep

(* The budget grows only for a payment that still has to be made, and by    *)
(* exactly its amount: no lease takeover, bridge step or replay charges.    *)
THEOREM ChargesMatchRequests == Spec => ChargeMatchesRequest
<1>1. Init => Unused
  BY DEF Init, Unused
<1>2. Unused /\ PolicyInv /\ [Next]_vars =>
        [weekly_spent' > weekly_spent =>
           \E r \in RequestId :
             /\ Approved(r)'
             /\ requests[r].status \in {"none", "failed"}
             /\ requests'[r].status \in {"ready", "executing"}
             /\ weekly_spent' - WindowSpent = requests'[r].terms.amount]_vars
  BY ChargeStep
<1>3. QED
  BY <1>1, <1>2, UnusedStep, Invariance, PTL DEF Spec, ChargeMatchesRequest
=============================================================================
