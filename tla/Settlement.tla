----------------------------- MODULE Settlement ------------------------------
(***************************************************************************)
(* How an approved request becomes a payment: the cron workers of          *)
(* api/cron/execute between the GenLayer policy contract (TreasuryPolicy)  *)
(* and the settlement backend, which is the Arc vault (AgentTreasury) or   *)
(* the 1Shot relayer with an ERC-7715 delegation.                          *)
(*                                                                         *)
(* A worker moves one request through executeApprovedPolicyRequest or      *)
(* advanceBridgedRequest.  Every await of the code is a place where other  *)
(* workers, the chains and the owner move: a write is submitted (Write)    *)
(* and applied later (Apply), a settlement is sent (Pay) and lands later   *)
(* (Land).  All writes come from the one platform account, so they are     *)
(* applied in the order they were sent, and so are vault transactions.     *)
(* A fault is a lost worker, an exception or a timeout while the chain     *)
(* goes on; MaxFaults bounds them.                                         *)
(***************************************************************************)
EXTENDS TreasuryPolicy, Sequences, Functions

CONSTANTS
  Worker,        \* concurrent runs of the cron route
  Nobody,        \* the submitter of a write or payment nobody waits for
  Agent,         \* the policy's agent
  Signer,        \* the platform's Arc executor account
  Self,          \* the vault's address
  Fee,           \* CCTP fees Circle may quote
  MaxHeld,       \* funding of the vault
  Reserve,       \* of which earmarked for CCTP fees
  PayHash,       \* hash of a settlement transaction
  MintHash,      \* hash of Circle's mint on the destination chain
  MaxDuration,   \* the platform kills a route that has run this long
  MaxFaults,     \* bound on faults
  OwnerActs      \* does the owner pause, unpause and withdraw?

ASSUME WorkerAssumption ==
  /\ Nobody \notin Worker
  /\ {Agent, Signer} \subseteq Account
  /\ {PayHash, MintHash} \subseteq Hash
  /\ MaxDuration \in Nat /\ MaxDuration < Lease
  /\ Fee \subseteq Nat
  /\ MaxHeld \in Nat /\ Reserve \in 0..MaxHeld /\ MaxFaults \in Nat
  /\ OwnerActs \in BOOLEAN

VARIABLES
  worker,    \* what each worker does, for which request, since when
  writes,    \* GenLayer writes submitted and not yet applied
  sent,      \* settlements sent and not yet landed
  relayed,   \* number of 1Shot transfers made for each request
  minted,    \* burns Circle has minted on the destination chain
  faults,
  executed, balance, feeReserve, feeReserveCap, paused, executor,
  messenger_set, settled

Vault == INSTANCE AgentTreasury

vault == <<executed, balance, feeReserve, feeReserveCap, paused, executor,
           messenger_set, settled>>
chain == <<relayed, minted, vault>>
allVars == <<vars, worker, writes, sent, faults, chain>>

(* The writes of the platform account, and the places of a worker that      *)
(* submit them and wait for them.                                           *)
Op == {"claim", "record", "bridge", "fail", "attest", "close"}
Submits == {"claim", "record", "fail", "attest", "close"}
Waiting == [claim |-> "claiming", record |-> "recording", fail |-> "failing",
            attest |-> "attesting", close |-> "closing"]
Place == {"idle", "pay", "paying"} \cup Submits \cup Range(Waiting)

Idle == [pc |-> "idle"]
Busy(w) == worker[w].pc # "idle"

SettlementTypeOK ==
  /\ TypeOK
  /\ worker \in [Worker -> {Idle} \cup
                           [pc : Place, request : RequestId, since : Nat]]
  /\ writes \in Seq([op : Op, request : RequestId, by : Worker \cup {Nobody}])
  /\ sent \in Seq([request : RequestId, fee : Fee \cup {0},
                   by : Worker \cup {Nobody}])
  /\ relayed \in [RequestId -> Nat]
  /\ minted \subseteq RequestId
  /\ faults \in 0..MaxFaults
  /\ Vault!TypeOK

-----------------------------------------------------------------------------
(* A policy that has been set up to allow every recipient and chain, and a  *)
(* vault its owner has funded.                                              *)
SettlementInit ==
  /\ Init
  /\ policy.authorized_agent = Agent
  /\ policy.destinations = Chain /\ policy.whitelist = {}
  /\ worker = [w \in Worker |-> Idle]
  /\ writes = <<>> /\ sent = <<>>
  /\ relayed = [r \in RequestId |-> 0]
  /\ minted = {}
  /\ faults = 0
  /\ executed = [r \in RequestId |-> FALSE]
  /\ settled = [r \in RequestId |-> <<>>]
  /\ balance = MaxHeld
  /\ feeReserve = Reserve /\ feeReserveCap = Reserve
  /\ paused = FALSE /\ executor = Signer /\ messenger_set = TRUE

(* The steps of a worker at `from' for its request.                         *)
Goto(w, from, to) ==
  /\ worker[w].pc = from
  /\ worker' = [worker EXCEPT ![w].pc = to]

(* A payment from the vault to another chain is a CCTP burn.  The 1Shot     *)
(* path transfers on the policy's own chain whatever the destination is.    *)
Bridges(r) == Backend = "arc-vault" /\ RouteOfRequest(r) = "cctp"

-----------------------------------------------------------------------------
(* The cron route picks a request that is ready or has failed, under an     *)
(* active binding; executeApprovedPolicyRequest then checks the policy once *)
(* more.  From here to the claim the request's status is not read again.    *)
Select(w, r) ==
  /\ ~Busy(w)
  /\ Approved(r)
  /\ requests[r].status \in {"ready", "failed"}
  /\ binding.active /\ binding.agent = policy.authorized_agent
  /\ is_reporter(Gateway)
  /\ Authority \in policy.registered
  /\ worker' = [worker EXCEPT
                  ![w] = [pc |-> "claim", request |-> r, since |-> now]]
  /\ UNCHANGED <<vars, writes, sent, faults, chain>>

(* fetchAttestation: Circle names the transaction of its forwarding service *)
(* once the burn is minted; until then the stage leaves the request alone.  *)
ForwardMinted(r) == r \in minted

(* advanceBridgedRequestsForPolicy looks at each request that is bridging.  *)
(* When Circle reports the mint two writes follow, attest and then close;   *)
(* an error ends the stage of this request.                                 *)
SelectBridged(w, r) ==
  /\ ~Busy(w)
  /\ binding.active
  /\ Stored(r)
  /\ requests[r].status = "bridging"
  /\ requests[r].destination_tx_hash = NoHash
  /\ requests[r].bridge_tx_hash # NoHash
  /\ ForwardMinted(r)
  /\ worker' = [worker EXCEPT
                  ![w] = [pc |-> "attest", request |-> r, since |-> now]]
  /\ UNCHANGED <<vars, writes, sent, faults, chain>>

(* Mutant: a burn is recorded like a payment that has arrived.              *)
RecordsBurnAsPaid(w) == worker[w].pc

(* genlayerWrite, first half: the transaction is submitted.                 *)
OpOf(w) == IF worker[w].pc = "record" /\ Bridges(worker[w].request)
           THEN "bridge" ELSE worker[w].pc

Write(w) ==
  /\ worker[w].pc \in Submits
  /\ writes' = Append(writes, [op |-> OpOf(w), request |-> worker[w].request,
                               by |-> w])
  /\ Goto(w, worker[w].pc, Waiting[worker[w].pc])
  /\ UNCHANGED <<vars, sent, faults, chain>>

(* How a worker goes on when what it waits for succeeds or throws: a failed *)
(* claim, a failed failure report and a failed bridge stage end the run,    *)
(* any error after the claim leads to record_execution_failure.             *)
Resume(pc, ok) ==
  CASE pc = "claiming"  -> IF ok THEN "pay" ELSE "idle"
    [] pc = "paying"    -> IF ok THEN "record" ELSE "fail"
    [] pc = "recording" -> IF ok THEN "idle" ELSE "fail"
    [] pc = "attesting" -> IF ok THEN "close" ELSE "idle"
    [] OTHER            -> "idle"

AtPlace(w, pc) == IF pc = "idle" THEN Idle ELSE [worker[w] EXCEPT !.pc = pc]

Answer(by, ok) ==
  worker' = IF by = Nobody THEN worker
            ELSE [worker EXCEPT ![by] = AtPlace(by, Resume(worker[by].pc, ok))]

Accepts(op, r) ==
  CASE op = "claim"              -> CanClaim(Gateway, r)
    [] op \in {"record", "close"} -> CanRecordExecution(Gateway, r)
    [] op = "bridge"             -> CanRecordBridge(Gateway, r)
    [] op = "fail"               -> CanRecordFailure(Gateway, r)
    [] op = "attest"             -> CanRecordAttested(Gateway, r)

Effect(op, r) ==
  CASE op = "claim"  -> claim_execution(Gateway, r)
    [] op = "record" -> record_execution(Gateway, r, PayHash)
    [] op = "close"  -> record_execution(Gateway, r, MintHash)
    [] op = "bridge" -> record_bridge_initiated(Gateway, r, PayHash)
    [] op = "fail"   -> record_execution_failure(Gateway, r)
    [] op = "attest" -> record_bridge_attested(Gateway, r, MintHash)

(* GenLayer applies the oldest write; the contract raises if it refuses it. *)
Apply ==
  /\ writes # <<>>
  /\ writes' = Tail(writes)
  /\ LET tx == Head(writes)
     IN  \/ /\ Accepts(tx.op, tx.request)
            /\ Effect(tx.op, tx.request)
            /\ Answer(tx.by, TRUE)
         \/ /\ ~Accepts(tx.op, tx.request)
            /\ UNCHANGED vars
            /\ Answer(tx.by, FALSE)
  /\ UNCHANGED <<sent, faults, chain>>

-----------------------------------------------------------------------------
(* executeArcVaultPayout reads the vault before it sends the transaction;   *)
(* executeOneShot sends a task to the relayer.                              *)
Preflight(r, fee) ==
  /\ ~executed[r]
  /\ executor = Signer
  /\ ~paused
  /\ Vault!availableBalance >= requests[r].terms.amount
  /\ fee <= feeReserve

Quotes(r) == IF Bridges(r) THEN Fee ELSE {0}

Pay(w) ==
  /\ worker[w].pc = "pay"
  /\ LET r == worker[w].request
     IN  \E fee \in Quotes(r) :
           \/ /\ Backend = "arc-vault" => Preflight(r, fee)
              /\ sent' = Append(sent, [request |-> r, fee |-> fee, by |-> w])
              /\ Goto(w, "pay", "paying")
           \/ /\ Backend = "arc-vault" /\ ~Preflight(r, fee)
              /\ Goto(w, "pay", "fail")
              /\ UNCHANGED sent
  /\ UNCHANGED <<vars, writes, faults, chain>>

(* planVaultPayout: the destination chain alone decides the vault call.     *)
VaultAccepts(tx) ==
  LET amount == requests[tx.request].terms.amount
  IN  IF Bridges(tx.request)
      THEN Vault!CanPayCrossChain(Signer, tx.request, amount, tx.fee)
      ELSE Vault!CanPay(Signer, tx.request, amount)

VaultSettles(tx) ==
  LET t == requests[tx.request].terms
  IN  IF Bridges(tx.request)
      THEN Vault!payoutCrossChain(Signer, tx.request, t.recipient, t.amount, tx.fee)
      ELSE Vault!payout(Signer, tx.request, t.recipient, t.amount)

LandVault ==
  /\ Backend = "arc-vault" /\ sent # <<>>
  /\ sent' = Tail(sent)
  /\ LET tx == Head(sent)
     IN  \/ /\ VaultAccepts(tx)
            /\ VaultSettles(tx)
            /\ Answer(tx.by, TRUE)
         \/ /\ ~VaultAccepts(tx)
            /\ UNCHANGED vault
            /\ Answer(tx.by, FALSE)
  /\ UNCHANGED <<vars, writes, faults, relayed, minted>>

(* executeOneShot: the relayer makes the transfer it was sent, as the task  *)
(* of a redelegation (execute7710) or directly (directPost).                *)
LandRelayed ==
  /\ Backend = "delegated-7710" /\ sent # <<>>
  /\ sent' = Tail(sent)
  /\ relayed' = [relayed EXCEPT ![Head(sent).request] = @ + 1]
  /\ Answer(Head(sent).by, TRUE)
  /\ UNCHANGED <<vars, writes, faults, minted, vault>>

(* Circle's forwarding service mints what the vault has burned.             *)
Burned(r) == \E i \in DOMAIN settled[r] : settled[r][i].route = "cctp"

Mint(r) ==
  /\ Burned(r)
  /\ r \notin minted
  /\ minted' = minted \cup {r}
  /\ UNCHANGED <<vars, worker, writes, sent, faults, relayed, vault>>

-----------------------------------------------------------------------------
(* What a worker was waiting for goes on without it.                        *)
Forsake(txs, w) ==
  [i \in DOMAIN txs |-> IF txs[i].by = w THEN [txs[i] EXCEPT !.by = Nobody]
                                         ELSE txs[i]]

Abandon(w) == writes' = Forsake(writes, w) /\ sent' = Forsake(sent, w)

Stop(w) ==
  /\ Busy(w)
  /\ Abandon(w)
  /\ worker' = [worker EXCEPT ![w] = Idle]
  /\ UNCHANGED <<vars, chain>>

(* The platform kills a route that has used up its duration.                *)
Expire(w) == Stop(w) /\ now - worker[w].since >= MaxDuration /\ UNCHANGED faults

Fault == faults < MaxFaults /\ faults' = faults + 1

Crash(w) == Stop(w) /\ Fault

(* The wait for a write or a settlement times out, or the transport throws  *)
(* before a payment is sent: the code sees an error, the transaction stays. *)
GiveUp(w) ==
  /\ worker[w].pc \in Range(Waiting) \cup {"pay", "paying"}
  /\ Abandon(w)
  /\ worker' = [worker EXCEPT
                  ![w] = AtPlace(w, IF worker[w].pc = "pay" THEN "fail"
                                    ELSE Resume(worker[w].pc, FALSE))]
  /\ Fault
  /\ UNCHANGED <<vars, chain>>

(* A write is dropped without consensus; a payment is dropped or rejected.  *)
LoseWrite ==
  /\ writes # <<>>
  /\ writes' = Tail(writes)
  /\ Answer(Head(writes).by, FALSE)
  /\ Fault
  /\ UNCHANGED <<vars, sent, chain>>

LosePayment ==
  /\ sent # <<>>
  /\ sent' = Tail(sent)
  /\ Answer(Head(sent).by, FALSE)
  /\ Fault
  /\ UNCHANGED <<vars, writes, chain>>

-----------------------------------------------------------------------------
(* The other parties: the spend API queues requests, the owner sets up,     *)
(* revokes and restores the policy, pauses the vault and takes money out,   *)
(* of the fee reserve too.  To a payment a rotation of the executor is what *)
(* a pause is, and a change of the reserve what such a withdrawal is: they  *)
(* refuse it.  Both are left to AgentTreasury.                              *)
PolicyStep ==
  /\ \/ \E r \in RequestId, t \in Terms, approved \in BOOLEAN :
          queue_request(Gateway, Agent, r, t, approved)
     \/ register_authority(Gateway)
     \/ OwnerActs /\ \E active \in BOOLEAN : set_policy_active(Owner, active)
  /\ UNCHANGED <<worker, writes, sent, faults, chain>>

VaultOwnerStep ==
  /\ OwnerActs /\ Backend = "arc-vault"
  /\ \/ \E flag \in BOOLEAN : Vault!setPaused(Owner, flag)
     \/ \E recipient \in Recipient, amount \in Amount :
          Vault!withdraw(Owner, recipient, amount)
  /\ UNCHANGED <<vars, worker, writes, sent, faults, relayed, minted>>

(* Time passes only while every worker has duration left.                   *)
Clock ==
  /\ \A w \in Worker : Busy(w) => now - worker[w].since < MaxDuration
  /\ Tick
  /\ UNCHANGED <<worker, writes, sent, faults, chain>>

WorkerStep(w) ==
  \/ \E r \in RequestId : Select(w, r)
  \/ \E r \in RequestId : SelectBridged(w, r)
  \/ Write(w)
  \/ Pay(w)

ChainStep == Apply \/ LandVault \/ LandRelayed \/ \E r \in RequestId : Mint(r)

FaultStep ==
  \/ \E w \in Worker : Crash(w)
  \/ \E w \in Worker : GiveUp(w)
  \/ LoseWrite
  \/ LosePayment

SettlementNext ==
  \/ \E w \in Worker : WorkerStep(w)
  \/ \E w \in Worker : Expire(w)
  \/ ChainStep
  \/ FaultStep
  \/ PolicyStep
  \/ VaultOwnerStep
  \/ Clock

SettlementSpec == SettlementInit /\ [][SettlementNext]_allVars

(* The cron runs every five minutes, the chains make progress, time passes; *)
(* faults and the owner's moves are never owed.                             *)
Fairness ==
  /\ \A w \in Worker : WF_allVars(WorkerStep(w)) /\ WF_allVars(Expire(w))
  /\ WF_allVars(Apply) /\ WF_allVars(LandVault) /\ WF_allVars(LandRelayed)
  /\ \A r \in RequestId : WF_allVars(Mint(r))
  /\ WF_allVars(Clock)

FairSpec == SettlementSpec /\ Fairness
-----------------------------------------------------------------------------
(* How often the payee of a request has been paid or has money under way,   *)
(* and whether it has arrived on the chain the request names.               *)
TimesPaid(r) == Len(settled[r]) + relayed[r]

Delivered(r) ==
  IF RouteOfRequest(r) = "cctp" THEN r \in minted ELSE TimesPaid(r) > 0

Paying(w) == worker[w].pc \in {"pay", "paying"}

(* README.md:1242, "Temporary on-chain lock preventing concurrent duplicate *)
(* execution": no two workers are ever paying the same request, even when   *)
(* writes are applied late, waits time out and workers are killed.  It does *)
(* not hold of a cross-chain payment from the vault: the claim refuses a    *)
(* live "executing" lease but takes a request that is already "bridging",   *)
(* and the late failure report of the first worker then frees it once more. *)
LeaseExclusion ==
  \A v, w \in Worker :
    /\ Paying(v) /\ Paying(w)
    /\ worker[v].request = worker[w].request /\ ~Bridges(worker[w].request)
    => v = w

(* A worker moves money only under a live lease: while it is paying, the    *)
(* contract shows the request executing on a claim nobody may take over.    *)
PaysUnderLease ==
  \A w \in Worker : Paying(w) /\ ~Bridges(worker[w].request) =>
    LET q == requests[worker[w].request]
    IN  q.status = "executing" /\ now - q.claimed_at < Lease

(* README.md:546 -- "Execution leases and request-ID replay protection      *)
(* prevent concurrent workers from creating duplicate payouts."             *)
PaidAtMostOnce == \A r \in RequestId : TimesPaid(r) <= 1

(* The system seen as the promise of module Payment.  A payment that is not *)
(* the one that was approved is nothing the promise allows.                 *)
OnApprovedTerms(r) ==
  \A i \in DOMAIN settled[r] :
    settled[r][i] = [route     |-> RouteOfRequest(r),
                     recipient |-> requests[r].terms.recipient,
                     amount    |-> requests[r].terms.amount]

MoneyOf(r) ==
  CASE TimesPaid(r) = 0                         -> "none"
    [] TimesPaid(r) > 1 \/ ~OnApprovedTerms(r)  -> "wrong"
    [] TimesPaid(r) = 1 /\ OnApprovedTerms(r)   ->
         IF Delivered(r) THEN "delivered" ELSE "sent"

Promise == INSTANCE Payment WITH
  decision <- [r \in RequestId |-> requests[r].verdict],
  money    <- [r \in RequestId |-> MoneyOf(r)],
  reported <- [r \in RequestId |-> requests[r].status = "executed"]

(* Paying from the vault keeps the promise under every fault.               *)
KeepsPromise == Promise!Spec

(* Without faults, every approved request of a policy with a settlement     *)
(* authority is executed in the end.                                        *)
Executed(r) == Stored(r) /\ requests[r].status = "executed"

ApprovedIsExecuted ==
  \A r \in RequestId : Approved(r) /\ Authority \in policy.registered ~> Executed(r)
=============================================================================
