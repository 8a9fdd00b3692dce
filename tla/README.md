# Treasury Copilot in TLA+

Treasury Copilot lets an AI agent ask for USDC payments. A GenLayer contract
decides each request against the owner's policy, a scheduled web route carries
out the approved ones, and a settlement backend (a vault on Arc or the 1Shot
relayer with an ERC-7715 delegation) moves the money. Before that an owner sets
a policy up from a web page, and beside it a store counts and shows what
happened. This directory models the parts that keep state and the rules several
of them have to agree on, checks them with TLC on small instances and proves
properties of the contracts and routes with TLAPS for every instance.

Paths in this file are relative to the repository; `apps/web/src` is
abbreviated `web`.

## 1. Inventory

| Component | State | Operations | What makes it correct |
| --- | --- | --- | --- |
| Policy contract `contracts/genlayer/TreasuryPolicy.py` | requests, evidence keys, weekly spend and window, owner settings and nonce | `queue_request`, `claim_execution`, `record_execution`, `record_execution_failure`, `record_bridge_initiated/attested`, `update_policy`, allowlist entries, `register_delegation/vault` | decisions are final; one invoice pays once; the budget is charged exactly for what is still to be paid and never past the cap; status and transaction trail agree |
| Registry contract `contracts/genlayer/TreasuryRegistry.py` | one binding per policy (active, agent, key version), owner nonces | `register_policy`, `consume_owner_nonce`, `set_policy_active`, `rotate_api_key` | one active policy per owner, agent and chain; a nonce is used once; a rotation fences older keys |
| Vault `contracts/evm/src/AgentTreasury.sol` | `executed`, balance, fee reserve and its cap, pause, executor, messenger | `payout`, `payoutCrossChain`, `withdraw`, fee reserve calls, owner controls | a request settles once; the reserve is backed and bounded; principal and fees stay apart |
| Settlement workers `web/app/api/cron/execute`, `web/lib/apiServer.ts`, `web/lib/cctpBridge.ts`, `web/lib/arcVault.ts` | none of their own: they read a contract, wait minutes, and write | select, claim, pay, record, report failure, complete a bridge | one payer at a time; nothing is paid twice; executed means delivered; every approved request is executed in the end |
| 1Shot client `web/lib/oneShot7710.ts` | the relayer's task | send, poll | a transfer is not sent again while the first may land |
| Spend API `web/app/api/v1/spend`, `submitSpendThroughPolicy` | none: reads both contracts, submits one write | check key, look up, submit, answer | idempotency under concurrent and repeated submissions |
| Key route `web/app/api/owner/agent-key` | the registry's key version; keys are signed claims | rotate, revoke | rotated keys stop working, the owner is left with one that works |
| Setup `web/app/api/v1/setup` | none: it makes up to six contract writes in a row | scan for a policy of the binding; deploy and register, or update and consume the owner's nonce; retire older policies; register the grant; read back; issue a key | one current policy per binding, one nonce per signature, no grant and no key without a consumed signature, wherever it stops |
| Owner API `web/app/api/owner/policy`, sessions `web/app/api/auth` | the policy's nonce; cookies | signed policy changes; challenge, login, logout | a policy change is applied once, by the signature made for it; a setup takes a session and a fresh signature of the same account |
| Setup page `web/app/setup/page.tsx`, `VaultFunding`, `OwnerAuthButton` | React state, the wallet's account and network | approve a delegation or deploy a vault, sign and post the setup, fund | what is set up is what was signed, whatever is edited or switched meanwhile |
| Pilot store `web/lib/pilotStore.ts` | MongoDB rows, events and counters; one memoised connection per instance | record, observe, count | a row and an event only show what happened; limits hold; an outage ends |
| CCTP client and chains `web/lib/cctp.ts`, `packages/shared` | none | chain registry, fee, route, attestation | a burn is minted on the chain asked for and delivers the whole amount |
| Admission rules `web/lib/apiServer.ts` | none | key against policy and binding, profile, blockers, the executor's checks | they agree with each other |
| Evidence `web/lib/evidence.ts` | none | verify, derive the invoice key | one invoice has one key |
| Arc funding `web/lib/arcFunding.ts` | none | plan an allowance and a burn into a vault | as for CCTP; the allowance covers the burn |
| Relay server, other pages, error texts, legacy `Treasury.sol` | none or outside the payment path | | |

How they interact. The web application holds no lock and no queue: the two
GenLayer contracts are its shared state. A read returns what the contract said
at that moment; a write is submitted, finalized minutes later, and refused by
the contract if its conditions no longer hold. All writes come from one platform
account. Vault transactions come from one Arc executor account. CCTP mints on
the destination chain happen by themselves once a burn is attested.

What is hard here:

* every `await` between a read and a write is a place where other invocations,
  the owner and the chains move (`web/lib/apiServer.ts:551-596`);
* a wait may time out although the transaction is still applied later
  (`web/lib/genlayerServer.ts:184-197`, `web/lib/oneShot7710.ts:207`);
* a worker may be killed between any two of its writes;
* an error after the claim is reported as a failure and retried
  (`web/lib/apiServer.ts:593`), so the replay protection behind it matters;
* the weekly budget is charged, refunded and charged again over windows that
  roll over meanwhile;
* keys are rotated while submissions that use them are under way;
* a setup writes to two contracts which nobody orders relative to each other,
  and may overlap with another setup of the same owner (`web/app/api/v1/setup/route.ts:107-299`);
* a page function keeps what it showed when it was clicked while wallet, form
  and session move on (`web/app/setup/page.tsx:148-342`);
* a memoised promise is shared by all handlers of an instance
  (`web/lib/pilotStore.ts:119-176`).

`PROJECT.json` lists each of these hazards at its line, with the properties that
cover it or the reason why none does yet.

## 2. Modules

| Module | Models | Composed from |
| --- | --- | --- |
| `TreasuryPolicy` | the policy contract and the binding it reads | |
| `AgentTreasury` | the vault | |
| `SpendApi` | spend and key routes in front of the policy | `TreasuryPolicy` |
| `Settlement` | cron workers, GenLayer writes, vault or relayer, Circle's mint | `TreasuryPolicy`, `AgentTreasury` (as `Vault`), `Payment` (as `Promise`) |
| `Payment` | what the copilot promises about each request, without any of the above | |
| `Registry` | the registry contract: bindings, nonces, key versions, as actions | |
| `Setup` | the setup and policy change routes, the wallets that sign, the policy contracts they deploy | `Registry` |
| `Console` | the owner's browser: wallet, cookies, login, setup page, funding | |
| `Pilot` | the pilot store and the handlers of one instance that use it | |
| `Chains` | the chain registry, settlement backends and CCTP routes, as operators | |
| `Rules` | fees, burns and admission, as questions with one answer | `Chains` |
| `MCTreasuryPolicy`, `MCAgentTreasury`, `MCSettlement`, `MCSpendApi`, `MCSetup`, `MCConsole`, `MCPilot`, `MCRules` | symmetry and the values of the constants | the module of the same name |
| `TreasuryPolicyProofs`, `AgentTreasuryProofs`, `SpendApiProofs`, `SettlementProofs`, `SetupProofs`, `ConsoleProofs`, `PilotProofs`, `RulesProofs` | theorems | the module of the same name and TLAPS; `SpendApiProofs` and `SettlementProofs` also extend `TreasuryPolicyProofs`, and the latter uses `AgentTreasuryProofs` for its vault |

**TreasuryPolicy.** `requests[r]` is the stored `PolicyRequest`: its terms
(recipient, amount, invoice key, destination chain), verdict, `execution_status`,
claim time and the three transaction hashes. `policy` holds the owner's
settings, `binding` the registry's record. Each public write is one action with
the code's name; the conditions under which the code raises are negated in the
guard, because GenLayer rolls a raising write back. Guards a caller needs are
named (`CanClaim`, `CanQueue`, ...). Left out: texts and their length checks, the
request deadline (it only raises), and `review_request`, which waits for a
status no write of this contract version leaves behind, since `queue_request`
stores, reviews and finalizes in one transaction. The LLM's verdict is a free
choice. The denial of an already used invoice calls its helper with too few
arguments (`TreasuryPolicy.py:299-303`) and raises, so `CanQueue` refuses it.

**AgentTreasury.** One action per external function; `require` is a guard. The
clone is initialized by the factory in the same transaction, so `Init` is an
initialized vault. `settled` is a history variable that records the settlements
of each request. The reentrancy flag has no state of its own because neither
USDC nor Circle's messenger calls back.

**SpendApi.** A handler goes through the reads of `submitSpendThroughPolicy` one
step at a time: key against binding, lookup, submission. `version` and `known`
are history: what the registry and the policy said when the submission arrived.
A key call verifies the signed nonce, submits its write, waits, and reads the
version back. `terms` stands for everything `isSameSpendRequest` compares. The
policy read has no step of its own because no route changes the fields it
compares once a key exists.

**Settlement.** A worker's `pc` names what it does next or waits for; `since` is
when it started. `Write` submits a write, `Apply` lets the contract accept or
refuse the oldest one and tells the waiting worker. `Pay` reads the vault
(`Preflight`) and sends; `LandVault` or `LandRelayed` is the arrival on chain.
`Apply` stands for acceptance and finality together: the workers read finalized
state and wait for finality. Faults are a killed worker (`Crash`), a wait that
gives up (`GiveUp`), a dropped write or payment; `Expire` is the platform's
`maxDuration`. In all of them the transaction that was submitted stays
(`Forsake`). Claims, records and failures are the actions of `TreasuryPolicy`;
payouts are the actions of `AgentTreasury`.

**Payment.** Four actions: decide, pay, deliver, report. `Settlement` maps its
state onto it with `Promise`, where money that was not paid once and on the
approved terms is "wrong", a value `Payment` has no step to.

**Registry and Setup.** A binding besides its owner (agent, delegated account,
token, chain) is one value, its slot; what a setup asks for is a plan: slot,
grant and caps. An invocation of a route goes from `pc` to `pc`, one read or one
write per step; `Write` is a write the route waits for, which the contract
accepts or refuses (`Accepts`), after which the invocation goes on (`After`) or
stops. `Lose` kills it or gives its wait up at any step; its write then goes to
`late`, from where it is applied whenever it likes, in any order. A setup starts
from nothing or from a policy of an earlier contract version (`Legacy`).
`consumed` and `changes` record what took a nonce.

**Console.** A click starts a task that carries what the page showed: account,
form, binding and the network the page believed in (`active`). `SwitchAccount`,
`SwitchNetwork`, `SelectChain`, `EditForm`, `Reload`, `ExpireCookie`, `Logout`
and a login in another tab may happen between any two steps of a task. A login
challenge is the cookie that carries it, signed by the server, which keeps none
of its own: `challenges` are those that have not run out, `posted` the logins
sent so far, and `RepeatLogin` sends one of them once more with the cookie it
carried, which `OpenSession` and `RepeatLogin` answer alike (`Answer`). Wallet
prompts are steps that happen with the wallet's state at that moment; a wallet
that is on another network refuses. The server's part of setup is one step
(`PostSetup`), since `Setup` has its parts.

**Pilot.** `memo` is how far the two memoised promises of `collections()` are:
none, connecting, connected, indexing, ready. All waiting handlers share it;
`Settle` resolves or rejects it for all of them at once. `rate_limits` has a
counter per identifier and window as in MongoDB. `chain` and `past` are what
GenLayer holds and has held of each request. A row is reduced to the
status its writer saw, an event to type, request and status, which is its key.
Counters are kept no longer than their window, the least any grace allows. A
submission or feedback that is let through leaves a ticket in the set `passed`
for each counter it used: the identifier, the time it was counted at and a
number that keeps it apart from the others.
`outage` marks invocations during which the cluster was down, so that
`LostOnlyInOutage` can say that no other one fails. "Up" means that the driver
reaches the cluster: an attempt that began in an outage and rejects shortly after
it (`pilotStore.ts:125`, 3.5 s) counts as part of it.

**Chains and Rules.** The registry of chains with the CCTP domains, environments
and backends the source gives them, key by key. `Rules` asks one question per
behaviour: a funding plan, a vault payout, or a spend with a policy, the claims
of a key, a binding and a deployment. What Circle does with a burn (`MintedOn`,
`Charges`) is external and is modelled from the comments in `cctp.ts` and
`arcFunding.ts`: it mints on the chain of the burn's environment and domain, and
charges what it published for the burn's threshold.

Reductions worth knowing. Time is counted in units of which a week, a lease and
a route's duration are multiples; only the order lease > duration, which the
code's ten and five minutes give, matters. A worker's duration is counted for
one request, while one cron invocation handles several in a row. The cron
slices (first 50 policies, last 25 requests) are not modelled: a worker may
select any request. In `Settlement` the policy's caps and lists do not change,
and the vault's owner pauses and withdraws but leaves executor and reserve alone,
which would only make the vault refuse a payout; those changes are checked in
`TreasuryPolicy` and `AgentTreasury` alone.

## 3. Runs

| Run | Question | Bounds and why they are enough |
| --- | --- | --- |
| `policy_budget` | is the budget charged for exactly what is to be paid, within the cap, and one invoice approved once | two requests, amounts 1 and 2 under caps 1 and 2 and one administrative change, so that two requests compete, a denial can follow a refund and the cap may be lowered below what is charged or awaits a retry; a window of 2 and time 2, so that a window rolls over with a request in every status; one invoice both requests may carry |
| `policy_trail` | do status, hashes and decision stay consistent while the owner edits the allowlists | one request (the properties speak of one), two chains for direct and bridged, two hashes so that an overwritten one shows, one administrative change |
| `vault` | accounting and replay protection under every caller | two requests, three units, amounts 0 to 2 and fees 0 and 1: enough for a reserve that is exceeded, shrunk and refilled; the vault may pay itself |
| `spend` | idempotency and key fencing under concurrency | two handlers, two key calls, three submissions (accept, race, replay), three setups or calls (a setup and two overlapping rotations), one fault |
| `settle_promise` | does paying from the vault implement `Payment` | two workers and two faults (the first payer and one retry, each with a loss), either chain, an owner who pauses, withdraws and revokes |
| `settle_lease` | does the lease exclude, and outlive its holder, for payments that end in one stage | three workers, two faults, lease 2 and duration 1, time 3, so that a lease is taken over |
| `settle_live` | is every approved request executed | two requests on either chain, one worker, no faults |
| `setup` | what do overlapping, repeated and lost setups leave behind | one owner and one slot (bindings of different slots or owners share only the nonce counter, which two plans share too), three policy addresses so that two setups can both deploy beside an older policy, two grants, two invocations, three posts of two signatures (one is posted twice), one rotation or revocation, one lost invocation |
| `console` | is what is set up what was signed and granted | two accounts, one vault chain and two delegation chains of which one is served, two caps; four clicks (login, grant or vault, register, fund) and two changes of wallet, form, page or cookies meanwhile (a repeated login is one), so that something can change and change back |
| `pilot` | is the projection true, do limits hold, does an outage end | two keys of one agent and one tester, limits 1, 2 and 1 in windows of 2, 2 and 3 ticks, so that key and agent limits bind separately; two handlers, three invocations; time runs over a window's end; one outage, restart or dropped write |
| `rules` | do the scattered rules agree, does a burn deliver | all 32 chains of the registry and an unknown id; every shape of fee answer with up to two entries; policies of three versions and two backends with every combination of what is compared |

Violation, of a sentence the repository states:

| Run | What TLC finds |
| --- | --- |
| `settle_double` | A 1Shot transfer that outlives the status poll is recorded as failed and sent again by the next run (`README.md:692-694` promises the opposite). |

Other consequences of the code that the models reach and no run states:

* a worker lost between claim and payment leaves its request `executing`; the
  contract would let another worker take the lease over after ten minutes, but
  the cron route selects only `ready` and `failed` requests, so nobody does;
* a vault payment whose record is lost is retried for ever: the vault refuses
  the repeated payout, and the contract never learns of the first one; its amount
  is refunded to the weekly budget;
* a client that repeats a submission with a rotated key submits a new payment,
  because the request id is derived from the key id;
* two overlapping submissions with one idempotency key and different payments
  are both answered as accepted; the contract stores the first;
* an invoice used twice is never answered: the second write is rolled back.

Settlement:

* a request approved in one window and failed in the next is refunded to the
  next (`TreasuryPolicy.py:429`), so the requests approved in that window can
  exceed the weekly cap (`README.md:466-467`); the other request's own refund is
  skipped when the window has less than its amount left, and then that window
  stays charged for nothing. `FirstWindowLedger` speaks of the first window only;
* a cross-chain request of a 1Shot policy is paid on the policy's own chain and
  recorded as executed: `executeOneShot` is not given the destination
  (`web/lib/apiServer.ts:583`; `web/app/docs/page.tsx:339-341`);
* a worker that read a request as ready may claim it after another worker's burn
  made it bridging (`TreasuryPolicy.py:410`); the vault refuses a second payout,
  the request ends as failed, and its mint is never recorded;
* in the same way two workers can be paying one cross-chain request at once,
  which `README.md:1242` excludes: the first claims, burns and submits the bridge
  record, its wait times out and it submits a failure report; the bridge record
  is applied, then the claim of the second, which read the request as ready, and
  then the late report, after which a third run (or the first worker's next)
  claims again. `LeaseExclusion` and `PaysUnderLease` therefore except bridged
  payments; `PaidAtMostOnce` and `KeepsPromise` do not, since the vault refuses
  what it has executed;
* so with two workers `ApprovedIsExecuted` does not hold: a request put back from
  bridging by a late claim is retried, and the vault refuses it, for ever,
  although its burn has been made;
* a worker lost between the two writes that complete a bridge leaves the request
  executing with a destination hash, not bridging as the comment at
  `web/lib/cctpBridge.ts:78` says, and no stage selects it again.

Setup and owner administration:

* the update of an existing policy writes the caps before it consumes the
  owner's nonce (`setup/route.ts:258-272`), so a setup that is refused may have
  changed them;
* an older policy left active by a crash between registration and retirement is
  never retired by a later setup, which finds the new policy first;
* a setup under way may overwrite a policy change signed later, and of two
  overlapping setups the older one's grant may stay; its `ReadBack` then refuses;
* a policy revoked during a setup still gets a key, which the spend route refuses;
* `destination_chains` of the body is not part of what the owner signs
  (`ownerActions.ts:59-71`, `setup/route.ts:178-190`).

Page:

* a login challenge is not used up at the server, which only deletes the browser's
  copy: the same POST opens a session again until the challenge is five minutes
  old, also after a logout (`ownerAuth.ts:40-49`, `session/route.ts:12-16`).
  `SetupAsSigned` holds because setup asks for a fresh signature besides;
* choosing another chain while a vault is deployed or a delegation is approved
  leaves the page with one chain selected and a grant of another: the delegation
  brings its own chain, a vault is registered and funded under the chosen one,
  where it may not exist (`setup/page.tsx:196-231`, `VaultFunding.tsx:160`);
* a vault belongs to the account the wallet is on when it sends, and the server
  checks neither its owner nor its chain;
* the network is compared with the one the page last rendered
  (`useEnsureChain.ts:19`): after a switch back the wallet refuses the step;
* after a deposit the balance is refreshed with the closure of the click
  (`VaultFunding.tsx:52-64`);
* Base Mainnet is offered as available while the server accepts a delegation on
  84532 only (`setup/page.tsx:52-65`, `setup/route.ts:66`).

Pilot store:

* a row may exist for a request GenLayer never stored, when the write shown as
  submitted was dropped;
* a refused key still spends its agent's window, because both counters are
  consumed before either is looked at (`spend/route.ts:23-38`);
* a rejection is keyed by its correlation id, so repeats under one id are lost;
  the id stored with a row is overwritten by later polls;
* `created_at` changes from the server's clock to GenLayer's, so that paging by
  it may skip a row (`pilotStore.ts:340`);
* `setAgentLabel` filters on the policy alone, so a name set by another owner's
  session replaces it (`pilotStore.ts:400-416`; its comment says it is scoped).

Admission, evidence and errors (the second is reached by `Rules`, the others come
from reading the code):

* the profile and the admission check treat an Arc policy older than version 6
  differently (no such policy can be set up, and the model has none);
* the executor accepts a version 6 vault policy without a registered vault,
  because `vaultAddressFor` falls back to the funding account;
* the balance route reads what the vault holds, the fee reserve included;
* `weekly_cap_exhausted` does not ask whether the window has rolled over
  (`apiServer.ts:337`);
* evidence is verified before the idempotent replay is looked up
  (`apiServer.ts:437`), so a replay after the evidence expired is refused;
* invoice items are compared with their case, the invoice key without it;
* `friendlyError` rewrites network errors before `apiCode` classifies them, so
  that an outage is answered as `request_failed` 400 and not as the retryable 502
  of `SKILL.md:310` (`errors.ts:96`).

`CHECK_DEADLOCK FALSE` is set everywhere: the bounded clock, budgets of calls and
faults, and a policy whose requests are all executed are states in which the
system really has nothing left to do.

**Fairness.** `settle_live` uses `FairSpec`: weak
fairness of each worker's own steps and of its expiry (the schedule in
`.github/workflows/relay-cron.yml` runs every five minutes and the route ends
by answering or by being killed), of the application of submitted writes and
payments and of Circle's mint (the chains make progress), and of the clock.
Faults, new submissions and the owner's moves are never owed. The workflow's
concurrency group serialises its own calls, so one worker is the usual case and
`settle_live` uses one; but `vercel.json` schedules the same route once more, a
workflow job ends when its HTTP call times out although the route may go on, and
nothing in the route excludes a second invocation, so the safety runs use two or
three. The clock stands still
in `settle_live`: its runs finish within their duration. What it does not show is
progress under racing claims, which the code does not have (above).

Each property of a passing run has a mutant in `PROJECT.json`: a definition
with a plausible mistake (`... Mutant ...` in the modules) under which TLC finds
the property violated.

## 4. Proofs

`TreasuryPolicyProofs` proves, for every value of the constants:

* `TypeCorrect`: in particular the budget stays a natural number although
  refunds are subtracted without looking at the window;
* `TrailIsConsistent`, `InvoicesPayOnce`, `OwnChainStaysPayable` from the
  inductive invariant `PolicyInv == TypeOK /\ HashTrail /\ InvoiceOwned /\
  SettlementChainPayable`. `InvoicePaidOnce` is not inductive: nothing in it
  says that an approved request still holds its evidence key, which is what the
  lookup relies on. `InvoiceOwned` says it, and two owners of one key are equal;
* `ChargesFitTheCap`, `DecisionsAreFinal` and `ChargesMatchRequests`, the action
  properties, from type correctness, for the second from the trail (a recorded
  transaction excludes every status from which a request is written again), and
  for the third from `Unused`: an id without a request holds the marker of one;
* `BudgetIsLedger`, that `weekly_spent` is the sum of what is charged, for any
  finite set of request ids. The library's theorems about folds take operators as
  parameters, so the sum is reasoned about through its own definition: `AddsUp`
  is its recursion, taken along `First`, for which a solution exists and is the
  sum (`SumAddsUp`), by an induction over the sizes of the parts of a finite set
  that is itself proved from the well-ordering of the naturals. `SumUpdate` then
  says that changing one summand changes the sum by the difference, and one step
  of the contract changes at most one charge (`ChargeMoves`). `FirstWindowLedger`
  holds of no later window, because a refund goes to the window it falls in;
  `LedgerInv` adds that no request is created after the window that is open
  (`InWindow`), so that when it rolls over, every stored request is left behind
  and the first window is over unless there is none.

`AgentTreasuryProofs` proves `VaultTypeCorrect`, `RequestsSettleOnce`,
`ReserveIsBacked`, `ReserveIsBounded` and `PrincipalIsSeparate` from `VaultInv ==
TypeOK /\ SettledOnce /\ FeeReserveBacked /\ ReserveWithinCap`. The conjuncts
need each other: that a burn of principal and fee does not overdraw the balance
follows from the reserve being backed.

`SpendApiProofs` proves, for any number of handlers, calls, keys and writes:

* `RotationFences`: an issued key keeps its version and a submission never
  remembers a version ahead of the registry's (`Fence`), so a key that passes
  the check is at least as new as every rotation before the submission arrived;
* `SubmissionsIdempotent`: what was stored on arrival is still stored, with the
  same terms, when the submission looks it up (`Remembered`, `StoreGrows`);
* `RotationLeavesLiveKey`: the property only speaks of quiet states, so the
  invariant `LiveInv` says what holds while calls are under way. A version
  nobody holds a key of is about to be read back by some call (`Issuing`), and
  every write of the key route has its own call waiting for it (`Waited`), so
  that answering a revocation never takes the place of a call that is about to
  issue a key;
* `SpendTypeCorrect`, with the bounds on key versions and queues as part of the
  invariant (`Bounded`);
* `RoutesDrivePolicy`, that is `SpendSpec => Spec`: seen from the contract every
  step of the routes is a step of `TreasuryPolicy` or none, so that the theorems
  above hold behind the routes too.

`SettlementProofs` proves, for any number of workers, requests and faults:

* `KeepsToTheContract`, that is `SettlementSpec => Spec`; `SettlementTypeCorrect`.
  Both rest on `BaseInv`, which has the invariants of the contract and of the
  vault as conjuncts and adds what workers and queues are about: requests that are
  approved (`OnApproved`), one submitter waiting for each write or payment
  (`Awaited`), runs within their duration (`Timely`), and only bridged requests in
  the second stage (`StagesSplit`). A step is first reduced to one of eight forms
  (`RunStep`: a worker starts, submits, sends, refrains or leaves, a write is
  applied, a payment lands, or none of these), so that no later lemma has to look
  at the actions themselves;
* `LeaseExcludes` and `PayersHoldTheLease`. Neither is inductive: that a second
  claim is refused depends on reports still under way. `LeaseOf(r)` says that one
  worker at most is past the claim of `r` (`OneHolder`), that an open request has
  neither a holder nor a report about it in the queue (`OpenIsFree`), that the
  reports of an attempt come in order and from a holder that has come so far, and
  that the claim of a payer is no older than its run (`PayersClaimed`). As a run is
  shorter than a lease, the takeover the contract allows never meets a live payer;
* `VaultPaysOnce` and `VaultKeepsPromise`, for `Backend = "arc-vault"`; the run
  `settle_double` shows that the assumption is needed. `PaidInv` relates the vault
  to the reports: what is settled was approved and on its terms, whoever reports a
  payment reports one that was made, a mint has its burn, and an executed request
  has been delivered. Under it money is never "wrong" (`MoneyIsSeen`) and every
  step is one of `Payment`'s four actions or changes nothing it sees.

`SetupProofs` proves the seven properties of the run `setup` for any number of
owners, policies, invocations, lost invocations and late writes. None of them is
inductive: each depends on what an invocation read several steps ago, or on what
was true when a write that is still to be applied was submitted. The invariant
`SetupInv` has a part for each.

* `World` says how the contracts agree: the registry's lists name the bindings
  (`Bindings`), nobody signs for a nonce still to come (`SignedPast`), every
  applied change is behind its policy's nonce (`ChangesBehind`).
* `HandlerOK` says what an invocation knows where it stands: what its scan has
  concluded (`Scanned`), what it knows of its policy and of its signature
  (`Placed`), which branch it is on (`Branch`). The heart of
  `OnePolicyPerSlotHolds` is `NoMatch`: a scan that found nothing is right for as
  long as the nonce it was signed for is the owner's next one, and
  `register_policy` compares just that nonce.
* `TxOK` says what may be assumed of a submitted write, so that losing the
  invocation and applying the write later changes nothing.

All three survive the steps of others because the contracts only grow (`Grows`):
bindings and deployments keep their owner, slot and version, nonces and consumed
signatures are never taken back, and a retired policy is never active again,
since none of these callers passes `active = true` to `set_policy_active`. The
lemmas `...Stable` say so, the lemmas `...OK` are the moves of one invocation.

`ConsoleProofs` proves the four properties of the run `console` for any number of
accounts, chains, caps, clicks and changes. `ConsoleInv` says for each task what
it has captured and how far it is (`RegisteringOK`: what was signed is what was
captured at the click; `LoginsOK`: challenges and posted logins are of accounts,
so that a session opened once more is of one too), so that a
change of wallet, form, page or cookies, which touches no task, disturbs nothing.

`PilotProofs` proves the four properties of the run `pilot` for any number of
handlers, requests and outages.

* `PilotTypeCorrect`, `FailsOnlyInOutage` and `ProjectionIsTrue` come from
  `PilotInv`: an invocation that is about to write has a status its request really
  had (`InvocationOK`), what the history says stays said (`Remembered`), whoever
  waits has a promise to wait for, and a status shown by a row has its event, a
  writer of it or a loss (`RowsOK`). `ProjectionTrue` alone is not inductive: it
  says nothing of invocations between a read of GenLayer and their write.
* `SubmissionsAreBounded` comes from `LimitsInv`. What an invocation has counted
  and not used yet is a slot; in each window, tickets passed and slots held are
  together no more than the counter says and no more than the limit, and a counter
  that has expired belongs to a window that is over. Tickets are a set so that
  they can be counted by the library's theorems on cardinality. That any period of
  a window's length holds at most twice the limit follows because it meets two
  windows.

`RulesProofs` proves `AdmissionIsOne` and `BurnsDeliver` for every set of policies,
keys, bindings, amounts and fee answers. The chains are the registry's, whose
entries are computed once each (`ChainEntry`), so that a messenger tells the
environment and a domain tells the network.

The assumptions are the named ones of the modules: the owner and gateway are
accounts, request ids are derived from key and idempotency key, nobody is not a
call, the null values differ from real ones, amounts, fees, caps and durations
are naturals, a week and the windows of the limits are not empty, a run is
shorter than a lease. `RulesAssumption` says what Circle publishes (`Published`):
at most one entry for a threshold, with forwarding fees that do not fall from
tier to tier, which is what `quoteFee` relies on when it takes the highest.
TLC evaluates all of them in every run. Two theorems have a hypothesis of their
own, named above: a finite set of request ids, and the vault as backend.

Only model-checked: `ApprovedIsExecuted`, the one liveness property, since
liveness under fairness is beyond the prover; and `PaidAtMostOnce` for the
relayer, which is false. Every other property of a run is stated by a theorem.
The theorems say nothing of the lease of bridged payments, for which the
properties make no claim.

## 5. Not modelled

Evidence fetching, payload validation, amounts, wording, denial codes and their
classification in `errors.ts`: they are conversions of text to text whose
properties are about single strings. Key expiry and deadlines of requests, which
only refuse. Redelegation, capability probing and fee quotes of the 1Shot client
and of MetaMask, which are structural checks of what a third party answers. The
metrics and the cursor of the pilot store, which only read. The slices of a cron
run (first 50 policies, last 25 requests), so that liveness is claimed for a
worker that may select any request. The relay server, the documentation, admin
and dashboard pages, which keep no state of the payment path; the verification
scripts, which drive deployed contracts by hand; and the legacy `Treasury.sol`,
which the application does not call.

## 6. Plan

Most important first; done so far are 1 to 7 and 9.

1. `TreasuryPolicy` with its budget, invoice, trail and decision properties, and
   their proofs.
2. `AgentTreasury` with replay protection and reserve accounting, and their
   proofs.
3. `Payment` and `Settlement`: lease, refinement, liveness.
4. `SpendApi`: idempotency and key rotation, and their proofs.
5. `Registry` and `Setup`: registration with owner nonces; setup as a sequence
   of writes that may stop between any two, beside signed policy changes, and
   their proofs; and `Console`, the page that asks for the signatures.
6. `Pilot`: the projection, the rate limits and the memoised connection.
7. `Chains` and `Rules`: routes, fees and admission.
8. `CronSchedule`: the slices and the time budget of one cron run over several
   policies, composed with `Settlement`.
9. Proofs of the other modules: the lease and the refinement of `Payment` for any
   number of workers, the budget as a sum, the page, the pilot store, the rules.
10. What remains for proofs: that the mint of a bridged payment is recorded at
    most once; `Setup` against an abstract specification of "one policy per slot".
