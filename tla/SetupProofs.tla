----------------------------- MODULE SetupProofs -----------------------------
(***************************************************************************)
(* Theorems about Setup, for every choice of its constants: any number of  *)
(* invocations, owners, policies, signatures, lost invocations and writes  *)
(* that are applied late, in any order.                                    *)
(*                                                                         *)
(* The invariant has three parts: what holds of the contracts and the      *)
(* signatures (World), what an invocation may rely on where it stands      *)
(* (HandlerOK), and what may be assumed of a write that is submitted       *)
(* (TxOK).  The last two survive whatever the others do, because the       *)
(* contracts only grow (Grows).                                            *)
(***************************************************************************)
EXTENDS Setup, TLAPS

(* The active policies of the current version that a setup is for, and the  *)
(* ones of an older version that it replaces.                               *)
For(p, sig) == /\ Registered(p) /\ policies[p].active
               /\ policies[p].owner = sig.owner /\ policies[p].slot = sig.plan.slot
Match(p, sig) == For(p, sig) /\ contract[p].version = "6"
Older(p, sig) == For(p, sig) /\ contract[p].version = "5"

(* No setup that is still to take this nonce can find such a policy.        *)
NoMatch(sig) ==
  sig.nonce = owner_nonces[sig.owner] => \A p \in PolicyId : ~Match(p, sig)

DeployedFor(p, sig) ==
  /\ p \in PolicyId /\ Deployed(p)
  /\ contract[p].owner = sig.owner /\ contract[p].slot = sig.plan.slot

Tx ==
  [op : {"register_policy"}, policy : PolicyId, sig : SetupAction]
  \cup [op : {"set_policy_active"}, policy : PolicyId]
  \cup [op : {"update_policy"}, policy : PolicyId, nonce : Nat, caps : Caps]
  \cup [op : {"consume_owner_nonce"}, sig : SetupAction]
  \cup [op : {"register_grant"}, policy : PolicyId, grant : Grant]
  \cup [op : {"change_policy"}, sig : ChangeAction]

Authorized(p, grant) ==
  \E s \in Range(consumed[contract[p].owner]) :
    s.plan.grant = grant /\ s.plan.slot = contract[p].slot

TxOK(tx) ==
  /\ tx \in Tx
  /\ tx.op = "register_policy" =>
       /\ tx.sig \in signed /\ DeployedFor(tx.policy, tx.sig)
       /\ contract[tx.policy].version = "6" /\ NoMatch(tx.sig)
  /\ tx.op = "update_policy" => Deployed(tx.policy)
  /\ tx.op = "consume_owner_nonce" => tx.sig \in signed
  /\ tx.op = "register_grant" => Deployed(tx.policy) /\ Authorized(tx.policy, tx.grant)
  /\ tx.op = "change_policy" => tx.sig \in signed

Scanned(s) ==
  /\ \A p \in Range(s.todo) \cup Range(s.legacy) :
       Registered(p) /\ policies[p].owner = s.sig.owner
  /\ s.pc = "scan" =>
       /\ s.sig.nonce = owner_nonces[s.sig.owner] =>
            \A p \in PolicyId : Match(p, s.sig) => p \in Range(s.todo)
       /\ \A p \in PolicyId : Older(p, s.sig) => p \in Range(s.todo) \cup Range(s.legacy)
  /\ s.pc \in {"deploy", "register"} => NoMatch(s.sig)
  /\ s.pc = "deploy" \/ s.deployed =>
       \A p \in PolicyId : Older(p, s.sig) => p \in Range(s.legacy)

Placed(s) ==
  /\ s.pc \in {"register", "retire", "nonce", "update", "consume", "grant",
               "readback", "issue"} => DeployedFor(s.policy, s.sig)
  /\ s.pc = "register" => contract[s.policy].version = "6"
  /\ s.pc \in {"retire", "nonce", "update", "consume", "grant", "readback", "issue"} =>
       Registered(s.policy)
  /\ s.pc \in {"retire", "grant", "readback", "issue"} =>
       s.sig \in Range(consumed[s.sig.owner])
  /\ s.pc = "issue" => contract[s.policy].grant # NoGrant

Branch(s) ==
  /\ s.pc \in {"register", "retire"} => s.deployed
  /\ s.pc \in {"verify", "index", "scan", "deploy", "nonce", "update", "consume"} =>
       ~s.deployed
  /\ s.pc = "retire" => s.legacy # <<>>
  /\ s.pc \in {"grant", "readback", "issue"} /\ s.deployed => s.legacy = <<>>

HandlerOK(s) ==
  \/ s = Idle
  \/ s \in ChangeState /\ s.sig \in signed
  \/ s \in HandlerState /\ s.sig \in signed /\ Scanned(s) /\ Placed(s) /\ Branch(s)

Types ==
  /\ RegistryTypeOK
  /\ contract \in [PolicyId -> Contract \cup {NotDeployed}]
  /\ signed \subseteq SetupAction \cup ChangeAction
  /\ expired \subseteq signed
  /\ consumed \in [Owner -> Seq(SetupAction)]
  /\ changes \in Seq(ChangeAction)

(* The registry's lists and the contracts agree with the bindings.          *)
Bindings ==
  /\ \A p \in PolicyId : Registered(p) =>
       /\ Deployed(p)
       /\ contract[p].owner = policies[p].owner /\ contract[p].slot = policies[p].slot
       /\ p \in Range(owner_index[policies[p].owner])
  /\ \A o \in Owner : \A p \in Range(owner_index[o]) :
       Registered(p) /\ policies[p].owner = o

(* Nobody signs for a nonce that is still to come.                          *)
SignedPast ==
  /\ \A s \in signed : s \in SetupAction => s.nonce <= owner_nonces[s.owner]
  /\ \A s \in signed : s \in ChangeAction => Deployed(s.policy)

(* Every applied change is behind the nonce of its policy.                  *)
ChangesBehind ==
  \A i \in DOMAIN changes :
    /\ Deployed(changes[i].policy)
    /\ changes[i].nonce < contract[changes[i].policy].policy_nonce

World == /\ Types /\ Bindings /\ SignedPast /\ NonceSpentOnce
         /\ OnePolicyPerSlot /\ GrantsAuthorized /\ ChangesBehind /\ ChangesOnce

Key == [sig : SetupAction, policy : PolicyId, deployed : BOOLEAN, version : Nat]

(* A key can be used, and what it replaced cannot.                          *)
KeyOK(k) ==
  /\ Registered(k.policy)
  /\ policies[k.policy].owner = k.sig.owner /\ policies[k.policy].slot = k.sig.plan.slot
  /\ contract[k.policy].grant # NoGrant
  /\ k.sig \in Range(consumed[k.sig.owner])
  /\ k.deployed => \A p \in PolicyId : ~Older(p, k.sig)

Keys == keys \subseteq Key /\ \A k \in keys : KeyOK(k)

Handlers ==
  /\ handler \in [Handler -> {Idle} \cup HandlerState \cup ChangeState]
  /\ \A s \in Range(handler) : HandlerOK(s)

SetupInv == World /\ Keys /\ Handlers /\ \A tx \in late : TxOK(tx)

(* What any step does to the contracts and the signatures.                  *)
Grows ==
  /\ signed \subseteq signed'
  /\ \A o \in Owner : /\ owner_nonces[o] <= owner_nonces'[o]
                      /\ Range(consumed[o]) \subseteq Range(consumed'[o])
  /\ \A p \in PolicyId : Deployed(p) =>
       /\ Deployed(p)'
       /\ contract'[p].version = contract[p].version
       /\ contract'[p].owner = contract[p].owner
       /\ contract'[p].slot = contract[p].slot
       /\ contract[p].grant # NoGrant => contract'[p].grant # NoGrant
       /\ contract[p].policy_nonce <= contract'[p].policy_nonce
  /\ \A p \in PolicyId : Registered(p) =>
       /\ Registered(p)'
       /\ policies'[p].owner = policies[p].owner
       /\ policies'[p].slot = policies[p].slot
       /\ policies'[p].active => policies[p].active
  /\ \A p \in PolicyId : Registered(p)' /\ ~Registered(p) =>
       /\ contract'[p].version = "6"
       /\ owner_nonces[policies'[p].owner] < owner_nonces'[policies'[p].owner]

-----------------------------------------------------------------------------
(* A registered policy is a record of the registry.                         *)
LEMMA RegisteredIsRecord ==
  ASSUME Types, NEW p \in PolicyId
  PROVE  Registered(p) <=> policies[p] \in RegisteredPolicy
<1>1. ASSUME NEW x \in RegisteredPolicy PROVE x # Unregistered
  <2>1. "slot" \in DOMAIN x
    BY DEF RegisteredPolicy
  <2>2. "slot" \notin DOMAIN Unregistered
    BY DEF Unregistered
  <2> QED BY <2>1, <2>2
<1> QED BY <1>1 DEF Types, RegistryTypeOK, Registered

(* Likewise for a deployed policy contract.                                 *)
LEMMA DeployedIsRecord ==
  ASSUME Types, NEW p \in PolicyId
  PROVE  Deployed(p) <=> contract[p] \in Contract
BY DEF Types, Deployed, Contract, NotDeployed

(* The fields of a deployed contract have their types.                      *)
LEMMA ContractFields ==
  ASSUME Types, NEW p \in PolicyId, Deployed(p)
  PROVE  contract[p].policy_nonce \in Nat /\ contract[p].owner \in Owner
BY DeployedIsRecord DEF Contract

(* What a sequence holds after an element is appended.                      *)
LEMMA RangeAppend ==
  ASSUME NEW S, NEW q \in Seq(S), NEW x \in S
  PROVE  Append(q, x) \in Seq(S) /\ Range(Append(q, x)) = Range(q) \cup {x}
<1>1. Append(q, x) \in Seq(S) /\ Len(Append(q, x)) = Len(q) + 1
  OBVIOUS
<1>2. ASSUME NEW y \in Range(Append(q, x)) PROVE y \in Range(q) \cup {x}
  BY <1>1 DEF Range
<1>3. x \in Range(Append(q, x))
  <2>1. Append(q, x)[Len(q) + 1] = x /\ Len(q) + 1 \in DOMAIN Append(q, x)
    OBVIOUS
  <2> QED BY <2>1 DEF Range
<1>4. ASSUME NEW y \in Range(q) PROVE y \in Range(Append(q, x))
  <2>1. PICK i \in DOMAIN q : q[i] = y
    BY DEF Range
  <2>2. i \in DOMAIN Append(q, x) /\ Append(q, x)[i] = y
    BY <2>1
  <2> QED BY <2>2 DEF Range
<1> QED BY <1>1, <1>2, <1>3, <1>4

(* What a sequence holds besides its head.                                  *)
LEMMA RangeTail ==
  ASSUME NEW S, NEW q \in Seq(S), q # <<>>
  PROVE  /\ Head(q) \in S /\ Tail(q) \in Seq(S)
         /\ Range(q) = {Head(q)} \cup Range(Tail(q))
<1>1. Head(q) \in S /\ Tail(q) \in Seq(S)
  OBVIOUS
<1>2. Head(q) = q[1] /\ 1 \in DOMAIN q
  OBVIOUS
<1>3. ASSUME NEW y \in Range(q), y # Head(q) PROVE y \in Range(Tail(q))
  <2>1. PICK i \in DOMAIN q : q[i] = y
    BY DEF Range
  <2>2. i - 1 \in DOMAIN Tail(q) /\ Tail(q)[i - 1] = y
    BY <2>1, <1>2, <1>3
  <2> QED BY <2>2 DEF Range
<1>4. ASSUME NEW y \in Range(Tail(q)) PROVE y \in Range(q)
  <2>1. PICK i \in DOMAIN Tail(q) : Tail(q)[i] = y
    BY DEF Range
  <2>2. i + 1 \in DOMAIN q /\ q[i + 1] = y
    BY <2>1
  <2> QED BY <2>2 DEF Range
<1>5. Head(q) \in Range(q)
  BY <1>2 DEF Range
<1> QED BY <1>1, <1>3, <1>4, <1>5

-----------------------------------------------------------------------------
(* What the invariant says of a policy, an invocation, a write or a key     *)
(* stays true when the contracts grow.                                      *)
LEMMA BoundPolicy ==
  ASSUME Types, Bindings, NEW p \in PolicyId, Registered(p)
  PROVE  /\ Deployed(p) /\ policies[p] \in RegisteredPolicy
         /\ contract[p].owner = policies[p].owner
         /\ contract[p].slot = policies[p].slot
BY RegisteredIsRecord DEF Bindings

(* No policy becomes one that a setup has to replace, and one it could use  *)
(* appears only by a registration of its owner.                             *)
LEMMA ForStable ==
  ASSUME Types, Types', Bindings, Grows, NEW p \in PolicyId, NEW sig \in SetupAction
  PROVE  /\ Older(p, sig)' => Older(p, sig)
         /\ Match(p, sig)' =>
              \/ Match(p, sig)
              \/ owner_nonces[sig.owner] < owner_nonces'[sig.owner]
<1>1. CASE Registered(p)
  <2>1. Deployed(p)
    BY <1>1, BoundPolicy
  <2>2. contract'[p].version = contract[p].version
    BY <2>1 DEF Grows
  <2>3. For(p, sig)' => For(p, sig)
    BY <1>1 DEF For, Grows
  <2> QED BY <2>2, <2>3 DEF Older, Match
<1>2. CASE ~Registered(p)
  BY <1>2 DEF Older, Match, For, Grows
<1> QED BY <1>1, <1>2

(* A setup that found no policy stays right until its nonce is taken.       *)
LEMMA NoMatchStable ==
  ASSUME Types, Types', Bindings, SignedPast, Grows,
         NEW sig \in SetupAction, sig \in signed, NoMatch(sig)
  PROVE  NoMatch(sig)'
<1>1. sig.owner \in Owner /\ sig.nonce \in Nat
  BY DEF SetupAction
<1>2. /\ owner_nonces[sig.owner] \in Nat /\ owner_nonces'[sig.owner] \in Nat
      /\ sig.nonce <= owner_nonces[sig.owner]
      /\ owner_nonces[sig.owner] <= owner_nonces'[sig.owner]
  BY <1>1 DEF Types, RegistryTypeOK, SignedPast, Grows
<1>3. SUFFICES ASSUME sig.nonce = owner_nonces'[sig.owner], NEW p \in PolicyId
               PROVE  ~Match(p, sig)'
  BY DEF NoMatch
<1>4. sig.nonce = owner_nonces[sig.owner]
  BY <1>2, <1>3
<1>5. ~Match(p, sig)
  BY <1>4 DEF NoMatch
<1>6. ~(owner_nonces[sig.owner] < owner_nonces'[sig.owner])
  BY <1>2, <1>3, <1>4
<1>7. Match(p, sig)' => Match(p, sig) \/ owner_nonces[sig.owner] < owner_nonces'[sig.owner]
  BY ForStable
<1> QED BY <1>5, <1>6, <1>7

(* A deployment keeps its owner, slot and version.                          *)
LEMMA DeployedForStable ==
  ASSUME Grows, NEW p, NEW sig, DeployedFor(p, sig)
  PROVE  DeployedFor(p, sig)' /\ contract'[p].version = contract[p].version
BY DEF Grows, DeployedFor

(* A grant that a consumed signature named stays authorized.                *)
LEMMA AuthorizedStable ==
  ASSUME Types, Types', Grows, NEW p \in PolicyId, NEW grant,
         Deployed(p), Authorized(p, grant)
  PROVE  Authorized(p, grant)'
<1>1. contract[p].owner \in Owner
  BY DeployedIsRecord DEF Contract
<1> QED BY <1>1 DEF Authorized, Grows

(* A write that was allowed when submitted is allowed when it is applied.   *)
LEMMA TxStable ==
  ASSUME Types, Types', Bindings, SignedPast, Grows, NEW tx, TxOK(tx)
  PROVE  TxOK(tx)'
<1>1. tx \in Tx
  BY DEF TxOK
<1>2. CASE tx.op = "register_policy"
  <2>1. tx.sig \in SetupAction
    BY <1>1, <1>2 DEF Tx
  <2> QED BY <1>1, <1>2, <2>1, NoMatchStable, DeployedForStable DEF TxOK, Grows
<1>3. CASE tx.op = "register_grant"
  <2>1. tx.policy \in PolicyId
    BY <1>1, <1>3 DEF Tx
  <2> QED BY <1>1, <1>3, <2>1, AuthorizedStable DEF TxOK, Grows
<1>4. CASE tx.op = "update_policy"
  <2>1. tx.policy \in PolicyId
    BY <1>1, <1>4 DEF Tx
  <2> QED BY <1>1, <1>4, <2>1 DEF TxOK, Grows
<1>5. CASE tx.op \in {"set_policy_active", "consume_owner_nonce", "change_policy"}
  BY <1>1, <1>5 DEF TxOK, Grows
<1>6. tx.op \in {"register_policy", "set_policy_active", "update_policy",
                 "consume_owner_nonce", "register_grant", "change_policy"}
  BY <1>1 DEF Tx
<1> QED BY <1>2, <1>3, <1>4, <1>5, <1>6

(* What an invocation concluded from its scan stays true.                   *)
LEMMA ScannedStable ==
  ASSUME Types, Types', Bindings, SignedPast, Grows,
         NEW s \in HandlerState, s.sig \in signed, Scanned(s)
  PROVE  Scanned(s)'
<1>1. /\ s.sig \in SetupAction /\ s.sig.owner \in Owner /\ s.sig.nonce \in Nat
      /\ s.todo \in Seq(PolicyId) /\ s.legacy \in Seq(PolicyId)
  BY DEF HandlerState, SetupAction
<1>2. /\ owner_nonces[s.sig.owner] \in Nat /\ owner_nonces'[s.sig.owner] \in Nat
      /\ s.sig.nonce <= owner_nonces[s.sig.owner]
      /\ owner_nonces[s.sig.owner] <= owner_nonces'[s.sig.owner]
  BY <1>1 DEF Types, RegistryTypeOK, SignedPast, Grows
<1>3. Range(s.todo) \cup Range(s.legacy) \subseteq PolicyId
  BY <1>1 DEF Range
<1>4. \A p \in Range(s.todo) \cup Range(s.legacy) :
        Registered(p)' /\ policies'[p].owner = s.sig.owner
  BY <1>3 DEF Scanned, Grows
<1>5. ASSUME s.pc = "scan"
      PROVE  /\ s.sig.nonce = owner_nonces'[s.sig.owner] =>
                  \A p \in PolicyId : Match(p, s.sig)' => p \in Range(s.todo)
             /\ \A p \in PolicyId :
                  Older(p, s.sig)' => p \in Range(s.todo) \cup Range(s.legacy)
  BY <1>1, <1>2, <1>5, ForStable DEF Scanned
<1>6. s.pc \in {"deploy", "register"} => NoMatch(s.sig)'
  BY <1>1, NoMatchStable DEF Scanned
<1>7. s.pc = "deploy" \/ s.deployed =>
        \A p \in PolicyId : Older(p, s.sig)' => p \in Range(s.legacy)
  BY <1>1, ForStable DEF Scanned
<1> QED BY <1>4, <1>5, <1>6, <1>7 DEF Scanned

(* What an invocation knows of its policy stays true.                       *)
LEMMA PlacedStable ==
  ASSUME Types, Types', Grows, NEW s \in HandlerState, Placed(s)
  PROVE  Placed(s)'
<1>1. s.sig.owner \in Owner
  BY DEF HandlerState, SetupAction
<1>2. s.pc \in {"register", "retire", "nonce", "update", "consume", "grant",
                "readback", "issue"} =>
        DeployedFor(s.policy, s.sig)' /\ contract'[s.policy].version = contract[s.policy].version
  BY DeployedForStable DEF Placed
<1>3. s.pc \in {"retire", "nonce", "update", "consume", "grant", "readback", "issue"} =>
        Registered(s.policy)'
  BY DEF Placed, Grows, DeployedFor
<1>4. s.pc \in {"retire", "grant", "readback", "issue"} =>
        s.sig \in Range(consumed'[s.sig.owner])
  BY <1>1 DEF Placed, Grows
<1>5. s.pc = "issue" => contract'[s.policy].grant # NoGrant
  BY DEF Placed, Grows, DeployedFor
<1> QED BY <1>2, <1>3, <1>4, <1>5 DEF Placed

(* Steps of others do not disturb an invocation.                            *)
LEMMA HandlerStable ==
  ASSUME Types, Types', Bindings, SignedPast, Grows, NEW s, HandlerOK(s)
  PROVE  HandlerOK(s)'
BY ScannedStable, PlacedStable DEF HandlerOK, Branch, Grows

(* An answered key stays usable and what it replaced stays retired.         *)
LEMMA KeyStable ==
  ASSUME Types, Types', Bindings, Grows, NEW k \in Key, KeyOK(k)
  PROVE  KeyOK(k)'
<1>1. k.policy \in PolicyId /\ k.sig \in SetupAction /\ k.sig.owner \in Owner
  BY DEF Key, SetupAction
<1>2. Deployed(k.policy)
  BY <1>1, BoundPolicy DEF KeyOK
<1>3. \A p \in PolicyId : Older(p, k.sig)' => Older(p, k.sig)
  BY <1>1, ForStable
<1> QED BY <1>1, <1>2, <1>3 DEF KeyOK, Grows

-----------------------------------------------------------------------------
(* What a step does to the contracts.                                       *)
LEMMA PastStable ==
  ASSUME Types, Types', SignedPast, Grows, signed' = signed
  PROVE  SignedPast'
<1>1. ASSUME NEW s \in signed, s \in SetupAction PROVE s.nonce <= owner_nonces'[s.owner]
  <2>1. s.owner \in Owner /\ s.nonce \in Nat
    BY <1>1 DEF SetupAction
  <2>2. /\ owner_nonces[s.owner] \in Nat /\ owner_nonces'[s.owner] \in Nat
        /\ owner_nonces[s.owner] <= owner_nonces'[s.owner]
    BY <2>1 DEF Types, RegistryTypeOK, Grows
  <2> QED BY <1>1, <2>1, <2>2 DEF SignedPast
<1>2. ASSUME NEW s \in signed, s \in ChangeAction PROVE Deployed(s.policy)'
  BY <1>2 DEF SignedPast, Grows, ChangeAction
<1> QED BY <1>1, <1>2 DEF SignedPast

(* A registered policy that is current after a step was current before.     *)
LEMMA CurrentStable ==
  ASSUME Types, Types', Bindings, Grows, NEW p \in PolicyId, Registered(p), Current(p)'
  PROVE  Current(p)
<1>1. Deployed(p)
  BY BoundPolicy
<1> QED BY <1>1 DEF Current, Grows

(* A step that registers nothing keeps one policy for each slot.            *)
LEMMA OneStable ==
  ASSUME Types, Types', Bindings, Grows, OnePolicyPerSlot,
         \A p \in PolicyId : Registered(p)' => Registered(p)
  PROVE  OnePolicyPerSlot'
<1> SUFFICES ASSUME NEW p \in PolicyId, NEW q \in PolicyId, Current(p)', Current(q)',
                    policies'[p].owner = policies'[q].owner,
                    policies'[p].slot = policies'[q].slot
             PROVE  p = q
  BY DEF OnePolicyPerSlot
<1>1. Registered(p) /\ Registered(q)
  BY DEF Current
<1>2. Current(p) /\ Current(q)
  BY <1>1, CurrentStable
<1>3. policies[p].owner = policies[q].owner /\ policies[p].slot = policies[q].slot
  BY <1>1 DEF Grows
<1> QED BY <1>2, <1>3 DEF OnePolicyPerSlot

(* Grants stay authorized while the contracts do not change.                *)
LEMMA GrantsStable ==
  ASSUME Types, Types', Grows, GrantsAuthorized, UNCHANGED contract
  PROVE  GrantsAuthorized'
<1> SUFFICES ASSUME NEW p \in PolicyId, Deployed(p)', contract'[p].grant # NoGrant
             PROVE  Authorized(p, contract[p].grant)'
  BY DEF GrantsAuthorized, Authorized
<1>1. Deployed(p) /\ Authorized(p, contract[p].grant)
  BY DEF Deployed, GrantsAuthorized, Authorized
<1>2. \E s \in Range(consumed[contract[p].owner]) :
        s.plan.grant = contract[p].grant /\ s.plan.slot = contract[p].slot
  BY <1>1 DEF Authorized
<1>3. contract[p].owner \in Owner
  BY <1>1, DeployedIsRecord DEF Contract
<1> QED BY <1>2, <1>3 DEF Authorized, Grows

(* A step that touches neither contract keeps the world.                    *)
LEMMA QuietStep ==
  ASSUME World, Types', signed \subseteq signed', SignedPast',
         UNCHANGED <<registry, contract, history>>
  PROVE  World' /\ Grows
<1>1. Grows
  <2>1. \A o \in Owner : owner_nonces[o] <= owner_nonces'[o]
    BY DEF World, Types, RegistryTypeOK, registry
  <2>2. \A p \in PolicyId : Deployed(p) => contract[p].policy_nonce <= contract'[p].policy_nonce
    BY ContractFields DEF World
  <2> QED BY <2>1, <2>2 DEF Grows, registry, history, Deployed, Registered
<1>2. Bindings'
  BY DEF World, Bindings, registry, Deployed, Registered
<1>3. NonceSpentOnce' /\ ChangesOnce'
  BY DEF World, NonceSpentOnce, ChangesOnce, registry, history
<1>4. OnePolicyPerSlot'
  BY DEF World, OnePolicyPerSlot, Current, Registered, registry
<1>5. GrantsAuthorized'
  BY <1>1, GrantsStable DEF World
<1>6. ChangesBehind'
  BY DEF World, ChangesBehind, Deployed, history
<1> QED BY <1>1, <1>2, <1>3, <1>4, <1>5, <1>6 DEF World

(* Consuming a nonce, by registration or alone.                             *)
LEMMA NonceStep ==
  ASSUME Types, NonceSpentOnce, NEW sig \in SetupAction,
         sig.nonce = owner_nonces[sig.owner],
         owner_nonces' = [owner_nonces EXCEPT ![sig.owner] = sig.nonce + 1],
         consumed' = [consumed EXCEPT ![sig.owner] = Append(@, sig)]
  PROVE  /\ NonceSpentOnce'
         /\ owner_nonces' \in [Owner -> Nat] /\ consumed' \in [Owner -> Seq(SetupAction)]
         /\ \A o \in Owner : /\ owner_nonces[o] <= owner_nonces'[o]
                             /\ Range(consumed[o]) \subseteq Range(consumed'[o])
         /\ sig \in Range(consumed'[sig.owner])
<1>1. sig.owner \in Owner /\ sig.nonce \in Nat
  BY DEF SetupAction
<1>2. owner_nonces \in [Owner -> Nat] /\ consumed \in [Owner -> Seq(SetupAction)]
  BY DEF Types, RegistryTypeOK
<1> DEFINE q == consumed[sig.owner]
<1>3. /\ q \in Seq(SetupAction) /\ Append(q, sig) \in Seq(SetupAction)
      /\ Range(Append(q, sig)) = Range(q) \cup {sig}
  BY <1>1, <1>2, RangeAppend
<1>4. consumed'[sig.owner] = Append(q, sig)
  BY <1>1, <1>2
<1>5. ASSUME NEW o \in Owner
      PROVE  /\ Len(consumed'[o]) = owner_nonces'[o]
             /\ \A i \in DOMAIN consumed'[o] : consumed'[o][i].nonce = i - 1
  <2>1. CASE o # sig.owner
    BY <1>1, <1>2, <2>1 DEF NonceSpentOnce
  <2>2. CASE o = sig.owner
    <3>1. Len(q) = sig.nonce /\ \A i \in DOMAIN q : q[i].nonce = i - 1
      BY <1>1 DEF NonceSpentOnce
    <3>2. Len(Append(q, sig)) = Len(q) + 1
      BY <1>3
    <3>3. \A i \in DOMAIN Append(q, sig) : Append(q, sig)[i].nonce = i - 1
      BY <1>1, <1>3, <3>1
    <3>4. owner_nonces'[o] = sig.nonce + 1
      BY <1>1, <1>2, <2>2
    <3> QED BY <1>4, <2>2, <3>1, <3>2, <3>3, <3>4
  <2> QED BY <2>1, <2>2
<1>6. NonceSpentOnce'
  BY <1>5 DEF NonceSpentOnce
<1>7. owner_nonces' \in [Owner -> Nat] /\ consumed' \in [Owner -> Seq(SetupAction)]
  BY <1>1, <1>2, <1>3
<1>8. ASSUME NEW o \in Owner
      PROVE  /\ owner_nonces[o] <= owner_nonces'[o]
             /\ Range(consumed[o]) \subseteq Range(consumed'[o])
  BY <1>1, <1>2, <1>3, <1>4
<1>9. sig \in Range(consumed'[sig.owner])
  BY <1>3, <1>4
<1> QED BY <1>6, <1>7, <1>8, <1>9

(* register_policy: only here could a second policy of a slot appear.       *)
LEMMA RegistrationStep ==
  ASSUME World, NEW tx, TxOK(tx), tx.op = "register_policy", Accepts(tx), Perform(tx),
         UNCHANGED <<signed, expired>>
  PROVE  World' /\ Grows /\ Registered(tx.policy)' /\ tx.sig \in Range(consumed'[tx.sig.owner])
<1> DEFINE p == tx.policy
           sig == tx.sig
           o == tx.sig.owner
           new == [owner |-> o, slot |-> sig.plan.slot, active |-> TRUE,
                   api_key_version |-> 1]
<1>1. /\ p \in PolicyId /\ sig \in SetupAction /\ o \in Owner /\ sig.nonce \in Nat
      /\ new \in RegisteredPolicy
  BY DEF TxOK, Tx, SetupAction, Plan, RegisteredPolicy
<1>2. /\ ~Registered(p) /\ sig.nonce = owner_nonces[o]
      /\ policies' = [policies EXCEPT ![p] = new]
      /\ owner_index' = [owner_index EXCEPT ![o] = Append(@, p)]
      /\ owner_nonces' = [owner_nonces EXCEPT ![o] = sig.nonce + 1]
      /\ consumed' = [consumed EXCEPT ![o] = Append(@, sig)]
      /\ contract' = contract /\ changes' = changes
  BY DEF Accepts, Perform, OnRegistry, register_policy, CanRegister
<1>3. /\ NonceSpentOnce'
      /\ owner_nonces' \in [Owner -> Nat] /\ consumed' \in [Owner -> Seq(SetupAction)]
      /\ \A x \in Owner : /\ owner_nonces[x] <= owner_nonces'[x]
                          /\ Range(consumed[x]) \subseteq Range(consumed'[x])
      /\ sig \in Range(consumed'[o])
  BY <1>1, <1>2, NonceStep DEF World
<1>4. owner_index \in [Owner -> Seq(PolicyId)] /\ owner_nonces \in [Owner -> Nat]
      /\ policies \in [PolicyId -> RegisteredPolicy \cup {Unregistered}]
  BY DEF World, Types, RegistryTypeOK
<1>5. /\ Append(owner_index[o], p) \in Seq(PolicyId)
      /\ Range(Append(owner_index[o], p)) = Range(owner_index[o]) \cup {p}
  BY <1>1, <1>4, RangeAppend
<1>6. Types'
  BY <1>1, <1>2, <1>3, <1>4, <1>5 DEF World, Types, RegistryTypeOK
<1>7. policies'[p] = new
  BY <1>1, <1>2, <1>4
<1>12. Registered(p)'
  <2>1. new # Unregistered
    <3>1. "slot" \in DOMAIN new /\ "slot" \notin DOMAIN Unregistered
      BY DEF Unregistered
    <3> HIDE DEF new
    <3> QED BY <3>1
  <2> QED BY <1>7, <2>1 DEF Registered
<1>8. \A q \in PolicyId : q # p => policies'[q] = policies[q] /\ (Registered(q)' <=> Registered(q))
  BY <1>2, <1>4 DEF Registered
<1>9. DeployedFor(p, sig) /\ contract[p].version = "6" /\ NoMatch(sig) /\ sig \in signed
  BY DEF TxOK
<1>10. owner_nonces[o] < owner_nonces'[o]
  BY <1>1, <1>2, <1>4
<1>11. Grows
  <2>1. \A q \in PolicyId : Deployed(q) => contract[q].policy_nonce <= contract'[q].policy_nonce
    BY <1>2, ContractFields DEF World
  <2>2. \A q \in PolicyId : Deployed(q) =>
          /\ Deployed(q)'
          /\ contract'[q].version = contract[q].version
          /\ contract'[q].owner = contract[q].owner
          /\ contract'[q].slot = contract[q].slot
          /\ contract[q].grant # NoGrant => contract'[q].grant # NoGrant
    BY <1>2 DEF Deployed
  <2>3. \A q \in PolicyId : Registered(q) =>
          /\ Registered(q)'
          /\ policies'[q].owner = policies[q].owner
          /\ policies'[q].slot = policies[q].slot
          /\ policies'[q].active => policies[q].active
    BY <1>2, <1>8
  <2>4. ASSUME NEW q \in PolicyId, Registered(q)', ~Registered(q)
        PROVE  /\ contract'[q].version = "6"
               /\ owner_nonces[policies'[q].owner] < owner_nonces'[policies'[q].owner]
    <3>1. q = p
      BY <1>8, <2>4
    <3> QED BY <3>1, <1>2, <1>7, <1>9, <1>10
  <2> QED BY <1>3, <2>1, <2>2, <2>3, <2>4 DEF Grows
<1>13. Bindings'
  <2>1. \A x \in Owner : x # o => owner_index'[x] = owner_index[x]
    BY <1>2, <1>4
  <2>2. owner_index'[o] = Append(owner_index[o], p)
    BY <1>1, <1>2, <1>4
  <2>3. \A x \in Owner : Range(owner_index'[x]) = Range(owner_index[x]) \cup
                              (IF x = o THEN {p} ELSE {})
    BY <1>5, <2>1, <2>2
  <2>4. ASSUME NEW q \in PolicyId, Registered(q)'
        PROVE  /\ Deployed(q)' /\ contract'[q].owner = policies'[q].owner
               /\ contract'[q].slot = policies'[q].slot
               /\ q \in Range(owner_index'[policies'[q].owner])
    <3>1. CASE q = p
      <4>1. policies'[q].owner = o /\ policies'[q].slot = sig.plan.slot
        BY <1>7, <3>1
      <4>2. Deployed(q)' /\ contract'[q].owner = o /\ contract'[q].slot = sig.plan.slot
        BY <1>2, <1>9, <3>1 DEF DeployedFor, Deployed
      <4>3. q \in Range(owner_index'[o])
        BY <1>1, <2>3, <3>1
      <4> QED BY <4>1, <4>2, <4>3
    <3>2. CASE q # p
      <4>1. Registered(q) /\ policies'[q] = policies[q]
        BY <1>8, <2>4, <3>2
      <4>2. policies[q].owner \in Owner
        BY <4>1, RegisteredIsRecord DEF World, RegisteredPolicy
      <4>3. /\ Deployed(q) /\ contract[q].owner = policies[q].owner
            /\ contract[q].slot = policies[q].slot
            /\ q \in Range(owner_index[policies[q].owner])
        BY <4>1 DEF World, Bindings
      <4>4. q \in Range(owner_index'[policies[q].owner])
        BY <2>3, <4>2, <4>3
      <4> QED BY <1>2, <4>1, <4>3, <4>4 DEF Deployed
    <3> QED BY <3>1, <3>2
  <2>5. ASSUME NEW x \in Owner, NEW q \in Range(owner_index'[x])
        PROVE  Registered(q)' /\ policies'[q].owner = x
    <3>1. CASE q = p
      <4>1. q \in Range(owner_index[x]) => Registered(q)
        BY DEF World, Bindings
      <4>2. x = o
        BY <1>2, <2>3, <3>1, <4>1
      <4> QED BY <1>7, <1>12, <3>1, <4>2
    <3>2. CASE q # p
      <4>1. q \in Range(owner_index[x])
        BY <2>3, <3>2
      <4>2. q \in PolicyId
        BY <4>1, <1>4 DEF Range
      <4>3. Registered(q) /\ policies[q].owner = x
        BY <4>1 DEF World, Bindings
      <4>4. policies'[q] = policies[q] /\ (Registered(q)' <=> Registered(q))
        BY <1>8, <3>2, <4>2
      <4> QED BY <4>3, <4>4
    <3> QED BY <3>1, <3>2
  <2> QED BY <2>4, <2>5 DEF Bindings
<1>14. OnePolicyPerSlot'
  <2> SUFFICES ASSUME NEW q \in PolicyId, NEW r \in PolicyId, Current(q)', Current(r)',
                      policies'[q].owner = policies'[r].owner,
                      policies'[q].slot = policies'[r].slot
               PROVE  q = r
    BY DEF OnePolicyPerSlot
  <2>1. \A x \in PolicyId : Current(x)' /\ x # p => Current(x) /\ policies'[x] = policies[x]
    BY <1>2, <1>8 DEF Current
  <2>2. \A x \in PolicyId : Current(x)' /\ x # p =>
          ~(policies'[x].owner = o /\ policies'[x].slot = sig.plan.slot)
    BY <1>2, <1>9, <2>1 DEF NoMatch, Match, For, Current
  <2>3. CASE q # p /\ r # p
    BY <2>1, <2>3 DEF World, OnePolicyPerSlot
  <2>4. CASE q = p \/ r = p
    BY <1>7, <2>2, <2>4
  <2> QED BY <2>3, <2>4
<1>15. SignedPast' /\ GrantsAuthorized'
  BY <1>2, <1>6, <1>11, PastStable, GrantsStable DEF World
<1>16. ChangesBehind' /\ ChangesOnce'
  BY <1>2 DEF World, ChangesBehind, ChangesOnce, Deployed
<1> QED BY <1>3, <1>6, <1>11, <1>12, <1>13, <1>14, <1>15, <1>16 DEF World

(* consume_owner_nonce.                                                     *)
LEMMA ConsumeStep ==
  ASSUME World, NEW tx, TxOK(tx), tx.op = "consume_owner_nonce", Accepts(tx), Perform(tx),
         UNCHANGED <<signed, expired>>
  PROVE  World' /\ Grows /\ tx.sig \in Range(consumed'[tx.sig.owner])
<1>1. tx.sig \in SetupAction
  BY DEF TxOK, Tx
<1>2. /\ tx.sig.nonce = owner_nonces[tx.sig.owner]
      /\ owner_nonces' = [owner_nonces EXCEPT ![tx.sig.owner] = tx.sig.nonce + 1]
      /\ consumed' = [consumed EXCEPT ![tx.sig.owner] = Append(@, tx.sig)]
      /\ policies' = policies /\ owner_index' = owner_index
      /\ contract' = contract /\ changes' = changes
  BY DEF Accepts, Perform, OnRegistry, consume_owner_nonce, CanConsume
<1>3. /\ NonceSpentOnce'
      /\ owner_nonces' \in [Owner -> Nat] /\ consumed' \in [Owner -> Seq(SetupAction)]
      /\ \A x \in Owner : /\ owner_nonces[x] <= owner_nonces'[x]
                          /\ Range(consumed[x]) \subseteq Range(consumed'[x])
      /\ tx.sig \in Range(consumed'[tx.sig.owner])
  BY <1>1, <1>2, NonceStep DEF World
<1>4. Types'
  BY <1>2, <1>3 DEF World, Types, RegistryTypeOK
<1>5. Grows
  <2>1. \A p \in PolicyId : Deployed(p) => contract[p].policy_nonce <= contract'[p].policy_nonce
    BY <1>2, ContractFields DEF World
  <2> QED BY <1>2, <1>3, <2>1 DEF Grows, Deployed, Registered
<1>6. Bindings'
  BY <1>2 DEF World, Bindings, Deployed, Registered
<1>7. OnePolicyPerSlot'
  BY <1>2 DEF World, OnePolicyPerSlot, Current, Registered
<1>8. SignedPast' /\ GrantsAuthorized'
  BY <1>2, <1>4, <1>5, PastStable, GrantsStable DEF World
<1>9. ChangesBehind' /\ ChangesOnce'
  BY <1>2 DEF World, ChangesBehind, ChangesOnce, Deployed
<1> QED BY <1>3, <1>4, <1>5, <1>6, <1>7, <1>8, <1>9 DEF World

(* A binding is retired, or its key version advances.                       *)
LEMMA BindingStep ==
  ASSUME World, NEW p \in PolicyId, Registered(p), NEW r \in RegisteredPolicy,
         policies' = [policies EXCEPT ![p] = r],
         r.owner = policies[p].owner, r.slot = policies[p].slot,
         r.active => policies[p].active,
         UNCHANGED <<owner_index, owner_nonces, contract, history, signed, expired>>
  PROVE  World' /\ Grows
<1>1. policies \in [PolicyId -> RegisteredPolicy \cup {Unregistered}]
  BY DEF World, Types, RegistryTypeOK
<1>2. /\ owner_index' = owner_index /\ owner_nonces' = owner_nonces
      /\ contract' = contract /\ consumed' = consumed /\ changes' = changes
  BY DEF history
<1>3. Types'
  BY <1>1, <1>2 DEF World, Types, RegistryTypeOK
<1>4. policies'[p] = r /\ \A q \in PolicyId : q # p => policies'[q] = policies[q]
  BY <1>1
<1>5. Registered(p)'
  <2>1. r # Unregistered
    <3>1. "slot" \in DOMAIN r /\ "slot" \notin DOMAIN Unregistered
      BY DEF Unregistered, RegisteredPolicy
    <3> QED BY <3>1
  <2> QED BY <1>4, <2>1 DEF Registered
<1>6. \A q \in PolicyId : /\ Registered(q)' <=> Registered(q)
                          /\ policies'[q].owner = policies[q].owner
                          /\ policies'[q].slot = policies[q].slot
                          /\ policies'[q].active => policies[q].active
  BY <1>4, <1>5 DEF Registered
<1>7. Grows
  <2>1. \A o \in Owner : owner_nonces[o] <= owner_nonces'[o]
    BY <1>2 DEF World, Types, RegistryTypeOK
  <2>2. \A q \in PolicyId : Deployed(q) => contract[q].policy_nonce <= contract'[q].policy_nonce
    BY <1>2, ContractFields DEF World
  <2> QED BY <1>2, <1>6, <2>1, <2>2 DEF Grows, Deployed
<1>8. Bindings'
  <2>1. \A o \in Owner : Range(owner_index[o]) \subseteq PolicyId
    BY DEF World, Types, RegistryTypeOK, Range
  <2> QED BY <1>2, <1>6, <2>1 DEF World, Bindings, Deployed
<1>9. OnePolicyPerSlot'
  BY <1>3, <1>6, <1>7, OneStable DEF World
<1>10. SignedPast' /\ GrantsAuthorized'
  BY <1>2, <1>3, <1>7, PastStable, GrantsStable DEF World
<1>11. NonceSpentOnce' /\ ChangesBehind' /\ ChangesOnce'
  BY <1>2 DEF World, NonceSpentOnce, ChangesBehind, ChangesOnce, Deployed
<1> QED BY <1>3, <1>7, <1>8, <1>9, <1>10, <1>11 DEF World

(* A deployed policy is changed, or a grant registered with it.             *)
LEMMA ContractStep ==
  ASSUME World, NEW p \in PolicyId, Deployed(p), NEW c \in Contract,
         contract' = [contract EXCEPT ![p] = c],
         c.version = contract[p].version, c.owner = contract[p].owner,
         c.slot = contract[p].slot, contract[p].policy_nonce <= c.policy_nonce,
         c.grant = contract[p].grant \/ (c.grant \in Grant /\ Authorized(p, c.grant)),
         changes' \in Seq(ChangeAction), ChangesBehind', ChangesOnce',
         UNCHANGED <<registry, consumed, signed, expired>>
  PROVE  World' /\ Grows
<1>1. contract \in [PolicyId -> Contract \cup {NotDeployed}]
  BY DEF World, Types
<1>2. /\ policies' = policies /\ owner_index' = owner_index
      /\ owner_nonces' = owner_nonces /\ consumed' = consumed
  BY DEF registry
<1>3. Types'
  BY <1>1, <1>2 DEF World, Types, RegistryTypeOK
<1>4. contract'[p] = c /\ \A q \in PolicyId : q # p => contract'[q] = contract[q]
  BY <1>1
<1>5. c # NotDeployed
  BY DEF Contract, NotDeployed
<1>6. \A q \in PolicyId : /\ Deployed(q)' <=> Deployed(q)
                          /\ contract'[q].version = contract[q].version
                          /\ contract'[q].owner = contract[q].owner
                          /\ contract'[q].slot = contract[q].slot
  BY <1>4, <1>5 DEF Deployed
<1>7. Grows
  <2>1. \A o \in Owner : owner_nonces[o] <= owner_nonces'[o]
    BY <1>2 DEF World, Types, RegistryTypeOK
  <2>2. \A q \in PolicyId : Deployed(q) => contract[q].policy_nonce <= contract'[q].policy_nonce
    BY <1>4, ContractFields DEF World
  <2>3. \A q \in PolicyId : contract[q].grant # NoGrant => contract'[q].grant # NoGrant
    BY <1>4, SetupAssumption
  <2> QED BY <1>2, <1>6, <2>1, <2>2, <2>3 DEF Grows, Registered
<1>8. Bindings'
  BY <1>2, <1>6 DEF World, Bindings, Registered
<1>9. OnePolicyPerSlot'
  BY <1>2, <1>3, <1>7, OneStable DEF World, Registered
<1>10. SignedPast'
  BY <1>3, <1>7, PastStable DEF World
<1>11. GrantsAuthorized'
  <2> SUFFICES ASSUME NEW q \in PolicyId, Deployed(q), contract'[q].grant # NoGrant
               PROVE  \E s \in Range(consumed[contract[q].owner]) :
                        s.plan.grant = contract'[q].grant /\ s.plan.slot = contract[q].slot
    BY <1>2, <1>6 DEF GrantsAuthorized
  <2>1. CASE contract'[q].grant = contract[q].grant
    BY <2>1 DEF World, GrantsAuthorized
  <2>2. CASE contract'[q].grant # contract[q].grant
    <3>1. q = p /\ Authorized(p, c.grant)
      BY <1>4, <2>2
    <3> QED BY <1>4, <3>1 DEF Authorized
  <2> QED BY <2>1, <2>2
<1>12. NonceSpentOnce'
  BY <1>2 DEF World, NonceSpentOnce
<1> QED BY <1>3, <1>7, <1>8, <1>9, <1>10, <1>11, <1>12 DEF World

(* A deployment is bound to nothing yet.                                    *)
LEMMA DeployStep ==
  ASSUME World, NEW p \in PolicyId, ~Deployed(p), NEW c \in Contract,
         contract' = [contract EXCEPT ![p] = c], c.grant = NoGrant,
         UNCHANGED <<registry, history, signed, expired>>
  PROVE  World' /\ Grows /\ contract'[p] = c /\ Deployed(p)'
<1>1. contract \in [PolicyId -> Contract \cup {NotDeployed}]
  BY DEF World, Types
<1>2. /\ policies' = policies /\ owner_index' = owner_index /\ changes' = changes
      /\ owner_nonces' = owner_nonces /\ consumed' = consumed
  BY DEF registry, history
<1>3. Types'
  BY <1>1, <1>2 DEF World, Types, RegistryTypeOK
<1>4. contract'[p] = c /\ \A q \in PolicyId : q # p => contract'[q] = contract[q]
  BY <1>1
<1>5. Deployed(p)'
  BY <1>4 DEF Contract, NotDeployed, Deployed
<1>6. \A q \in PolicyId : Deployed(q) => q # p
  OBVIOUS
<1>7. Grows
  <2>1. \A o \in Owner : owner_nonces[o] <= owner_nonces'[o]
    BY <1>2 DEF World, Types, RegistryTypeOK
  <2>2. \A q \in PolicyId : Deployed(q) =>
          contract'[q] = contract[q] /\ contract[q].policy_nonce <= contract'[q].policy_nonce
    BY <1>4, <1>6, ContractFields DEF World
  <2> QED BY <1>2, <2>1, <2>2 DEF Grows, Registered, Deployed
<1>8. Bindings'
  BY <1>2, <1>4, <1>6 DEF World, Bindings, Registered, Deployed
<1>9. OnePolicyPerSlot'
  BY <1>2, <1>3, <1>7, OneStable DEF World, Registered
<1>10. SignedPast'
  BY <1>3, <1>7, PastStable DEF World
<1>11. GrantsAuthorized'
  <2> SUFFICES ASSUME NEW q \in PolicyId, Deployed(q)', contract'[q].grant # NoGrant
               PROVE  \E s \in Range(consumed[contract'[q].owner]) :
                        s.plan.grant = contract'[q].grant /\ s.plan.slot = contract'[q].slot
    BY <1>2 DEF GrantsAuthorized
  <2>1. q # p
    BY <1>4
  <2>2. contract'[q] = contract[q] /\ Deployed(q)
    BY <1>4, <2>1 DEF Deployed
  <2>3. contract[q].grant # NoGrant
    BY <2>2
  <2>4. \E s \in Range(consumed[contract[q].owner]) :
          s.plan.grant = contract[q].grant /\ s.plan.slot = contract[q].slot
    BY <2>2, <2>3 DEF World, GrantsAuthorized
  <2> QED BY <2>2, <2>4
<1>12. ChangesBehind' /\ ChangesOnce' /\ NonceSpentOnce'
  <2>1. changes \in Seq(ChangeAction)
    BY DEF World, Types
  <2>2. ASSUME NEW i \in DOMAIN changes PROVE changes[i].policy \in PolicyId
    <3>1. changes[i] \in ChangeAction
      BY <2>1
    <3> QED BY <3>1 DEF ChangeAction
  <2>3. \A i \in DOMAIN changes : contract'[changes[i].policy] = contract[changes[i].policy]
    BY <1>4, <1>6, <2>2 DEF World, ChangesBehind
  <2>4. ChangesBehind'
    BY <1>2, <2>3 DEF World, ChangesBehind, Deployed
  <2>5. ChangesOnce' /\ NonceSpentOnce'
    BY <1>2 DEF World, ChangesOnce, NonceSpentOnce
  <2> QED BY <2>4, <2>5
<1> QED BY <1>3, <1>4, <1>5, <1>7, <1>8, <1>9, <1>10, <1>11, <1>12 DEF World

(* A change of a policy advances its nonce and leaves its binding alone.    *)
LEMMA ChangedContract ==
  ASSUME NEW c \in Contract, NEW change \in Change, NEW d, d = Changed(c, change)
  PROVE  /\ d \in Contract /\ d.policy_nonce = c.policy_nonce + 1
         /\ d.version = c.version /\ d.owner = c.owner /\ d.slot = c.slot
         /\ d.grant = c.grant
<1>1. PICK n : n = [c EXCEPT !.policy_nonce = c.policy_nonce + 1]
  OBVIOUS
<1>2. /\ n \in Contract /\ n.policy_nonce = c.policy_nonce + 1
      /\ n.version = c.version /\ n.owner = c.owner /\ n.slot = c.slot
      /\ n.grant = c.grant
  BY <1>1 DEF Contract
<1>3. CASE "caps" \in DOMAIN change
  <2>1. change.caps \in Caps
    BY <1>3 DEF Change
  <2>2. d = [n EXCEPT !.caps = change.caps]
    BY <1>1, <1>3 DEF Changed
  <2> QED BY <1>2, <2>1, <2>2 DEF Contract
<1>4. CASE "caps" \notin DOMAIN change
  <2>1. change.listed \in BOOLEAN
    BY <1>4 DEF Change
  <2>2. d = [n EXCEPT !.listed = change.listed]
    BY <1>1, <1>4 DEF Changed
  <2> QED BY <1>2, <2>1, <2>2 DEF Contract
<1> QED BY <1>3, <1>4

(* update_policy by setup.                                                  *)
LEMMA UpdateStep ==
  ASSUME World, NEW tx, TxOK(tx), tx.op = "update_policy", Perform(tx),
         UNCHANGED <<signed, expired>>
  PROVE  World' /\ Grows
<1>1. tx.policy \in PolicyId /\ tx.caps \in Caps /\ Deployed(tx.policy)
  BY DEF TxOK, Tx
<1>2. /\ contract' = [contract EXCEPT ![tx.policy] =
                        Changed(contract[tx.policy], [caps |-> tx.caps])]
      /\ changes' = changes /\ UNCHANGED <<registry, consumed>>
  BY DEF Perform, OnPolicy
<1>3. PICK c \in Contract : c = contract[tx.policy]
  BY <1>1, DeployedIsRecord DEF World
<1>4. [caps |-> tx.caps] \in Change
  BY <1>1 DEF Change
<1>5. PICK d : d = Changed(c, [caps |-> tx.caps])
  OBVIOUS
<1>6. /\ d \in Contract /\ d.policy_nonce = c.policy_nonce + 1
      /\ d.version = c.version /\ d.owner = c.owner /\ d.slot = c.slot
      /\ d.grant = c.grant
  BY <1>4, <1>5, ChangedContract
<1>7. contract' = [contract EXCEPT ![tx.policy] = d]
  BY <1>2, <1>3, <1>5
<1>8. c.policy_nonce \in Nat /\ c.policy_nonce <= d.policy_nonce
  BY <1>6 DEF Contract
<1>9. contract'[tx.policy] = d /\ \A q \in PolicyId : q # tx.policy => contract'[q] = contract[q]
  BY <1>1, <1>7 DEF World, Types
<1>10. ChangesBehind'
  <2> SUFFICES ASSUME NEW i \in DOMAIN changes
               PROVE  /\ contract'[changes[i].policy] # NotDeployed
                      /\ changes[i].nonce < contract'[changes[i].policy].policy_nonce
    BY <1>2 DEF ChangesBehind, Deployed
  <2>1. changes[i] \in ChangeAction
    BY DEF World, Types
  <2>2. changes[i].policy \in PolicyId /\ changes[i].nonce \in Nat
    BY <2>1 DEF ChangeAction
  <2>3. Deployed(changes[i].policy) /\ changes[i].nonce < contract[changes[i].policy].policy_nonce
    BY DEF World, ChangesBehind
  <2>4. d # NotDeployed
    BY <1>6 DEF Contract, NotDeployed
  <2>5. CASE changes[i].policy = tx.policy
    BY <1>3, <1>6, <1>8, <1>9, <2>2, <2>3, <2>4, <2>5
  <2>6. CASE changes[i].policy # tx.policy
    BY <1>9, <2>2, <2>3, <2>6 DEF Deployed
  <2> QED BY <2>5, <2>6
<1>11. changes' \in Seq(ChangeAction) /\ ChangesOnce'
  BY <1>2 DEF World, Types, ChangesOnce
<1> QED BY <1>1, <1>2, <1>3, <1>6, <1>7, <1>8, <1>10, <1>11, ContractStep

(* A signed change carries the nonce of its policy and advances it.         *)
LEMMA ChangeStep ==
  ASSUME World, NEW tx, TxOK(tx), tx.op = "change_policy", Accepts(tx), Perform(tx),
         UNCHANGED <<signed, expired>>
  PROVE  World' /\ Grows
<1> DEFINE p == tx.sig.policy
<1>1. /\ tx.sig \in ChangeAction /\ p \in PolicyId /\ tx.sig.nonce \in Nat
      /\ tx.sig.change \in Change
  BY DEF TxOK, Tx, ChangeAction
<1>2. Deployed(p)
  BY <1>1 DEF TxOK, World, SignedPast
<1>3. /\ contract' = [contract EXCEPT ![p] = Changed(contract[p], tx.sig.change)]
      /\ changes' = Append(changes, tx.sig) /\ UNCHANGED <<registry, consumed>>
      /\ contract[p].policy_nonce = tx.sig.nonce
  BY DEF Perform, OnPolicy, Accepts, TakesNonce
<1>4. PICK c \in Contract : c = contract[p]
  BY <1>1, <1>2, DeployedIsRecord DEF World
<1>5. PICK d : d = Changed(c, tx.sig.change)
  OBVIOUS
<1>6. /\ d \in Contract /\ d.policy_nonce = c.policy_nonce + 1
      /\ d.version = c.version /\ d.owner = c.owner /\ d.slot = c.slot
      /\ d.grant = c.grant
  <2>1. PICK change \in Change : change = tx.sig.change
    BY <1>1
  <2> QED BY <1>5, <2>1, ChangedContract
<1>7. contract' = [contract EXCEPT ![p] = d]
  BY <1>3, <1>4, <1>5
<1>8. c.policy_nonce \in Nat /\ c.policy_nonce <= d.policy_nonce
  BY <1>6 DEF Contract
<1>9. contract'[p] = d /\ \A q \in PolicyId : q # p => contract'[q] = contract[q]
  BY <1>1, <1>7 DEF World, Types
<1>10. changes \in Seq(ChangeAction) /\ Append(changes, tx.sig) \in Seq(ChangeAction)
  BY <1>1 DEF World, Types
<1>11. d # NotDeployed
  BY <1>6 DEF Contract, NotDeployed
<1>12. ASSUME NEW i \in DOMAIN changes
       PROVE  /\ changes[i].policy \in PolicyId /\ changes[i].nonce \in Nat
              /\ Deployed(changes[i].policy)
              /\ changes[i].nonce < contract[changes[i].policy].policy_nonce
  <2>1. changes[i] \in ChangeAction
    BY <1>10
  <2> QED BY <2>1 DEF World, ChangesBehind, ChangeAction
<1>13. ASSUME NEW i \in DOMAIN changes'
       PROVE  \/ i \in DOMAIN changes /\ changes'[i] = changes[i]
              \/ i = Len(changes) + 1 /\ changes'[i] = tx.sig
  BY <1>3, <1>10
<1>14. ChangesBehind'
  <2> SUFFICES ASSUME NEW i \in DOMAIN changes'
               PROVE  /\ contract'[changes'[i].policy] # NotDeployed
                      /\ changes'[i].nonce < contract'[changes'[i].policy].policy_nonce
    BY DEF ChangesBehind, Deployed
  <2>1. CASE changes'[i] = tx.sig
    BY <1>1, <1>3, <1>4, <1>6, <1>8, <1>9, <1>11, <2>1
  <2>2. CASE i \in DOMAIN changes /\ changes'[i] = changes[i]
    <3>1. CASE changes[i].policy = p
      BY <1>4, <1>6, <1>8, <1>9, <1>11, <1>12, <2>2, <3>1
    <3>2. CASE changes[i].policy # p
      BY <1>9, <1>12, <2>2, <3>2 DEF Deployed
    <3> QED BY <3>1, <3>2
  <2> QED BY <1>13, <2>1, <2>2
<1>15. ChangesOnce'
  <2> SUFFICES ASSUME NEW i \in DOMAIN changes', NEW j \in DOMAIN changes', i < j,
                      changes'[i].policy = changes'[j].policy
               PROVE  changes'[i].nonce < changes'[j].nonce
    BY DEF ChangesOnce
  <2>1. DOMAIN changes = 1..Len(changes) /\ Len(changes) \in Nat
    BY <1>10
  <2>2. i \in DOMAIN changes /\ changes'[i] = changes[i]
    <3>1. j <= Len(changes) + 1 /\ i \in Nat /\ j \in Nat
      BY <1>13, <2>1
    <3> QED BY <1>13, <2>1, <3>1
  <2>3. CASE j \in DOMAIN changes /\ changes'[j] = changes[j]
    BY <2>2, <2>3 DEF World, ChangesOnce
  <2>4. CASE changes'[j] = tx.sig
    BY <1>3, <1>12, <2>2, <2>4
  <2> QED BY <1>13, <2>3, <2>4
<1> QED BY <1>1, <1>2, <1>3, <1>4, <1>6, <1>7, <1>8, <1>10, <1>14, <1>15, ContractStep

(* Registration of a vault or a delegation.                                 *)
LEMMA GrantStep ==
  ASSUME World, NEW tx, TxOK(tx), tx.op = "register_grant", Perform(tx),
         UNCHANGED <<signed, expired>>
  PROVE  World' /\ Grows
<1>1. /\ tx.policy \in PolicyId /\ tx.grant \in Grant /\ Deployed(tx.policy)
      /\ Authorized(tx.policy, tx.grant)
  BY DEF TxOK, Tx
<1>2. /\ contract' = [contract EXCEPT ![tx.policy].grant = tx.grant]
      /\ changes' = changes /\ UNCHANGED <<registry, consumed>>
  BY DEF Perform, OnPolicy
<1>3. PICK c \in Contract : c = contract[tx.policy]
  BY <1>1, DeployedIsRecord DEF World
<1>4. PICK d : d = [c EXCEPT !.grant = tx.grant]
  OBVIOUS
<1>5. /\ d \in Contract /\ d.version = c.version /\ d.owner = c.owner /\ d.slot = c.slot
      /\ d.policy_nonce = c.policy_nonce /\ c.policy_nonce \in Nat /\ d.grant = tx.grant
  BY <1>1, <1>4 DEF Contract
<1>6. contract' = [contract EXCEPT ![tx.policy] = d]
  BY <1>2, <1>3, <1>4
<1>7. ChangesBehind'
  <2> SUFFICES ASSUME NEW i \in DOMAIN changes
               PROVE  /\ contract'[changes[i].policy] # NotDeployed
                      /\ changes[i].nonce < contract'[changes[i].policy].policy_nonce
    BY <1>2 DEF ChangesBehind, Deployed
  <2>1. changes[i].policy \in PolicyId
    <3>1. changes[i] \in ChangeAction
      BY DEF World, Types
    <3> QED BY <3>1 DEF ChangeAction
  <2>2. /\ contract[changes[i].policy] # NotDeployed
        /\ changes[i].nonce < contract[changes[i].policy].policy_nonce
    BY DEF World, ChangesBehind, Deployed
  <2>3. d # NotDeployed
    BY <1>5 DEF Contract, NotDeployed
  <2>4. contract \in [PolicyId -> Contract \cup {NotDeployed}]
    BY DEF World, Types
  <2> QED BY <1>3, <1>5, <1>6, <2>1, <2>2, <2>3, <2>4
<1>8. changes' \in Seq(ChangeAction) /\ ChangesOnce'
  BY <1>2 DEF World, Types, ChangesOnce
<1>9. /\ d.version = contract[tx.policy].version /\ d.owner = contract[tx.policy].owner
      /\ d.slot = contract[tx.policy].slot
      /\ contract[tx.policy].policy_nonce <= d.policy_nonce
      /\ d.grant \in Grant /\ Authorized(tx.policy, d.grant)
  BY <1>1, <1>3, <1>5
<1> QED BY <1>1, <1>2, <1>5, <1>6, <1>7, <1>8, <1>9, ContractStep

(* Whatever write is applied, at once or late.                              *)
LEMMA PerformStep ==
  ASSUME World, NEW tx, TxOK(tx), Accepts(tx), Perform(tx), UNCHANGED <<signed, expired>>
  PROVE  /\ World' /\ Grows
         /\ tx.op = "register_policy" => Registered(tx.policy)'
         /\ tx.op \in {"register_policy", "consume_owner_nonce"} =>
              tx.sig \in Range(consumed'[tx.sig.owner])
         /\ tx.op = "set_policy_active" => ~policies'[tx.policy].active
<1>1. tx \in Tx
  BY DEF TxOK
<1>2. CASE tx.op = "register_policy"
  BY <1>2, RegistrationStep
<1>3. CASE tx.op = "consume_owner_nonce"
  BY <1>3, ConsumeStep
<1>4. CASE tx.op = "set_policy_active"
  <2>1. tx.policy \in PolicyId
    BY <1>1, <1>4 DEF Tx
  <2>2. /\ Registered(tx.policy)
        /\ policies' = [policies EXCEPT ![tx.policy].active = FALSE]
        /\ UNCHANGED <<owner_index, owner_nonces, contract, history>>
    BY <1>4 DEF Perform, OnRegistry, set_policy_active, MayControl, history
  <2>3. PICK c \in RegisteredPolicy : c = policies[tx.policy]
    BY <2>1, <2>2, RegisteredIsRecord DEF World
  <2>4. PICK r : r = [c EXCEPT !.active = FALSE]
    OBVIOUS
  <2>5. r \in RegisteredPolicy /\ r.owner = c.owner /\ r.slot = c.slot /\ ~r.active
    BY <2>4 DEF RegisteredPolicy
  <2>6. policies' = [policies EXCEPT ![tx.policy] = r]
    BY <2>2, <2>3, <2>4
  <2>7. World' /\ Grows
    BY <2>1, <2>2, <2>3, <2>5, <2>6, BindingStep
  <2>8. policies'[tx.policy] = r
    BY <2>1, <2>6 DEF World, Types, RegistryTypeOK
  <2> QED BY <1>4, <2>5, <2>7, <2>8
<1>5. CASE tx.op = "update_policy"
  BY <1>5, UpdateStep
<1>6. CASE tx.op = "register_grant"
  BY <1>6, GrantStep
<1>7. CASE tx.op = "change_policy"
  BY <1>7, ChangeStep
<1> QED BY <1>1, <1>2, <1>3, <1>4, <1>5, <1>6, <1>7 DEF Tx

-----------------------------------------------------------------------------
(* Where an invocation may go from where it stands.                         *)
LEMMA WriteAllowed ==
  ASSUME Types, NEW s, HandlerOK(s), s.pc \in Writes \cup {"change"},
         NEW tx, tx = WriteOf(s)
  PROVE  TxOK(tx)
<1>1. CASE s \in ChangeState /\ s.sig \in signed
  <2>1. s.pc = "change" /\ s.sig \in ChangeAction
    BY <1>1 DEF ChangeState, Writes
  <2>2. tx = [op |-> "change_policy", sig |-> s.sig]
    BY <2>1 DEF WriteOf
  <2> QED BY <1>1, <2>1, <2>2 DEF TxOK, Tx
<1>2. CASE s \in HandlerState /\ s.sig \in signed /\ Scanned(s) /\ Placed(s) /\ Branch(s)
  <2>1. /\ s.sig \in SetupAction /\ s.sig.plan \in Plan /\ s.legacy \in Seq(PolicyId)
        /\ s.seen \in Nat /\ s.sig.owner \in Owner
    BY <1>2 DEF HandlerState, SetupAction
  <2>2. s.sig.plan.caps \in Caps /\ s.sig.plan.grant \in Grant
    BY <2>1 DEF Plan
  <2>3. CASE s.pc = "register"
    <3>1. tx = [op |-> "register_policy", policy |-> s.policy, sig |-> s.sig]
      BY <2>3 DEF WriteOf
    <3>2. DeployedFor(s.policy, s.sig) /\ contract[s.policy].version = "6" /\ NoMatch(s.sig)
      BY <1>2, <2>3 DEF Placed, Scanned
    <3>3. tx \in Tx
      BY <2>1, <3>1, <3>2 DEF DeployedFor, Tx
    <3> QED BY <1>2, <3>1, <3>2, <3>3 DEF TxOK
  <2>4. CASE s.pc = "retire"
    <3>1. tx = [op |-> "set_policy_active", policy |-> Head(s.legacy)]
      BY <2>4 DEF WriteOf
    <3>2. Head(s.legacy) \in PolicyId
      BY <1>2, <2>1, <2>4, RangeTail DEF Branch
    <3>3. tx \in Tx
      BY <3>1, <3>2 DEF Tx
    <3> QED BY <3>1, <3>3 DEF TxOK
  <2>5. CASE s.pc = "update"
    <3>1. tx = [op |-> "update_policy", policy |-> s.policy, nonce |-> s.seen,
                caps |-> s.sig.plan.caps]
      BY <2>5 DEF WriteOf
    <3>2. s.policy \in PolicyId /\ Deployed(s.policy)
      BY <1>2, <2>5 DEF Placed, DeployedFor
    <3>3. tx \in Tx
      BY <2>1, <2>2, <3>1, <3>2 DEF Tx
    <3> QED BY <3>1, <3>2, <3>3 DEF TxOK
  <2>6. CASE s.pc = "consume"
    <3>1. tx = [op |-> "consume_owner_nonce", sig |-> s.sig]
      BY <2>6 DEF WriteOf
    <3>2. tx \in Tx
      BY <2>1, <3>1 DEF Tx
    <3> QED BY <1>2, <3>1, <3>2 DEF TxOK
  <2>7. CASE s.pc = "grant"
    <3>1. tx = [op |-> "register_grant", policy |-> s.policy, grant |-> s.sig.plan.grant]
      BY <2>7 DEF WriteOf
    <3>2. /\ s.policy \in PolicyId /\ Deployed(s.policy)
          /\ contract[s.policy].owner = s.sig.owner
          /\ contract[s.policy].slot = s.sig.plan.slot
          /\ s.sig \in Range(consumed[s.sig.owner])
      BY <1>2, <2>7 DEF Placed, DeployedFor
    <3>3. Authorized(s.policy, s.sig.plan.grant)
      BY <3>2 DEF Authorized
    <3>4. tx \in Tx
      BY <2>2, <3>1, <3>2 DEF Tx
    <3> QED BY <3>1, <3>2, <3>3, <3>4 DEF TxOK
  <2>8. s.pc # "change"
    BY <1>2 DEF HandlerState, Writes
  <2> QED BY <2>3, <2>4, <2>5, <2>6, <2>7, <2>8 DEF Writes
<1>3. s # Idle
  BY DEF Idle, Writes
<1> QED BY <1>1, <1>2, <1>3 DEF HandlerOK

(* A setup that was just posted.                                            *)
LEMMA PostOK ==
  ASSUME NEW sig \in SetupAction, sig \in signed, NEW s,
         s = [pc |-> "verify", sig |-> sig, todo |-> <<>>, legacy |-> <<>>,
              policy |-> NoPolicy, deployed |-> FALSE, seen |-> 0]
  PROVE  s \in HandlerState /\ HandlerOK(s)
<1>1. s \in HandlerState
  BY DEF HandlerState
<1>2. Range(s.todo) = {} /\ Range(s.legacy) = {}
  BY DEF Range
<1>3. s.pc = "verify" /\ ~s.deployed /\ s.sig = sig
  OBVIOUS
<1> QED BY <1>1, <1>2, <1>3 DEF HandlerOK, Scanned, Placed, Branch

(* From the verified signature to the list of policies.                     *)
LEMMA VerifyOK ==
  ASSUME NEW s \in HandlerState, HandlerOK(s), s.pc = "verify",
         NEW t, t = [s EXCEPT !.pc = "index"]
  PROVE  t \in HandlerState /\ HandlerOK(t)
<1>1. /\ t \in HandlerState /\ t.pc = "index" /\ t.sig = s.sig /\ t.todo = s.todo
      /\ t.legacy = s.legacy /\ t.deployed = s.deployed
  BY DEF HandlerState
<1>2. s.sig \in signed /\ Scanned(s) /\ Branch(s)
  BY DEF HandlerOK, Idle, ChangeState
<1> QED BY <1>1, <1>2 DEF HandlerOK, Scanned, Placed, Branch

(* The scan starts with every policy of the owner.                          *)
LEMMA ListOK ==
  ASSUME Types, Bindings, NEW s \in HandlerState, HandlerOK(s), s.pc = "index",
         NEW t, t = [s EXCEPT !.pc = "scan", !.todo = owner_index[s.sig.owner]]
  PROVE  t \in HandlerState /\ HandlerOK(t)
<1>1. s.sig.owner \in Owner
  BY DEF HandlerState, SetupAction
<1>2. owner_index[s.sig.owner] \in Seq(PolicyId)
  BY <1>1 DEF Types, RegistryTypeOK
<1>3. /\ t \in HandlerState /\ t.pc = "scan" /\ t.sig = s.sig
      /\ t.todo = owner_index[s.sig.owner]
      /\ t.legacy = s.legacy /\ t.deployed = s.deployed
  BY <1>2 DEF HandlerState
<1>4. s.sig \in signed /\ Scanned(s) /\ Branch(s)
  BY DEF HandlerOK, Idle, ChangeState
<1>5. \A p \in Range(t.todo) : Registered(p) /\ policies[p].owner = s.sig.owner
  BY <1>1, <1>3 DEF Bindings
<1>6. \A p \in PolicyId : For(p, s.sig) => p \in Range(t.todo)
  BY <1>3 DEF Bindings, For
<1>7. Scanned(t)
  BY <1>3, <1>4, <1>5, <1>6 DEF Scanned, Match, Older, Branch
<1> QED BY <1>3, <1>4, <1>7 DEF HandlerOK, Placed, Branch

(* A scan that ends has found no policy to update.                          *)
LEMMA ScanEndOK ==
  ASSUME NEW s \in HandlerState, HandlerOK(s), s.pc = "scan", s.todo = <<>>,
         NEW t, t = [s EXCEPT !.pc = "deploy"]
  PROVE  t \in HandlerState /\ HandlerOK(t)
<1>1. /\ t \in HandlerState /\ t.pc = "deploy" /\ t.sig = s.sig /\ t.todo = s.todo
      /\ t.legacy = s.legacy /\ t.deployed = s.deployed
  BY DEF HandlerState
<1>2. s.sig \in signed /\ Scanned(s) /\ Branch(s)
  BY DEF HandlerOK, Idle, ChangeState
<1>3. Range(s.todo) = {}
  BY DEF Range
<1>4. NoMatch(s.sig) /\ \A p \in PolicyId : Older(p, s.sig) => p \in Range(s.legacy)
  BY <1>2, <1>3 DEF Scanned, NoMatch
<1> QED BY <1>1, <1>2, <1>4 DEF HandlerOK, Scanned, Placed, Branch

(* A scan stops at a policy of the slot.                                    *)
LEMMA ScanFoundOK ==
  ASSUME Types, Bindings, NEW s \in HandlerState, HandlerOK(s), s.pc = "scan",
         s.todo # <<>>, policies[Head(s.todo)].slot = s.sig.plan.slot,
         NEW t, t = [s EXCEPT !.pc = "nonce", !.policy = Head(s.todo)]
  PROVE  t \in HandlerState /\ HandlerOK(t)
<1>1. s.todo \in Seq(PolicyId)
  BY DEF HandlerState
<1>2. Head(s.todo) \in PolicyId /\ Head(s.todo) \in Range(s.todo)
  BY <1>1, RangeTail
<1>3. /\ t \in HandlerState /\ t.pc = "nonce" /\ t.sig = s.sig /\ t.todo = s.todo
      /\ t.legacy = s.legacy /\ t.deployed = s.deployed /\ t.policy = Head(s.todo)
  BY <1>2 DEF HandlerState
<1>4. s.sig \in signed /\ Scanned(s) /\ Branch(s)
  BY DEF HandlerOK, Idle, ChangeState
<1>5. Registered(t.policy) /\ policies[t.policy].owner = s.sig.owner
  BY <1>2, <1>3, <1>4 DEF Scanned
<1>6. DeployedFor(t.policy, s.sig)
  BY <1>2, <1>3, <1>5, BoundPolicy DEF DeployedFor
<1> QED BY <1>3, <1>4, <1>5, <1>6 DEF HandlerOK, Scanned, Placed, Branch

(* A policy that is passed over is another's or is to be retired.           *)
LEMMA ScanNextOK ==
  ASSUME Types, Bindings, NEW s \in HandlerState, HandlerOK(s), s.pc = "scan", s.todo # <<>>,
         NEW matches, matches <=> policies[Head(s.todo)].active
                                  /\ policies[Head(s.todo)].slot = s.sig.plan.slot,
         ~(matches /\ contract[Head(s.todo)].version = "6"),
         NEW t, t = [s EXCEPT !.todo = Tail(@),
                              !.legacy = IF matches THEN Append(@, Head(s.todo)) ELSE @]
  PROVE  t \in HandlerState /\ HandlerOK(t)
<1> DEFINE p == Head(s.todo)
<1>1. s.todo \in Seq(PolicyId) /\ s.legacy \in Seq(PolicyId)
  BY DEF HandlerState
<1>2. /\ p \in PolicyId /\ Tail(s.todo) \in Seq(PolicyId)
      /\ Range(s.todo) = {p} \cup Range(Tail(s.todo))
  BY <1>1, RangeTail
<1>3. /\ Append(s.legacy, p) \in Seq(PolicyId)
      /\ Range(Append(s.legacy, p)) = Range(s.legacy) \cup {p}
  BY <1>1, <1>2, RangeAppend
<1>4. /\ t \in HandlerState /\ t.pc = "scan" /\ t.sig = s.sig /\ t.todo = Tail(s.todo)
      /\ t.legacy = IF matches THEN Append(s.legacy, p) ELSE s.legacy
      /\ t.deployed = s.deployed
  BY <1>2, <1>3 DEF HandlerState
<1>5. s.sig \in signed /\ Scanned(s) /\ Branch(s)
  BY DEF HandlerOK, Idle, ChangeState
<1>6. /\ Range(t.todo) \subseteq Range(s.todo)
      /\ Range(s.legacy) \subseteq Range(t.legacy)
      /\ Range(t.legacy) \subseteq Range(s.legacy) \cup {p}
      /\ matches => p \in Range(t.legacy)
  BY <1>2, <1>3, <1>4
<1>7. \A q \in Range(t.todo) \cup Range(t.legacy) :
        Registered(q) /\ policies[q].owner = s.sig.owner
  BY <1>2, <1>5, <1>6 DEF Scanned
<1>8. ~Match(p, s.sig) /\ (Older(p, s.sig) => p \in Range(t.legacy))
  BY <1>6 DEF Match, Older, For
<1>9. s.sig.nonce = owner_nonces[s.sig.owner] =>
        \A q \in PolicyId : Match(q, s.sig) => q \in Range(t.todo)
  BY <1>2, <1>4, <1>5, <1>8 DEF Scanned
<1>10. \A q \in PolicyId : Older(q, s.sig) => q \in Range(t.todo) \cup Range(t.legacy)
  BY <1>2, <1>4, <1>5, <1>6, <1>8 DEF Scanned
<1>11. ~t.deployed
  BY <1>4, <1>5 DEF Branch
<1>12. Scanned(t)
  BY <1>4, <1>7, <1>9, <1>10, <1>11 DEF Scanned
<1> QED BY <1>4, <1>5, <1>11, <1>12 DEF HandlerOK, Placed, Branch

(* The invocation goes on to register what it has deployed.                 *)
LEMMA DeployedOK ==
  ASSUME NEW s \in HandlerState, HandlerOK(s)', s.pc = "deploy",
         NEW p, DeployedFor(p, s.sig)', contract'[p].version = "6",
         NEW t, t = [s EXCEPT !.pc = "register", !.policy = p, !.deployed = TRUE]
  PROVE  t \in HandlerState /\ HandlerOK(t)'
<1>1. p \in PolicyId
  BY DEF DeployedFor
<1>2. /\ t \in HandlerState /\ t.pc = "register" /\ t.sig = s.sig /\ t.todo = s.todo
      /\ t.legacy = s.legacy /\ t.deployed /\ t.policy = p
  BY <1>1 DEF HandlerState, Writes
<1>3. s.sig \in signed' /\ Scanned(s)' /\ Branch(s)'
  BY DEF HandlerOK, Idle, ChangeState
<1>4. Scanned(t)'
  BY <1>2, <1>3 DEF Scanned
<1>5. Placed(t)'
  BY <1>2 DEF Placed
<1>6. Branch(t)'
  BY <1>2 DEF Branch
<1> QED BY <1>2, <1>3, <1>4, <1>5, <1>6 DEF HandlerOK

(* The nonce of the policy to update has been read.                         *)
LEMMA NonceReadOK ==
  ASSUME NEW s \in HandlerState, HandlerOK(s), s.pc = "nonce", NEW n \in Nat,
         NEW t, t = [s EXCEPT !.pc = "update", !.seen = n]
  PROVE  t \in HandlerState /\ HandlerOK(t)
<1>1. /\ t \in HandlerState /\ t.pc = "update" /\ t.sig = s.sig /\ t.todo = s.todo
      /\ t.legacy = s.legacy /\ t.deployed = s.deployed /\ t.policy = s.policy
  BY DEF HandlerState, Writes
<1>2. s.sig \in signed /\ Scanned(s) /\ Placed(s) /\ Branch(s)
  BY DEF HandlerOK, Idle, ChangeState
<1> QED BY <1>1, <1>2 DEF HandlerOK, Scanned, Placed, Branch

(* The grant that was read back is one.                                     *)
LEMMA ReadBackOK ==
  ASSUME NEW s \in HandlerState, HandlerOK(s), s.pc = "readback",
         contract[s.policy].grant = s.sig.plan.grant, NEW t, t = [s EXCEPT !.pc = "issue"]
  PROVE  t \in HandlerState /\ HandlerOK(t)
<1>1. /\ t \in HandlerState /\ t.pc = "issue" /\ t.sig = s.sig /\ t.todo = s.todo
      /\ t.legacy = s.legacy /\ t.deployed = s.deployed /\ t.policy = s.policy
  BY DEF HandlerState
<1>2. s.sig \in signed /\ Scanned(s) /\ Placed(s) /\ Branch(s)
  BY DEF HandlerOK, Idle, ChangeState
<1>3. s.sig.plan.grant \in Grant
  BY DEF HandlerState, SetupAction, Plan
<1>4. contract[t.policy].grant # NoGrant
  BY <1>1, <1>3, SetupAssumption
<1> QED BY <1>1, <1>2, <1>4 DEF HandlerOK, Scanned, Placed, Branch

(* The key that is answered is usable.                                      *)
LEMMA IssuedOK ==
  ASSUME Types, Bindings, NEW s \in HandlerState, HandlerOK(s), s.pc = "issue",
         NEW k, k = [sig |-> s.sig, policy |-> s.policy, deployed |-> s.deployed,
                     version |-> policies[s.policy].api_key_version]
  PROVE  k \in Key /\ KeyOK(k)
<1>1. Scanned(s) /\ Placed(s) /\ Branch(s) /\ s.sig \in SetupAction /\ s.deployed \in BOOLEAN
  BY DEF HandlerOK, Idle, ChangeState, HandlerState
<1>2. /\ Registered(s.policy) /\ DeployedFor(s.policy, s.sig) /\ s.policy \in PolicyId
      /\ s.sig \in Range(consumed[s.sig.owner]) /\ contract[s.policy].grant # NoGrant
  BY <1>1 DEF Placed, DeployedFor
<1>3. /\ policies[s.policy] \in RegisteredPolicy
      /\ policies[s.policy].owner = s.sig.owner /\ policies[s.policy].slot = s.sig.plan.slot
  BY <1>2, BoundPolicy DEF DeployedFor
<1>4. k \in Key
  BY <1>1, <1>2, <1>3 DEF Key, RegisteredPolicy
<1>5. s.deployed => \A p \in PolicyId : ~Older(p, s.sig)
  <2>1. s.deployed => Range(s.legacy) = {}
    BY <1>1 DEF Branch, Range
  <2> QED BY <1>1, <2>1 DEF Scanned
<1> QED BY <1>2, <1>3, <1>4, <1>5 DEF KeyOK

(* A write has been applied; the world and the invocation are already known *)
(* to satisfy the invariant after it.                                       *)
LEMMA AfterOK ==
  ASSUME NEW s, HandlerOK(s)', s.pc \in Writes \cup {"change"},
         s.pc = "register" => Registered(s.policy)',
         s.pc \in {"register", "consume"} => s.sig \in Range(consumed'[s.sig.owner]),
         s.pc = "retire" => ~policies'[Head(s.legacy)].active,
         NEW t, t = After(s)
  PROVE  t \in {Idle} \cup HandlerState /\ HandlerOK(t)'
<1>1. CASE s.pc = "change"
  BY <1>1 DEF After, HandlerOK
<1>2. CASE s.pc # "change"
  <2>1. s \in HandlerState /\ s.sig \in signed' /\ Scanned(s)' /\ Placed(s)' /\ Branch(s)'
    BY <1>2 DEF HandlerOK, Idle, ChangeState, Writes
  <2>2. s.legacy \in Seq(PolicyId)
    BY <2>1 DEF HandlerState
  <2>3. CASE s.pc \in {"register", "retire"}
    <3>1. PICK rest : rest = IF s.pc = "retire" THEN Tail(s.legacy) ELSE s.legacy
      OBVIOUS
    <3>2. s.pc = "retire" => s.legacy # <<>>
      BY <2>1 DEF Branch
    <3>3. rest \in Seq(PolicyId) /\ Range(rest) \subseteq Range(s.legacy)
      BY <2>2, <3>1, <3>2, RangeTail
    <3>4. t = [s EXCEPT !.legacy = rest, !.pc = IF rest = <<>> THEN "grant" ELSE "retire"]
      BY <2>3, <3>1 DEF After
    <3>5. /\ t \in HandlerState /\ t.pc = (IF rest = <<>> THEN "grant" ELSE "retire")
          /\ t.sig = s.sig /\ t.todo = s.todo /\ t.legacy = rest
          /\ t.deployed = s.deployed /\ t.policy = s.policy
      BY <2>1, <3>3, <3>4 DEF HandlerState, Writes
    <3>6. \A p \in PolicyId : Older(p, s.sig)' => p \in Range(rest)
      <4>1. \A p \in PolicyId : Older(p, s.sig)' => p \in Range(s.legacy)
        BY <2>1, <2>3 DEF Scanned, Branch
      <4>2. CASE s.pc = "retire"
        <5>1. Range(s.legacy) = {Head(s.legacy)} \cup Range(rest)
          BY <2>2, <3>1, <3>2, <4>2, RangeTail
        <5> QED BY <4>1, <4>2, <5>1 DEF Older, For
      <4>3. CASE s.pc # "retire"
        BY <3>1, <4>1, <4>3
      <4> QED BY <4>2, <4>3
    <3>7. Scanned(t)'
      BY <2>1, <3>3, <3>5, <3>6 DEF Scanned
    <3>8. Placed(t)'
      BY <2>1, <2>3, <3>5 DEF Placed
    <3>9. Branch(t)'
      BY <2>1, <2>3, <3>5 DEF Branch
    <3> QED BY <2>1, <3>5, <3>7, <3>8, <3>9 DEF HandlerOK
  <2>4. CASE s.pc \in {"update", "consume", "grant"}
    <3>1. PICK pc : pc = CASE s.pc = "update" -> "consume" [] s.pc = "consume" -> "grant"
                           [] s.pc = "grant" -> "readback"
      OBVIOUS
    <3>2. t = [s EXCEPT !.pc = pc]
      BY <2>4, <3>1 DEF After
    <3>3. /\ t \in HandlerState /\ t.pc = pc /\ t.sig = s.sig /\ t.todo = s.todo
          /\ t.legacy = s.legacy /\ t.deployed = s.deployed /\ t.policy = s.policy
      BY <2>1, <2>4, <3>1, <3>2 DEF HandlerState, Writes
    <3> QED BY <2>1, <2>4, <3>1, <3>3 DEF HandlerOK, Scanned, Placed, Branch
  <2> QED BY <1>2, <2>3, <2>4 DEF Writes
<1> QED BY <1>1, <1>2

-----------------------------------------------------------------------------
(* The steps.                                                               *)
LEMMA OthersStable ==
  ASSUME SetupInv, Types', Grows, UNCHANGED late
  PROVE  /\ \A s \in Range(handler) : HandlerOK(s)'
         /\ \A k \in keys : KeyOK(k)'
         /\ \A tx \in late' : TxOK(tx)'
<1>1. Types /\ Bindings /\ SignedPast
  BY DEF SetupInv, World
<1>2. ASSUME NEW s \in Range(handler) PROVE HandlerOK(s)'
  BY <1>1, <1>2, HandlerStable DEF SetupInv, Handlers
<1>3. ASSUME NEW k \in keys PROVE KeyOK(k)'
  BY <1>1, <1>3, KeyStable DEF SetupInv, Keys
<1>4. ASSUME NEW tx \in late' PROVE TxOK(tx)'
  BY <1>1, <1>4, TxStable DEF SetupInv
<1> QED BY <1>2, <1>3, <1>4

(* One invocation moves; the others rely on what grows.                     *)
LEMMA HandlersMove ==
  ASSUME Handlers, \A s \in Range(handler) : HandlerOK(s)', NEW h \in Handler,
         NEW t \in {Idle} \cup HandlerState \cup ChangeState, HandlerOK(t)', Set(h, t)
  PROVE  Handlers'
<1>1. handler' \in [Handler -> {Idle} \cup HandlerState \cup ChangeState]
  BY DEF Handlers, Set
<1>2. Range(handler') \subseteq Range(handler) \cup {t}
  BY <1>1 DEF Handlers, Set, Range
<1>3. ASSUME NEW s \in Range(handler') PROVE HandlerOK(s)'
  BY <1>2, <1>3
<1> QED BY <1>1, <1>3 DEF Handlers

(* Nothing is asked of an invocation that is over.                          *)
LEMMA IdleOK == HandlerOK(Idle) /\ HandlerOK(Idle)'
BY DEF HandlerOK

(* The world is kept by steps that leave contracts and signatures alone.    *)
LEMMA WorldKept ==
  ASSUME World, UNCHANGED <<registry, contract, signed, expired, history>>
  PROVE  World' /\ Grows
<1>1. Types'
  BY DEF World, Types, RegistryTypeOK, registry, history
<1>2. SignedPast'
  BY DEF World, SignedPast, registry, Deployed
<1> QED BY <1>1, <1>2, QuietStep

(* An invocation that only reads goes on as it may.                         *)
LEMMA ReadStep ==
  ASSUME SetupInv, NEW h \in Handler,
         NEW t \in {Idle} \cup HandlerState \cup ChangeState, HandlerOK(t), Set(h, t),
         UNCHANGED <<registry, contract, signed, expired, late, keys, history>>
  PROVE  SetupInv'
<1>1. World' /\ Grows
  BY WorldKept DEF SetupInv
<1>2. Types' /\ Types /\ Bindings /\ SignedPast
  BY <1>1 DEF World, SetupInv
<1>3. /\ \A s \in Range(handler) : HandlerOK(s)'
      /\ \A k \in keys : KeyOK(k)'
      /\ \A tx \in late' : TxOK(tx)'
  BY <1>1, <1>2, OthersStable
<1>4. HandlerOK(t)'
  BY <1>1, <1>2, HandlerStable
<1>5. Handlers'
  BY <1>3, <1>4, HandlersMove DEF SetupInv
<1>6. Keys'
  BY <1>3 DEF Keys, SetupInv
<1> QED BY <1>1, <1>3, <1>5, <1>6 DEF SetupInv

(* Each invocation's state is one the invariant speaks of.                  *)
LEMMA AtHandler ==
  ASSUME SetupInv, NEW h \in Handler
  PROVE  /\ handler[h] \in {Idle} \cup HandlerState \cup ChangeState
         /\ handler[h] \in Range(handler)
BY DEF SetupInv, Handlers, Range

(* A wallet signs for the nonce it has read.                                *)
LEMMA SignStep ==
  ASSUME SetupInv, NEW sig,
         sig \in SetupAction => sig.nonce <= owner_nonces[sig.owner],
         sig \in ChangeAction => Deployed(sig.policy),
         sig \in SetupAction \cup ChangeAction, Sign(sig)
  PROVE  SetupInv'
<1>1. signed' = signed \cup {sig} /\ UNCHANGED <<registry, contract, expired, handler, late,
                                                keys, history>>
  BY DEF Sign
<1>2. Types'
  BY <1>1 DEF SetupInv, World, Types, RegistryTypeOK, registry, history
<1>3. SignedPast'
  <2>1. owner_nonces' = owner_nonces /\ contract' = contract
    BY <1>1 DEF registry
  <2> QED BY <1>1, <2>1 DEF SetupInv, World, SignedPast, Deployed
<1>4. World' /\ Grows
  BY <1>1, <1>2, <1>3, QuietStep DEF SetupInv
<1>5. /\ \A s \in Range(handler) : HandlerOK(s)'
      /\ \A k \in keys : KeyOK(k)'
      /\ \A tx \in late' : TxOK(tx)'
  BY <1>1, <1>2, <1>4, OthersStable
<1> QED BY <1>1, <1>4, <1>5 DEF SetupInv, Keys, Handlers

(* Every step of the wallets keeps the invariant.                           *)
LEMMA WalletStepOK ==
  ASSUME SetupInv, WalletStep
  PROVE  SetupInv'
<1>1. ASSUME NEW o \in Owner, NEW plan \in Plan, SignSetup(o, plan) PROVE SetupInv'
  <2>1. PICK sig : sig = [action |-> "setup_agent", owner |-> o, nonce |-> owner_nonces[o],
                          plan |-> plan]
    OBVIOUS
  <2>2. owner_nonces[o] \in Nat
    BY DEF SetupInv, World, Types, RegistryTypeOK
  <2>3. sig \in SetupAction /\ sig.nonce <= owner_nonces[sig.owner] /\ sig.action = "setup_agent"
    BY <2>1, <2>2 DEF SetupAction
  <2>4. sig \notin ChangeAction
    BY <2>3 DEF ChangeAction
  <2>5. Sign(sig)
    BY <1>1, <2>1 DEF SignSetup
  <2> QED BY <2>3, <2>4, <2>5, SignStep
<1>2. ASSUME NEW o \in Owner, NEW p \in PolicyId, NEW change \in Change,
             SignChange(o, p, change)
      PROVE  SetupInv'
  <2>1. PICK sig : sig = [action |-> "change_policy", owner |-> o, policy |-> p,
                          nonce |-> contract[p].policy_nonce, change |-> change]
    OBVIOUS
  <2>2. Deployed(p) /\ contract[p].policy_nonce \in Nat
    BY <1>2, BoundPolicy, ContractFields DEF SignChange, SetupInv, World
  <2>3. sig \in ChangeAction /\ Deployed(sig.policy) /\ sig.action = "change_policy"
    BY <2>1, <2>2 DEF ChangeAction
  <2>4. sig \notin SetupAction
    BY <2>3 DEF SetupAction
  <2>5. Sign(sig)
    BY <1>2, <2>1 DEF SignChange
  <2> QED BY <2>3, <2>4, <2>5, SignStep
<1>3. ASSUME NEW sig \in signed, Expire(sig) PROVE SetupInv'
  <2>1. signed' = signed /\ expired' = expired \cup {sig}
        /\ UNCHANGED <<registry, contract, handler, late, keys, history>>
    BY <1>3 DEF Expire
  <2>2. Types'
    BY <2>1 DEF SetupInv, World, Types, RegistryTypeOK, registry, history
  <2>3. SignedPast'
    BY <2>1 DEF SetupInv, World, SignedPast, registry, Deployed
  <2>4. World' /\ Grows
    BY <2>1, <2>2, <2>3, QuietStep DEF SetupInv
  <2>5. /\ \A s \in Range(handler) : HandlerOK(s)'
        /\ \A k \in keys : KeyOK(k)'
        /\ \A tx \in late' : TxOK(tx)'
    BY <2>1, <2>2, <2>4, OthersStable
  <2> QED BY <2>1, <2>4, <2>5 DEF SetupInv, Keys, Handlers
<1> QED BY <1>1, <1>2, <1>3 DEF WalletStep

(* An invocation's write is applied, or refused and the invocation ends.    *)
LEMMA WriteStep ==
  ASSUME SetupInv, NEW h \in Handler, Write(h)
  PROVE  SetupInv'
<1>1. PICK s : s = handler[h]
  OBVIOUS
<1>2. PICK tx : tx = WriteOf(s)
  OBVIOUS
<1>3. /\ s.pc \in Writes \cup {"change"}
      /\ UNCHANGED <<signed, expired, late, keys>>
      /\ \/ Accepts(tx) /\ Perform(tx) /\ Set(h, After(s))
         \/ Set(h, Idle) /\ UNCHANGED <<registry, contract, history>>
  BY <1>1, <1>2 DEF Write, AfterRefusal
<1>4. World /\ Types /\ HandlerOK(s) /\ s \in Range(handler)
  BY <1>1, AtHandler DEF SetupInv, World, Handlers
<1>5. TxOK(tx)
  BY <1>2, <1>3, <1>4, WriteAllowed
<1>6. CASE Accepts(tx) /\ Perform(tx) /\ Set(h, After(s))
  <2>1. /\ World' /\ Grows
        /\ tx.op = "register_policy" => Registered(tx.policy)'
        /\ tx.op \in {"register_policy", "consume_owner_nonce"} =>
             tx.sig \in Range(consumed'[tx.sig.owner])
        /\ tx.op = "set_policy_active" => ~policies'[tx.policy].active
    BY <1>3, <1>4, <1>5, <1>6, PerformStep
  <2>2. Types'
    BY <2>1 DEF World
  <2>3. /\ \A x \in Range(handler) : HandlerOK(x)'
        /\ \A k \in keys : KeyOK(k)'
        /\ \A x \in late' : TxOK(x)'
    BY <1>3, <2>1, <2>2, OthersStable
  <2>4. HandlerOK(s)'
    BY <1>4, <2>3
  <2>5. s.pc = "register" => tx = [op |-> "register_policy", policy |-> s.policy, sig |-> s.sig]
    BY <1>2 DEF WriteOf
  <2>6. s.pc = "consume" => tx = [op |-> "consume_owner_nonce", sig |-> s.sig]
    BY <1>2 DEF WriteOf
  <2>7. s.pc = "retire" => tx = [op |-> "set_policy_active", policy |-> Head(s.legacy)]
    BY <1>2 DEF WriteOf
  <2>8. /\ s.pc = "register" => Registered(s.policy)'
        /\ s.pc \in {"register", "consume"} => s.sig \in Range(consumed'[s.sig.owner])
        /\ s.pc = "retire" => ~policies'[Head(s.legacy)].active
    BY <2>1, <2>5, <2>6, <2>7
  <2>9. PICK t : t = After(s)
    OBVIOUS
  <2>10. t \in {Idle} \cup HandlerState /\ HandlerOK(t)'
    BY <1>3, <2>4, <2>8, <2>9, AfterOK
  <2>11. Handlers'
    BY <1>6, <2>3, <2>9, <2>10, HandlersMove DEF SetupInv
  <2>12. Keys'
    BY <1>3, <2>3 DEF Keys, SetupInv
  <2> QED BY <2>1, <2>3, <2>11, <2>12 DEF SetupInv
<1>7. CASE Set(h, Idle) /\ UNCHANGED <<registry, contract, history>>
  BY <1>3, <1>7, IdleOK, ReadStep
<1> QED BY <1>3, <1>6, <1>7

(* An invocation deploys a policy.                                          *)
LEMMA DeployStepOK ==
  ASSUME SetupInv, NEW h \in Handler, NEW p \in PolicyId, Deploy(h, p)
  PROVE  SetupInv'
<1>1. PICK s : s = handler[h]
  OBVIOUS
<1>2. World /\ HandlerOK(s) /\ s \in Range(handler) /\ s.pc = "deploy"
  BY <1>1, AtHandler DEF SetupInv, Handlers, Deploy, At
<1>3. s \in HandlerState
  BY <1>2 DEF HandlerOK, Idle, ChangeState
<1>4. s.sig.owner \in Owner /\ s.sig.plan.slot \in Slot /\ s.sig.plan.caps \in Caps
  BY <1>3 DEF HandlerState, SetupAction, Plan
<1>5. PICK c : c = [version |-> "6", owner |-> s.sig.owner, slot |-> s.sig.plan.slot,
                    caps |-> s.sig.plan.caps, listed |-> FALSE, grant |-> NoGrant,
                    policy_nonce |-> 0]
  OBVIOUS
<1>6. c \in Contract
  BY <1>4, <1>5 DEF Contract
<1>7. /\ ~Deployed(p) /\ contract' = [contract EXCEPT ![p] = c]
      /\ UNCHANGED <<registry, signed, expired, late, keys, history>>
  BY <1>1, <1>5 DEF Deploy
<1>8. World' /\ Grows /\ contract'[p] = c /\ Deployed(p)'
  BY <1>2, <1>5, <1>6, <1>7, DeployStep
<1>9. /\ \A x \in Range(handler) : HandlerOK(x)'
      /\ \A k \in keys : KeyOK(k)'
      /\ \A x \in late' : TxOK(x)'
  BY <1>7, <1>8, OthersStable DEF World
<1>10. DeployedFor(p, s.sig)' /\ contract'[p].version = "6"
  BY <1>5, <1>8 DEF DeployedFor
<1>11. PICK t : t = [s EXCEPT !.pc = "register", !.policy = p, !.deployed = TRUE]
  OBVIOUS
<1>12. HandlerOK(s)'
  BY <1>2, <1>9
<1>13. t \in HandlerState /\ HandlerOK(t)'
  BY <1>2, <1>3, <1>10, <1>11, <1>12, DeployedOK
<1>14. Set(h, t)
  BY <1>1, <1>11 DEF Deploy
<1>15. Handlers'
  BY <1>9, <1>13, <1>14, HandlersMove DEF SetupInv
<1>16. Keys'
  BY <1>7, <1>9 DEF Keys, SetupInv
<1> QED BY <1>8, <1>9, <1>15, <1>16 DEF SetupInv

(* An invocation answers with a key.                                        *)
LEMMA IssueStep ==
  ASSUME SetupInv, NEW h \in Handler, Issue(h)
  PROVE  SetupInv'
<1>1. PICK s : s = handler[h]
  OBVIOUS
<1>2. World /\ HandlerOK(s) /\ s.pc = "issue"
  BY <1>1, AtHandler DEF SetupInv, Handlers, Issue, At
<1>3. s \in HandlerState
  BY <1>2 DEF HandlerOK, Idle, ChangeState
<1>4. PICK k : k = [sig |-> s.sig, policy |-> s.policy, deployed |-> s.deployed,
                    version |-> policies[s.policy].api_key_version]
  OBVIOUS
<1>5. k \in Key /\ KeyOK(k)
  BY <1>2, <1>3, <1>4, IssuedOK DEF World
<1>6. /\ keys' = keys \cup {k} /\ Set(h, Idle)
      /\ UNCHANGED <<registry, contract, signed, expired, late, history>>
  BY <1>1, <1>4 DEF Issue
<1>7. World' /\ Grows
  BY <1>2, <1>6, WorldKept
<1>8. /\ \A x \in Range(handler) : HandlerOK(x)'
      /\ \A x \in keys : KeyOK(x)'
      /\ \A x \in late' : TxOK(x)'
  BY <1>6, <1>7, OthersStable DEF World
<1>9. KeyOK(k)'
  BY <1>2, <1>5, <1>7, KeyStable DEF World
<1>10. Keys'
  BY <1>5, <1>6, <1>8, <1>9 DEF Keys, SetupInv
<1>11. Handlers'
  BY <1>6, <1>8, IdleOK, HandlersMove DEF SetupInv
<1> QED BY <1>7, <1>8, <1>10, <1>11 DEF SetupInv

(* Every step of an invocation keeps the invariant.                         *)
LEMMA HandlerStepOK ==
  ASSUME SetupInv, NEW h \in Handler, HandlerStep(h)
  PROVE  SetupInv'
<1>1. PICK s : s = handler[h]
  OBVIOUS
<1>2. /\ Types /\ Bindings /\ HandlerOK(s)
      /\ s \in {Idle} \cup HandlerState \cup ChangeState
  BY <1>1, AtHandler DEF SetupInv, World, Handlers
<1>3. s.pc \notin {"idle", "check", "change"} => s \in HandlerState
  BY <1>2 DEF Idle, ChangeState
<1>4. ASSUME NEW sig \in signed, sig.action = "setup_agent", PostSetup(h, sig)
      PROVE  SetupInv'
  <2>1. PICK t : t = [pc |-> "verify", sig |-> sig, todo |-> <<>>, legacy |-> <<>>,
                      policy |-> NoPolicy, deployed |-> FALSE, seen |-> 0]
    OBVIOUS
  <2>2. sig \in SetupAction
    BY <1>4 DEF SetupInv, World, Types, ChangeAction
  <2>3. t \in HandlerState /\ HandlerOK(t)
    BY <2>1, <2>2, PostOK
  <2>4. Set(h, t) /\ UNCHANGED <<registry, contract, signed, expired, late, keys, history>>
    BY <1>4, <2>1 DEF PostSetup, Arrive
  <2> QED BY <2>3, <2>4, ReadStep
<1>5. ASSUME NEW sig \in signed, sig.action = "change_policy", PutPolicy(h, sig)
      PROVE  SetupInv'
  <2>1. PICK t : t = [pc |-> "check", sig |-> sig]
    OBVIOUS
  <2>2. sig \in ChangeAction
    BY <1>5 DEF SetupInv, World, Types, SetupAction
  <2>3. t \in ChangeState /\ HandlerOK(t)
    BY <2>1, <2>2 DEF ChangeState, HandlerOK
  <2>4. Set(h, t) /\ UNCHANGED <<registry, contract, signed, expired, late, keys, history>>
    BY <1>5, <2>1 DEF PutPolicy, Arrive
  <2> QED BY <2>3, <2>4, ReadStep
<1>6. CASE VerifySetup(h)
  <2>1. s.pc = "verify" /\ UNCHANGED <<registry, contract, signed, expired, late, keys, history>>
    BY <1>1, <1>6 DEF VerifySetup, At, Read
  <2>2. PICK t : t = [s EXCEPT !.pc = "index"]
    OBVIOUS
  <2>3. t \in HandlerState /\ HandlerOK(t)
    BY <1>2, <1>3, <2>1, <2>2, VerifyOK
  <2>4. Set(h, t) \/ Set(h, Idle)
    BY <1>1, <1>6, <2>2 DEF VerifySetup
  <2> QED BY <2>1, <2>3, <2>4, IdleOK, ReadStep
<1>7. CASE ListPolicies(h)
  <2>1. s.pc = "index" /\ UNCHANGED <<registry, contract, signed, expired, late, keys, history>>
    BY <1>1, <1>7 DEF ListPolicies, At, Read
  <2>2. PICK t : t = [s EXCEPT !.pc = "scan", !.todo = owner_index[s.sig.owner]]
    OBVIOUS
  <2>3. t \in HandlerState /\ HandlerOK(t)
    BY <1>2, <1>3, <2>1, <2>2, ListOK
  <2>4. Set(h, t)
    BY <1>1, <1>7, <2>2 DEF ListPolicies, policies_for_owner
  <2> QED BY <2>1, <2>3, <2>4, ReadStep
<1>8. CASE Scan(h)
  <2>1. s.pc = "scan" /\ UNCHANGED <<registry, contract, signed, expired, late, keys, history>>
    BY <1>1, <1>8 DEF Scan, At, Read
  <2>2. PICK matches : matches = (policies[Head(s.todo)].active
                                  /\ policies[Head(s.todo)].slot = s.sig.plan.slot)
    OBVIOUS
  <2>3. CASE s.todo = <<>> /\ Set(h, [s EXCEPT !.pc = "deploy"])
    <3>1. PICK t : t = [s EXCEPT !.pc = "deploy"]
      OBVIOUS
    <3>2. t \in HandlerState /\ HandlerOK(t)
      BY <1>2, <1>3, <2>1, <2>3, <3>1, ScanEndOK
    <3> QED BY <2>1, <2>3, <3>1, <3>2, ReadStep
  <2>4. CASE /\ s.todo # <<>> /\ matches /\ contract[Head(s.todo)].version = "6"
             /\ Set(h, [s EXCEPT !.pc = "nonce", !.policy = Head(s.todo)])
    <3>1. PICK t : t = [s EXCEPT !.pc = "nonce", !.policy = Head(s.todo)]
      OBVIOUS
    <3>2. t \in HandlerState /\ HandlerOK(t)
      BY <1>2, <1>3, <2>1, <2>2, <2>4, <3>1, ScanFoundOK
    <3> QED BY <2>1, <2>4, <3>1, <3>2, ReadStep
  <2>5. CASE /\ s.todo # <<>> /\ ~(matches /\ contract[Head(s.todo)].version = "6")
             /\ Set(h, [s EXCEPT !.todo = Tail(@),
                                 !.legacy = IF matches THEN Append(@, Head(s.todo)) ELSE @])
    <3>1. PICK t : t = [s EXCEPT !.todo = Tail(@),
                                 !.legacy = IF matches THEN Append(@, Head(s.todo)) ELSE @]
      OBVIOUS
    <3>2. t \in HandlerState /\ HandlerOK(t)
      BY <1>2, <1>3, <2>1, <2>2, <2>5, <3>1, ScanNextOK
    <3> QED BY <2>1, <2>5, <3>1, <3>2, ReadStep
  <2> QED BY <1>1, <1>8, <2>2, <2>3, <2>4, <2>5 DEF Scan, Step
<1>9. CASE ReadNonce(h)
  <2>1. s.pc = "nonce" /\ UNCHANGED <<registry, contract, signed, expired, late, keys, history>>
    BY <1>1, <1>9 DEF ReadNonce, At, Read
  <2>2. PICK n : n = contract[s.policy].policy_nonce
    OBVIOUS
  <2>3. n \in Nat
    <3>1. DeployedFor(s.policy, s.sig)
      BY <1>2, <1>3, <2>1 DEF HandlerOK, Idle, ChangeState, Placed
    <3> QED BY <1>2, <2>2, <3>1, ContractFields DEF DeployedFor
  <2>4. PICK t : t = [s EXCEPT !.pc = "update", !.seen = n]
    OBVIOUS
  <2>5. t \in HandlerState /\ HandlerOK(t)
    BY <1>2, <1>3, <2>1, <2>3, <2>4, NonceReadOK
  <2>6. Set(h, t)
    BY <1>1, <1>9, <2>2, <2>4 DEF ReadNonce
  <2> QED BY <2>1, <2>5, <2>6, ReadStep
<1>10. CASE CheckChange(h)
  <2>1. s.pc = "check" /\ UNCHANGED <<registry, contract, signed, expired, late, keys, history>>
    BY <1>1, <1>10 DEF CheckChange, At, Read
  <2>2. s \in ChangeState /\ s.sig \in signed
    BY <1>2, <2>1 DEF HandlerOK, HandlerState, Idle, Writes
  <2>3. PICK t : t = [s EXCEPT !.pc = "change"]
    OBVIOUS
  <2>4. t \in ChangeState /\ HandlerOK(t)
    BY <2>2, <2>3 DEF ChangeState, HandlerOK
  <2>5. Set(h, t) \/ Set(h, Idle)
    BY <1>1, <1>10, <2>3 DEF CheckChange
  <2> QED BY <2>1, <2>4, <2>5, IdleOK, ReadStep
<1>11. CASE ReadBack(h)
  <2>1. s.pc = "readback" /\ UNCHANGED <<registry, contract, signed, expired, late, keys, history>>
    BY <1>1, <1>11 DEF ReadBack, At, Read
  <2>2. PICK t : t = [s EXCEPT !.pc = "issue"]
    OBVIOUS
  <2>3. CASE contract[s.policy].grant = s.sig.plan.grant /\ Set(h, t)
    <3>1. t \in HandlerState /\ HandlerOK(t)
      BY <1>2, <1>3, <2>1, <2>2, <2>3, ReadBackOK
    <3> QED BY <2>1, <2>3, <3>1, ReadStep
  <2>4. CASE Set(h, Idle)
    BY <2>1, <2>4, IdleOK, ReadStep
  <2> QED BY <1>1, <1>11, <2>2, <2>3, <2>4 DEF ReadBack
<1> QED BY <1>4, <1>5, <1>6, <1>7, <1>8, <1>9, <1>10, <1>11,
           DeployStepOK, WriteStep, IssueStep DEF HandlerStep

(* A rotation or a revocation keeps the invariant.                          *)
LEMMA ControlStep ==
  ASSUME SetupInv, NEW p \in PolicyId, Control(p)
  PROVE  SetupInv'
<1>1. World /\ Types
  BY DEF SetupInv, World
<1>2. /\ UNCHANGED <<contract, signed, expired, handler, late, keys, history>>
      /\ UNCHANGED <<owner_index, owner_nonces>> /\ Registered(p)
      /\ \/ policies' = [policies EXCEPT ![p].active = FALSE]
         \/ policies' = [policies EXCEPT ![p].api_key_version = @ + 1]
  BY DEF Control, rotate_api_key, set_policy_active, MayControl
<1>3. PICK c \in RegisteredPolicy : c = policies[p]
  BY <1>1, <1>2, RegisteredIsRecord
<1>4. \E r \in RegisteredPolicy :
        /\ policies' = [policies EXCEPT ![p] = r]
        /\ r.owner = c.owner /\ r.slot = c.slot /\ (r.active => c.active)
  <2>1. CASE policies' = [policies EXCEPT ![p].active = FALSE]
    <3>1. PICK r : r = [c EXCEPT !.active = FALSE]
      OBVIOUS
    <3>2. r \in RegisteredPolicy /\ r.owner = c.owner /\ r.slot = c.slot /\ ~r.active
      BY <3>1 DEF RegisteredPolicy
    <3>3. policies' = [policies EXCEPT ![p] = r]
      BY <1>3, <2>1, <3>1
    <3> QED BY <3>2, <3>3
  <2>2. CASE policies' = [policies EXCEPT ![p].api_key_version = @ + 1]
    <3>1. PICK r : r = [c EXCEPT !.api_key_version = c.api_key_version + 1]
      OBVIOUS
    <3>2. r \in RegisteredPolicy /\ r.owner = c.owner /\ r.slot = c.slot /\ r.active = c.active
      BY <3>1 DEF RegisteredPolicy
    <3>3. policies' = [policies EXCEPT ![p] = r]
      BY <1>3, <2>2, <3>1
    <3> QED BY <3>2, <3>3
  <2> QED BY <1>2, <2>1, <2>2
<1>5. PICK r \in RegisteredPolicy :
        /\ policies' = [policies EXCEPT ![p] = r]
        /\ r.owner = c.owner /\ r.slot = c.slot /\ (r.active => c.active)
  BY <1>4
<1>6. World' /\ Grows
  BY <1>1, <1>2, <1>3, <1>5, BindingStep
<1>7. /\ \A x \in Range(handler) : HandlerOK(x)'
      /\ \A k \in keys : KeyOK(k)'
      /\ \A x \in late' : TxOK(x)'
  BY <1>2, <1>6, OthersStable DEF World
<1> QED BY <1>2, <1>6, <1>7 DEF SetupInv, Keys, Handlers

(* A lost invocation leaves a write behind that is still allowed.           *)
LEMMA LoseStep ==
  ASSUME SetupInv, NEW h \in Handler, Lose(h)
  PROVE  SetupInv'
<1>1. PICK s : s = handler[h]
  OBVIOUS
<1>2. World /\ Types /\ Bindings /\ SignedPast /\ HandlerOK(s)
  BY <1>1, AtHandler DEF SetupInv, World, Handlers
<1>3. Set(h, Idle) /\ UNCHANGED <<registry, contract, signed, expired, keys, history>>
  BY DEF Lose
<1>4. World' /\ Grows /\ Types'
  BY <1>2, <1>3, WorldKept DEF World
<1>5. ASSUME NEW x \in Range(handler) PROVE HandlerOK(x)'
  BY <1>2, <1>4, <1>5, HandlerStable DEF SetupInv, Handlers
<1>6. ASSUME NEW k \in keys PROVE KeyOK(k)'
  BY <1>2, <1>4, <1>6, KeyStable DEF SetupInv, Keys
<1>7. ASSUME NEW tx \in late' PROVE TxOK(tx)'
  <2>1. CASE tx \in late
    BY <1>2, <1>4, <2>1, TxStable DEF SetupInv
  <2>2. CASE tx \notin late
    <3>1. s.pc \in Writes \cup {"change"} /\ tx = WriteOf(s)
      BY <1>1, <1>7, <2>2 DEF Lose
    <3>2. TxOK(tx)
      BY <1>2, <3>1, WriteAllowed
    <3> QED BY <1>2, <1>4, <3>2, TxStable
  <2> QED BY <2>1, <2>2
<1>8. Handlers'
  BY <1>3, <1>5, IdleOK, HandlersMove DEF SetupInv
<1>9. Keys'
  BY <1>3, <1>6 DEF Keys, SetupInv
<1> QED BY <1>4, <1>7, <1>8, <1>9 DEF SetupInv

(* A late write is applied or refused.                                      *)
LEMMA LateStep ==
  ASSUME SetupInv, NEW tx \in late, Late(tx)
  PROVE  SetupInv'
<1>1. World /\ Types /\ Bindings /\ SignedPast /\ TxOK(tx)
  BY DEF SetupInv, World
<1>2. late' \subseteq late /\ UNCHANGED <<signed, expired, handler, keys>>
  BY DEF Late
<1>3. World' /\ Grows
  <2>1. CASE Accepts(tx) /\ Perform(tx)
    BY <1>1, <1>2, <2>1, PerformStep
  <2>2. CASE UNCHANGED <<registry, contract, history>>
    BY <1>1, <1>2, <2>2, WorldKept
  <2> QED BY <2>1, <2>2 DEF Late
<1>4. Types'
  BY <1>3 DEF World
<1>5. ASSUME NEW x \in Range(handler) PROVE HandlerOK(x)'
  BY <1>1, <1>3, <1>4, <1>5, HandlerStable DEF SetupInv, Handlers
<1>6. ASSUME NEW k \in keys PROVE KeyOK(k)'
  BY <1>1, <1>3, <1>4, <1>6, KeyStable DEF SetupInv, Keys
<1>7. ASSUME NEW x \in late' PROVE TxOK(x)'
  BY <1>1, <1>2, <1>3, <1>4, <1>7, TxStable DEF SetupInv
<1> QED BY <1>2, <1>3, <1>5, <1>6, <1>7 DEF SetupInv, Keys, Handlers

(* Every step keeps the invariant.                                          *)
LEMMA SetupStep ==
  ASSUME SetupInv, [SetupNext]_setupVars
  PROVE  SetupInv'
<1>1. CASE SetupNext
  BY <1>1, WalletStepOK, HandlerStepOK, ControlStep, LoseStep, LateStep DEF SetupNext
<1>2. CASE UNCHANGED setupVars
  <2>1. UNCHANGED <<registry, contract, signed, expired, handler, late, keys, history>>
    BY <1>2 DEF setupVars
  <2>2. World' /\ Grows
    BY <2>1, WorldKept DEF SetupInv
  <2>3. /\ \A x \in Range(handler) : HandlerOK(x)'
        /\ \A k \in keys : KeyOK(k)'
        /\ \A x \in late' : TxOK(x)'
    BY <2>1, <2>2, OthersStable DEF World
  <2> QED BY <2>1, <2>2, <2>3 DEF SetupInv, Keys, Handlers
<1> QED BY <1>1, <1>2

(* Before the first setup.                                                  *)
LEMMA FreshWorld ==
  ASSUME Fresh, signed = {}, expired = {}, changes = <<>>
  PROVE  World
<1>1. Types
  BY DEF Fresh, Types, RegistryTypeOK, Unregistered
<1>2. \A p \in PolicyId : ~Registered(p) /\ ~Deployed(p)
  BY DEF Fresh, Registered, Deployed
<1>3. Bindings
  BY <1>2 DEF Fresh, Bindings, Range
<1>4. NonceSpentOnce
  BY DEF Fresh, NonceSpentOnce
<1>5. OnePolicyPerSlot /\ GrantsAuthorized
  BY <1>2 DEF OnePolicyPerSlot, GrantsAuthorized, Current
<1>6. SignedPast /\ ChangesBehind /\ ChangesOnce
  BY DEF SignedPast, ChangesBehind, ChangesOnce
<1> QED BY <1>1, <1>3, <1>4, <1>5, <1>6 DEF World

(* With a policy that an earlier release has set up.                        *)
LEMMA LegacyWorld ==
  ASSUME NEW p \in PolicyId, NEW o \in Owner, NEW plan \in Plan, Legacy(p, o, plan),
         signed = {}, expired = {}, changes = <<>>
  PROVE  World
<1> DEFINE sig == [action |-> "setup_agent", owner |-> o, nonce |-> 0, plan |-> plan]
           r == [owner |-> o, slot |-> plan.slot, active |-> TRUE, api_key_version |-> 1]
           c == [version |-> "5", owner |-> o, slot |-> plan.slot, caps |-> plan.caps,
                 listed |-> FALSE, grant |-> plan.grant, policy_nonce |-> 0]
<1>1. plan.slot \in Slot /\ plan.caps \in Caps /\ plan.grant \in Grant
  BY DEF Plan
<1>2. sig \in SetupAction /\ r \in RegisteredPolicy /\ c \in Contract
  BY <1>1 DEF SetupAction, RegisteredPolicy, Contract
<1>3. /\ \A q \in PolicyId : policies[q] = IF q = p THEN r ELSE Unregistered
      /\ \A q \in PolicyId : contract[q] = IF q = p THEN c ELSE NotDeployed
      /\ \A x \in Owner : owner_index[x] = IF x = o THEN <<p>> ELSE <<>>
      /\ \A x \in Owner : owner_nonces[x] = IF x = o THEN 1 ELSE 0
      /\ \A x \in Owner : consumed[x] = IF x = o THEN <<sig>> ELSE <<>>
  BY DEF Legacy
<1>4. <<p>> \in Seq(PolicyId) /\ <<sig>> \in Seq(SetupAction)
  BY <1>2
<1>5. /\ policies \in [PolicyId -> RegisteredPolicy \cup {Unregistered}]
      /\ contract \in [PolicyId -> Contract \cup {NotDeployed}]
  BY <1>2 DEF Legacy
<1>6. /\ owner_index \in [Owner -> Seq(PolicyId)] /\ owner_nonces \in [Owner -> Nat]
      /\ consumed \in [Owner -> Seq(SetupAction)]
  BY <1>4 DEF Legacy
<1>7. Types
  BY <1>5, <1>6 DEF Types, RegistryTypeOK
<1>8. Registered(p) /\ Deployed(p)
  BY <1>2, <1>3, <1>7, RegisteredIsRecord, DeployedIsRecord
<1>9. \A q \in PolicyId : q # p => ~Registered(q) /\ ~Deployed(q)
  BY <1>3 DEF Registered, Deployed
<1>10. Range(<<p>>) = {p} /\ Range(<<sig>>) = {sig} /\ Range(<<>>) = {}
  <2> HIDE DEF sig
  <2> QED BY DEF Range
<1>11. policies[p].owner = o /\ policies[p].slot = plan.slot
  BY <1>3
<1>12. /\ contract[p].owner = o /\ contract[p].slot = plan.slot
       /\ contract[p].grant = plan.grant /\ contract[p].version = "5"
  BY <1>3
<1>13. Bindings
  <2>1. ASSUME NEW q \in PolicyId, Registered(q)
        PROVE  /\ Deployed(q) /\ contract[q].owner = policies[q].owner
               /\ contract[q].slot = policies[q].slot
               /\ q \in Range(owner_index[policies[q].owner])
    BY <1>3, <1>8, <1>9, <1>10, <1>11, <1>12, <2>1
  <2>2. ASSUME NEW x \in Owner, NEW q \in Range(owner_index[x])
        PROVE  Registered(q) /\ policies[q].owner = x
    BY <1>3, <1>8, <1>10, <1>11, <2>2
  <2> QED BY <2>1, <2>2 DEF Bindings
<1>14. NonceSpentOnce
  <2>1. sig.nonce = 0
    OBVIOUS
  <2>2. Len(<<sig>>) = 1 /\ \A i \in DOMAIN <<sig>> : <<sig>>[i].nonce = i - 1
    <3> HIDE DEF sig
    <3> QED BY <2>1
  <2>3. Len(<<>>) = 0 /\ DOMAIN <<>> = {}
    OBVIOUS
  <2> HIDE DEF sig
  <2> QED BY <1>3, <2>2, <2>3 DEF NonceSpentOnce
<1>15. OnePolicyPerSlot
  BY <1>9, <1>12 DEF OnePolicyPerSlot, Current
<1>16. GrantsAuthorized
  <2>1. sig \in Range(consumed[contract[p].owner])
    BY <1>3, <1>10, <1>12
  <2>2. sig.plan.grant = contract[p].grant /\ sig.plan.slot = contract[p].slot
    BY <1>12
  <2> HIDE DEF sig
  <2> QED BY <1>9, <2>1, <2>2 DEF GrantsAuthorized
<1>17. SignedPast /\ ChangesBehind /\ ChangesOnce
  BY DEF SignedPast, ChangesBehind, ChangesOnce
<1> QED BY <1>7, <1>13, <1>14, <1>15, <1>16, <1>17 DEF World

(* The invariant holds at the start.                                        *)
LEMMA SetupStart ==
  ASSUME SetupInit
  PROVE  SetupInv
<1>1. World
  BY FreshWorld, LegacyWorld DEF SetupInit
<1>2. Handlers
  <2>1. handler = [h \in Handler |-> Idle]
    BY DEF SetupInit
  <2>2. \A s \in Range(handler) : s = Idle
    BY <2>1 DEF Range
  <2> QED BY <2>1, <2>2 DEF Handlers, HandlerOK
<1>3. Keys /\ \A tx \in late : TxOK(tx)
  BY DEF SetupInit, Keys
<1> QED BY <1>1, <1>2, <1>3 DEF SetupInv

-----------------------------------------------------------------------------
(* The invariant holds of every run of setup and of policy changes.         *)
THEOREM SetupInvariant == SetupSpec => []SetupInv
<1>1. SetupInit => SetupInv
  BY SetupStart
<1>2. SetupInv /\ [SetupNext]_setupVars => SetupInv'
  BY SetupStep
<1> QED BY <1>1, <1>2, PTL DEF SetupSpec

(* The nonces of an owner in TreasuryRegistry are consumed one after the    *)
(* other, each by one signature made for it, however many invocations post  *)
(* the same signature or submit their write late.                           *)
THEOREM NonceSpentOnceHolds == SetupSpec => []NonceSpentOnce
<1>1. SetupInv => NonceSpentOnce
  BY DEF SetupInv, World
<1> QED BY <1>1, SetupInvariant, PTL

(* Overlapping setups of one slot leave one active policy of the current    *)
(* version: matchingPolicy looks without a lock, but only the holder of the *)
(* owner's next nonce can register what it did not find.                    *)
THEOREM OnePolicyPerSlotHolds == SetupSpec => []OnePolicyPerSlot
<1>1. SetupInv => OnePolicyPerSlot
  BY DEF SetupInv, World
<1> QED BY <1>1, SetupInvariant, PTL

(* A policy's grant is the one of a setup whose signature took a nonce:     *)
(* setup/route.ts consumes it before it registers a vault or a delegation.  *)
THEOREM GrantsAuthorizedHolds == SetupSpec => []GrantsAuthorized
<1>1. SetupInv => GrantsAuthorized
  BY DEF SetupInv, World
<1> QED BY <1>1, SetupInvariant, PTL

(* A key that setup answers with names a registered policy that can pay.    *)
THEOREM KeysUsableHolds == SetupSpec => []KeysUsable
<1>1. SetupInv => KeysUsable
  BY DEF SetupInv, Keys, KeyOK, KeysUsable
<1> QED BY <1>1, SetupInvariant, PTL

(* What a new policy replaces is inactive when its key is answered, and     *)
(* stays so.                                                                *)
THEOREM LegacyRetiredHolds == SetupSpec => []LegacyRetired
<1>1. SetupInv => LegacyRetired
  BY DEF SetupInv, Keys, KeyOK, LegacyRetired, Older, For
<1> QED BY <1>1, SetupInvariant, PTL

(* A signed policy change is applied at most once: TreasuryPolicy compares  *)
(* and advances policy_nonce in the call that applies it.                   *)
THEOREM ChangesOnceHolds == SetupSpec => []ChangesOnce
<1>1. SetupInv => ChangesOnce
  BY DEF SetupInv, World
<1> QED BY <1>1, SetupInvariant, PTL

Bounded == /\ posts \in 0..MaxPosts /\ controls \in 0..MaxControls
           /\ faults \in 0..MaxFaults

(* The types of the state of setup, for every choice of the constants.      *)
THEOREM SetupTypeHolds == SetupSpec => []SetupTypeOK
<1>1. SetupInit => Bounded
  BY SetupAssumption DEF SetupInit, Bounded
<1>2. Bounded /\ [SetupNext]_setupVars => Bounded'
  <2> SUFFICES ASSUME Bounded, [SetupNext]_setupVars PROVE Bounded'
    OBVIOUS
  <2> USE SetupAssumption DEF Bounded
  <2>1. CASE UNCHANGED counters
    BY <2>1 DEF counters
  <2>2. ASSUME NEW h \in Handler, HandlerStep(h) PROVE Bounded'
    <3>1. ASSUME NEW s, Arrive(h, s) PROVE Bounded'
      BY <3>1 DEF Arrive
    <3>2. \/ \E s : Arrive(h, s)
          \/ UNCHANGED counters
      <4>1. ASSUME NEW s, PostSetup(h, s) \/ PutPolicy(h, s) PROVE \E x : Arrive(h, x)
        BY <4>1 DEF PostSetup, PutPolicy
      <4>2. ASSUME \/ VerifySetup(h) \/ ListPolicies(h) \/ Scan(h) \/ ReadNonce(h)
                   \/ CheckChange(h) \/ ReadBack(h)
            PROVE  UNCHANGED counters
        BY <4>2 DEF VerifySetup, ListPolicies, Scan, ReadNonce, CheckChange, ReadBack, Read
      <4>3. ASSUME Write(h) \/ Issue(h) \/ \E p \in PolicyId : Deploy(h, p)
            PROVE  UNCHANGED counters
        BY <4>3 DEF Write, Issue, Deploy
      <4> QED BY <2>2, <4>1, <4>2, <4>3 DEF HandlerStep
    <3> QED BY <2>1, <3>1, <3>2
  <2>3. ASSUME NEW p \in PolicyId, Control(p) PROVE Bounded'
    BY <2>3 DEF Control
  <2>4. ASSUME NEW h \in Handler, Lose(h) PROVE Bounded'
    BY <2>4 DEF Lose
  <2>5. ASSUME WalletStep \/ \E tx \in late : Late(tx) PROVE UNCHANGED counters
    BY <2>5 DEF WalletStep, SignSetup, SignChange, Sign, Expire, Late
  <2> QED BY <2>1, <2>2, <2>3, <2>4, <2>5 DEF SetupNext, setupVars
<1>3. SetupInv /\ Bounded => SetupTypeOK
  BY DEF SetupInv, World, Types, Keys, Key, Handlers, Bounded, SetupTypeOK
<1> QED BY <1>1, <1>2, <1>3, SetupInvariant, PTL DEF SetupSpec
=============================================================================
