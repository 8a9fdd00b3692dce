-------------------------------- MODULE Setup --------------------------------
(***************************************************************************)
(* How an owner's signature becomes an agent's policy and key: POST        *)
(* api/v1/setup, and PUT api/owner/policy that changes the policy later.   *)
(*                                                                         *)
(* Several invocations run at once, and none of them holds a lock.  Every  *)
(* read whose answer can change, and every write, is a step of its own.    *)
(* Both routes wait for each write to be finalized and stop at the first   *)
(* error.  When the wait is given up or the invocation is killed the write *)
(* may still be applied, at any later time (Late): the contracts are apart *)
(* and nobody orders what is sent to one after what is sent to the other.  *)
(*                                                                         *)
(* What the owner asks for is a plan: the slot it is for, the grant that   *)
(* pays (a vault or a serialized delegation with its context), and the     *)
(* caps and text of the policy.  Checks of the payload alone only refuse   *)
(* a post and are left out.                                                *)
(***************************************************************************)
EXTENDS Registry

CONSTANTS
  Grant,        \* vaults and delegations
  NoGrant,
  Caps,         \* values of the caps and the policy text
  Handler,      \* concurrent invocations of the two routes
  NoPolicy,
  MaxSigned,    \* bound on the signatures the owners make
  MaxPosts,     \* bound on invocations
  MaxControls,  \* bound on rotations and revocations
  MaxFaults     \* bound on faults

ASSUME SetupAssumption ==
  /\ NoGrant \notin Grant /\ NoPolicy \notin PolicyId
  /\ MaxSigned \in Nat /\ MaxPosts \in Nat /\ MaxControls \in Nat /\ MaxFaults \in Nat

VARIABLES
  contract,  \* the state of each deployed policy contract
  signed,    \* owner actions the wallets have signed
  expired,   \* those whose deadline has passed
  handler,   \* what each invocation does
  late,      \* writes whose invocation has gone
  keys,      \* agent API keys setup has answered with
  consumed,  \* history: the signatures that took an owner's nonces
  changes,   \* history: the policy changes applied
  posts, controls, faults

history == <<consumed, changes>>
counters == <<posts, controls, faults>>
setupVars == <<registry, contract, signed, expired, handler, late, keys, history,
               counters>>

Plan == [slot : Slot, grant : Grant, caps : Caps]

(* set_whitelist_enabled and set_whitelist_entry both end in whether the    *)
(* payee of the next request is allowed.                                    *)
Change == [caps : Caps] \cup [listed : BOOLEAN]

SetupAction == [action : {"setup_agent"}, owner : Owner, nonce : Nat, plan : Plan]
ChangeAction == [action : {"change_policy"}, owner : Owner, policy : PolicyId,
                 nonce : Nat, change : Change]

NotDeployed == [version |-> "none"]
Contract == [version : {"5", "6"}, owner : Owner, slot : Slot, caps : Caps,
             listed : BOOLEAN, grant : Grant \cup {NoGrant}, policy_nonce : Nat]
Deployed(p) == contract[p] # NotDeployed

Idle == [pc |-> "idle"]
Busy(h) == handler[h].pc # "idle"
Writes == {"register", "retire", "update", "consume", "grant"}
HandlerState ==
  [pc : {"verify", "index", "scan", "deploy", "nonce", "readback", "issue"} \cup Writes,
   sig : SetupAction, todo : Seq(PolicyId), legacy : Seq(PolicyId),
   policy : PolicyId \cup {NoPolicy}, deployed : BOOLEAN, seen : Nat]
ChangeState == [pc : {"check", "change"}, sig : ChangeAction]

SetupTypeOK ==
  /\ RegistryTypeOK
  /\ contract \in [PolicyId -> Contract \cup {NotDeployed}]
  /\ expired \subseteq signed /\ signed \subseteq SetupAction \cup ChangeAction
  /\ handler \in [Handler -> {Idle} \cup HandlerState \cup ChangeState]
  /\ \A k \in keys : k.sig \in SetupAction /\ k.policy \in PolicyId
  /\ consumed \in [Owner -> Seq(SetupAction)] /\ changes \in Seq(ChangeAction)
  /\ posts \in 0..MaxPosts /\ controls \in 0..MaxControls /\ faults \in 0..MaxFaults

(* Before the first setup, or with a policy an earlier release has set up.  *)
Fresh ==
  /\ policies = [p \in PolicyId |-> Unregistered] /\ owner_index = [o \in Owner |-> <<>>]
  /\ owner_nonces = [o \in Owner |-> 0]
  /\ contract = [p \in PolicyId |-> NotDeployed]
  /\ consumed = [o \in Owner |-> <<>>]

Legacy(p, o, plan) ==
  /\ policies = [q \in PolicyId |->
        IF q = p THEN [owner |-> o, slot |-> plan.slot, active |-> TRUE,
                       api_key_version |-> 1] ELSE Unregistered]
  /\ owner_index = [x \in Owner |-> IF x = o THEN <<p>> ELSE <<>>]
  /\ owner_nonces = [x \in Owner |-> IF x = o THEN 1 ELSE 0]
  /\ contract = [q \in PolicyId |->
        IF q = p THEN [version |-> "5", owner |-> o, slot |-> plan.slot,
                       caps |-> plan.caps, listed |-> FALSE, grant |-> plan.grant,
                       policy_nonce |-> 0] ELSE NotDeployed]
  /\ consumed = [x \in Owner |-> IF x = o
        THEN <<[action |-> "setup_agent", owner |-> o, nonce |-> 0, plan |-> plan]>>
        ELSE <<>>]

SetupInit ==
  /\ \/ Fresh
     \/ \E p \in PolicyId, o \in Owner, plan \in Plan : Legacy(p, o, plan)
  /\ signed = {} /\ expired = {}
  /\ handler = [h \in Handler |-> Idle]
  /\ late = {} /\ keys = {} /\ changes = <<>>
  /\ posts = 0 /\ controls = 0 /\ faults = 0

-----------------------------------------------------------------------------
(* The wallets.  The page fetches the nonce before it asks for a signature. *)
Sign(s) ==
  /\ Cardinality(signed) < MaxSigned
  /\ signed' = signed \cup {s}
  /\ UNCHANGED <<registry, contract, expired, handler, late, keys, history, counters>>

SignSetup(o, plan) ==
  Sign([action |-> "setup_agent", owner |-> o, nonce |-> owner_nonces[o],
        plan |-> plan])

SignChange(o, p, change) ==
  /\ Registered(p) /\ policies[p].owner = o
  /\ Sign([action |-> "change_policy", owner |-> o, policy |-> p,
           nonce |-> contract[p].policy_nonce, change |-> change])

(* Mutant: the signature is forgotten.                                     *)
ExpireForgets(s) ==
  /\ s \in signed \ expired
  /\ expired' = expired \cup {s} /\ signed' = signed \ {s}
  /\ UNCHANGED <<registry, contract, handler, late, keys, history, counters>>

(* verifyOwnerAction refuses a signature whose deadline has passed.         *)
Expire(s) ==
  /\ s \in signed \ expired
  /\ expired' = expired \cup {s}
  /\ UNCHANGED <<registry, contract, signed, handler, late, keys, history, counters>>

verifyOwnerAction(s) == s \in signed \ expired

-----------------------------------------------------------------------------
(* The steps of an invocation: from one pc to another, with what it learns. *)
Set(h, state) == handler' = [handler EXCEPT ![h] = state]
At(h, pc) == handler[h].pc = pc
Step(h, from, to) == At(h, from) /\ Set(h, [handler[h] EXCEPT !.pc = to])

Read(h) == /\ UNCHANGED <<registry, contract, signed, expired, late, keys, history,
                          counters>>

Arrive(h, state) ==
  /\ ~Busy(h)
  /\ posts < MaxPosts /\ posts' = posts + 1
  /\ Set(h, state)
  /\ UNCHANGED <<registry, contract, signed, expired, late, keys, history,
                 controls, faults>>

PostSetup(h, s) ==
  Arrive(h, [pc |-> "verify", sig |-> s, todo |-> <<>>, legacy |-> <<>>,
             policy |-> NoPolicy, deployed |-> FALSE, seen |-> 0])

PutPolicy(h, s) == Arrive(h, [pc |-> "check", sig |-> s])

(* The registry's nonce is compared before the signature is verified.       *)
VerifySetup(h) ==
  /\ At(h, "verify")
  /\ LET s == handler[h].sig
     IN  Set(h, IF s.nonce = owner_nonces[s.owner] /\ verifyOwnerAction(s)
                THEN [handler[h] EXCEPT !.pc = "index"] ELSE Idle)
  /\ Read(h)

ListPolicies(h) ==
  /\ At(h, "index")
  /\ Set(h, [handler[h] EXCEPT !.pc = "scan",
                               !.todo = policies_for_owner(handler[h].sig.owner)])
  /\ Read(h)

(* Mutant: a policy of another version is passed over.                      *)
ScanSkipsLegacy(h) ==
  /\ At(h, "scan")
  /\ LET s == handler[h]
         p == Head(s.todo)
         matches == policies[p].active /\ policies[p].slot = s.sig.plan.slot
     IN  \/ /\ s.todo = <<>>
            /\ Step(h, "scan", "deploy")
         \/ /\ s.todo # <<>>
            /\ Set(h, IF matches /\ contract[p].version = "6"
                      THEN [s EXCEPT !.pc = "nonce", !.policy = p]
                      ELSE [s EXCEPT !.todo = Tail(@)])
  /\ Read(h)

(* matchingPolicy: the first active policy of the slot and this version is  *)
(* updated; active ones of an older version are remembered.                 *)
Scan(h) ==
  /\ At(h, "scan")
  /\ LET s == handler[h]
         p == Head(s.todo)
         matches == policies[p].active /\ policies[p].slot = s.sig.plan.slot
     IN  \/ /\ s.todo = <<>>
            /\ Step(h, "scan", "deploy")
         \/ /\ s.todo # <<>>
            /\ Set(h, IF matches /\ contract[p].version = "6"
                      THEN [s EXCEPT !.pc = "nonce", !.policy = p]
                      ELSE [s EXCEPT !.todo = Tail(@),
                                     !.legacy = IF matches THEN Append(@, p) ELSE @])
  /\ Read(h)

(* deployTreasuryPolicy: nobody learns the address of a deployment whose    *)
(* invocation has gone.                                                     *)
Deploy(h, p) ==
  /\ At(h, "deploy") /\ ~Deployed(p)
  /\ LET s == handler[h].sig
     IN  contract' = [contract EXCEPT ![p] =
           [version |-> "6", owner |-> s.owner, slot |-> s.plan.slot,
            caps |-> s.plan.caps, listed |-> FALSE, grant |-> NoGrant,
            policy_nonce |-> 0]]
  /\ Set(h, [handler[h] EXCEPT !.pc = "register", !.policy = p, !.deployed = TRUE])
  /\ UNCHANGED <<registry, signed, expired, late, keys, history, counters>>

ReadNonce(h) ==
  /\ At(h, "nonce")
  /\ Set(h, [handler[h] EXCEPT !.pc = "update",
                               !.seen = contract[handler[h].policy].policy_nonce])
  /\ Read(h)

(* The nonce a policy change is for is compared before its signature.       *)
CheckChange(h) ==
  /\ At(h, "check")
  /\ LET s == handler[h].sig
     IN  Set(h, IF s.nonce = contract[s.policy].policy_nonce /\ verifyOwnerAction(s)
                THEN [handler[h] EXCEPT !.pc = "change"] ELSE Idle)
  /\ Read(h)

-----------------------------------------------------------------------------
(* The writes: what an invocation submits where it stands, what each write  *)
(* does, and how the invocation goes on.                                    *)
WriteOf(s) ==
  CASE s.pc = "register" -> [op |-> "register_policy", policy |-> s.policy, sig |-> s.sig]
    [] s.pc = "retire"   -> [op |-> "set_policy_active", policy |-> Head(s.legacy)]
    [] s.pc = "update"   -> [op |-> "update_policy", policy |-> s.policy,
                             nonce |-> s.seen, caps |-> s.sig.plan.caps]
    [] s.pc = "consume"  -> [op |-> "consume_owner_nonce", sig |-> s.sig]
    [] s.pc = "grant"    -> [op |-> "register_grant", policy |-> s.policy,
                             grant |-> s.sig.plan.grant]
    [] s.pc = "change"   -> [op |-> "change_policy", sig |-> s.sig]

(* The vault or the delegation is registered after the nonce has been       *)
(* consumed, by the registration of a new policy or on its own.             *)
(* Mutant: the nonce of an update is not consumed.                          *)
AfterUnconsumed(s) ==
  CASE s.pc \in {"register", "retire"} ->
         LET rest == IF s.pc = "retire" THEN Tail(s.legacy) ELSE s.legacy
         IN  [s EXCEPT !.legacy = rest, !.pc = IF rest = <<>> THEN "grant" ELSE "retire"]
    [] s.pc \in {"update", "consume"} -> [s EXCEPT !.pc = "grant"]
    [] s.pc = "grant"   -> [s EXCEPT !.pc = "readback"]
    [] s.pc = "change"  -> Idle

After(s) ==
  CASE s.pc \in {"register", "retire"} ->
         LET rest == IF s.pc = "retire" THEN Tail(s.legacy) ELSE s.legacy
         IN  [s EXCEPT !.legacy = rest, !.pc = IF rest = <<>> THEN "grant" ELSE "retire"]
    [] s.pc = "update"  -> [s EXCEPT !.pc = "consume"]
    [] s.pc = "consume" -> [s EXCEPT !.pc = "grant"]
    [] s.pc = "grant"   -> [s EXCEPT !.pc = "readback"]
    [] s.pc = "change"  -> Idle

(* Mutant: a nonce that was refused is not noticed.                         *)
RefusedGoesOn(s) == IF s.pc = "consume" THEN After(s) ELSE Idle

AfterRefusal(s) == Idle

(* Mutant: the contract does not compare the nonce.                         *)
TakesAnyNonce(p, nonce) == Deployed(p)

TakesNonce(p, nonce) == contract[p].policy_nonce = nonce

Accepts(tx) ==
  CASE tx.op = "register_policy" -> CanRegister(tx.policy, tx.sig.owner, tx.sig.nonce)
    [] tx.op = "consume_owner_nonce" -> CanConsume(tx.sig.owner, tx.sig.nonce)
    [] tx.op = "update_policy" -> TakesNonce(tx.policy, tx.nonce)
    [] tx.op = "change_policy" -> TakesNonce(tx.sig.policy, tx.sig.nonce)
    [] OTHER -> TRUE

Changed(c, change) ==
  LET next == [c EXCEPT !.policy_nonce = @ + 1]
  IN  IF "caps" \in DOMAIN change THEN [next EXCEPT !.caps = change.caps]
      ELSE [next EXCEPT !.listed = change.listed]

OnRegistry(tx) ==
  /\ CASE tx.op = "register_policy" ->
            /\ register_policy(tx.policy, tx.sig.owner, tx.sig.plan.slot, tx.sig.nonce)
            /\ consumed' = [consumed EXCEPT ![tx.sig.owner] = Append(@, tx.sig)]
       [] tx.op = "consume_owner_nonce" ->
            /\ consume_owner_nonce(tx.sig.owner, tx.sig.nonce)
            /\ consumed' = [consumed EXCEPT ![tx.sig.owner] = Append(@, tx.sig)]
       [] tx.op = "set_policy_active" ->
            /\ set_policy_active(Gateway, tx.policy, FALSE)
            /\ UNCHANGED consumed
  /\ UNCHANGED <<contract, changes>>

OnPolicy(tx) ==
  /\ CASE tx.op = "update_policy" ->
            /\ contract' = [contract EXCEPT ![tx.policy] = Changed(@, [caps |-> tx.caps])]
            /\ UNCHANGED changes
       [] tx.op = "change_policy" ->
            /\ contract' = [contract EXCEPT ![tx.sig.policy] = Changed(@, tx.sig.change)]
            /\ changes' = Append(changes, tx.sig)
       [] tx.op = "register_grant" ->
            /\ contract' = [contract EXCEPT ![tx.policy].grant = tx.grant]
            /\ UNCHANGED changes
  /\ UNCHANGED <<registry, consumed>>

Perform(tx) ==
  IF tx.op \in {"register_policy", "consume_owner_nonce", "set_policy_active"}
  THEN OnRegistry(tx) ELSE OnPolicy(tx)

(* genlayerWrite: the write is finalized, or refused and the route throws.  *)
Write(h) ==
  /\ handler[h].pc \in Writes \cup {"change"}
  /\ LET s == handler[h]
         tx == WriteOf(s)
     IN  \/ Accepts(tx) /\ Perform(tx) /\ Set(h, After(s))
         \/ /\ ~Accepts(tx) /\ Set(h, AfterRefusal(s))
            /\ UNCHANGED <<registry, contract, history>>
  /\ UNCHANGED <<signed, expired, late, keys, counters>>

(* Another setup of the slot may have stored its own grant meanwhile.       *)
ReadBack(h) ==
  /\ At(h, "readback")
  /\ LET s == handler[h]
     IN  Set(h, IF contract[s.policy].grant = s.sig.plan.grant
                THEN [s EXCEPT !.pc = "issue"] ELSE Idle)
  /\ Read(h)

Issue(h) ==
  /\ At(h, "issue")
  /\ LET s == handler[h]
     IN  keys' = keys \cup {[sig |-> s.sig, policy |-> s.policy,
                             deployed |-> s.deployed,
                             version |-> policies[s.policy].api_key_version]}
  /\ Set(h, Idle)
  /\ UNCHANGED <<registry, contract, signed, expired, late, history, counters>>

-----------------------------------------------------------------------------
(* Faults: an invocation is killed, or the wait for its write is given up.  *)
Lose(h) ==
  /\ Busy(h)
  /\ faults < MaxFaults /\ faults' = faults + 1
  /\ Set(h, Idle)
  /\ late' \in {late} \cup (IF handler[h].pc \in Writes \cup {"change"}
                            THEN {late \cup {WriteOf(handler[h])}} ELSE {})
  /\ UNCHANGED <<registry, contract, signed, expired, keys, history, posts, controls>>

Late(tx) ==
  /\ late' = late \ {tx}
  /\ \/ Accepts(tx) /\ Perform(tx)
     \/ ~Accepts(tx) /\ UNCHANGED <<registry, contract, history>>
  /\ UNCHANGED <<signed, expired, handler, keys, counters>>

(* api/owner/agent-key on the same registry.                                *)
Control(p) ==
  /\ controls < MaxControls /\ controls' = controls + 1
  /\ rotate_api_key(Gateway, p) \/ set_policy_active(Gateway, p, FALSE)
  /\ UNCHANGED <<contract, signed, expired, handler, late, keys, history, posts, faults>>

WalletStep ==
  \/ \E o \in Owner, plan \in Plan : SignSetup(o, plan)
  \/ \E o \in Owner, p \in PolicyId, change \in Change : SignChange(o, p, change)
  \/ \E s \in signed : Expire(s)

HandlerStep(h) ==
  \/ \E s \in signed : s.action = "setup_agent" /\ PostSetup(h, s)
  \/ \E s \in signed : s.action = "change_policy" /\ PutPolicy(h, s)
  \/ VerifySetup(h) \/ ListPolicies(h) \/ Scan(h) \/ ReadNonce(h) \/ CheckChange(h)
  \/ \E p \in PolicyId : Deploy(h, p)
  \/ Write(h) \/ ReadBack(h) \/ Issue(h)

SetupNext ==
  \/ WalletStep
  \/ \E h \in Handler : HandlerStep(h)
  \/ \E p \in PolicyId : Control(p)
  \/ \E h \in Handler : Lose(h)
  \/ \E tx \in late : Late(tx)

SetupSpec == SetupInit /\ [][SetupNext]_setupVars

-----------------------------------------------------------------------------
(* README.md:365 -- the policy is "deployed once for each owner-agent        *)
(* funding binding": however setups overlap, are repeated, refused or lost,  *)
(* no slot of an owner has two active policies of the current version.       *)
Current(p) == Registered(p) /\ policies[p].active /\ contract[p].version = "6"

OnePolicyPerSlot ==
  \A p, q \in PolicyId :
    /\ Current(p) /\ Current(q)
    /\ policies[p].owner = policies[q].owner /\ policies[p].slot = policies[q].slot
    => p = q

(* README.md:258 -- setup requires a fresh signature with an on-chain nonce: *)
(* the owner's nonces are consumed one after the other, each by one          *)
(* signature that was made for it.                                           *)
NonceSpentOnce ==
  \A o \in Owner :
    /\ Len(consumed[o]) = owner_nonces[o]
    /\ \A i \in DOMAIN consumed[o] : consumed[o][i].nonce = i - 1

(* Money moves under a grant only if the owner signed a setup for it that    *)
(* took a nonce: a setup that was refused leaves no grant behind.            *)
GrantsAuthorized ==
  \A p \in PolicyId :
    Deployed(p) /\ contract[p].grant # NoGrant =>
      \E s \in Range(consumed[contract[p].owner]) :
        s.plan.grant = contract[p].grant /\ s.plan.slot = contract[p].slot

(* docs/api.md:103 -- no key is issued when a step of setup fails: a key     *)
(* names a registered policy of its slot that can pay, and the signature     *)
(* it was issued for has taken its nonce.                                    *)
KeysUsable ==
  \A k \in keys :
    /\ Registered(k.policy)
    /\ policies[k.policy].owner = k.sig.owner
    /\ policies[k.policy].slot = k.sig.plan.slot
    /\ contract[k.policy].grant # NoGrant
    /\ k.sig \in Range(consumed[k.sig.owner])

(* A setup that has deployed and answered has retired every older policy of  *)
(* the slot.                                                                 *)
LegacyRetired ==
  \A k \in keys, p \in PolicyId :
    /\ k.deployed /\ Registered(p) /\ contract[p].version = "5"
    /\ policies[p].owner = k.sig.owner /\ policies[p].slot = k.sig.plan.slot
    => ~policies[p].active

(* A signed policy change is applied at most once, in the order of the       *)
(* nonces, although it may be posted and submitted again.                    *)
ChangesOnce ==
  \A i, j \in DOMAIN changes :
    i < j /\ changes[i].policy = changes[j].policy =>
      changes[i].nonce < changes[j].nonce
=============================================================================
