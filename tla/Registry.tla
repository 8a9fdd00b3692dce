------------------------------ MODULE Registry -------------------------------
(***************************************************************************)
(* The GenLayer contract TreasuryRegistry.py: which policy belongs to      *)
(* which owner, agent, account and chain, which key version it accepts,    *)
(* and the nonce each owner's next registration must carry.                *)
(*                                                                         *)
(* The module has the operations as actions and no next-state relation of  *)
(* its own: Setup composes them with their callers.  What identifies a     *)
(* binding besides its owner (agent, delegated account, token, chain) is   *)
(* one value, its slot.  agent_index and policy_order list the same        *)
(* policies by agent and by time; the routes of Setup do not read them.    *)
(***************************************************************************)
EXTENDS Integers, Sequences, SequencesExt

CONSTANTS
  Owner,     \* owner wallets
  Gateway,   \* the platform account that deployed the registry
  PolicyId,  \* addresses policy contracts may be deployed at
  Slot       \* (agent, delegated account, token, chain) of a binding

ASSUME GatewayAssumption == Gateway \notin Owner

VARIABLES
  policies,      \* the RegisteredPolicy of each registered policy
  owner_index,   \* the policies of each owner in the order of registration
  owner_nonces   \* the nonce the owner's next registration must carry

registry == <<policies, owner_index, owner_nonces>>

RegisteredPolicy == [owner : Owner, slot : Slot, active : BOOLEAN,
                     api_key_version : Nat]
Unregistered == [owner |-> "none"]

Registered(p) == policies[p] # Unregistered

RegistryTypeOK ==
  /\ policies \in [PolicyId -> RegisteredPolicy \cup {Unregistered}]
  /\ owner_index \in [Owner -> Seq(PolicyId)]
  /\ owner_nonces \in [Owner -> Nat]

policies_for_owner(o) == owner_index[o]

-----------------------------------------------------------------------------
(* Mutant: the nonce is not compared.                                      *)
CanRegisterAnyNonce(p, o, nonce) == ~Registered(p)

CanRegister(p, o, nonce) == ~Registered(p) /\ nonce = owner_nonces[o]

(* The gateway alone may register and consume; the callers are the gateway. *)
register_policy(p, o, slot, nonce) ==
  /\ CanRegister(p, o, nonce)
  /\ policies' = [policies EXCEPT ![p] = [owner |-> o, slot |-> slot,
                                          active |-> TRUE, api_key_version |-> 1]]
  /\ owner_index' = [owner_index EXCEPT ![o] = Append(@, p)]
  /\ owner_nonces' = [owner_nonces EXCEPT ![o] = nonce + 1]

(* Mutant: an older nonce is accepted.                                     *)
CanConsumeOld(o, nonce) == nonce <= owner_nonces[o]

CanConsume(o, nonce) == nonce = owner_nonces[o]

consume_owner_nonce(o, nonce) ==
  /\ CanConsume(o, nonce)
  /\ owner_nonces' = [owner_nonces EXCEPT ![o] = nonce + 1]
  /\ UNCHANGED <<policies, owner_index>>

MayControl(sender, p) == Registered(p) /\ sender \in {Gateway, policies[p].owner}

set_policy_active(sender, p, active) ==
  /\ MayControl(sender, p)
  /\ policies' = [policies EXCEPT ![p].active = active]
  /\ UNCHANGED <<owner_index, owner_nonces>>

rotate_api_key(sender, p) ==
  /\ MayControl(sender, p)
  /\ policies' = [policies EXCEPT ![p].api_key_version = @ + 1]
  /\ UNCHANGED <<owner_index, owner_nonces>>
=============================================================================
