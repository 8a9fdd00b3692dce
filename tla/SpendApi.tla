------------------------------ MODULE SpendApi -------------------------------
(***************************************************************************)
(* How a payment request reaches the policy: POST api/v1/spend, and the    *)
(* owner's api/owner/agent-key route that rotates and revokes the keys it  *)
(* authenticates with.                                                     *)
(*                                                                         *)
(* Several invocations run at once.  A read whose answer can change is a   *)
(* step of its own, so what it saw may be old when the next step runs, and *)
(* a write is submitted first and applied later, in the order of the one   *)
(* platform account.  The spend route answers as soon as its write is      *)
(* submitted; the key route waits for it.                                  *)
(*                                                                         *)
(* `terms' stands for everything isSameSpendRequest compares.  Keys do not *)
(* expire here, and the validation of the payload, the evidence and the    *)
(* deadline, all of which only refuse, is left out.                        *)
(***************************************************************************)
EXTENDS TreasuryPolicy, Sequences

CONSTANTS
  KeyId,            \* ids of agent API keys
  IdempotencyKey,   \* idempotency keys the agent chooses
  Agent,            \* the policy's agent
  Handler,          \* concurrent invocations of the spend route
  Call,             \* concurrent invocations of the key route
  Nobody,           \* the submitter of a write nobody waits for
  MaxWrites,        \* bound on writes under way
  MaxPosts,         \* bound on spend submissions
  MaxCalls,         \* bound on setups and calls of the key route
  MaxFaults         \* bound on faults

(* deriveRequestId: the request id is derived from the key id and the      *)
(* idempotency key (and the policy, of which there is one).                *)
deriveRequestId(key, idempotency) == <<key, idempotency>>

DerivedIds == {deriveRequestId(k, i) : k \in KeyId, i \in IdempotencyKey}

ASSUME SpendAssumption ==
  /\ RequestId = DerivedIds
  /\ Agent \in Account
  /\ Nobody \notin Call
  /\ MaxWrites \in Nat /\ MaxPosts \in Nat /\ MaxCalls \in Nat /\ MaxFaults \in Nat

VARIABLES
  api_key_version,  \* the registry's version of this policy's key
  issued,           \* version an issued key carries; 0 = never issued
  handler,          \* what each spend invocation does
  call,             \* what each key invocation does
  writes,           \* GenLayer writes submitted and not yet applied
  posts,            \* number of spend submissions so far
  calls,            \* number of setups and key calls so far
  faults

api == <<api_key_version, issued, handler, call, writes, posts, calls, faults>>
spendVars == <<vars, api>>

Idle == [pc |-> "idle"]

HandlerState ==
  [pc : {"binding", "lookup", "submit"},
   key : KeyId, request : RequestId, terms : Terms,
   version : Nat,      \* history: the registry's key version on arrival
   known : BOOLEAN]    \* history: was the request stored on arrival?

(* An invocation that has answered keeps its answer until the next one.    *)
Answered == [pc : {"accepted", "replayed", "conflict"}, request : RequestId,
             terms : Terms, known : BOOLEAN]

CallState == [pc : {"verify", "write", "wait", "readback"},
              action : {"rotate_agent_key", "revoke_agent_key"}, nonce : Nat]

Queued == [op : {"queue_request"}, request : RequestId, terms : Terms]
KeyWrite == [op : {"rotate_api_key", "set_policy_active"}, by : Call \cup {Nobody}]

SpendTypeOK ==
  /\ TypeOK
  /\ api_key_version \in Nat \ {0}
  /\ issued \in [KeyId -> 0..api_key_version]
  /\ handler \in [Handler -> {Idle} \cup HandlerState \cup Answered]
  /\ call \in [Call -> {Idle} \cup CallState]
  /\ writes \in Seq(Queued \cup KeyWrite) /\ Len(writes) <= MaxWrites
  /\ posts \in 0..MaxPosts
  /\ calls \in 0..MaxCalls
  /\ faults \in 0..MaxFaults

(* A registered policy that allows every recipient and chain, before its   *)
(* settlement authority is registered and its first key issued.            *)
SpendInit ==
  /\ Init
  /\ policy.authorized_agent = Agent
  /\ policy.destinations = Chain /\ policy.whitelist = {}
  /\ api_key_version = 1
  /\ issued = [k \in KeyId |-> 0]
  /\ handler = [h \in Handler |-> Idle]
  /\ call = [c \in Call |-> Idle]
  /\ writes = <<>> /\ posts = 0 /\ calls = 0 /\ faults = 0

Fault == faults < MaxFaults /\ faults' = faults + 1

-----------------------------------------------------------------------------
(* The spend route.                                                        *)
Enter(h, from, to) ==
  /\ handler[h].pc = from
  /\ handler' = [handler EXCEPT ![h] = IF to = "idle" THEN Idle
                                       ELSE [@ EXCEPT !.pc = to]]

Tell(h, from, answer) ==
  /\ handler[h].pc = from
  /\ handler' = [handler EXCEPT ![h] =
                    [pc |-> answer, request |-> @.request, terms |-> @.terms,
                     known |-> @.known]]

(* assertPolicyMatchesApiKey.  No route changes what it compares once a    *)
(* key has been issued.                                                    *)
PolicyAdmits == /\ policy.authorized_agent = Agent
                /\ is_reporter(Gateway)
                /\ Authority \in policy.registered

(* verifyAgentApiKey accepts every key ever issued: the key is a signed    *)
(* claim, and whether it was rotated is only known to the registry.        *)
Post(h, key, idempotency, t) ==
  /\ handler[h] \in {Idle} \cup Answered
  /\ posts < MaxPosts /\ posts' = posts + 1
  /\ issued[key] # 0
  /\ PolicyAdmits
  /\ LET r == deriveRequestId(key, idempotency)
     IN  handler' = [handler EXCEPT ![h] =
                       [pc |-> "binding", key |-> key, request |-> r, terms |-> t,
                        version |-> api_key_version, known |-> Stored(r)]]
  /\ UNCHANGED <<vars, api_key_version, issued, call, writes, calls, faults>>

(* Mutant: the version is not compared.                                    *)
AnyVersionAdmitted(key) == binding.active /\ binding.agent = Agent

(* assertRegistryBinding.                                                  *)
KeyAdmitted(key) == /\ binding.active
                    /\ binding.agent = Agent
                    /\ issued[key] = api_key_version

CheckBinding(h) ==
  /\ Enter(h, "binding", IF KeyAdmitted(handler[h].key) THEN "lookup" ELSE "idle")
  /\ UNCHANGED <<vars, api_key_version, issued, call, writes, posts, calls, faults>>

(* Mutant: the destination chain is not part of a request's identity.      *)
SameExceptDestination(existing, t) ==
  [existing EXCEPT !.destination = t.destination] = t

isSameSpendRequest(existing, t) == existing = t

(* listPolicyRequests and readPolicyRequest: what is stored never changes, *)
(* so the two reads see one request.                                       *)
Lookup(h) ==
  /\ handler[h].pc = "lookup"
  /\ LET r == handler[h].request
     IN  \/ /\ ~Stored(r)
            /\ Enter(h, "lookup", "submit")
         \/ /\ Stored(r)
            /\ Tell(h, "lookup",
                    IF isSameSpendRequest(requests[r].terms, handler[h].terms)
                    THEN "replayed" ELSE "conflict")
  /\ UNCHANGED <<vars, api_key_version, issued, call, writes, posts, calls, faults>>

(* genlayerSubmitWrite; the invocation may die before it answers.          *)
Submit(h) ==
  /\ handler[h].pc = "submit"
  /\ Len(writes) < MaxWrites
  /\ writes' = Append(writes, [op |-> "queue_request", request |-> handler[h].request,
                               terms |-> handler[h].terms])
  /\ \/ Tell(h, "submit", "accepted") /\ UNCHANGED faults
     \/ Enter(h, "submit", "idle") /\ Fault
  /\ UNCHANGED <<vars, api_key_version, issued, call, posts, calls>>

-----------------------------------------------------------------------------
(* The last step of setup, once the authority is registered.  Setting up   *)
(* the same agent again issues another key of the same version.            *)
SetupKey(key) ==
  /\ issued[key] = 0
  /\ calls < MaxCalls /\ calls' = calls + 1
  /\ Authority \in policy.registered
  /\ issued' = [issued EXCEPT ![key] = api_key_version]
  /\ UNCHANGED <<vars, api_key_version, handler, call, writes, posts, faults>>

(* The key route.  The owner signs the action for the key version the page *)
(* showed, which is read again and compared before anything is written.    *)
Proceed(c, from, to) ==
  /\ call[c].pc = from
  /\ call' = [call EXCEPT ![c] = IF to = "idle" THEN Idle ELSE [@ EXCEPT !.pc = to]]

CallKeyRoute(c, action) ==
  /\ call[c] = Idle
  /\ calls < MaxCalls
  /\ \E k \in KeyId : issued[k] # 0
  /\ call' = [call EXCEPT ![c] = [pc |-> "verify", action |-> action,
                                  nonce |-> api_key_version]]
  /\ calls' = calls + 1
  /\ UNCHANGED <<vars, api_key_version, issued, handler, writes, posts, faults>>

Verify(c) ==
  /\ Proceed(c, "verify", IF call[c].nonce = api_key_version THEN "write" ELSE "idle")
  /\ UNCHANGED <<vars, api_key_version, issued, handler, writes, posts, calls, faults>>

KeyOp(action) ==
  IF action = "rotate_agent_key" THEN "rotate_api_key" ELSE "set_policy_active"

SubmitKeyWrite(c) ==
  /\ Len(writes) < MaxWrites
  /\ Proceed(c, "write", "wait")
  /\ writes' = Append(writes, [op |-> KeyOp(call[c].action), by |-> c])
  /\ UNCHANGED <<vars, api_key_version, issued, handler, posts, calls, faults>>

(* Mutants: the key carries the version the action was signed for; the     *)
(* version read back is incremented once more.                             *)
IssueStaleKey(c, key) ==
  /\ issued[key] = 0
  /\ Proceed(c, "readback", "idle")
  /\ issued' = [issued EXCEPT ![key] = call[c].nonce]
  /\ UNCHANGED <<vars, api_key_version, handler, writes, posts, calls, faults>>

IssueNextKey(c, key) ==
  /\ issued[key] = 0
  /\ Proceed(c, "readback", "idle")
  /\ issued' = [issued EXCEPT ![key] = api_key_version + 1]
  /\ UNCHANGED <<vars, api_key_version, handler, writes, posts, calls, faults>>

(* The version is read back after the rotation and put into a new key.     *)
IssueKey(c, key) ==
  /\ issued[key] = 0
  /\ Proceed(c, "readback", "idle")
  /\ issued' = [issued EXCEPT ![key] = api_key_version]
  /\ UNCHANGED <<vars, api_key_version, handler, writes, posts, calls, faults>>

-----------------------------------------------------------------------------
(* GenLayer applies the oldest write.  Nobody waits for a queued request,  *)
(* so nobody is told when the contract refuses it.                         *)
ApplyQueued ==
  /\ writes # <<>> /\ Head(writes).op = "queue_request"
  /\ writes' = Tail(writes)
  /\ LET tx == Head(writes)
     IN  \/ \E approved \in BOOLEAN :
              queue_request(Gateway, Agent, tx.request, tx.terms, approved)
         \/ /\ ~CanQueue(Gateway, Agent, tx.request, tx.terms)
            /\ UNCHANGED vars
  /\ UNCHANGED <<api_key_version, issued, handler, call, posts, calls, faults>>

Return(c, to) ==
  call' = IF c = Nobody THEN call
          ELSE [call EXCEPT ![c] = IF to = "idle" THEN Idle ELSE [@ EXCEPT !.pc = to]]

rotate_api_key ==
  /\ writes # <<>> /\ Head(writes).op = "rotate_api_key"
  /\ writes' = Tail(writes)
  /\ api_key_version' = api_key_version + 1
  /\ Return(Head(writes).by, "readback")
  /\ UNCHANGED <<vars, issued, handler, posts, calls, faults>>

Revoke ==
  /\ writes # <<>> /\ Head(writes).op = "set_policy_active"
  /\ writes' = Tail(writes)
  /\ set_policy_active(Gateway, FALSE)
  /\ Return(Head(writes).by, "idle")
  /\ UNCHANGED <<api_key_version, issued, handler, posts, calls, faults>>

(* Setup registers the authority; the owner may restore a revoked policy.  *)
OwnerStep ==
  /\ \/ register_authority(Gateway)
     \/ set_policy_active(Owner, TRUE)
  /\ UNCHANGED api

-----------------------------------------------------------------------------
(* Faults: an invocation dies, a wait times out, a write is dropped.       *)
LoseHandler(h) ==
  /\ handler[h] \notin {Idle} \cup Answered
  /\ handler' = [handler EXCEPT ![h] = Idle]
  /\ Fault
  /\ UNCHANGED <<vars, api_key_version, issued, call, writes, posts, calls>>

LoseCall(c) ==
  /\ call[c] # Idle
  /\ call' = [call EXCEPT ![c] = Idle]
  /\ writes' = [i \in DOMAIN writes |->
                  IF writes[i] = [op |-> KeyOp(call[c].action), by |-> c]
                  THEN [writes[i] EXCEPT !.by = Nobody] ELSE writes[i]]
  /\ Fault
  /\ UNCHANGED <<vars, api_key_version, issued, handler, posts, calls>>

LoseWrite ==
  /\ writes # <<>>
  /\ writes' = Tail(writes)
  /\ IF Head(writes).op = "queue_request" THEN UNCHANGED call
     ELSE Return(Head(writes).by, "idle")
  /\ Fault
  /\ UNCHANGED <<vars, api_key_version, issued, handler, posts, calls>>

HandlerStep(h) ==
  \/ \E key \in KeyId, idempotency \in IdempotencyKey, t \in Terms :
       Post(h, key, idempotency, t)
  \/ CheckBinding(h) \/ Lookup(h) \/ Submit(h)

CallStep(c) ==
  \/ \E action \in {"rotate_agent_key", "revoke_agent_key"} : CallKeyRoute(c, action)
  \/ Verify(c) \/ SubmitKeyWrite(c)
  \/ \E key \in KeyId : IssueKey(c, key)

FaultStep ==
  \/ \E h \in Handler : LoseHandler(h)
  \/ \E c \in Call : LoseCall(c)
  \/ LoseWrite

SpendNext ==
  \/ \E h \in Handler : HandlerStep(h)
  \/ \E key \in KeyId : SetupKey(key)
  \/ \E c \in Call : CallStep(c)
  \/ ApplyQueued \/ rotate_api_key \/ Revoke
  \/ OwnerStep
  \/ FaultStep

SpendSpec == SpendInit /\ [][SpendNext]_spendVars

-----------------------------------------------------------------------------
(* README.md:687 -- once GenLayer holds a request, every later submission   *)
(* with its idempotency key is answered from it: the same payment is        *)
(* replayed, another is a conflict, and nothing is accepted a second time,  *)
(* whatever other submissions, rotations and lost writes run meanwhile.     *)
Idempotent ==
  \A h \in Handler :
    LET a == handler[h]
    IN  /\ a.pc = "accepted" => ~a.known
        /\ a.pc \in {"replayed", "conflict"} =>
             /\ Stored(a.request)
             /\ a.pc = "replayed" <=> a.terms = requests[a.request].terms

(* docs/api.md:125 -- a rotation makes previous keys fail: a submission     *)
(* that arrived after the registry rotated the key gets past the binding    *)
(* check only with a key at least that new, although the check runs later.  *)
FencedByRotation ==
  \A h \in Handler : handler[h].pc \in {"lookup", "submit"} =>
    issued[handler[h].key] >= handler[h].version

(* However rotations overlap, they leave the owner with a key that works:   *)
(* when none is under way and none has been lost, some issued key carries   *)
(* the registry's version.                                                  *)
LiveKeyAfterRotation ==
  /\ faults = 0
  /\ \E k \in KeyId : issued[k] # 0
  /\ \A c \in Call : call[c] = Idle
  => \E k \in KeyId : issued[k] = api_key_version
=============================================================================
