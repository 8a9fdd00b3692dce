---------------------------- MODULE SpendApiProofs ---------------------------
(***************************************************************************)
(* Theorems about SpendApi, for every choice of its constants.             *)
(***************************************************************************)
EXTENDS SpendApi, TreasuryPolicyProofs

Active == {"binding", "lookup", "submit"}

(* The types of what a submission remembers, and of what it is compared    *)
(* with.                                                                   *)
Typed ==
  /\ api_key_version \in Nat
  /\ issued \in [KeyId -> Nat]
  /\ handler \in [Handler -> {Idle} \cup HandlerState \cup Answered]

(* A rotation fences older keys because an issued key keeps its version    *)
(* and a submission never remembers a version ahead of the registry.       *)
Fence ==
  \A h \in Handler : handler[h].pc \in Active =>
    /\ issued[handler[h].key] # 0
    /\ handler[h].version <= api_key_version
    /\ handler[h].pc # "binding" => issued[handler[h].key] >= handler[h].version

FenceInv == Typed /\ Fence

-----------------------------------------------------------------------------
(* Only a submission under way has an Active program counter.              *)
LEMMA ActiveIsHandlerState ==
  ASSUME Typed, NEW h \in Handler, handler[h].pc \in Active
  PROVE  handler[h] \in HandlerState
BY DEF Typed, Active, Idle, Answered

(* The steps that are not a submission's, and all they do to what          *)
(* submissions read: the version may go up by one, or a new key is issued. *)
Elsewhere ==
  \/ \E key \in KeyId : SetupKey(key)
  \/ \E c \in Call : CallStep(c) \/ LoseCall(c)
  \/ ApplyQueued \/ rotate_api_key \/ Revoke \/ OwnerStep \/ LoseWrite

(* Such a step moves no handler and at most one version or one key.         *)
LEMMA ElsewhereQuiet ==
  ASSUME Typed, Elsewhere
  PROVE  /\ handler' = handler
         /\ api_key_version' \in {api_key_version, api_key_version + 1}
         /\ \/ issued' = issued
            \/ \E key \in KeyId :
                 /\ issued[key] = 0
                 /\ issued' = [issued EXCEPT ![key] = api_key_version]
<1>1. ASSUME NEW c \in Call, CallStep(c)
      PROVE  /\ handler' = handler /\ api_key_version' = api_key_version
             /\ \/ issued' = issued
                \/ \E key \in KeyId :
                     /\ issued[key] = 0
                     /\ issued' = [issued EXCEPT ![key] = api_key_version]
  BY <1>1 DEF CallStep, CallKeyRoute, Verify, SubmitKeyWrite, IssueKey
<1>2. CASE \E key \in KeyId : SetupKey(key)
  BY <1>2 DEF SetupKey
<1>3. CASE \E c \in Call : LoseCall(c)
  BY <1>3 DEF LoseCall
<1>4. CASE ApplyQueued
  BY <1>4 DEF ApplyQueued
<1>5. CASE rotate_api_key
  BY <1>5 DEF rotate_api_key
<1>6. CASE Revoke \/ OwnerStep \/ LoseWrite
  BY <1>6 DEF Revoke, OwnerStep, LoseWrite, api
<1>7. QED
  BY <1>1, <1>2, <1>3, <1>4, <1>5, <1>6 DEF Elsewhere

(* Every step keeps the types.                                             *)
LEMMA TypedStep == Typed /\ [SpendNext]_spendVars => Typed'
<1> SUFFICES ASSUME Typed, [SpendNext]_spendVars PROVE Typed'
  OBVIOUS
<1>1. ASSUME NEW h \in Handler, HandlerStep(h) PROVE Typed'
  <2>1. UNCHANGED <<api_key_version, issued>>
    BY <1>1 DEF HandlerStep, Post, CheckBinding, Lookup, Submit
  <2>2. PICK s \in {Idle} \cup HandlerState \cup Answered :
          handler' = [handler EXCEPT ![h] = s]
    <3>1. ASSUME NEW key \in KeyId, NEW idempotency \in IdempotencyKey,
                 NEW t \in Terms, Post(h, key, idempotency, t)
          PROVE  \E s \in HandlerState : handler' = [handler EXCEPT ![h] = s]
      <4> DEFINE r == deriveRequestId(key, idempotency)
                 s == [pc |-> "binding", key |-> key, request |-> r, terms |-> t,
                       version |-> api_key_version, known |-> Stored(r)]
      <4>1. r \in RequestId
        BY SpendAssumption DEF DerivedIds
      <4>2. Stored(r) \in BOOLEAN
        BY DEF Stored
      <4>3. s \in HandlerState
        BY <4>1, <4>2 DEF Typed, HandlerState
      <4>4. handler' = [handler EXCEPT ![h] = s]
        BY <3>1 DEF Post
      <4> QED BY <4>3, <4>4
    <3>2. ASSUME NEW from \in Active, NEW to \in Active \cup {"idle"},
                 Enter(h, from, to)
          PROVE  \E s \in {Idle} \cup HandlerState :
                   handler' = [handler EXCEPT ![h] = s]
      <4>1. handler[h] \in HandlerState
        BY <3>2, ActiveIsHandlerState DEF Enter
      <4>2. [handler[h] EXCEPT !.pc = to] \in HandlerState \/ to = "idle"
        BY <4>1 DEF HandlerState, Active
      <4>3. QED
        BY <3>2, <4>2 DEF Enter, Typed
    <3>3. ASSUME NEW from \in Active, NEW a \in {"accepted", "replayed", "conflict"},
                 Tell(h, from, a)
          PROVE  \E s \in Answered : handler' = [handler EXCEPT ![h] = s]
      <4>1. handler[h] \in HandlerState
        BY <3>3, ActiveIsHandlerState DEF Tell
      <4>2. [pc |-> a, request |-> handler[h].request, terms |-> handler[h].terms,
             known |-> handler[h].known] \in Answered
        BY <4>1 DEF HandlerState, Answered
      <4>3. QED
        BY <3>3, <4>2 DEF Tell, Typed
    <3>4. CASE CheckBinding(h)
      BY <3>2, <3>4 DEF CheckBinding, Active
    <3>5. CASE Lookup(h)
      BY <3>2, <3>3, <3>5 DEF Lookup, Active
    <3>6. CASE Submit(h)
      BY <3>2, <3>3, <3>6 DEF Submit, Active
    <3>7. QED
      BY <1>1, <3>1, <3>4, <3>5, <3>6 DEF HandlerStep
  <2>3. QED
    BY <2>1, <2>2 DEF Typed
<1>2. ASSUME NEW h \in Handler, LoseHandler(h) PROVE Typed'
  BY <1>2 DEF LoseHandler, Typed
<1>3. CASE Elsewhere \/ UNCHANGED spendVars
  BY <1>3, ElsewhereQuiet DEF spendVars, api, Typed
<1>4. QED
  BY <1>1, <1>2, <1>3 DEF SpendNext, FaultStep, Elsewhere

-----------------------------------------------------------------------------
(* Nothing is submitted and no key is issued at the start.                 *)
LEMMA FenceInit == SpendInit => FenceInv
<1> SUFFICES ASSUME SpendInit PROVE FenceInv
  OBVIOUS
<1>1. Typed
  BY DEF SpendInit, Typed
<1>2. Fence
  BY DEF SpendInit, Fence, Idle, Active
<1>3. QED
  BY <1>1, <1>2 DEF FenceInv

(* Every step keeps the fence.                                             *)
LEMMA FenceStep == FenceInv /\ [SpendNext]_spendVars => FenceInv'
<1> SUFFICES ASSUME FenceInv, [SpendNext]_spendVars PROVE FenceInv'
  OBVIOUS
<1>1. Typed /\ Typed' /\ Fence
  BY TypedStep DEF FenceInv
<1> DEFINE Fenced(h) ==
      handler[h].pc \in Active =>
        /\ issued[handler[h].key] # 0
        /\ handler[h].version <= api_key_version
        /\ handler[h].pc # "binding" => issued[handler[h].key] >= handler[h].version
<1>2. ASSUME NEW g \in Handler, handler'[g] = handler[g],
             \/ UNCHANGED <<api_key_version, issued>>
             \/ Elsewhere
      PROVE  Fenced(g)'
  <2>1. CASE handler[g].pc \notin Active
    BY <1>2, <2>1
  <2>2. CASE handler[g].pc \in Active
    <3>1. handler[g] \in HandlerState
      BY <1>1, <2>2, ActiveIsHandlerState
    <3>2. handler[g].key \in KeyId /\ handler[g].version \in Nat
      BY <3>1 DEF HandlerState
    <3>3. issued'[handler[g].key] = issued[handler[g].key] /\ api_key_version' >= api_key_version
      BY <1>1, <1>2, <2>2, <3>2, ElsewhereQuiet DEF Typed, Fence
    <3>4. QED
      BY <1>1, <1>2, <2>2, <3>2, <3>3 DEF Typed, Fence
  <2>3. QED
    BY <2>1, <2>2
<1>3. ASSUME NEW h \in Handler, HandlerStep(h) PROVE Fence'
  <2>1. /\ UNCHANGED <<api_key_version, issued>>
        /\ \A g \in Handler \ {h} : handler'[g] = handler[g]
    BY <1>1, <1>3
    DEF HandlerStep, Post, CheckBinding, Lookup, Submit, Enter, Tell, Typed
  <2>2. Fenced(h)'
    <3>1. ASSUME NEW key \in KeyId, NEW idempotency \in IdempotencyKey,
                 NEW t \in Terms, Post(h, key, idempotency, t)
          PROVE  Fenced(h)'
      <4>1. /\ handler'[h].pc = "binding" /\ handler'[h].key = key
            /\ handler'[h].version = api_key_version
            /\ issued[key] # 0
        BY <1>1, <3>1 DEF Post, Typed
      <4>2. QED
        BY <1>1, <2>1, <4>1 DEF Typed
    <3>2. CASE CheckBinding(h)
      <4>1. handler[h].pc = "binding" /\ handler[h] \in HandlerState
        BY <1>1, <3>2, ActiveIsHandlerState DEF CheckBinding, Enter, Active
      <4>2. CASE KeyAdmitted(handler[h].key)
        <5>1. handler'[h] = [handler[h] EXCEPT !.pc = "lookup"]
          BY <1>1, <3>2, <4>2 DEF CheckBinding, Enter, Typed
        <5>2. /\ handler'[h].pc = "lookup" /\ handler'[h].key = handler[h].key
              /\ handler'[h].version = handler[h].version
          BY <4>1, <5>1 DEF HandlerState
        <5>3. issued[handler[h].key] = api_key_version
          BY <4>2 DEF KeyAdmitted
        <5>4. handler[h].version <= api_key_version /\ issued[handler[h].key] # 0
          BY <1>1, <4>1 DEF Fence, Active
        <5>5. QED
          BY <2>1, <5>2, <5>3, <5>4
      <4>3. CASE ~KeyAdmitted(handler[h].key)
        BY <1>1, <3>2, <4>3 DEF CheckBinding, Enter, Typed, Idle, Active
      <4>4. QED
        BY <4>2, <4>3
    <3>3. ASSUME NEW from \in {"lookup", "submit"}, NEW to \in {"submit", "idle"},
                 Enter(h, from, to)
          PROVE  Fenced(h)'
      <4>1. handler[h].pc = from /\ handler[h] \in HandlerState
        BY <1>1, <3>3, ActiveIsHandlerState DEF Enter, Active
      <4>2. \/ handler'[h].pc = "idle"
            \/ /\ handler'[h].pc = to /\ handler'[h].key = handler[h].key
               /\ handler'[h].version = handler[h].version
        BY <1>1, <3>3, <4>1 DEF Enter, Typed, Idle, HandlerState
      <4>3. /\ issued[handler[h].key] # 0
            /\ handler[h].version <= api_key_version
            /\ issued[handler[h].key] >= handler[h].version
        BY <1>1, <4>1 DEF Fence, Active
      <4>4. QED
        BY <2>1, <4>2, <4>3 DEF Active
    <3>4. ASSUME NEW from \in Active, NEW a \in {"accepted", "replayed", "conflict"},
                 Tell(h, from, a)
          PROVE  Fenced(h)'
      <4>1. handler'[h].pc = a
        BY <1>1, <3>4 DEF Tell, Typed
      <4>2. QED
        BY <4>1 DEF Active
    <3>5. CASE Lookup(h) \/ Submit(h)
      BY <3>3, <3>4, <3>5 DEF Lookup, Submit, Active
    <3>6. QED
      BY <1>3, <3>1, <3>2, <3>5 DEF HandlerStep
  <2>3. QED
    BY <1>2, <2>1, <2>2 DEF Fence
<1>4. ASSUME NEW h \in Handler, LoseHandler(h) PROVE Fence'
  <2>1. /\ UNCHANGED <<api_key_version, issued>>
        /\ \A g \in Handler \ {h} : handler'[g] = handler[g]
        /\ handler'[h].pc = "idle"
    BY <1>1, <1>4 DEF LoseHandler, Typed, Idle
  <2>2. QED
    BY <1>2, <2>1 DEF Fence, Active
<1>5. CASE Elsewhere
  BY <1>1, <1>2, <1>5, ElsewhereQuiet DEF Fence, FenceInv
<1>6. CASE UNCHANGED spendVars
  BY <1>1, <1>2, <1>6 DEF Fence, FenceInv, spendVars, api
<1>7. QED
  BY <1>1, <1>3, <1>4, <1>5, <1>6 DEF SpendNext, FaultStep, Elsewhere, FenceInv

(* The inductive invariant of the fence holds throughout.                  *)
LEMMA FenceInvariance == SpendSpec => []FenceInv
<1>1. QED
  BY FenceInit, FenceStep, PTL DEF SpendSpec

(* A submission that arrived after a rotation gets past the binding check  *)
(* only with a key at least as new as that rotation, whatever runs between *)
(* its arrival and the check.                                              *)
THEOREM RotationFences == SpendSpec => []FencedByRotation
<1>1. FenceInv => FencedByRotation
  BY DEF FenceInv, Fence, FencedByRotation, Active
<1>2. QED
  BY <1>1, FenceInvariance, PTL

-----------------------------------------------------------------------------
(* The store is a function of the request ids.  This is all idempotency     *)
(* needs of the contract's state.                                           *)
Keyed == requests = [r \in RequestId |-> requests[r]]

(* Idempotency holds because what was stored on arrival is still stored     *)
(* when the submission looks it up.                                         *)
Remembered ==
  \A h \in Handler :
    /\ handler[h].pc \in Active /\ handler[h].known => Stored(handler[h].request)
    /\ handler[h].pc = "submit" => ~handler[h].known

MemoryInv == Typed /\ Keyed /\ Remembered /\ Idempotent

(* No step forgets a stored request or changes its terms.                   *)
LEMMA StoreGrows ==
  ASSUME Keyed, [SpendNext]_spendVars
  PROVE  /\ Keyed'
         /\ \A r \in RequestId :
              Stored(r) => Stored(r)' /\ requests'[r].terms = requests[r].terms
<1>1. CASE requests' = requests
  BY <1>1 DEF Keyed, Stored
<1>2. ASSUME NEW r, NEW t, NEW approved,
             queue_request(Gateway, Agent, r, t, approved)
      PROVE  /\ Keyed'
             /\ \A s \in RequestId :
                  Stored(s) => Stored(s)' /\ requests'[s].terms = requests[s].terms
  <2>1. ~Stored(r)
    BY <1>2 DEF queue_request, CanQueue
  <2>2. \E q : requests' = [requests EXCEPT ![r] = q]
    BY <1>2 DEF queue_request
  <2>3. QED
    BY <2>1, <2>2 DEF Keyed, Stored
<1>3. ASSUME NEW h \in Handler, HandlerStep(h) PROVE requests' = requests
  BY <1>3 DEF HandlerStep, Post, CheckBinding, Lookup, Submit, vars
<1>4. ASSUME NEW c \in Call, CallStep(c) PROVE requests' = requests
  BY <1>4 DEF CallStep, CallKeyRoute, Verify, SubmitKeyWrite, IssueKey, vars
<1>5. CASE \E key \in KeyId : SetupKey(key)
  BY <1>1, <1>5 DEF SetupKey, vars
<1>6. CASE FaultStep
  BY <1>1, <1>6 DEF FaultStep, LoseHandler, LoseCall, LoseWrite, vars
<1>7. CASE ApplyQueued
  BY <1>1, <1>2, <1>7 DEF ApplyQueued, vars
<1>8. CASE rotate_api_key \/ Revoke \/ OwnerStep
  BY <1>1, <1>8
  DEF rotate_api_key, Revoke, OwnerStep, set_policy_active, register_authority,
      register_vault, register_delegation, vars
<1>9. CASE UNCHANGED spendVars
  BY <1>1, <1>9 DEF spendVars, vars
<1>10. QED
  BY <1>1, <1>3, <1>4, <1>5, <1>6, <1>7, <1>8, <1>9 DEF SpendNext

(* The store starts empty and nothing is submitted.                         *)
LEMMA MemoryInit == SpendInit => MemoryInv
<1> SUFFICES ASSUME SpendInit PROVE MemoryInv
  OBVIOUS
<1>1. Typed
  BY DEF SpendInit, Typed
<1>2. Keyed
  BY DEF SpendInit, Init, Keyed
<1>3. \A h \in Handler : handler[h].pc = "idle"
  BY DEF SpendInit, Idle
<1>4. QED
  BY <1>1, <1>2, <1>3 DEF MemoryInv, Remembered, Idempotent, Active

(* What one submission remembers and answers, as the invariant has it.      *)
Consistent(h) ==
  /\ handler[h].pc \in Active /\ handler[h].known => Stored(handler[h].request)
  /\ handler[h].pc = "submit" => ~handler[h].known
  /\ handler[h].pc = "accepted" => ~handler[h].known
  /\ handler[h].pc \in {"replayed", "conflict"} =>
       /\ Stored(handler[h].request)
       /\ handler[h].pc = "replayed" <=>
            handler[h].terms = requests[handler[h].request].terms

(* A submission that does not move stays consistent: the store only grows.  *)
LEMMA ConsistentKept ==
  ASSUME MemoryInv, [SpendNext]_spendVars,
         NEW h \in Handler, handler'[h] = handler[h]
  PROVE  Consistent(h)'
<1>1. Consistent(h)
  BY DEF MemoryInv, Remembered, Idempotent, Consistent
<1>2. CASE handler[h].pc \in Active \cup {"replayed", "conflict"}
  <2>1. handler[h].request \in RequestId
    BY <1>2 DEF MemoryInv, Typed, Idle, HandlerState, Answered, Active
  <2> DEFINE r == handler[h].request
  <2>2. requests[r].verdict # "none" =>
          requests'[r].verdict # "none" /\ requests'[r].terms = requests[r].terms
    BY <2>1, StoreGrows DEF MemoryInv, Stored
  <2>3. CASE handler[h].pc \in Active
    BY <1>1, <2>2, <2>3 DEF Consistent, Active, Stored
  <2>4. CASE handler[h].pc \in {"replayed", "conflict"}
    BY <1>1, <2>2, <2>4 DEF Consistent, Active, Stored
  <2>5. QED
    BY <1>2, <2>3, <2>4
<1>3. CASE handler[h].pc \notin Active \cup {"replayed", "conflict"}
  BY <1>1, <1>3 DEF Consistent, Active
<1>4. QED
  BY <1>2, <1>3

(* A step of a submission leaves it consistent.                             *)
LEMMA ConsistentStep ==
  ASSUME MemoryInv, NEW h \in Handler, HandlerStep(h)
  PROVE  Consistent(h)' /\ \A g \in Handler \ {h} : handler'[g] = handler[g]
<1>1. Typed /\ Consistent(h)
  BY DEF MemoryInv, Remembered, Idempotent, Consistent
<1>2. /\ requests' = requests
      /\ \A g \in Handler \ {h} : handler'[g] = handler[g]
  BY <1>1 DEF HandlerStep, Post, CheckBinding, Lookup, Submit, Enter, Tell, Typed, vars
<1>3. ASSUME NEW key \in KeyId, NEW idempotency \in IdempotencyKey,
             NEW t \in Terms, Post(h, key, idempotency, t)
      PROVE  Consistent(h)'
  <2>1. /\ handler'[h].pc = "binding"
        /\ handler'[h].known = Stored(handler'[h].request)
    BY <1>1, <1>3 DEF Post, Typed
  <2>2. QED
    BY <1>2, <2>1 DEF Consistent, Active, Stored
<1>4. CASE CheckBinding(h)
  <2>1. handler[h].pc = "binding" /\ handler[h] \in HandlerState
    BY <1>1, <1>4, ActiveIsHandlerState DEF CheckBinding, Enter, Active
  <2>2. \/ handler'[h].pc = "idle"
        \/ /\ handler'[h].pc = "lookup" /\ handler'[h].known = handler[h].known
           /\ handler'[h].request = handler[h].request
    BY <1>1, <1>4, <2>1 DEF CheckBinding, Enter, Typed, Idle, HandlerState
  <2>3. QED
    BY <1>1, <1>2, <2>1, <2>2 DEF Consistent, Active, Stored
<1>5. CASE Lookup(h)
  <2>1. handler[h].pc = "lookup" /\ handler[h] \in HandlerState
    BY <1>1, <1>5, ActiveIsHandlerState DEF Lookup, Active
  <2>2. CASE ~Stored(handler[h].request)
    <3>1. handler' = [handler EXCEPT ![h] = [@ EXCEPT !.pc = "submit"]]
      BY <1>5, <2>2 DEF Lookup, Enter
    <3>2. handler'[h].pc = "submit" /\ handler'[h].known = handler[h].known
      BY <1>1, <2>1, <3>1 DEF Typed, HandlerState
    <3>3. handler[h].known = FALSE
      BY <1>1, <2>1, <2>2 DEF Consistent, Active, HandlerState
    <3>4. QED
      BY <1>2, <3>2, <3>3 DEF Consistent, Active
  <2>3. CASE Stored(handler[h].request)
    <3>1. Tell(h, "lookup",
               IF isSameSpendRequest(requests[handler[h].request].terms, handler[h].terms)
               THEN "replayed" ELSE "conflict")
      BY <1>5, <2>3 DEF Lookup
    <3>2. /\ handler'[h].pc = IF requests[handler[h].request].terms = handler[h].terms
                              THEN "replayed" ELSE "conflict"
          /\ handler'[h].request = handler[h].request
          /\ handler'[h].terms = handler[h].terms
      BY <1>1, <3>1 DEF Tell, Typed, isSameSpendRequest
    <3>3. QED
      BY <1>2, <2>3, <3>2 DEF Consistent, Active, Stored
  <2>4. QED
    BY <2>2, <2>3
<1>6. CASE Submit(h)
  <2>1. handler[h].pc = "submit" /\ ~handler[h].known
    BY <1>1, <1>6 DEF Submit, Consistent
  <2>2. \/ handler'[h].pc = "idle"
        \/ handler'[h].pc = "accepted" /\ handler'[h].known = handler[h].known
    BY <1>1, <1>6 DEF Submit, Enter, Tell, Typed, Idle
  <2>3. QED
    BY <1>2, <2>1, <2>2 DEF Consistent, Active
<1>7. QED
  BY <1>2, <1>3, <1>4, <1>5, <1>6 DEF HandlerStep

(* Every step keeps the invariant.                                          *)
LEMMA MemoryStep == MemoryInv /\ [SpendNext]_spendVars => MemoryInv'
<1> SUFFICES ASSUME MemoryInv, [SpendNext]_spendVars PROVE MemoryInv'
  OBVIOUS
<1>1. Typed /\ Typed' /\ Keyed'
  BY TypedStep, StoreGrows DEF MemoryInv
<1>2. \A h \in Handler : Consistent(h)'
  <2>1. CASE \E h \in Handler : HandlerStep(h)
    BY <2>1, ConsistentStep, ConsistentKept
  <2>2. ASSUME NEW h \in Handler, LoseHandler(h) PROVE \A g \in Handler : Consistent(g)'
    <3>1. /\ handler'[h].pc = "idle"
          /\ \A g \in Handler \ {h} : handler'[g] = handler[g]
      BY <1>1, <2>2 DEF LoseHandler, Typed, Idle
    <3>2. QED
      BY <3>1, ConsistentKept DEF Consistent, Active
  <2>3. CASE Elsewhere \/ UNCHANGED spendVars
    BY <1>1, <2>3, ElsewhereQuiet, ConsistentKept DEF spendVars, api
  <2>4. QED
    BY <2>1, <2>2, <2>3 DEF SpendNext, FaultStep, Elsewhere
<1>3. QED
  BY <1>1, <1>2 DEF MemoryInv, Remembered, Idempotent, Consistent

(* The inductive invariant of idempotency holds throughout.                 *)
LEMMA MemoryInvariance == SpendSpec => []MemoryInv
<1>1. QED
  BY MemoryInit, MemoryStep, PTL DEF SpendSpec

(* A submission whose idempotency key the policy already holds is answered  *)
(* from it, and none that arrived after it is accepted again.               *)
THEOREM SubmissionsIdempotent == SpendSpec => []Idempotent
<1>1. MemoryInv => Idempotent
  BY DEF MemoryInv
<1>2. QED
  BY <1>1, MemoryInvariance, PTL

-----------------------------------------------------------------------------
(* The queue holds well-formed writes, also after faults.                   *)
QueueTyped == writes \in Seq(Queued \cup KeyWrite)

(* Every step keeps the queues typed.                                       *)
LEMMA QueueStep == Typed /\ QueueTyped /\ [SpendNext]_spendVars => QueueTyped'
<1> SUFFICES ASSUME Typed, QueueTyped, [SpendNext]_spendVars PROVE QueueTyped'
  OBVIOUS
<1>1. ASSUME NEW h \in Handler, Submit(h) PROVE QueueTyped'
  <2>1. handler[h] \in HandlerState
    BY <1>1, ActiveIsHandlerState DEF Submit, Active
  <2>2. [op |-> "queue_request", request |-> handler[h].request,
         terms |-> handler[h].terms] \in Queued
    BY <2>1 DEF HandlerState, Queued
  <2>3. QED
    BY <1>1, <2>2 DEF Submit, QueueTyped
<1>2. ASSUME NEW h \in Handler, HandlerStep(h) PROVE QueueTyped'
  BY <1>1, <1>2 DEF HandlerStep, Post, CheckBinding, Lookup, QueueTyped
<1>3. ASSUME NEW c \in Call, SubmitKeyWrite(c) PROVE QueueTyped'
  <2>1. [op |-> KeyOp(call[c].action), by |-> c] \in KeyWrite
    BY DEF KeyOp, KeyWrite
  <2>2. QED
    BY <1>3, <2>1 DEF SubmitKeyWrite, QueueTyped
<1>4. ASSUME NEW c \in Call, CallStep(c) PROVE QueueTyped'
  BY <1>3, <1>4 DEF CallStep, CallKeyRoute, Verify, IssueKey, QueueTyped
<1>5. ASSUME NEW c \in Call, LoseCall(c) PROVE QueueTyped'
  <2> DEFINE mine == [op |-> KeyOp(call[c].action), by |-> c]
             w(i) == IF writes[i] = mine THEN [writes[i] EXCEPT !.by = Nobody]
                                         ELSE writes[i]
  <2>1. mine \in KeyWrite /\ [mine EXCEPT !.by = Nobody] \in KeyWrite
    BY DEF KeyOp, KeyWrite
  <2>2. Len(writes) \in Nat /\ DOMAIN writes = 1..Len(writes)
    BY DEF QueueTyped
  <2>3. \A i \in 1..Len(writes) : w(i) \in Queued \cup KeyWrite
    BY <2>1, <2>2 DEF QueueTyped
  <2>4. writes' = [i \in 1..Len(writes) |-> w(i)]
    BY <1>5, <2>2 DEF LoseCall
  <2> HIDE DEF w
  <2>5. QED
    BY <2>2, <2>3, <2>4 DEF QueueTyped
<1>6. CASE ApplyQueued \/ rotate_api_key \/ Revoke \/ LoseWrite
  <2>1. writes # <<>> /\ writes' = Tail(writes)
    BY <1>6 DEF ApplyQueued, rotate_api_key, Revoke, LoseWrite
  <2>2. QED
    BY <2>1 DEF QueueTyped
<1>7. CASE (\E key \in KeyId : SetupKey(key)) \/ OwnerStep \/ UNCHANGED spendVars
  BY <1>7 DEF SetupKey, OwnerStep, spendVars, api, QueueTyped
<1>8. ASSUME NEW h \in Handler, LoseHandler(h) PROVE QueueTyped'
  BY <1>8 DEF LoseHandler, QueueTyped
<1>9. QED
  BY <1>2, <1>4, <1>5, <1>6, <1>7, <1>8 DEF SpendNext, FaultStep

(* The queues are typed throughout.                                         *)
LEMMA QueueInvariance == SpendSpec => [](Typed /\ QueueTyped)
<1>1. SpendInit => Typed /\ QueueTyped
  BY DEF SpendInit, Typed, QueueTyped
<1>2. Typed /\ QueueTyped /\ [SpendNext]_spendVars => (Typed /\ QueueTyped)'
  BY TypedStep, QueueStep
<1>3. QED
  BY <1>1, <1>2, PTL DEF SpendSpec

(* Seen from the policy contract, every step is one of its own or none.     *)
LEMMA Projects == QueueTyped /\ [SpendNext]_spendVars => [Next]_vars
<1> SUFFICES ASSUME QueueTyped, [SpendNext]_spendVars PROVE [Next]_vars
  OBVIOUS
<1>1. ASSUME NEW h \in Handler, HandlerStep(h) PROVE UNCHANGED vars
  BY <1>1 DEF HandlerStep, Post, CheckBinding, Lookup, Submit
<1>2. ASSUME NEW c \in Call, CallStep(c) PROVE UNCHANGED vars
  BY <1>2 DEF CallStep, CallKeyRoute, Verify, SubmitKeyWrite, IssueKey
<1>3. CASE (\E key \in KeyId : SetupKey(key)) \/ FaultStep
  BY <1>3 DEF SetupKey, FaultStep, LoseHandler, LoseCall, LoseWrite
<1>4. CASE ApplyQueued
  <2> DEFINE tx == Head(writes)
  <2>1. tx \in Queued \cup KeyWrite /\ tx.op = "queue_request"
    BY <1>4 DEF ApplyQueued, QueueTyped
  <2>2. tx.request \in RequestId /\ tx.terms \in Terms
    BY <2>1 DEF Queued, KeyWrite
  <2>3. CASE UNCHANGED vars
    BY <2>3
  <2>4. ASSUME NEW approved \in BOOLEAN,
               queue_request(Gateway, Agent, tx.request, tx.terms, approved)
        PROVE  Next
    <3>1. RequestStep(Gateway, tx.request)
      BY <2>2, <2>4, SpendAssumption DEF RequestStep
    <3>2. QED
      BY <2>2, <3>1, AccountAssumption DEF Next
  <2>5. QED
    BY <1>4, <2>3, <2>4 DEF ApplyQueued
<1>5. CASE rotate_api_key \/ UNCHANGED spendVars
  BY <1>5 DEF rotate_api_key, spendVars
<1>6. CASE Revoke \/ OwnerStep
  BY <1>6, AccountAssumption DEF Revoke, OwnerStep, register_authority, Next
<1>7. QED
  BY <1>1, <1>2, <1>3, <1>4, <1>5, <1>6 DEF SpendNext

(* However submissions and key calls race, fail and are retried, the policy *)
(* contract does what TreasuryPolicy specifies, so that every theorem about *)
(* it holds of the routes as well.                                          *)
THEOREM RoutesDrivePolicy == SpendSpec => Spec
<1>1. SpendInit => Init
  BY DEF SpendInit
<1>2. QED
  BY <1>1, Projects, QueueInvariance, PTL DEF SpendSpec, Spec

-----------------------------------------------------------------------------
(* A write of the key route that somebody waits for is the one write of a   *)
(* call that waits for it, also after faults, so an answer reaches a call   *)
(* that is there to take it.                                                *)
OfKeyRoute(i) == i \in 1..Len(writes) /\ writes[i].op # "queue_request"

Awaits ==
  \A i \in 1..Len(writes) : OfKeyRoute(i) /\ writes[i].by # Nobody =>
    /\ writes[i].by \in Call
    /\ call[writes[i].by].pc = "wait"
    /\ writes[i].op = KeyOp(call[writes[i].by].action)
    /\ \A j \in 1..Len(writes) :
         OfKeyRoute(j) /\ writes[j].by = writes[i].by => j = i

CallsTyped == call \in [Call -> {Idle} \cup CallState]

CallInv == Typed /\ QueueTyped /\ CallsTyped /\ Awaits

(* A call that is not waiting may move without disturbing the waiting ones. *)
LEMMA AwaitsQuiet ==
  ASSUME QueueTyped, Awaits, writes' = writes,
         \A d \in Call : call[d].pc = "wait" => call'[d] = call[d]
  PROVE  Awaits'
BY DEF Awaits, OfKeyRoute, QueueTyped

(* Answering or losing the oldest write moves only the call that waits for  *)
(* it.                                                                      *)
LEMMA AwaitsTail ==
  ASSUME QueueTyped, Awaits, writes # <<>>, writes' = Tail(writes),
         \A d \in Call : call[d].pc = "wait" =>
           \/ call'[d] = call[d]
           \/ OfKeyRoute(1) /\ writes[1].by # Nobody /\ d = writes[1].by
  PROVE  Awaits'
<1>1. /\ Len(writes) \in Nat \ {0} /\ Len(writes') = Len(writes) - 1
      /\ \A i \in 1..Len(writes') : writes'[i] = writes[i + 1]
  BY DEF QueueTyped
<1>2. ASSUME NEW i \in 1..Len(writes'), writes'[i].op # "queue_request",
             writes'[i].by # Nobody
      PROVE  /\ writes'[i].by \in Call
             /\ call'[writes'[i].by].pc = "wait"
             /\ writes'[i].op = KeyOp(call'[writes'[i].by].action)
             /\ \A j \in 1..Len(writes') :
                  writes'[j].op # "queue_request" /\ writes'[j].by = writes'[i].by
                  => j = i
  <2>1. OfKeyRoute(i + 1) /\ writes'[i] = writes[i + 1]
    BY <1>1, <1>2 DEF OfKeyRoute
  <2>2. i + 1 \in 1..Len(writes) /\ 1 \in 1..Len(writes) /\ i + 1 # 1
    BY <1>1
  <2>3. /\ writes[i + 1].by \in Call /\ call[writes[i + 1].by].pc = "wait"
        /\ writes[i + 1].op = KeyOp(call[writes[i + 1].by].action)
    BY <1>2, <2>1, <2>2 DEF Awaits
  <2>4. \A j \in 1..Len(writes) :
          OfKeyRoute(j) /\ writes[j].by = writes[i + 1].by => j = i + 1
    BY <1>2, <2>1, <2>2 DEF Awaits
  <2>5. call'[writes[i + 1].by] = call[writes[i + 1].by]
    BY <2>2, <2>3, <2>4
  <2>6. ASSUME NEW j \in 1..Len(writes'), writes'[j].op # "queue_request",
               writes'[j].by = writes'[i].by
        PROVE  j = i
    <3>1. j + 1 \in 1..Len(writes) /\ writes'[j] = writes[j + 1]
      BY <1>1
    <3>2. OfKeyRoute(j + 1)
      BY <2>6, <3>1 DEF OfKeyRoute
    <3>3. QED
      BY <2>1, <2>4, <2>6, <3>1, <3>2
  <2>7. QED
    BY <2>1, <2>3, <2>5, <2>6
<1>3. QED
  BY <1>2 DEF Awaits, OfKeyRoute

(* Submitting a write adds one that its own call, if any, now waits for.    *)
LEMMA AwaitsAppend ==
  ASSUME QueueTyped, Awaits, NEW w \in Queued \cup KeyWrite,
         writes' = Append(writes, w),
         \A d \in Call : call[d].pc = "wait" => call'[d] = call[d],
         w.op # "queue_request" =>
           /\ w.by \in Call /\ call[w.by].pc # "wait" /\ call'[w.by].pc = "wait"
           /\ w.op = KeyOp(call'[w.by].action)
  PROVE  Awaits'
<1> DEFINE n == Len(writes)
<1>1. /\ n \in Nat /\ Len(writes') = n + 1 /\ writes'[n + 1] = w
      /\ \A i \in 1..n : writes'[i] = writes[i]
  BY DEF QueueTyped
<1>2. \A i \in 1..n : writes[i].op # "queue_request" /\ writes[i].by # Nobody =>
        /\ writes[i].by \in Call /\ call[writes[i].by].pc = "wait"
        /\ writes[i].op = KeyOp(call[writes[i].by].action)
        /\ \A j \in 1..n :
             writes[j].op # "queue_request" /\ writes[j].by = writes[i].by => j = i
  BY DEF Awaits, OfKeyRoute
<1>3. Nobody \notin Call
  BY SpendAssumption
<1> HIDE DEF n
<1>4. \A i \in 1..(n + 1) : i \in 1..n \/ i = n + 1
  BY <1>1
<1>5. ASSUME NEW i \in 1..(n + 1), writes'[i].op # "queue_request",
             writes'[i].by # Nobody
      PROVE  /\ writes'[i].by \in Call
             /\ call'[writes'[i].by].pc = "wait"
             /\ writes'[i].op = KeyOp(call'[writes'[i].by].action)
             /\ \A j \in 1..(n + 1) :
                  writes'[j].op # "queue_request" /\ writes'[j].by = writes'[i].by
                  => j = i
  <2>1. CASE i = n + 1
    BY <1>1, <1>2, <1>3, <1>4, <1>5, <2>1
  <2>2. CASE i \in 1..n
    BY <1>1, <1>2, <1>4, <1>5, <2>2
  <2>3. QED
    BY <1>4, <2>1, <2>2
<1>6. QED
  BY <1>1, <1>5 DEF Awaits, OfKeyRoute

(* A call that is lost leaves its write, if any, to nobody.                 *)
LEMMA AwaitsLose ==
  ASSUME CallInv, NEW c \in Call, LoseCall(c)
  PROVE  /\ CallsTyped' /\ Awaits' /\ Len(writes') = Len(writes)
<1> DEFINE mine == [op |-> KeyOp(call[c].action), by |-> c]
           w(i) == IF writes[i] = mine THEN [writes[i] EXCEPT !.by = Nobody]
                                       ELSE writes[i]
<1>1. /\ Len(writes) \in Nat /\ DOMAIN writes = 1..Len(writes)
      /\ \A i \in 1..Len(writes) : writes[i] \in Queued \cup KeyWrite
  BY DEF CallInv, QueueTyped
<1>2. writes' = [i \in 1..Len(writes) |-> w(i)]
  BY <1>1 DEF LoseCall
<1>3. call' = [call EXCEPT ![c] = Idle] /\ CallsTyped'
  BY DEF LoseCall, CallInv, CallsTyped
<1>4. Len(writes') = Len(writes)
  <2>1. DOMAIN writes' = 1..Len(writes)
    BY <1>2
  <2>2. writes' \in Seq(Queued \cup KeyWrite)
    <3>1. \A i \in 1..Len(writes) : w(i) \in Queued \cup KeyWrite
      BY <1>1 DEF KeyOp, KeyWrite
    <3> HIDE DEF w
    <3>2. QED
      BY <1>1, <1>2, <3>1
  <2>3. QED
    BY <1>1, <2>1, <2>2
<1>5. ASSUME NEW i \in 1..Len(writes), writes[i].op # "queue_request"
      PROVE  /\ writes'[i].op = writes[i].op
             /\ writes[i].by = c => writes'[i].by = Nobody
             /\ writes[i].by # c => writes'[i] = writes[i]
  <2>1. writes[i] \in KeyWrite
    BY <1>1, <1>5 DEF Queued
  <2>2. writes[i].by = c => writes[i].op = KeyOp(call[c].action)
    BY <1>5, SpendAssumption DEF CallInv, Awaits, OfKeyRoute
  <2>3. writes[i].by = c => writes[i] = mine
    BY <2>1, <2>2 DEF KeyWrite
  <2>4. writes[i].by # c => writes[i] # mine
    OBVIOUS
  <2>5. QED
    BY <1>2, <2>1, <2>3, <2>4 DEF KeyWrite
<1>6. ASSUME NEW i \in 1..Len(writes), writes'[i].op # "queue_request"
      PROVE  writes[i].op # "queue_request"
  <2>1. CASE writes[i] = mine
    BY <2>1 DEF KeyOp
  <2>2. CASE writes[i] # mine
    BY <1>2, <1>6, <2>2
  <2>3. QED
    BY <2>1, <2>2
<1>7. ASSUME NEW i \in 1..Len(writes), writes'[i].op # "queue_request",
             writes'[i].by # Nobody
      PROVE  /\ writes'[i].by \in Call
             /\ call'[writes'[i].by].pc = "wait"
             /\ writes'[i].op = KeyOp(call'[writes'[i].by].action)
             /\ \A j \in 1..Len(writes) :
                  writes'[j].op # "queue_request" /\ writes'[j].by = writes'[i].by
                  => j = i
  <2>1. writes[i].op # "queue_request" /\ writes[i].by # c /\ writes'[i] = writes[i]
    BY <1>5, <1>6, <1>7
  <2>2. /\ writes[i].by \in Call /\ call[writes[i].by].pc = "wait"
        /\ writes[i].op = KeyOp(call[writes[i].by].action)
        /\ \A j \in 1..Len(writes) :
             writes[j].op # "queue_request" /\ writes[j].by = writes[i].by => j = i
    BY <1>7, <2>1 DEF CallInv, Awaits, OfKeyRoute
  <2>3. call'[writes[i].by] = call[writes[i].by]
    BY <1>3, <2>1, <2>2 DEF CallInv, CallsTyped
  <2>4. ASSUME NEW j \in 1..Len(writes), writes'[j].op # "queue_request",
               writes'[j].by = writes'[i].by
        PROVE  j = i
    <3>1. writes[j].op # "queue_request" /\ writes'[j].by # Nobody
      BY <1>6, <1>7, <2>4
    <3>2. writes'[j] = writes[j]
      BY <1>5, <3>1
    <3>3. QED
      BY <2>1, <2>2, <2>4, <3>1, <3>2
  <2>5. QED
    BY <2>1, <2>2, <2>3, <2>4
<1>8. Awaits'
  BY <1>4, <1>7 DEF Awaits, OfKeyRoute
<1>9. QED
  BY <1>3, <1>4, <1>8

(* A call takes one step of its own: it is typed, waits for what it writes, *)
(* and moves no other call.                                                 *)
LEMMA CallMoves ==
  ASSUME CallInv, NEW c \in Call, CallStep(c)
  PROVE  CallsTyped' /\ Awaits' /\ \A d \in Call \ {c} : call'[d] = call[d]
<1>1. Typed /\ QueueTyped /\ CallsTyped /\ Awaits /\ c # Nobody
  BY SpendAssumption DEF CallInv
<1>2. ASSUME NEW from \in {"verify", "write", "readback"},
             NEW to \in {"write", "wait", "idle"}, Proceed(c, from, to)
      PROVE  /\ CallsTyped' /\ call[c].pc = from
             /\ \A d \in Call \ {c} : call'[d] = call[d]
             /\ call'[c].pc = to
             /\ to # "idle" => call'[c].action = call[c].action
  <2>1. call[c].pc = from /\ call[c] \in CallState
    BY <1>1, <1>2 DEF Proceed, CallsTyped, Idle
  <2>2. /\ to # "idle" => [call[c] EXCEPT !.pc = to] \in CallState
        /\ [call[c] EXCEPT !.pc = to].pc = to
        /\ [call[c] EXCEPT !.pc = to].action = call[c].action
    BY <2>1 DEF CallState
  <2>3. call' = [call EXCEPT ![c] = IF to = "idle" THEN Idle
                                    ELSE [call[c] EXCEPT !.pc = to]]
    BY <1>2 DEF Proceed
  <2>4. QED
    BY <1>1, <2>1, <2>2, <2>3 DEF CallsTyped, Idle
<1>3. ASSUME NEW action \in {"rotate_agent_key", "revoke_agent_key"},
             CallKeyRoute(c, action)
      PROVE  CallsTyped' /\ Awaits' /\ \A d \in Call \ {c} : call'[d] = call[d]
  <2> DEFINE s == [pc |-> "verify", action |-> action, nonce |-> api_key_version]
  <2>1. s \in CallState
    BY <1>1 DEF CallState, Typed
  <2>2. call[c].pc = "idle" /\ call' = [call EXCEPT ![c] = s] /\ writes' = writes
    BY <1>3 DEF CallKeyRoute, Idle
  <2>3. CallsTyped' /\ \A d \in Call \ {c} : call'[d] = call[d]
    BY <1>1, <2>1, <2>2 DEF CallsTyped
  <2>4. Awaits'
    BY <1>1, <2>2, <2>3, AwaitsQuiet
  <2>5. QED
    BY <2>3, <2>4
<1>4. CASE Verify(c) \/ \E key \in KeyId : IssueKey(c, key)
  <2>1. /\ CallsTyped' /\ call[c].pc \in {"verify", "readback"}
        /\ \A d \in Call \ {c} : call'[d] = call[d]
        /\ writes' = writes
    BY <1>2, <1>4 DEF Verify, IssueKey
  <2>2. Awaits'
    BY <1>1, <2>1, AwaitsQuiet
  <2>3. QED
    BY <2>1, <2>2
<1>5. CASE SubmitKeyWrite(c)
  <2> DEFINE w == [op |-> KeyOp(call[c].action), by |-> c]
  <2>1. /\ CallsTyped' /\ call[c].pc = "write" /\ call'[c].pc = "wait"
        /\ call'[c].action = call[c].action
        /\ \A d \in Call \ {c} : call'[d] = call[d]
        /\ writes' = Append(writes, w)
    BY <1>2, <1>5 DEF SubmitKeyWrite
  <2>2. w \in KeyWrite /\ w.by = c /\ w.op = KeyOp(call'[c].action)
    BY <2>1 DEF KeyOp, KeyWrite
  <2> HIDE DEF w
  <2>3. Awaits'
    BY <1>1, <2>1, <2>2, AwaitsAppend
  <2>4. QED
    BY <2>1, <2>3
<1>6. QED
  BY <1>3, <1>4, <1>5 DEF CallStep

(* The oldest write is answered or lost: the call that waits for it, and no *)
(* other, moves on.                                                         *)
LEMMA AnswerMoves ==
  ASSUME CallInv, writes # <<>>, writes' = Tail(writes),
         Head(writes).op # "queue_request",
         NEW to \in {"readback", "idle"}, Return(Head(writes).by, to)
  PROVE  /\ CallsTyped' /\ Awaits'
         /\ Head(writes).by # Nobody =>
              /\ Head(writes).by \in Call
              /\ call[Head(writes).by].pc = "wait" /\ call'[Head(writes).by].pc = to
         /\ \A d \in Call : d # Head(writes).by => call'[d] = call[d]
<1> DEFINE by == Head(writes).by
<1>1. Typed /\ QueueTyped /\ CallsTyped /\ Awaits
  BY DEF CallInv
<1>2. Head(writes) = writes[1] /\ 1 \in 1..Len(writes) /\ OfKeyRoute(1)
  BY <1>1 DEF QueueTyped, OfKeyRoute
<1>3. CASE by = Nobody
  <2>1. call' = call
    BY <1>3 DEF Return
  <2>2. CallsTyped'
    BY <1>1, <2>1 DEF CallsTyped
  <2>3. Awaits'
    BY <1>1, <2>1, AwaitsTail
  <2>4. QED
    BY <1>3, <2>1, <2>2, <2>3
<1>4. CASE by # Nobody
  <2>1. by \in Call /\ call[by].pc = "wait"
    BY <1>1, <1>2, <1>4 DEF Awaits
  <2>2. call[by] \in CallState
    BY <1>1, <2>1 DEF CallsTyped, Idle
  <2>3. /\ to # "idle" => [call[by] EXCEPT !.pc = to] \in CallState
        /\ [call[by] EXCEPT !.pc = to].pc = to
    BY <2>2 DEF CallState
  <2>4. call' = [call EXCEPT ![by] = IF to = "idle" THEN Idle
                                     ELSE [call[by] EXCEPT !.pc = to]]
    BY <1>4 DEF Return
  <2> HIDE DEF by
  <2>5. /\ CallsTyped' /\ call'[by].pc = to
        /\ \A d \in Call : d # by => call'[d] = call[d]
    BY <1>1, <2>1, <2>3, <2>4 DEF CallsTyped, Idle
  <2>6. by = writes[1].by
    BY <1>2 DEF by
  <2>7. Awaits'
    BY <1>1, <1>2, <1>4, <2>5, <2>6, AwaitsTail
  <2>8. QED
    BY <1>4, <2>1, <2>5, <2>7 DEF by
<1>5. QED
  BY <1>3, <1>4

(* Every step keeps the calls and their writes together.                    *)
LEMMA CallInvStep == CallInv /\ [SpendNext]_spendVars => CallInv'
<1> SUFFICES ASSUME CallInv, [SpendNext]_spendVars PROVE CallInv'
  OBVIOUS
<1>1. Typed /\ Typed' /\ QueueTyped /\ QueueTyped' /\ CallsTyped /\ Awaits
  BY TypedStep, QueueStep DEF CallInv
<1>2. CASE UNCHANGED <<call, writes>>
  BY <1>1, <1>2, AwaitsQuiet DEF CallInv, CallsTyped
<1>3. ASSUME NEW h \in Handler, Submit(h) PROVE CallInv'
  <2> DEFINE w == [op |-> "queue_request", request |-> handler[h].request,
                   terms |-> handler[h].terms]
  <2>1. handler[h] \in HandlerState
    BY <1>1, <1>3, ActiveIsHandlerState DEF Submit, Active
  <2>2. w \in Queued /\ w.op = "queue_request"
    BY <2>1 DEF HandlerState, Queued
  <2>3. writes' = Append(writes, w) /\ call' = call
    BY <1>3 DEF Submit
  <2> HIDE DEF w
  <2>4. Awaits'
    BY <1>1, <2>2, <2>3, AwaitsAppend
  <2>5. QED
    BY <1>1, <2>3, <2>4 DEF CallInv, CallsTyped
<1>4. ASSUME NEW h \in Handler, HandlerStep(h) PROVE CallInv'
  BY <1>2, <1>3, <1>4 DEF HandlerStep, Post, CheckBinding, Lookup
<1>5. ASSUME NEW c \in Call, CallStep(c) PROVE CallInv'
  BY <1>1, <1>5, CallMoves DEF CallInv
<1>6. CASE ApplyQueued
  <2>1. writes # <<>> /\ writes' = Tail(writes) /\ call' = call
    BY <1>6 DEF ApplyQueued
  <2>2. Awaits'
    BY <1>1, <2>1, AwaitsTail
  <2>3. QED
    BY <1>1, <2>1, <2>2 DEF CallInv, CallsTyped
<1>7. CASE rotate_api_key \/ Revoke
  <2>1. /\ writes # <<>> /\ writes' = Tail(writes)
        /\ Head(writes).op # "queue_request"
        /\ \E to \in {"readback", "idle"} : Return(Head(writes).by, to)
    BY <1>7 DEF rotate_api_key, Revoke
  <2>2. QED
    BY <1>1, <2>1, AnswerMoves DEF CallInv
<1>8. CASE LoseWrite
  <2>1. writes # <<>> /\ writes' = Tail(writes)
    BY <1>8 DEF LoseWrite
  <2>2. CASE Head(writes).op = "queue_request"
    <3>1. call' = call
      BY <1>8, <2>2 DEF LoseWrite
    <3>2. Awaits'
      BY <1>1, <2>1, <3>1, AwaitsTail
    <3>3. QED
      BY <1>1, <3>1, <3>2 DEF CallInv, CallsTyped
  <2>3. CASE Head(writes).op # "queue_request"
    <3>1. Return(Head(writes).by, "idle")
      BY <1>8, <2>3 DEF LoseWrite
    <3>2. QED
      BY <1>1, <2>1, <2>3, <3>1, AnswerMoves DEF CallInv
  <2>4. QED
    BY <2>2, <2>3
<1>9. ASSUME NEW c \in Call, LoseCall(c) PROVE CallInv'
  BY <1>1, <1>9, AwaitsLose DEF CallInv
<1>10. CASE \/ \E key \in KeyId : SetupKey(key)
            \/ \E h \in Handler : LoseHandler(h)
            \/ OwnerStep \/ UNCHANGED spendVars
  BY <1>2, <1>10 DEF SetupKey, LoseHandler, OwnerStep, spendVars, api
<1>11. QED
  BY <1>4, <1>5, <1>6, <1>7, <1>8, <1>9, <1>10 DEF SpendNext, FaultStep

(* The invariant about the calls of the key route holds throughout.         *)
LEMMA CallInvariance == SpendSpec => []CallInv
<1>1. SpendInit => CallInv
  BY DEF SpendInit, CallInv, Typed, QueueTyped, CallsTyped, Awaits
<1>2. QED
  BY <1>1, CallInvStep, PTL DEF SpendSpec

-----------------------------------------------------------------------------
(* The counters and the queue stay within their bounds, and no key carries  *)
(* a version the registry has not reached.                                  *)
Bounded ==
  /\ api_key_version # 0
  /\ \A k \in KeyId : issued[k] <= api_key_version
  /\ Len(writes) <= MaxWrites
  /\ posts \in 0..MaxPosts /\ calls \in 0..MaxCalls /\ faults \in 0..MaxFaults

(* Every step keeps the bounds on versions and queues.                      *)
LEMMA BoundedStep == CallInv /\ Bounded /\ [SpendNext]_spendVars => Bounded'
<1> SUFFICES ASSUME CallInv, Bounded, [SpendNext]_spendVars PROVE Bounded'
  OBVIOUS
<1>1. /\ Typed /\ QueueTyped /\ CallsTyped
      /\ MaxWrites \in Nat /\ MaxPosts \in Nat /\ MaxCalls \in Nat /\ MaxFaults \in Nat
  BY SpendAssumption DEF CallInv
<1>2. Len(writes) \in Nat /\ Len(writes) <= MaxWrites
  BY <1>1 DEF QueueTyped, Bounded
<1>3. /\ api_key_version' # 0
      /\ \A k \in KeyId : issued'[k] <= api_key_version'
  <2>1. \/ UNCHANGED <<api_key_version, issued>>
        \/ Elsewhere
    BY DEF SpendNext, FaultStep, HandlerStep, Post, CheckBinding, Lookup, Submit,
           LoseHandler, Elsewhere, spendVars, api
  <2>2. /\ api_key_version' \in {api_key_version, api_key_version + 1}
        /\ \/ issued' = issued
           \/ \E key \in KeyId : issued' = [issued EXCEPT ![key] = api_key_version]
    BY <1>1, <2>1, ElsewhereQuiet
  <2>3. QED
    BY <1>1, <2>2 DEF Typed, Bounded
<1>4. Len(writes') <= MaxWrites
  <2>1. CASE writes' = writes
    BY <1>2, <2>1
  <2>2. ASSUME NEW w, writes' = Append(writes, w), Len(writes) < MaxWrites
        PROVE  Len(writes') <= MaxWrites
    <3>1. Len(writes') = Len(writes) + 1
      BY <1>1, <2>2 DEF QueueTyped
    <3>2. QED
      BY <1>1, <1>2, <2>2, <3>1
  <2>3. CASE writes # <<>> /\ writes' = Tail(writes)
    <3>1. Len(writes') = Len(writes) - 1
      BY <1>1, <2>3 DEF QueueTyped
    <3>2. QED
      BY <1>1, <1>2, <3>1
  <2>4. ASSUME NEW c \in Call, LoseCall(c) PROVE Len(writes') <= MaxWrites
    BY <1>2, <2>4, AwaitsLose
  <2>5. ASSUME NEW h \in Handler, HandlerStep(h) PROVE Len(writes') <= MaxWrites
    BY <2>1, <2>2, <2>5 DEF HandlerStep, Post, CheckBinding, Lookup, Submit
  <2>6. ASSUME NEW c \in Call, CallStep(c) PROVE Len(writes') <= MaxWrites
    BY <2>1, <2>2, <2>6 DEF CallStep, CallKeyRoute, Verify, SubmitKeyWrite, IssueKey
  <2>7. CASE ApplyQueued \/ rotate_api_key \/ Revoke \/ LoseWrite
    BY <2>3, <2>7 DEF ApplyQueued, rotate_api_key, Revoke, LoseWrite
  <2>8. CASE \/ \E key \in KeyId : SetupKey(key)
             \/ \E h \in Handler : LoseHandler(h)
             \/ OwnerStep \/ UNCHANGED spendVars
    BY <2>1, <2>8 DEF SetupKey, LoseHandler, OwnerStep, spendVars, api
  <2>9. QED
    BY <2>4, <2>5, <2>6, <2>7, <2>8 DEF SpendNext, FaultStep
<1>5. /\ posts' = posts \/ (posts < MaxPosts /\ posts' = posts + 1)
      /\ calls' = calls \/ (calls < MaxCalls /\ calls' = calls + 1)
      /\ faults' = faults \/ (faults < MaxFaults /\ faults' = faults + 1)
  <2>1. ASSUME NEW h \in Handler, HandlerStep(h) \/ LoseHandler(h)
        PROVE  <1>5!:
    BY <2>1 DEF HandlerStep, Post, CheckBinding, Lookup, Submit, LoseHandler, Fault
  <2>2. ASSUME NEW c \in Call, CallStep(c) \/ LoseCall(c)
        PROVE  <1>5!:
    BY <2>2 DEF CallStep, CallKeyRoute, Verify, SubmitKeyWrite, IssueKey, LoseCall, Fault
  <2>3. CASE ApplyQueued \/ rotate_api_key \/ Revoke \/ LoseWrite
    BY <2>3 DEF ApplyQueued, rotate_api_key, Revoke, LoseWrite, Fault
  <2>4. CASE (\E key \in KeyId : SetupKey(key)) \/ OwnerStep \/ UNCHANGED spendVars
    BY <2>4 DEF SetupKey, OwnerStep, spendVars, api
  <2>5. QED
    BY <2>1, <2>2, <2>3, <2>4 DEF SpendNext, FaultStep
<1>6. posts' \in 0..MaxPosts /\ calls' \in 0..MaxCalls /\ faults' \in 0..MaxFaults
  BY <1>1, <1>5 DEF Bounded
<1>7. QED
  BY <1>3, <1>4, <1>6 DEF Bounded

(* The invocations, the queue and the keys stay typed and within bounds,    *)
(* whatever dies, times out or is lost.                                     *)
THEOREM SpendTypeCorrect == SpendSpec => []SpendTypeOK
<1>1. SpendInit => Bounded
  <2>1. SpendInit => writes = <<>> /\ Len(<<>>) = 0
    BY DEF SpendInit
  <2>2. QED
    BY <2>1, SpendAssumption DEF SpendInit, Bounded
<1>2. CallInv /\ Bounded /\ TypeOK => SpendTypeOK
  <2> SUFFICES ASSUME CallInv, Bounded, TypeOK PROVE SpendTypeOK
    OBVIOUS
  <2>1. issued \in [KeyId -> 0..api_key_version]
    BY DEF CallInv, Typed, Bounded
  <2>2. QED
    BY <2>1 DEF CallInv, Typed, QueueTyped, CallsTyped, Bounded, SpendTypeOK
<1>3. CallInv /\ CallInv' /\ Bounded /\ [SpendNext]_spendVars => Bounded'
  BY BoundedStep
<1>4. SpendSpec => []TypeOK
  BY RoutesDrivePolicy, TypeCorrect, PTL
<1>5. QED
  BY <1>1, <1>2, <1>3, <1>4, CallInvariance, PTL DEF SpendSpec

-----------------------------------------------------------------------------
(* While there are no faults every write of the key route has its own call  *)
(* waiting for it, and a version that nobody holds a key of is about to be  *)
(* issued.                                                                  *)
Unlost == \A i \in 1..Len(writes) : OfKeyRoute(i) => writes[i].by # Nobody

Held == \E k \in KeyId : issued[k] = api_key_version
Issuing == (\E k \in KeyId : issued[k] # 0) =>
             Held \/ \E c \in Call : call[c].pc = "readback"

LiveInv == CallInv /\ faults \in Nat /\ (faults = 0 => Unlost /\ Issuing)

(* A write that somebody waits for joins the queue.                         *)
LEMMA UnlostAppend ==
  ASSUME QueueTyped, Unlost, NEW w \in Queued \cup KeyWrite,
         writes' = Append(writes, w), w.op = "queue_request" \/ w.by # Nobody
  PROVE  Unlost'
<1> DEFINE n == Len(writes)
<1>1. /\ n \in Nat /\ Len(writes') = n + 1 /\ writes'[n + 1] = w
      /\ \A i \in 1..n : writes'[i] = writes[i]
  BY DEF QueueTyped
<1>2. \A i \in 1..n : writes[i].op # "queue_request" => writes[i].by # Nobody
  BY DEF Unlost, OfKeyRoute
<1> HIDE DEF n
<1>3. \A i \in 1..(n + 1) : i \in 1..n \/ i = n + 1
  BY <1>1
<1>4. \A i \in 1..(n + 1) : writes'[i].op # "queue_request" => writes'[i].by # Nobody
  BY <1>1, <1>2, <1>3
<1>5. QED
  BY <1>1, <1>4 DEF Unlost, OfKeyRoute

(* The oldest write leaves the queue.                                       *)
LEMMA UnlostTail ==
  ASSUME QueueTyped, Unlost, writes # <<>>, writes' = Tail(writes)
  PROVE  Unlost'
<1>1. /\ Len(writes) \in Nat \ {0} /\ Len(writes') = Len(writes) - 1
      /\ \A i \in 1..Len(writes') : writes'[i] = writes[i + 1] /\ i + 1 \in 1..Len(writes)
  BY DEF QueueTyped
<1>2. QED
  BY <1>1 DEF Unlost, OfKeyRoute

(* Every step keeps the invariant.                                          *)
LEMMA LiveStep == LiveInv /\ [SpendNext]_spendVars => LiveInv'
<1> SUFFICES ASSUME LiveInv, [SpendNext]_spendVars PROVE LiveInv'
  OBVIOUS
<1>1. CallInv /\ CallInv' /\ Typed /\ QueueTyped /\ CallsTyped /\ faults \in Nat
  BY CallInvStep DEF LiveInv, CallInv
<1>2. CASE Fault
  BY <1>1, <1>2 DEF Fault, LiveInv
<1>3. ASSUME faults' = faults, Unlost => Unlost', Issuing => Issuing'
      PROVE  LiveInv'
  BY <1>1, <1>3 DEF LiveInv
<1>4. ASSUME UNCHANGED <<api_key_version, issued, call>> PROVE Issuing => Issuing'
  BY <1>4 DEF Issuing, Held
<1>5. ASSUME NEW h \in Handler, HandlerStep(h) PROVE LiveInv'
  <2>1. UNCHANGED <<api_key_version, issued, call>>
    BY <1>5 DEF HandlerStep, Post, CheckBinding, Lookup, Submit
  <2>2. CASE UNCHANGED <<writes, faults>>
    BY <1>3, <1>4, <2>1, <2>2 DEF Unlost, OfKeyRoute
  <2>3. CASE Submit(h) /\ faults' = faults
    <3> DEFINE w == [op |-> "queue_request", request |-> handler[h].request,
                     terms |-> handler[h].terms]
    <3>1. handler[h] \in HandlerState
      BY <1>1, <2>3, ActiveIsHandlerState DEF Submit, Active
    <3>2. w \in Queued /\ w.op = "queue_request" /\ writes' = Append(writes, w)
      BY <2>3, <3>1 DEF HandlerState, Queued, Submit
    <3> HIDE DEF w
    <3>3. Unlost => Unlost'
      BY <1>1, <3>2, UnlostAppend
    <3>4. QED
      BY <1>3, <1>4, <2>1, <2>3, <3>3
  <2>4. QED
    BY <1>2, <1>5, <2>2, <2>3 DEF HandlerStep, Post, CheckBinding, Lookup, Submit
<1>6. ASSUME NEW c \in Call, CallStep(c) PROVE LiveInv'
  <2>1. /\ faults' = faults /\ api_key_version' = api_key_version
        /\ \A d \in Call \ {c} : call'[d] = call[d]
    BY <1>1, <1>6, CallMoves
    DEF CallStep, CallKeyRoute, Verify, SubmitKeyWrite, IssueKey
  <2>2. CASE (\E key \in KeyId : IssueKey(c, key))
    <3>1. PICK key \in KeyId : IssueKey(c, key)
      BY <2>2
    <3>2. writes' = writes /\ issued'[key] = api_key_version'
      BY <1>1, <2>1, <3>1 DEF IssueKey, Typed
    <3>3. Issuing'
      BY <3>2 DEF Issuing, Held
    <3>4. QED
      BY <1>3, <2>1, <3>2, <3>3 DEF Unlost, OfKeyRoute
  <2>3. CASE ~\E key \in KeyId : IssueKey(c, key)
    <3>1. issued' = issued /\ call[c].pc # "readback"
      BY <1>6, <2>3 DEF CallStep, CallKeyRoute, Verify, SubmitKeyWrite, Proceed, Idle
    <3>2. Issuing => Issuing'
      BY <2>1, <3>1 DEF Issuing, Held
    <3>3. CASE writes' = writes
      BY <1>3, <2>1, <3>2, <3>3 DEF Unlost, OfKeyRoute
    <3>4. CASE SubmitKeyWrite(c)
      <4> DEFINE w == [op |-> KeyOp(call[c].action), by |-> c]
      <4>1. /\ w \in KeyWrite /\ w.by # Nobody /\ writes' = Append(writes, w)
        BY <3>4, SpendAssumption DEF SubmitKeyWrite, KeyOp, KeyWrite
      <4> HIDE DEF w
      <4>2. Unlost => Unlost'
        BY <1>1, <4>1, UnlostAppend
      <4>3. QED
        BY <1>3, <2>1, <3>2, <4>2
    <3>5. QED
      BY <1>6, <2>3, <3>3, <3>4 DEF CallStep, CallKeyRoute, Verify
  <2>4. QED
    BY <2>2, <2>3
<1>7. ASSUME NEW key \in KeyId, SetupKey(key) PROVE LiveInv'
  <2>1. Held' /\ UNCHANGED <<writes, faults>>
    BY <1>1, <1>7 DEF SetupKey, Held, Typed
  <2>2. QED
    BY <1>3, <2>1 DEF Unlost, OfKeyRoute, Issuing
<1>8. CASE ApplyQueued
  <2>1. /\ writes # <<>> /\ writes' = Tail(writes)
        /\ UNCHANGED <<api_key_version, issued, call, faults>>
    BY <1>8 DEF ApplyQueued
  <2>2. QED
    BY <1>1, <1>3, <1>4, <2>1, UnlostTail
<1>9. CASE rotate_api_key \/ Revoke
  <2>1. /\ writes # <<>> /\ writes' = Tail(writes) /\ issued' = issued /\ faults' = faults
        /\ Head(writes).op # "queue_request"
        /\ \/ Return(Head(writes).by, "readback")
           \/ Return(Head(writes).by, "idle") /\ api_key_version' = api_key_version
    BY <1>9 DEF rotate_api_key, Revoke
  <2>2. Unlost => Unlost'
    BY <1>1, <2>1, UnlostTail
  <2>3. ASSUME Unlost, Issuing PROVE Issuing'
    <3>1. Head(writes).by # Nobody
      BY <1>1, <2>1, <2>3 DEF Unlost, OfKeyRoute, QueueTyped
    <3> DEFINE by == Head(writes).by
    <3>2. /\ by \in Call /\ call[by].pc = "wait"
          /\ \A d \in Call : d # by => call'[d] = call[d]
          /\ call'[by].pc = "readback" \/ api_key_version' = api_key_version
      BY <1>1, <2>1, <3>1, AnswerMoves
    <3> HIDE DEF by
    <3>3. QED
      BY <2>1, <2>3, <3>2 DEF Issuing, Held
  <2>4. QED
    BY <1>1, <2>1, <2>2, <2>3 DEF LiveInv
<1>10. CASE OwnerStep \/ UNCHANGED spendVars
  BY <1>3, <1>4, <1>10 DEF OwnerStep, spendVars, api, Unlost, OfKeyRoute
<1>11. CASE FaultStep
  BY <1>2, <1>11 DEF FaultStep, LoseHandler, LoseCall, LoseWrite
<1>12. QED
  BY <1>5, <1>6, <1>7, <1>8, <1>9, <1>10, <1>11 DEF SpendNext

(* However rotations and revocations overlap, once all are answered and no  *)
(* fault occurred, the owner holds a key of the registry's version.         *)
THEOREM RotationLeavesLiveKey == SpendSpec => []LiveKeyAfterRotation
<1>1. SpendInit => LiveInv
  <2>1. SpendInit => CallInv
    BY DEF SpendInit, CallInv, Typed, QueueTyped, CallsTyped, Awaits
  <2>2. SpendInit => faults = 0 /\ Unlost /\ Issuing
    BY DEF SpendInit, Unlost, Issuing
  <2>3. QED
    BY <2>1, <2>2 DEF LiveInv
<1>2. LiveInv => LiveKeyAfterRotation
  BY DEF LiveInv, LiveKeyAfterRotation, Issuing, Held, Idle
<1>3. QED
  BY <1>1, <1>2, LiveStep, PTL DEF SpendSpec
=============================================================================
