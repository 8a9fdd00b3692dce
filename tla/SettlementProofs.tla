--------------------------- MODULE SettlementProofs --------------------------
(***************************************************************************)
(* Theorems about Settlement, for every number of workers, requests and    *)
(* faults.  The contract and the vault keep the invariants proved in       *)
(* TreasuryPolicyProofs and AgentTreasuryProofs, because the composition   *)
(* only takes steps of theirs.                                             *)
(***************************************************************************)
EXTENDS Settlement, TreasuryPolicyProofs, SequenceTheorems

VaultProofs == INSTANCE AgentTreasuryProofs

(* The constants of the composition satisfy what the vault assumes.         *)
LEMMA VaultConstants == VaultProofs!VaultAssumption
BY AccountAssumption, NumberAssumption, WorkerAssumption
DEF VaultProofs!VaultAssumption

-----------------------------------------------------------------------------
(* Sequences as queues.  Taking the oldest element shifts the others down   *)
(* and keeps their order.                                                   *)
LEMMA TailOf ==
  ASSUME NEW S, NEW s \in Seq(S), s # <<>>
  PROVE  /\ 1 \in DOMAIN s /\ Head(s) = s[1] /\ Head(s) \in S
         /\ Tail(s) \in Seq(S)
         /\ \A i \in DOMAIN Tail(s) :
              i + 1 \in DOMAIN s /\ i \in Nat \ {0} /\ Tail(s)[i] = s[i + 1]
<1>1. Len(s) \in Nat /\ Len(s) > 0 /\ DOMAIN s = 1..Len(s)
  BY EmptySeq, LenProperties
<1>2. /\ Head(s) \in S /\ Tail(s) \in Seq(S)
      /\ Len(Tail(s)) = Len(s) - 1
      /\ \A i \in 1 .. Len(Tail(s)) : Tail(s)[i] = s[i + 1]
  BY HeadTailProperties
<1>3. DOMAIN Tail(s) = 1..(Len(s) - 1)
  BY <1>2, LenProperties
<1>4. Head(s) = s[1]
  OBVIOUS
<1>5. QED
  BY <1>1, <1>2, <1>3, <1>4

(* A function on the first n numbers is a sequence.                         *)
LEMMA FunctionIsSeq ==
  ASSUME NEW S, NEW n \in Nat, NEW f \in [1..n -> S]
  PROVE  f \in Seq(S)
<1>1. f \in UNION {[1..m -> S] : m \in Nat}
  OBVIOUS
<1>2. QED
  BY <1>1, SeqDef, Zenon

(* An element is appended behind all others.                                *)
LEMMA AppendOf ==
  ASSUME NEW S, NEW s \in Seq(S), NEW e \in S
  PROVE  /\ Append(s, e) \in Seq(S)
         /\ Len(s) + 1 \in DOMAIN Append(s, e) /\ Append(s, e)[Len(s) + 1] = e
         /\ \A i \in DOMAIN Append(s, e) :
              \/ i \in DOMAIN s /\ Append(s, e)[i] = s[i] /\ i < Len(s) + 1
              \/ i = Len(s) + 1 /\ Append(s, e)[i] = e
         /\ \A i \in DOMAIN s : i \in Nat /\ i < Len(s) + 1
<1>1. Len(s) \in Nat /\ DOMAIN s = 1..Len(s)
  BY LenProperties
<1>2. /\ Append(s, e) \in Seq(S)
      /\ Len(Append(s, e)) = Len(s) + 1
      /\ \A i \in 1..Len(s) : Append(s, e)[i] = s[i]
      /\ Append(s, e)[Len(s) + 1] = e
  BY AppendProperties
<1>3. DOMAIN Append(s, e) = 1..(Len(s) + 1)
  BY <1>2, LenProperties
<1>4. QED
  BY <1>1, <1>2, <1>3

-----------------------------------------------------------------------------
(* What a worker that is not idle looks like.                               *)
Run == [pc : Place, request : RequestId, since : Nat]

(* The places past the claim, where a worker may move money or has to       *)
(* report what became of it, and the writes that make the report.           *)
AfterClaim == {"pay", "paying", "record", "recording", "fail", "failing"}
Holds(w, r) == worker[w].pc \in AfterClaim /\ worker[w].request = r
Reports(i, r) == writes[i].op \in {"record", "fail"} /\ writes[i].request = r

(* The places and writes of the second stage of a cross-chain payment.      *)
BridgeStage == {"attest", "attesting", "close", "closing"}
BridgeOp == {"bridge", "attest", "close"}

(* The place in which the submitter of a write waits for it.                *)
WaitsFor(op) == IF op = "bridge" THEN "recording" ELSE Waiting[op]

(* Workers, writes and payments are about approved requests.                *)
OnApproved ==
  /\ \A w \in Worker : Busy(w) => Approved(worker[w].request)
  /\ \A i \in DOMAIN writes : Approved(writes[i].request)
  /\ \A i \in DOMAIN sent : Approved(sent[i].request)

(* A burn carries a fee Circle quoted.                                      *)
FeesQuoted ==
  \A i \in DOMAIN sent : Bridges(sent[i].request) => sent[i].fee \in Fee

(* A worker waits for what it has submitted, and for one thing at a time.   *)
Awaited ==
  /\ \A i \in DOMAIN writes : writes[i].by \in Worker =>
       /\ worker[writes[i].by].pc = WaitsFor(writes[i].op)
       /\ worker[writes[i].by].request = writes[i].request
  /\ \A i \in DOMAIN sent : sent[i].by \in Worker =>
       /\ worker[sent[i].by].pc = "paying"
       /\ worker[sent[i].by].request = sent[i].request
  /\ \A i, j \in DOMAIN writes :
       writes[i].by = writes[j].by /\ writes[i].by \in Worker => i = j
  /\ \A i, j \in DOMAIN sent :
       sent[i].by = sent[j].by /\ sent[i].by \in Worker => i = j

(* A run ends within its duration.                                          *)
Timely ==
  \A w \in Worker : Busy(w) =>
    worker[w].since <= now /\ now - worker[w].since <= MaxDuration

(* Only cross-chain payments from the vault reach the bridge stage.         *)
StagesSplit ==
  /\ \A w \in Worker :
       worker[w].pc \in BridgeStage => Bridges(worker[w].request)
  /\ \A i \in DOMAIN writes :
       /\ writes[i].op \in BridgeOp => Bridges(writes[i].request)
       /\ writes[i].op = "record" => ~Bridges(writes[i].request)
  /\ \A r \in RequestId :
       Stored(r) /\ requests[r].status = "bridging" => Bridges(r)

(* The lease of one request that is paid in one stage.  A live claimant     *)
(* knows no lease older than itself; a payer holds the lease it claimed.    *)
ClaimsFresh(r) ==
  \A w \in Worker :
    /\ worker[w].pc \in {"claim", "claiming"} /\ worker[w].request = r
    /\ requests[r].status = "executing"
    => requests[r].claimed_at >= worker[w].since

PayersClaimed(r) ==
  \A w \in Worker :
    Paying(w) /\ worker[w].request = r =>
      /\ requests[r].status = "executing"
      /\ requests[r].claimed_at >= worker[w].since

(* One worker at a time is past the claim, and none unless the request is   *)
(* executing or executed; nor is a report still under way otherwise.        *)
OneHolder(r) ==
  \A v, w \in Worker : Holds(v, r) /\ Holds(w, r) => v = w

OpenIsFree(r) ==
  requests[r].status \notin {"executing", "executed"} =>
    /\ \A w \in Worker : ~Holds(w, r)
    /\ \A i \in DOMAIN writes : ~Reports(i, r)

(* The reports of one attempt: first that it paid, then that it failed, and *)
(* each only from a holder that has come so far.                            *)
ReportsInOrder(r) ==
  \A i, j \in DOMAIN writes :
    i < j /\ Reports(i, r) /\ Reports(j, r) =>
      writes[i].op = "record" /\ writes[j].op = "fail"

ReportsMatchHolder(r) ==
  \A w \in Worker, i \in DOMAIN writes :
    Holds(w, r) /\ Reports(i, r) =>
      /\ worker[w].pc \in {"recording", "fail", "failing"}
      /\ writes[i].op = "fail" => worker[w].pc = "failing" /\ writes[i].by = w

LeaseOf(r) ==
  /\ ClaimsFresh(r) /\ PayersClaimed(r) /\ OneHolder(r) /\ OpenIsFree(r)
  /\ ReportsInOrder(r) /\ ReportsMatchHolder(r)

LeaseInv == \A r \in RequestId : Stored(r) /\ ~Bridges(r) => LeaseOf(r)

(* The vault's part: what has been paid, and who may say so.                *)
PaidAsApproved ==
  \A r \in RequestId : settled[r] # <<>> => Approved(r) /\ OnApprovedTerms(r)

MintedIsBurned == \A r \in minted : settled[r] # <<>> /\ Burned(r)

NothingRelayed == \A r \in RequestId : relayed[r] = 0

SaysPaid ==
  /\ \A w \in Worker :
       /\ worker[w].pc \in {"record", "recording"} => executed[worker[w].request]
       /\ worker[w].pc \in BridgeStage => worker[w].request \in minted
  /\ \A i \in DOMAIN writes :
       /\ writes[i].op \in {"record", "bridge"} => executed[writes[i].request]
       /\ writes[i].op \in {"attest", "close"} => writes[i].request \in minted

ExecutedIsDelivered ==
  \A r \in RequestId :
    requests[r].status = "executed" => executed[r] /\ Delivered(r)

PaidInv ==
  /\ PaidAsApproved /\ MintedIsBurned /\ NothingRelayed
  /\ SaysPaid /\ ExecutedIsDelivered

(* The composition's base: types, the invariants of its parts, and what     *)
(* workers and queues are about.                                            *)
BaseInv ==
  /\ SettlementTypeOK /\ PolicyInv /\ VaultProofs!VaultInv
  /\ OnApproved /\ FeesQuoted /\ Awaited /\ Timely /\ StagesSplit

-----------------------------------------------------------------------------
(* A worker goes to a place with its request, or ends its run.              *)
Goes(w, pc) ==
  IF pc = "idle" THEN worker'[w] = Idle
  ELSE /\ worker'[w] \in Run /\ worker'[w].pc = pc
       /\ worker'[w].request = worker[w].request
       /\ worker'[w].since = worker[w].since

Others(w) == \A v \in Worker : v # w => worker'[v] = worker[v]

WorkersTyped == worker \in [Worker -> {Idle} \cup Run]

Writes == Seq([op : Op, request : RequestId, by : Worker \cup {Nobody}])
Payments == Seq([request : RequestId, fee : Fee \cup {0},
                 by : Worker \cup {Nobody}])

(* The parts of the type invariant that concern workers and queues.         *)
LEMMA TypeParts ==
  SettlementTypeOK =>
    /\ TypeOK /\ WorkersTyped /\ writes \in Writes /\ sent \in Payments
    /\ \A w \in Worker : Busy(w) => worker[w] \in Run
BY DEF SettlementTypeOK, WorkersTyped, Writes, Payments, Run, Idle, Busy

(* Names of places.                                                         *)
LEMMA Places ==
  /\ Range(Waiting) = {"claiming", "recording", "failing", "attesting", "closing"}
  /\ Place = {"idle", "pay", "paying", "claim", "record", "fail", "attest", "close",
              "claiming", "recording", "failing", "attesting", "closing"}
  /\ Waiting["claim"] = "claiming" /\ Waiting["record"] = "recording"
  /\ Waiting["fail"] = "failing" /\ Waiting["attest"] = "attesting"
  /\ Waiting["close"] = "closing"
<1>1. /\ DOMAIN Waiting = {"claim", "record", "fail", "attest", "close"}
      /\ Waiting["claim"] = "claiming" /\ Waiting["record"] = "recording"
      /\ Waiting["fail"] = "failing" /\ Waiting["attest"] = "attesting"
      /\ Waiting["close"] = "closing"
  BY DEF Waiting
<1>2. Range(Waiting) = {"claiming", "recording", "failing", "attesting", "closing"}
  BY <1>1 DEF Range
<1>3. QED
  BY <1>1, <1>2 DEF Place, Submits

(* Sending a worker to a place changes its place and nothing else of it.    *)
LEMMA PlaceGoes ==
  ASSUME WorkersTyped, NEW w \in Worker, NEW pc \in Place,
         pc # "idle" => Busy(w),
         worker' = [worker EXCEPT ![w] = AtPlace(w, pc)]
  PROVE  Goes(w, pc) /\ Others(w) /\ WorkersTyped'
<1>1. worker'[w] = AtPlace(w, pc) /\ Others(w)
  BY DEF WorkersTyped, Others
<1>2. CASE pc = "idle"
  BY <1>1, <1>2 DEF AtPlace, Goes, WorkersTyped
<1>3. CASE pc # "idle"
  <2>1. worker[w] \in Run
    BY <1>3 DEF WorkersTyped, Busy, Idle
  <2>2. PICK run : run = worker[w]
    OBVIOUS
  <2>3. /\ [run EXCEPT !.pc = pc] \in Run
        /\ [run EXCEPT !.pc = pc].pc = pc
        /\ [run EXCEPT !.pc = pc].request = run.request
        /\ [run EXCEPT !.pc = pc].since = run.since
    BY <2>1, <2>2 DEF Run
  <2>4. worker'[w] = [run EXCEPT !.pc = pc]
    BY <1>1, <1>3, <2>2 DEF AtPlace
  <2>5. QED
    BY <1>1, <1>3, <2>2, <2>3, <2>4 DEF Goes, WorkersTyped
<1>4. QED
  BY <1>2, <1>3

(* Where a worker resumes is a place, and only a busy worker resumes work.  *)
LEMMA ResumePlace ==
  ASSUME NEW pc \in Place, NEW ok \in BOOLEAN
  PROVE  /\ Resume(pc, ok) \in Place
         /\ pc \notin {"claiming", "paying", "recording", "attesting"}
              => Resume(pc, ok) = "idle"
         /\ Resume("claiming", ok) = (IF ok THEN "pay" ELSE "idle")
         /\ Resume("paying", ok) = (IF ok THEN "record" ELSE "fail")
         /\ Resume("recording", ok) = (IF ok THEN "idle" ELSE "fail")
         /\ Resume("attesting", ok) = (IF ok THEN "close" ELSE "idle")
BY Places DEF Resume

(* An answer moves the worker that waits for it, if one does.               *)
Answered(by, ok) ==
  /\ WorkersTyped' /\ Others(by)
  /\ by \in Worker => Goes(by, Resume(worker[by].pc, ok))

(* The answer to a write or payment is of that form.                        *)
LEMMA AnswerGoes ==
  ASSUME WorkersTyped, NEW by \in Worker \cup {Nobody}, NEW ok \in BOOLEAN,
         Answer(by, ok)
  PROVE  Answered(by, ok)
<1>1. CASE by = Nobody
  <2>1. worker' = worker /\ by \notin Worker
    BY <1>1, WorkerAssumption DEF Answer
  <2>2. QED
    BY <2>1 DEF Answered, Others, WorkersTyped
<1>2. CASE by # Nobody
  <2>1. by \in Worker
    BY <1>2
  <2>2. worker[by].pc \in Place
    BY <2>1, Places DEF WorkersTyped, Run, Idle
  <2>3. PICK pc \in Place : pc = Resume(worker[by].pc, ok)
    BY <2>2, ResumePlace
  <2>4. pc # "idle" => Busy(by)
    BY <2>2, <2>3, ResumePlace DEF Busy
  <2>5. worker' = [worker EXCEPT ![by] = AtPlace(by, pc)]
    BY <1>2, <2>3 DEF Answer
  <2>6. Goes(by, pc) /\ Others(by) /\ WorkersTyped'
    BY <2>1, <2>4, <2>5, PlaceGoes
  <2>7. QED
    BY <2>1, <2>3, <2>6 DEF Answered
<1>3. QED
  BY <1>1, <1>2

-----------------------------------------------------------------------------
(* What a queue still holds of what it held: the same writes in the same    *)
(* order, without the first `k', some of them no longer waited for.         *)
OldWrites(k) ==
  \A i \in DOMAIN writes' :
    /\ i \in Nat /\ i + k \in DOMAIN writes
    /\ writes'[i].op = writes[i + k].op
    /\ writes'[i].request = writes[i + k].request
    /\ writes'[i].by \in {writes[i + k].by, Nobody}

OldSent(k) ==
  \A i \in DOMAIN sent' :
    /\ i \in Nat /\ i + k \in DOMAIN sent
    /\ sent'[i].request = sent[i + k].request
    /\ sent'[i].fee = sent[i + k].fee
    /\ sent'[i].by \in {sent[i + k].by, Nobody}

(* The elements of the queues.                                              *)
LEMMA WritesHold ==
  ASSUME writes \in Writes
  PROVE  \A i \in DOMAIN writes :
           /\ i \in Nat
           /\ writes[i] \in [op : Op, request : RequestId, by : Worker \cup {Nobody}]
<1> DEFINE Tx == [op : Op, request : RequestId, by : Worker \cup {Nobody}]
<1>1. writes \in Seq(Tx)
  BY DEF Writes
<1> HIDE DEF Tx
<1>2. DOMAIN writes = 1..Len(writes) /\ writes \in [1..Len(writes) -> Tx]
  BY <1>1, LenProperties
<1>3. QED
  BY <1>2 DEF Tx

(* The payments under way, one by one.                                      *)
LEMMA SentHolds ==
  ASSUME sent \in Payments
  PROVE  \A i \in DOMAIN sent :
           /\ i \in Nat
           /\ sent[i] \in [request : RequestId, fee : Fee \cup {0},
                           by : Worker \cup {Nobody}]
<1> DEFINE Tx == [request : RequestId, fee : Fee \cup {0},
                  by : Worker \cup {Nobody}]
<1>1. sent \in Seq(Tx)
  BY DEF Payments
<1> HIDE DEF Tx
<1>2. DOMAIN sent = 1..Len(sent) /\ sent \in [1..Len(sent) -> Tx]
  BY <1>1, LenProperties
<1>3. QED
  BY <1>2 DEF Tx

(* Forsaking writes and payments keeps them in the queue, unowned.          *)
LEMMA WritesForsaken ==
  ASSUME writes \in Writes, NEW w \in Worker, writes' = Forsake(writes, w)
  PROVE  /\ writes' \in Writes /\ OldWrites(0)
         /\ \A i \in DOMAIN writes' :
              writes'[i].by # w /\ (writes[i].by # w => writes'[i] = writes[i])
<1>1. PICK n \in Nat : /\ DOMAIN writes = 1..n
                       /\ writes \in [1..n -> [op : Op, request : RequestId,
                                               by : Worker \cup {Nobody}]]
  BY LenProperties DEF Writes
<1>2. \A tx \in [op : Op, request : RequestId, by : Worker \cup {Nobody}] :
        /\ [tx EXCEPT !.by = Nobody]
              \in [op : Op, request : RequestId, by : Worker \cup {Nobody}]
        /\ [tx EXCEPT !.by = Nobody].op = tx.op
        /\ [tx EXCEPT !.by = Nobody].request = tx.request
        /\ [tx EXCEPT !.by = Nobody].by = Nobody
  OBVIOUS
<1>3. DOMAIN writes' = 1..n
  BY <1>1 DEF Forsake
<1>4. \A i \in 1..n :
        /\ writes'[i] = IF writes[i].by = w THEN [writes[i] EXCEPT !.by = Nobody]
                                            ELSE writes[i]
        /\ writes[i] \in [op : Op, request : RequestId, by : Worker \cup {Nobody}]
  BY <1>1 DEF Forsake
<1>5. \A i \in 1..n :
        /\ writes'[i] \in [op : Op, request : RequestId, by : Worker \cup {Nobody}]
        /\ writes'[i].op = writes[i].op /\ writes'[i].request = writes[i].request
        /\ writes'[i].by = IF writes[i].by = w THEN Nobody ELSE writes[i].by
  BY <1>2, <1>4
<1>6. writes' \in [1..n -> [op : Op, request : RequestId, by : Worker \cup {Nobody}]]
  BY <1>1, <1>5 DEF Forsake
<1>7. writes' \in Writes
  BY <1>6, FunctionIsSeq DEF Writes
<1>8. OldWrites(0)
  BY <1>1, <1>3, <1>5 DEF OldWrites
<1>9. \A i \in 1..n : writes'[i].by # w
  BY <1>5, WorkerAssumption
<1>10. \A i \in 1..n : writes[i].by # w => writes'[i] = writes[i]
  BY <1>4
<1>11. QED
  BY <1>3, <1>7, <1>8, <1>9, <1>10

(* Forsaking a worker changes of the payments only whom they answer to.     *)
LEMMA SentForsaken ==
  ASSUME sent \in Payments, NEW w \in Worker, sent' = Forsake(sent, w)
  PROVE  /\ sent' \in Payments /\ OldSent(0)
         /\ \A i \in DOMAIN sent' :
              sent'[i].by # w /\ (sent[i].by # w => sent'[i] = sent[i])
<1> DEFINE Tx == [request : RequestId, fee : Fee \cup {0},
                  by : Worker \cup {Nobody}]
<1>1. PICK n \in Nat : DOMAIN sent = 1..n /\ sent \in [1..n -> Tx]
  BY LenProperties DEF Payments
<1>2. \A tx \in Tx :
        /\ [tx EXCEPT !.by = Nobody] \in Tx
        /\ [tx EXCEPT !.by = Nobody].fee = tx.fee
        /\ [tx EXCEPT !.by = Nobody].request = tx.request
        /\ [tx EXCEPT !.by = Nobody].by = Nobody
  OBVIOUS
<1>3. DOMAIN sent' = 1..n
  BY <1>1 DEF Forsake
<1>4. \A i \in 1..n :
        /\ sent'[i] = IF sent[i].by = w THEN [sent[i] EXCEPT !.by = Nobody]
                                        ELSE sent[i]
        /\ sent[i] \in Tx
  BY <1>1 DEF Forsake
<1>5. \A i \in 1..n :
        /\ sent'[i] \in Tx
        /\ sent'[i].fee = sent[i].fee /\ sent'[i].request = sent[i].request
        /\ sent'[i].by = IF sent[i].by = w THEN Nobody ELSE sent[i].by
  BY <1>2, <1>4
<1>6. sent' \in [1..n -> Tx]
  BY <1>1, <1>5 DEF Forsake
<1>7. sent' \in Payments
  BY <1>6, FunctionIsSeq DEF Payments
<1>8. OldSent(0)
  BY <1>1, <1>3, <1>5 DEF OldSent
<1>9. \A i \in 1..n : sent'[i].by # w
  BY <1>5, WorkerAssumption
<1>10. \A i \in 1..n : sent[i].by # w => sent'[i] = sent[i]
  BY <1>4
<1>11. QED
  BY <1>3, <1>7, <1>8, <1>9, <1>10

(* The oldest write or payment leaves its queue, or nothing does.           *)
LEMMA WritesTaken ==
  ASSUME writes \in Writes, writes # <<>>, writes' = Tail(writes)
  PROVE  /\ writes' \in Writes /\ OldWrites(1)
         /\ 1 \in DOMAIN writes /\ Head(writes) = writes[1]
         /\ writes[1] \in [op : Op, request : RequestId, by : Worker \cup {Nobody}]
         /\ \A i \in DOMAIN writes' : i # 0 /\ writes'[i] = writes[i + 1]
<1> DEFINE Tx == [op : Op, request : RequestId, by : Worker \cup {Nobody}]
<1>1. writes \in Seq(Tx)
  BY DEF Writes
<1> HIDE DEF Tx
<1>2. /\ 1 \in DOMAIN writes /\ Head(writes) = writes[1] /\ Head(writes) \in Tx
      /\ Tail(writes) \in Seq(Tx)
      /\ \A i \in DOMAIN Tail(writes) :
           i + 1 \in DOMAIN writes /\ i \in Nat \ {0} /\ Tail(writes)[i] = writes[i + 1]
  BY <1>1, TailOf
<1>3. OldWrites(1)
  BY <1>2 DEF OldWrites
<1>4. QED
  BY <1>2, <1>3 DEF Writes, Tx

(* Taking the oldest payment moves the others up.                           *)
LEMMA SentTaken ==
  ASSUME sent \in Payments, sent # <<>>, sent' = Tail(sent)
  PROVE  /\ sent' \in Payments /\ OldSent(1)
         /\ 1 \in DOMAIN sent /\ Head(sent) = sent[1]
         /\ sent[1] \in [request : RequestId, fee : Fee \cup {0},
                         by : Worker \cup {Nobody}]
         /\ \A i \in DOMAIN sent' : i # 0 /\ sent'[i] = sent[i + 1]
<1> DEFINE Tx == [request : RequestId, fee : Fee \cup {0},
                  by : Worker \cup {Nobody}]
<1>1. sent \in Seq(Tx)
  BY DEF Payments
<1> HIDE DEF Tx
<1>2. /\ 1 \in DOMAIN sent /\ Head(sent) = sent[1] /\ Head(sent) \in Tx
      /\ Tail(sent) \in Seq(Tx)
      /\ \A i \in DOMAIN Tail(sent) :
           i + 1 \in DOMAIN sent /\ i \in Nat \ {0} /\ Tail(sent)[i] = sent[i + 1]
  BY <1>1, TailOf
<1>3. OldSent(1)
  BY <1>2 DEF OldSent
<1>4. QED
  BY <1>2, <1>3 DEF Payments, Tx

(* Queues that stay are the old ones.                                       *)
LEMMA QueuesSame ==
  /\ writes \in Writes /\ writes' = writes => writes' \in Writes /\ OldWrites(0)
  /\ sent \in Payments /\ sent' = sent => sent' \in Payments /\ OldSent(0)
BY LenProperties DEF Writes, Payments, OldWrites, OldSent

-----------------------------------------------------------------------------
(* What a step does to the workers and to the two queues, whatever else it  *)
(* does.                                                                    *)
Starts(w, r, pc) ==
  /\ ~Busy(w) /\ Approved(r)
  /\ \/ pc = "claim" /\ requests[r].status \in {"ready", "failed"}
     \/ pc = "attest" /\ requests[r].status = "bridging" /\ r \in minted
  /\ worker'[w] = [pc |-> pc, request |-> r, since |-> now]
  /\ Others(w) /\ WorkersTyped'
  /\ UNCHANGED <<vars, writes, sent, faults, chain>>

Posts(w) ==
  /\ worker[w].pc \in Submits
  /\ writes' = Append(writes, [op |-> OpOf(w), request |-> worker[w].request,
                               by |-> w])
  /\ Goes(w, Waiting[worker[w].pc]) /\ Others(w) /\ WorkersTyped'
  /\ UNCHANGED <<vars, sent, faults, chain>>

Applies(ok) ==
  /\ writes # <<>> /\ writes' = Tail(writes)
  /\ Answered(Head(writes).by, ok)
  /\ IF ok THEN /\ Accepts(Head(writes).op, Head(writes).request)
                /\ Effect(Head(writes).op, Head(writes).request)
           ELSE UNCHANGED vars
  /\ UNCHANGED <<sent, chain>>

Sends(w, fee) ==
  /\ worker[w].pc = "pay" /\ fee \in Quotes(worker[w].request)
  /\ sent' = Append(sent, [request |-> worker[w].request, fee |-> fee, by |-> w])
  /\ Goes(w, "paying") /\ Others(w) /\ WorkersTyped'
  /\ UNCHANGED <<vars, writes, faults, chain>>

Refrains(w) ==
  /\ worker[w].pc = "pay" /\ Goes(w, "fail") /\ Others(w) /\ WorkersTyped'
  /\ UNCHANGED <<vars, writes, sent, faults, chain>>

Lands(ok) ==
  /\ sent # <<>> /\ sent' = Tail(sent)
  /\ Answered(Head(sent).by, ok)
  /\ UNCHANGED <<vars, writes, minted>>
  /\ \/ /\ Backend = "arc-vault" /\ ok
        /\ VaultAccepts(Head(sent)) /\ VaultSettles(Head(sent))
        /\ UNCHANGED relayed
     \/ /\ Backend = "delegated-7710" /\ ok
        /\ relayed' = [relayed EXCEPT ![Head(sent).request] = @ + 1]
        /\ UNCHANGED vault
     \/ ~ok /\ UNCHANGED <<relayed, vault>>

Leaves(w, pc) ==
  /\ Busy(w) /\ pc \in {"idle", "fail"}
  /\ pc = "fail" => worker[w].pc \in {"pay", "paying", "recording"}
  /\ Abandon(w)
  /\ Goes(w, pc) /\ Others(w) /\ WorkersTyped'
  /\ UNCHANGED <<vars, chain>>

Aside ==
  /\ UNCHANGED <<worker, writes, sent>>
  /\ PolicyStep \/ VaultOwnerStep \/ Clock \/ (\E r \in RequestId : Mint(r))
       \/ UNCHANGED allVars

RunStep ==
  \/ \E w \in Worker, r \in RequestId, pc \in {"claim", "attest"} : Starts(w, r, pc)
  \/ \E w \in Worker : Posts(w)
  \/ \E ok \in BOOLEAN : Applies(ok)
  \/ \E w \in Worker, fee \in Fee \cup {0} : Sends(w, fee)
  \/ \E w \in Worker : Refrains(w)
  \/ \E ok \in BOOLEAN : Lands(ok)
  \/ \E w \in Worker, pc \in {"idle", "fail"} : Leaves(w, pc)
  \/ Aside

(* Every step of the composition is one of these.                           *)
LEMMA NextIsRunStep ==
  ASSUME SettlementTypeOK, HashTrail, [SettlementNext]_allVars
  PROVE  RunStep
<1> USE DEF RunStep
<1>1. /\ WorkersTyped /\ writes \in Writes /\ sent \in Payments
      /\ \A w \in Worker : Busy(w) => worker[w] \in Run
  BY TypeParts
<1>2. \A w \in Worker : worker[w].pc # "idle" => Busy(w)
  BY DEF Busy
<1>3. ASSUME NEW w \in Worker, NEW r \in RequestId, NEW pc \in {"claim", "attest"},
             worker' = [worker EXCEPT ![w] = [pc |-> pc, request |-> r, since |-> now]]
      PROVE  /\ worker'[w] = [pc |-> pc, request |-> r, since |-> now]
             /\ Others(w) /\ WorkersTyped'
  <2>1. [pc |-> pc, request |-> r, since |-> now] \in Run
    BY TypeParts, Places DEF TypeOK, Run
  <2>2. QED
    BY <1>1, <1>3, <2>1 DEF WorkersTyped, Others
<1>4. ASSUME NEW w \in Worker, NEW r \in RequestId, Select(w, r)
      PROVE  RunStep
  BY <1>3, <1>4 DEF Select, Starts
<1>5. ASSUME NEW w \in Worker, NEW r \in RequestId, SelectBridged(w, r)
      PROVE  RunStep
  <2>1. Approved(r)
    <3>1. requests[r].verdict \in {"approved", "denied"}
      BY <1>5, TypeParts, StoredIsRequest DEF SelectBridged, Request, Verdict, Stored
    <3>2. requests[r].verdict # "denied"
      BY <1>5 DEF SelectBridged, HashTrail, TrailOf
    <3>3. QED
      BY <3>1, <3>2 DEF Approved
  <2>2. QED
    BY <1>3, <1>5, <2>1 DEF SelectBridged, ForwardMinted, Starts
<1>6. ASSUME NEW w \in Worker, Write(w)
      PROVE  RunStep
  <2>1. PICK pc \in Place : pc = Waiting[worker[w].pc] /\ Busy(w) /\ pc # "idle"
    BY <1>6, Places DEF Write, Submits, Busy
  <2>2. worker' = [worker EXCEPT ![w] = AtPlace(w, pc)]
    BY <1>6, <2>1 DEF Write, Goto, AtPlace
  <2>3. Goes(w, pc) /\ Others(w) /\ WorkersTyped'
    BY <1>1, <2>1, <2>2, PlaceGoes
  <2>4. QED
    BY <1>6, <2>1, <2>3 DEF Write, Posts
<1>7. ASSUME NEW w \in Worker, Pay(w)
      PROVE  RunStep
  <2>1. PICK fee \in Quotes(worker[w].request), pc \in {"paying", "fail"} :
          /\ worker[w].pc = "pay" /\ Goto(w, "pay", pc)
          /\ pc = "fail" => sent' = sent
          /\ pc = "paying" => sent' = Append(sent, [request |-> worker[w].request,
                                                    fee |-> fee, by |-> w])
          /\ UNCHANGED <<vars, writes, faults, chain>>
    BY <1>7 DEF Pay
  <2>2. Busy(w) /\ pc \in Place /\ pc # "idle"
    BY <2>1, Places DEF Busy
  <2>3. worker' = [worker EXCEPT ![w] = AtPlace(w, pc)]
    BY <2>1, <2>2 DEF Goto, AtPlace
  <2>4. Goes(w, pc) /\ Others(w) /\ WorkersTyped'
    BY <1>1, <2>2, <2>3, PlaceGoes
  <2>5. fee \in Fee \cup {0}
    BY <2>1 DEF Quotes
  <2>6. QED
    BY <2>1, <2>4, <2>5 DEF Sends, Refrains
<1>8. writes # <<>> => Head(writes).by \in Worker \cup {Nobody}
  <2> DEFINE Tx == [op : Op, request : RequestId, by : Worker \cup {Nobody}]
  <2>1. writes \in Seq(Tx)
    BY <1>1 DEF Writes
  <2> HIDE DEF Tx
  <2>2. writes # <<>> => Head(writes) \in Tx
    BY <2>1, TailOf
  <2>3. QED
    BY <2>2 DEF Tx
<1>9. sent # <<>> => Head(sent).by \in Worker \cup {Nobody}
  <2> DEFINE Tx == [request : RequestId, fee : Fee \cup {0},
                    by : Worker \cup {Nobody}]
  <2>1. sent \in Seq(Tx)
    BY <1>1 DEF Payments
  <2> HIDE DEF Tx
  <2>2. sent # <<>> => Head(sent) \in Tx
    BY <2>1, TailOf
  <2>3. QED
    BY <2>2 DEF Tx
<1>10. CASE Apply
  <2>1. PICK ok \in BOOLEAN : Answer(Head(writes).by, ok)
             /\ IF ok THEN /\ Accepts(Head(writes).op, Head(writes).request)
                           /\ Effect(Head(writes).op, Head(writes).request)
                      ELSE UNCHANGED vars
    BY <1>10 DEF Apply
  <2>2. Answered(Head(writes).by, ok)
    BY <1>1, <1>8, <1>10, <2>1, AnswerGoes DEF Apply
  <2>3. QED
    BY <1>10, <2>1, <2>2 DEF Apply, Applies
<1>11. CASE LoseWrite
  <2>1. Answered(Head(writes).by, FALSE)
    BY <1>1, <1>8, <1>11, AnswerGoes DEF LoseWrite
  <2>2. QED
    BY <1>11, <2>1 DEF LoseWrite, Applies
<1>12. CASE LandVault
  <2>1. PICK ok \in BOOLEAN : Answer(Head(sent).by, ok)
             /\ IF ok THEN VaultAccepts(Head(sent)) /\ VaultSettles(Head(sent))
                      ELSE UNCHANGED vault
    BY <1>12 DEF LandVault
  <2>2. Answered(Head(sent).by, ok)
    BY <1>1, <1>9, <1>12, <2>1, AnswerGoes DEF LandVault
  <2>3. QED
    BY <1>12, <2>1, <2>2 DEF LandVault, Lands
<1>13. CASE LandRelayed
  <2>1. Answered(Head(sent).by, TRUE)
    BY <1>1, <1>9, <1>13, AnswerGoes DEF LandRelayed
  <2>2. QED
    BY <1>13, <2>1 DEF LandRelayed, Lands
<1>14. CASE LosePayment
  <2>1. Answered(Head(sent).by, FALSE)
    BY <1>1, <1>9, <1>14, AnswerGoes DEF LosePayment
  <2>2. QED
    BY <1>14, <2>1 DEF LosePayment, Lands, chain
<1>15. ASSUME NEW w \in Worker, Stop(w)
       PROVE  RunStep
  <2>1. Goes(w, "idle") /\ Others(w) /\ WorkersTyped'
    BY <1>1, <1>15, Places, PlaceGoes DEF Stop, AtPlace
  <2>2. QED
    BY <1>15, <2>1 DEF Stop, Leaves
<1>16. ASSUME NEW w \in Worker, GiveUp(w)
       PROVE  RunStep
  <2> DEFINE pc == IF worker[w].pc = "pay" THEN "fail"
                                           ELSE Resume(worker[w].pc, FALSE)
  <2>1. /\ pc \in {"idle", "fail"} /\ Busy(w)
        /\ pc = "fail" => worker[w].pc \in {"pay", "paying", "recording"}
    BY <1>16, Places DEF GiveUp, Resume, Busy
  <2>2. worker' = [worker EXCEPT ![w] = AtPlace(w, pc)]
    BY <1>16 DEF GiveUp
  <2> HIDE DEF pc
  <2>3. Goes(w, pc) /\ Others(w) /\ WorkersTyped'
    BY <1>1, <2>1, <2>2, Places, PlaceGoes
  <2>4. QED
    BY <1>16, <2>1, <2>3 DEF GiveUp, Leaves
<1>17. CASE PolicyStep
  BY <1>17 DEF PolicyStep, Aside
<1>18. CASE VaultOwnerStep
  BY <1>18 DEF VaultOwnerStep, Aside
<1>19. CASE Clock
  BY <1>19 DEF Clock, Aside
<1>20. ASSUME NEW r \in RequestId, Mint(r) PROVE RunStep
  BY <1>20 DEF Mint, Aside
<1>21. CASE UNCHANGED allVars
  BY <1>21 DEF allVars, Aside
<1>22. QED
  BY <1>4, <1>5, <1>6, <1>7, <1>10, <1>11, <1>12, <1>13, <1>14, <1>15, <1>16,
     <1>17, <1>18, <1>19, <1>20, <1>21
  DEF SettlementNext, WorkerStep, ChainStep, FaultStep, Expire, Crash

-----------------------------------------------------------------------------
(* The contract only takes steps of its own: what the workers write is what *)
(* the platform account may call.                                           *)
LEMMA EffectIsRequestStep ==
  ASSUME NEW op \in Op, NEW r \in RequestId, Effect(op, r)
  PROVE  RequestStep(Gateway, r)
<1>1. PayHash \in Hash /\ MintHash \in Hash
  BY WorkerAssumption
<1>2. op \in {"claim", "record", "bridge", "fail", "attest", "close"}
  BY DEF Op
<1>3. CASE op = "claim"
  BY <1>3 DEF Effect, RequestStep
<1>4. CASE op = "record"
  BY <1>1, <1>4 DEF Effect, RequestStep
<1>5. CASE op = "close"
  BY <1>1, <1>5 DEF Effect, RequestStep
<1>6. CASE op = "bridge"
  BY <1>1, <1>6 DEF Effect, RequestStep
<1>7. CASE op = "fail"
  BY <1>7 DEF Effect, RequestStep
<1>8. CASE op = "attest"
  BY <1>1, <1>8 DEF Effect, RequestStep
<1>9. QED
  BY <1>2, <1>3, <1>4, <1>5, <1>6, <1>7, <1>8

(* A step of the composition is a step of the policy contract or none.      *)
LEMMA PolicyMoves ==
  ASSUME SettlementTypeOK, RunStep
  PROVE  [Next]_vars
<1>1. ASSUME NEW ok \in BOOLEAN, Applies(ok) PROVE [Next]_vars
  <2>1. CASE ok
    <3>1. writes[1] \in [op : Op, request : RequestId, by : Worker \cup {Nobody}]
          /\ Head(writes) = writes[1]
      BY <1>1, TypeParts, WritesTaken DEF Applies
    <3>2. RequestStep(Gateway, Head(writes).request)
      BY <1>1, <2>1, <3>1, EffectIsRequestStep DEF Applies
    <3>3. QED
      BY <3>1, <3>2, AccountAssumption DEF Next
  <2>2. CASE ~ok
    BY <1>1, <2>2 DEF Applies
  <2>3. QED
    BY <2>1, <2>2
<1>2. CASE PolicyStep
  <2>1. Gateway \in Account /\ Owner \in Account /\ Agent \in Account
    BY AccountAssumption, WorkerAssumption
  <2>2. CASE \E r \in RequestId, t \in Terms, approved \in BOOLEAN :
               queue_request(Gateway, Agent, r, t, approved)
    BY <2>1, <2>2 DEF RequestStep, Next
  <2>3. CASE register_authority(Gateway)
    BY <2>1, <2>3 DEF register_authority, Next
  <2>4. CASE \E active \in BOOLEAN : set_policy_active(Owner, active)
    BY <2>1, <2>4 DEF Next
  <2>5. QED
    BY <1>2, <2>2, <2>3, <2>4 DEF PolicyStep
<1>3. Aside => [Next]_vars
  BY <1>2 DEF Aside, VaultOwnerStep, Clock, Mint, allVars, Next
<1>4. QED
  BY <1>1, <1>3 DEF RunStep, Starts, Posts, Sends, Refrains, Lands, Leaves

(* The terms of a request in a queue, and the vault call they lead to.      *)
LEMMA ApprovedTerms ==
  ASSUME SettlementTypeOK, NEW r \in RequestId, Approved(r)
  PROVE  /\ Stored(r) /\ requests[r] \in Request
         /\ requests[r].terms.recipient \in Recipient
         /\ requests[r].terms.amount \in Amount /\ requests[r].terms.amount \in Nat
<1>1. Stored(r) /\ requests[r] \in Request
  BY TypeParts, StoredIsRequest DEF Approved, Stored
<1>2. QED
  BY <1>1, NumberAssumption DEF Request, Terms

(* So does the vault: it is paid from by its executor and withdrawn from    *)
(* and paused by its owner.                                                 *)
LEMMA VaultMoves ==
  ASSUME SettlementTypeOK, OnApproved, FeesQuoted, RunStep
  PROVE  [VaultProofs!Next]_vault
<1> USE DEF vault, chain, VaultProofs!Next
<1>1. Owner \in Account /\ Signer \in Account
  BY AccountAssumption, WorkerAssumption
<1>2. ASSUME sent # <<>>, sent' = Tail(sent), VaultSettles(Head(sent))
      PROVE  VaultProofs!Next
  <2>1. PICK tx : /\ tx = Head(sent) /\ tx.request \in RequestId
                  /\ Approved(tx.request)
                  /\ Bridges(tx.request) => tx.fee \in Fee
    BY <1>2, TypeParts, SentTaken DEF OnApproved, FeesQuoted
  <2>2. PICK t : /\ t = requests[tx.request].terms
                 /\ t.recipient \in Recipient /\ t.amount \in Amount
    BY <2>1, ApprovedTerms
  <2>3. CASE Bridges(tx.request)
    <3>1. Vault!payoutCrossChain(Signer, tx.request, t.recipient, t.amount, tx.fee)
      BY <1>2, <2>1, <2>2, <2>3 DEF VaultSettles
    <3>2. VaultProofs!payoutCrossChain(Signer, tx.request, t.recipient, t.amount,
                                       tx.fee)
      BY <3>1 DEF Vault!payoutCrossChain, Vault!CanPayCrossChain, Vault!CanPay,
                  Vault!availableBalance, Vault!Settle, Vault!controls,
                  VaultProofs!payoutCrossChain, VaultProofs!CanPayCrossChain,
                  VaultProofs!CanPay, VaultProofs!availableBalance,
                  VaultProofs!Settle, VaultProofs!controls
    <3>3. VaultProofs!PayStep(Signer)
      BY <2>1, <2>2, <2>3, <3>2 DEF VaultProofs!PayStep
    <3>4. QED
      BY <1>1, <3>3
  <2>4. CASE ~Bridges(tx.request)
    <3>1. Vault!payout(Signer, tx.request, t.recipient, t.amount)
      BY <1>2, <2>1, <2>2, <2>4 DEF VaultSettles
    <3>2. VaultProofs!payout(Signer, tx.request, t.recipient, t.amount)
      BY <3>1 DEF Vault!payout, Vault!CanPay, Vault!availableBalance,
                  Vault!AfterTransfer, Vault!Settle, Vault!controls,
                  VaultProofs!payout, VaultProofs!CanPay,
                  VaultProofs!availableBalance, VaultProofs!AfterTransfer,
                  VaultProofs!Settle, VaultProofs!controls
    <3>3. VaultProofs!PayStep(Signer)
      BY <2>1, <2>2, <3>2 DEF VaultProofs!PayStep
    <3>4. QED
      BY <1>1, <3>3
  <2>5. QED
    BY <2>3, <2>4
<1>3. CASE VaultOwnerStep
  <2>1. ASSUME NEW flag \in BOOLEAN, Vault!setPaused(Owner, flag)
        PROVE  VaultProofs!Next
    <3>1. VaultProofs!setPaused(Owner, flag)
      BY <2>1 DEF Vault!setPaused, VaultProofs!setPaused
    <3>2. QED
      BY <1>1, <3>1 DEF VaultProofs!ControlStep
  <2>2. ASSUME NEW recipient \in Recipient, NEW amount \in Amount,
               Vault!withdraw(Owner, recipient, amount)
        PROVE  VaultProofs!Next
    <3>1. VaultProofs!withdraw(Owner, recipient, amount)
      BY <2>2 DEF Vault!withdraw, Vault!AfterTransfer, Vault!controls,
                  VaultProofs!withdraw, VaultProofs!AfterTransfer,
                  VaultProofs!controls
    <3>2. QED
      BY <1>1, <3>1 DEF VaultProofs!AmountStep
  <2>3. QED
    BY <1>3, <2>1, <2>2 DEF VaultOwnerStep
<1>4. Aside => [VaultProofs!Next]_vault
  BY <1>3 DEF Aside, PolicyStep, Clock, Mint, allVars
<1>5. ASSUME NEW ok \in BOOLEAN, Lands(ok) PROVE [VaultProofs!Next]_vault
  BY <1>2, <1>5 DEF Lands
<1>6. QED
  BY <1>4, <1>5 DEF RunStep, Starts, Posts, Applies, Sends, Refrains, Leaves

-----------------------------------------------------------------------------
(* What was decided about a request, and the way it is to be paid, stays.   *)
LEMMA RequestsStay ==
  ASSUME PolicyInv, [Next]_vars, NEW r \in RequestId, Stored(r)
  PROVE  /\ Stored(r)' /\ (Approved(r)' <=> Approved(r))
         /\ requests'[r].terms = requests[r].terms
         /\ RouteOfRequest(r)' = RouteOfRequest(r)
         /\ Bridges(r)' <=> Bridges(r)
<1>1. /\ requests'[r].terms = requests[r].terms
      /\ requests'[r].verdict = requests[r].verdict
  BY DecisionStep DEF DecisionKept, vars
<1>2. QED
  BY <1>1 DEF Stored, Approved, RouteOfRequest, RouteOf, Bridges

(* A worker that is busy after a step was so before, for the same request   *)
(* and since the same time, or has just been started.                       *)
Carries(v) ==
  Busy(v)' => /\ Busy(v)
              /\ worker'[v].request = worker[v].request
              /\ worker'[v].since = worker[v].since

(* A move of one worker keeps its run, and those of the others.             *)
LEMMA GoesCarries ==
  ASSUME NEW w \in Worker, NEW pc, Goes(w, pc), pc # "idle" => Busy(w), Others(w)
  PROVE  \A v \in Worker : Carries(v)
BY DEF Goes, Others, Carries, Busy, Idle

(* So does an answer.                                                       *)
LEMMA AnsweredCarries ==
  ASSUME WorkersTyped, NEW by \in Worker \cup {Nobody}, NEW ok \in BOOLEAN,
         Answered(by, ok)
  PROVE  \A v \in Worker : Carries(v)
<1>1. CASE by \in Worker
  <2>1. PICK pc : pc = Resume(worker[by].pc, ok)
    OBVIOUS
  <2>2. worker[by].pc \in Place
    BY <1>1, Places DEF WorkersTyped, Run, Idle
  <2>3. pc # "idle" => Busy(by)
    BY <2>1, <2>2, ResumePlace DEF Busy
  <2>4. Goes(by, pc) /\ Others(by)
    BY <1>1, <2>1 DEF Answered
  <2>5. QED
    BY <1>1, <2>3, <2>4, GoesCarries
<1>2. CASE by \notin Worker
  <2>1. \A v \in Worker : worker'[v] = worker[v]
    BY <1>2 DEF Answered, Others
  <2>2. QED
    BY <2>1 DEF Carries, Busy
<1>3. QED
  BY <1>1, <1>2

(* Every step carries each worker on or starts it.                          *)
LEMMA WorkersCarry ==
  ASSUME SettlementTypeOK, RunStep
  PROVE  \A v \in Worker :
           \/ Carries(v)
           \/ \E r \in RequestId, pc \in {"claim", "attest"} : Starts(v, r, pc)
<1>1. WorkersTyped
  BY TypeParts
<1>2. ASSUME NEW w \in Worker, NEW r \in RequestId, NEW pc \in {"claim", "attest"},
             Starts(w, r, pc), NEW v \in Worker
      PROVE  Carries(v) \/ Starts(v, r, pc)
  BY <1>2 DEF Starts, Others, Carries, Busy
<1>3. ASSUME NEW w \in Worker, Posts(w)
      PROVE  \A v \in Worker : Carries(v)
  BY <1>3, GoesCarries DEF Posts, Submits, Busy
<1>4. ASSUME NEW ok \in BOOLEAN, Applies(ok)
      PROVE  \A v \in Worker : Carries(v)
  BY <1>1, <1>4, TypeParts, WritesTaken, AnsweredCarries DEF Applies
<1>5. ASSUME NEW w \in Worker, NEW fee \in Fee \cup {0},
             Sends(w, fee) \/ Refrains(w)
      PROVE  \A v \in Worker : Carries(v)
  BY <1>5, GoesCarries DEF Sends, Refrains, Busy
<1>6. ASSUME NEW ok \in BOOLEAN, Lands(ok)
      PROVE  \A v \in Worker : Carries(v)
  BY <1>1, <1>6, TypeParts, SentTaken, AnsweredCarries DEF Lands
<1>7. ASSUME NEW w \in Worker, NEW pc \in {"idle", "fail"}, Leaves(w, pc)
      PROVE  \A v \in Worker : Carries(v)
  BY <1>7, GoesCarries DEF Leaves
<1>8. CASE Aside
  BY <1>8 DEF Aside, Carries, Busy
<1>9. QED
  BY <1>2, <1>3, <1>4, <1>5, <1>6, <1>7, <1>8 DEF RunStep

(* A step shortens a queue, disowns some of it, or appends one element.     *)
LEMMA QueuesMove ==
  ASSUME SettlementTypeOK, RunStep
  PROVE  /\ WorkersTyped' /\ writes' \in Writes /\ sent' \in Payments
         /\ OldWrites(0) \/ OldWrites(1) \/ \E w \in Worker : Posts(w)
         /\ \/ OldSent(0) \/ OldSent(1)
            \/ \E w \in Worker, fee \in Fee \cup {0} : Sends(w, fee)
<1>1. /\ WorkersTyped /\ writes \in Writes /\ sent \in Payments
      /\ \A w \in Worker : Busy(w) => worker[w] \in Run
  BY TypeParts
<1>2. ASSUME NEW w \in Worker, NEW r \in RequestId, NEW pc \in {"claim", "attest"},
             Starts(w, r, pc)
      PROVE  /\ WorkersTyped' /\ writes' \in Writes /\ sent' \in Payments
             /\ OldWrites(0) /\ OldSent(0)
  BY <1>1, <1>2, QueuesSame DEF Starts
<1>3. ASSUME NEW w \in Worker, Posts(w)
      PROVE  /\ WorkersTyped' /\ writes' \in Writes /\ sent' \in Payments
             /\ OldSent(0)
  <2>1. worker[w] \in Run /\ OpOf(w) \in Op
    BY <1>1, <1>3 DEF Posts, Submits, Busy, OpOf, Op
  <2>2. PICK tx \in [op : Op, request : RequestId, by : Worker \cup {Nobody}] :
          writes' = Append(writes, tx)
    BY <1>3, <2>1 DEF Posts, Run
  <2>3. writes' \in Writes
    BY <1>1, <2>2, AppendOf DEF Writes
  <2>4. QED
    BY <1>1, <1>3, <2>3, QueuesSame DEF Posts
<1>4. ASSUME NEW ok \in BOOLEAN, Applies(ok)
      PROVE  /\ WorkersTyped' /\ writes' \in Writes /\ sent' \in Payments
             /\ OldWrites(1) /\ OldSent(0)
  BY <1>1, <1>4, WritesTaken, QueuesSame DEF Applies, Answered
<1>5. ASSUME NEW w \in Worker, NEW fee \in Fee \cup {0}, Sends(w, fee)
      PROVE  /\ WorkersTyped' /\ writes' \in Writes /\ sent' \in Payments
             /\ OldWrites(0)
  <2>1. worker[w] \in Run
    BY <1>1, <1>5 DEF Sends, Busy
  <2>2. PICK tx \in [request : RequestId, fee : Fee \cup {0},
                     by : Worker \cup {Nobody}] : sent' = Append(sent, tx)
    BY <1>5, <2>1 DEF Sends, Run
  <2>3. sent' \in Payments
    BY <1>1, <2>2, AppendOf DEF Payments
  <2>4. QED
    BY <1>1, <1>5, <2>3, QueuesSame DEF Sends
<1>6. ASSUME NEW w \in Worker, Refrains(w)
      PROVE  /\ WorkersTyped' /\ writes' \in Writes /\ sent' \in Payments
             /\ OldWrites(0) /\ OldSent(0)
  BY <1>1, <1>6, QueuesSame DEF Refrains
<1>7. ASSUME NEW ok \in BOOLEAN, Lands(ok)
      PROVE  /\ WorkersTyped' /\ writes' \in Writes /\ sent' \in Payments
             /\ OldWrites(0) /\ OldSent(1)
  BY <1>1, <1>7, SentTaken, QueuesSame DEF Lands, Answered
<1>8. ASSUME NEW w \in Worker, NEW pc \in {"idle", "fail"}, Leaves(w, pc)
      PROVE  /\ WorkersTyped' /\ writes' \in Writes /\ sent' \in Payments
             /\ OldWrites(0) /\ OldSent(0)
  BY <1>1, <1>8, WritesForsaken, SentForsaken DEF Leaves, Abandon
<1>9. CASE Aside
  <2>1. WorkersTyped'
    BY <1>1, <1>9 DEF Aside, WorkersTyped
  <2>2. QED
    BY <1>1, <1>9, <2>1, QueuesSame DEF Aside
<1>10. QED
  BY <1>2, <1>3, <1>4, <1>5, <1>6, <1>7, <1>8, <1>9 DEF RunStep

-----------------------------------------------------------------------------
(* The base is inductive: types, and the invariants of contract and vault.  *)
LEMMA PartsMove ==
  ASSUME BaseInv, [SettlementNext]_allVars
  PROVE  SettlementTypeOK' /\ PolicyInv' /\ VaultProofs!VaultInv'
<1>1. /\ SettlementTypeOK /\ PolicyInv /\ HashTrail /\ VaultProofs!VaultInv
      /\ OnApproved /\ FeesQuoted
  BY DEF BaseInv, PolicyInv
<1>2. RunStep
  BY <1>1, NextIsRunStep
<1>3. PolicyInv'
  BY <1>1, <1>2, PolicyMoves, InvStep
<1>4. VaultProofs!VaultInv'
  <2>1. [VaultProofs!Next]_VaultProofs!vaultVars
    BY <1>1, <1>2, VaultMoves DEF vault, VaultProofs!vaultVars
  <2>2. QED
    BY <1>1, <2>1, VaultConstants, VaultProofs!VaultStep
<1>5. Vault!TypeOK'
  BY <1>4 DEF VaultProofs!VaultInv, VaultProofs!TypeOK, Vault!TypeOK,
              VaultProofs!Settlement, Vault!Settlement
<1>6. faults' \in 0..MaxFaults
  <2>1. faults \in 0..MaxFaults /\ MaxFaults \in Nat
    BY <1>1, WorkerAssumption DEF SettlementTypeOK
  <2>2. faults' = faults \/ Fault
    BY DEF SettlementNext, WorkerStep, Select, SelectBridged, Write, Pay, Expire,
           Stop, ChainStep, Apply, LandVault, LandRelayed, Mint, FaultStep, Crash,
           GiveUp, LoseWrite, LosePayment, PolicyStep, VaultOwnerStep, Clock,
           allVars, chain
  <2>3. QED
    BY <2>1, <2>2 DEF Fault
<1>7. relayed' \in [RequestId -> Nat] /\ minted' \subseteq RequestId
  <2>1. relayed \in [RequestId -> Nat] /\ minted \subseteq RequestId
    BY <1>1 DEF SettlementTypeOK
  <2>2. ASSUME NEW ok \in BOOLEAN, Lands(ok)
        PROVE  relayed' \in [RequestId -> Nat] /\ minted' \subseteq RequestId
    BY <1>1, <2>1, <2>2, TypeParts, SentTaken DEF Lands
  <2>3. Aside => relayed' \in [RequestId -> Nat] /\ minted' \subseteq RequestId
    BY <2>1 DEF Aside, PolicyStep, VaultOwnerStep, Clock, Mint, allVars, chain
  <2>4. QED
    BY <1>2, <2>1, <2>2, <2>3
    DEF RunStep, Starts, Posts, Applies, Sends, Refrains, Leaves, chain
<1>8. WorkersTyped' /\ writes' \in Writes /\ sent' \in Payments
  BY <1>1, <1>2, QueuesMove
<1>9. QED
  BY <1>3, <1>4, <1>5, <1>6, <1>7, <1>8
  DEF SettlementTypeOK, PolicyInv, WorkersTyped, Writes, Payments, Run

(* Workers and queues stay about approved requests, burns about quoted fees.*)
LEMMA AboutApproved ==
  ASSUME BaseInv, RunStep, SettlementTypeOK'
  PROVE  OnApproved' /\ FeesQuoted'
<1>1. /\ SettlementTypeOK /\ PolicyInv /\ [Next]_vars /\ OnApproved /\ FeesQuoted
  BY PolicyMoves DEF BaseInv
<1>2. /\ WorkersTyped /\ writes \in Writes /\ sent \in Payments
      /\ \A w \in Worker : Busy(w) => worker[w] \in Run
  BY <1>1, TypeParts
<1>3. \A r \in RequestId : Approved(r) =>
        Approved(r)' /\ (Bridges(r)' <=> Bridges(r))
  BY <1>1, RequestsStay DEF Approved, Stored
<1>4. \A w \in Worker : Busy(w)' => Approved(worker[w].request)'
  <2> SUFFICES ASSUME NEW w \in Worker, Busy(w)'
               PROVE  Approved(worker[w].request)'
    OBVIOUS
  <2>1. CASE Carries(w)
    BY <1>1, <1>2, <1>3, <2>1 DEF Carries, OnApproved, Run
  <2>2. ASSUME NEW r \in RequestId, NEW pc \in {"claim", "attest"}, Starts(w, r, pc)
        PROVE  Approved(worker[w].request)'
    BY <1>3, <2>2 DEF Starts
  <2>3. QED
    BY <1>1, <2>1, <2>2, WorkersCarry
<1>5. \A i \in DOMAIN writes : writes[i].request \in RequestId /\ Approved(writes[i].request)
  BY <1>1, <1>2, WritesHold DEF OnApproved
<1>6. \A i \in DOMAIN writes' : Approved(writes[i].request)'
  <2>1. ASSUME NEW w \in Worker, Posts(w), NEW i \in DOMAIN writes'
        PROVE  Approved(writes[i].request)'
    <3>1. Busy(w) /\ worker[w] \in Run /\ OpOf(w) \in Op
      BY <1>2, <2>1 DEF Posts, Submits, Busy, OpOf, Op
    <3>2. PICK tx \in [op : Op, request : RequestId, by : Worker \cup {Nobody}] :
            writes' = Append(writes, tx) /\ tx.request = worker[w].request
      BY <2>1, <3>1 DEF Posts, Run
    <3>3. \/ i \in DOMAIN writes /\ writes'[i] = writes[i]
          \/ writes'[i] = tx
      BY <1>2, <2>1, <3>2, AppendOf DEF Writes
    <3>4. QED
      BY <1>1, <1>3, <1>5, <3>1, <3>2, <3>3 DEF OnApproved
  <2>2. CASE OldWrites(0)
    BY <1>3, <1>5, <2>2 DEF OldWrites
  <2>3. CASE OldWrites(1)
    BY <1>3, <1>5, <2>3 DEF OldWrites
  <2>4. QED
    BY <1>1, <2>1, <2>2, <2>3, QueuesMove
<1>7. \A i \in DOMAIN sent : /\ sent[i].request \in RequestId
                             /\ Approved(sent[i].request)
                             /\ Bridges(sent[i].request) => sent[i].fee \in Fee
  BY <1>1, <1>2, SentHolds DEF OnApproved, FeesQuoted
<1>8. \A i \in DOMAIN sent' :
        /\ Approved(sent[i].request)'
        /\ Bridges(sent[i].request)' => sent'[i].fee \in Fee
  <2>1. ASSUME NEW w \in Worker, NEW fee \in Fee \cup {0}, Sends(w, fee),
               NEW i \in DOMAIN sent'
        PROVE  /\ Approved(sent[i].request)'
               /\ Bridges(sent[i].request)' => sent'[i].fee \in Fee
    <3>1. Busy(w) /\ worker[w] \in Run
      BY <1>2, <2>1 DEF Sends, Busy
    <3>2. PICK tx \in [request : RequestId, fee : Fee \cup {0},
                       by : Worker \cup {Nobody}] :
            /\ sent' = Append(sent, tx) /\ tx.request = worker[w].request
            /\ Bridges(tx.request) => tx.fee \in Fee
      BY <2>1, <3>1 DEF Sends, Run, Quotes
    <3>3. \/ i \in DOMAIN sent /\ sent'[i] = sent[i]
          \/ sent'[i] = tx
      BY <1>2, <2>1, <3>2, AppendOf DEF Payments
    <3>4. QED
      BY <1>1, <1>3, <1>7, <3>1, <3>2, <3>3 DEF OnApproved
  <2>2. CASE OldSent(0)
    BY <1>3, <1>7, <2>2 DEF OldSent
  <2>3. CASE OldSent(1)
    BY <1>3, <1>7, <2>3 DEF OldSent
  <2>4. QED
    BY <1>1, <2>1, <2>2, <2>3, QueuesMove
<1>9. QED
  BY <1>4, <1>6, <1>8 DEF OnApproved, FeesQuoted

(* Time passes only while every run has duration left.                      *)
LEMMA RunsEnd ==
  ASSUME BaseInv, RunStep
  PROVE  Timely'
<1>1. /\ SettlementTypeOK /\ [Next]_vars /\ Timely /\ now \in Nat
      /\ \A w \in Worker : Busy(w) => worker[w].since \in Nat
      /\ MaxDuration \in Nat
  BY PolicyMoves, TypeParts, WorkerAssumption DEF BaseInv, TypeOK, Run
<1> SUFFICES ASSUME NEW w \in Worker, Busy(w)'
             PROVE  /\ worker'[w].since <= now'
                    /\ now' - worker'[w].since <= MaxDuration
  BY DEF Timely
<1>2. CASE \E r \in RequestId, pc \in {"claim", "attest"} : Starts(w, r, pc)
  BY <1>1, <1>2 DEF Starts, vars
<1>3. CASE Carries(w)
  <2>1. CASE now' = now
    BY <1>1, <1>3, <2>1 DEF Carries, Timely
  <2>2. CASE Aside /\ Clock
    BY <1>1, <1>3, <2>2 DEF Carries, Timely, Clock, Tick
  <2>3. Aside => now' = now \/ Clock
    BY DEF Aside, PolicyStep, VaultOwnerStep, Mint, allVars, vars, queue_request,
           register_authority, register_vault, register_delegation,
           set_policy_active
  <2>4. ASSUME NEW ok \in BOOLEAN, Applies(ok) PROVE now' = now
    <3>1. \A op \in Op, r \in RequestId : Effect(op, r) => now' = now
      BY DEF Op, Effect, claim_execution, record_execution, record_bridge_initiated,
             record_execution_failure, record_bridge_attested
    <3>2. Head(writes).op \in Op /\ Head(writes).request \in RequestId
      BY <1>1, <2>4, TypeParts, WritesTaken DEF Applies
    <3>3. QED
      BY <2>4, <3>1, <3>2 DEF Applies, vars
  <2>5. QED
    BY <2>1, <2>2, <2>3, <2>4
    DEF RunStep, Starts, Posts, Sends, Refrains, Lands, Leaves, vars
<1>4. QED
  BY <1>1, <1>2, <1>3, WorkersCarry

(* The places of waiting are neither idle nor places where a worker submits *)
(* something or is paid attention to by the other queue.                    *)
LEMMA WaitingPlaces ==
  /\ \A op \in Op : WaitsFor(op) \in {"claiming", "recording", "failing",
                                      "attesting", "closing"}
  /\ \A w : worker[w].pc \in Submits =>
       /\ OpOf(w) \in Op /\ WaitsFor(OpOf(w)) = Waiting[worker[w].pc]
       /\ Waiting[worker[w].pc] \in {"claiming", "recording", "failing",
                                     "attesting", "closing"}
BY Places DEF Op, WaitsFor, Submits, OpOf

(* A step of one worker that leaves nothing of it in the queues keeps the   *)
(* others waiting for what is theirs.                                       *)
LEMMA OthersWait ==
  ASSUME Awaited, NEW w, Others(w), NEW k \in {0, 1}, NEW l \in {0, 1},
         OldWrites(k), OldSent(l), w \in Worker \cup {Nobody},
         \A i \in DOMAIN writes' : writes'[i].by = w => w = Nobody,
         \A i \in DOMAIN sent' : sent'[i].by = w => w = Nobody
  PROVE  Awaited'
<1> USE WorkerAssumption
<1>1. \A i \in DOMAIN writes' : writes'[i].by \in Worker =>
        /\ worker'[writes'[i].by].pc = WaitsFor(writes'[i].op)
        /\ worker'[writes'[i].by].request = writes'[i].request
  BY DEF Awaited, Others, OldWrites
<1>2. \A i \in DOMAIN sent' : sent'[i].by \in Worker =>
        /\ worker'[sent'[i].by].pc = "paying"
        /\ worker'[sent'[i].by].request = sent'[i].request
  BY DEF Awaited, Others, OldSent
<1>3. \A i, j \in DOMAIN writes' :
        writes'[i].by = writes'[j].by /\ writes'[i].by \in Worker => i = j
  <2> SUFFICES ASSUME NEW i \in DOMAIN writes', NEW j \in DOMAIN writes',
                      writes'[i].by = writes'[j].by, writes'[i].by \in Worker
               PROVE  i = j
    OBVIOUS
  <2>1. /\ i + k \in DOMAIN writes /\ j + k \in DOMAIN writes
        /\ writes[i + k].by = writes'[i].by /\ writes[j + k].by = writes'[j].by
        /\ i \in Nat /\ j \in Nat
    BY DEF OldWrites
  <2>2. i + k = j + k
    BY <2>1 DEF Awaited
  <2>3. QED
    BY <2>1, <2>2
<1>4. \A i, j \in DOMAIN sent' :
        sent'[i].by = sent'[j].by /\ sent'[i].by \in Worker => i = j
  <2> SUFFICES ASSUME NEW i \in DOMAIN sent', NEW j \in DOMAIN sent',
                      sent'[i].by = sent'[j].by, sent'[i].by \in Worker
               PROVE  i = j
    OBVIOUS
  <2>1. /\ i + l \in DOMAIN sent /\ j + l \in DOMAIN sent
        /\ sent[i + l].by = sent'[i].by /\ sent[j + l].by = sent'[j].by
        /\ i \in Nat /\ j \in Nat
    BY DEF OldSent
  <2>2. i + l = j + l
    BY <2>1 DEF Awaited
  <2>3. QED
    BY <2>1, <2>2
<1>5. QED
  BY <1>1, <1>2, <1>3, <1>4 DEF Awaited

(* A worker that is not at a place of waiting has nothing in the queues.    *)
LEMMA NothingAwaited ==
  ASSUME SettlementTypeOK, Awaited, NEW w \in Worker
  PROVE  /\ worker[w].pc \notin {"claiming", "recording", "failing", "attesting",
                                 "closing"}
              => \A i \in DOMAIN writes : writes[i].by # w
         /\ worker[w].pc # "paying" => \A i \in DOMAIN sent : sent[i].by # w
<1>1. \A i \in DOMAIN writes : writes[i].op \in Op
  BY TypeParts, WritesHold
<1>2. QED
  BY <1>1, WaitingPlaces DEF Awaited

(* What is under way still answers to the worker that waits for it.         *)
LEMMA StillAwaited ==
  ASSUME BaseInv, RunStep
  PROVE  Awaited'
<1>1. /\ SettlementTypeOK /\ Awaited /\ WorkersTyped
      /\ writes \in Writes /\ sent \in Payments
  BY TypeParts DEF BaseInv
<1>2. ASSUME NEW w \in Worker, NEW r \in RequestId, NEW pc \in {"claim", "attest"},
             Starts(w, r, pc)
      PROVE  Awaited'
  <2>1. worker[w].pc = "idle"
    BY <1>2 DEF Starts, Busy
  <2>2. /\ writes' = writes /\ sent' = sent /\ OldWrites(0) /\ OldSent(0)
        /\ \A i \in DOMAIN writes : writes[i].by # w
        /\ \A i \in DOMAIN sent : sent[i].by # w
    BY <1>1, <1>2, <2>1, QueuesSame, NothingAwaited DEF Starts
  <2>3. QED
    BY <1>1, <1>2, <2>2, OthersWait DEF Starts
<1>3. ASSUME NEW w \in Worker, Posts(w)
      PROVE  Awaited'
  <2>1. PICK tx \in [op : Op, request : RequestId, by : Worker \cup {Nobody}] :
          /\ writes' = Append(writes, tx) /\ tx.by = w
          /\ tx.op = OpOf(w) /\ tx.request = worker[w].request
    <3>1. worker[w] \in Run /\ OpOf(w) \in Op
      BY <1>1, <1>3, TypeParts, WaitingPlaces DEF Posts, Submits, Busy
    <3>2. QED
      BY <1>3, <3>1 DEF Posts, Run
  <2>2. /\ sent' = sent
        /\ worker'[w].pc = WaitsFor(tx.op) /\ worker'[w].request = tx.request
        /\ \A i \in DOMAIN writes : writes[i].by # w
        /\ \A i \in DOMAIN sent : sent[i].by # w
    BY <1>1, <1>3, <2>1, WaitingPlaces, NothingAwaited DEF Posts, Goes, Submits
  <2>3. \A i \in DOMAIN writes' :
          \/ i \in DOMAIN writes /\ writes'[i] = writes[i]
          \/ i = Len(writes) + 1 /\ writes'[i] = tx
    BY <1>1, <2>1, AppendOf DEF Writes
  <2>4. QED
    BY <1>1, <1>3, <2>1, <2>2, <2>3 DEF Awaited, Posts, Others
<1>4. ASSUME NEW ok \in BOOLEAN, Applies(ok)
      PROVE  Awaited'
  <2>1. /\ OldWrites(1) /\ 1 \in DOMAIN writes /\ Head(writes) = writes[1]
        /\ writes[1].by \in Worker \cup {Nobody} /\ writes[1].op \in Op
        /\ \A i \in DOMAIN writes' : i # 0 /\ writes'[i] = writes[i + 1]
        /\ sent' = sent /\ OldSent(0) /\ Others(writes[1].by)
    BY <1>1, <1>4, WritesTaken, QueuesSame DEF Applies, Answered
  <2>2. PICK w \in Worker \cup {Nobody} : w = writes[1].by
    BY <2>1
  <2>3. \A i \in DOMAIN writes' : writes'[i].by = w => w = Nobody
    <3> SUFFICES ASSUME NEW i \in DOMAIN writes', writes'[i].by = w, w \in Worker
                 PROVE  FALSE
      BY WorkerAssumption
    <3>1. i \in Nat /\ i + 1 \in DOMAIN writes /\ writes[i + 1].by = writes[1].by
      BY <2>1, <2>2 DEF OldWrites
    <3>2. i + 1 = 1
      BY <1>1, <2>1, <2>2, <3>1 DEF Awaited
    <3>3. i = 0
      BY <3>1, <3>2
    <3>4. QED
      BY <2>1, <3>3
  <2>4. \A i \in DOMAIN sent' : sent'[i].by = w => w = Nobody
    BY <1>1, <2>1, <2>2, WaitingPlaces DEF Awaited
  <2>5. QED
    BY <1>1, <2>1, <2>2, <2>3, <2>4, OthersWait
<1>5. ASSUME NEW w \in Worker, NEW fee \in Fee \cup {0}, Sends(w, fee)
      PROVE  Awaited'
  <2>1. PICK tx \in [request : RequestId, fee : Fee \cup {0},
                     by : Worker \cup {Nobody}] :
          /\ sent' = Append(sent, tx) /\ tx.by = w
          /\ tx.request = worker[w].request
    <3>1. worker[w] \in Run
      BY <1>1, <1>5, TypeParts DEF Sends, Busy
    <3>2. QED
      BY <1>5, <3>1 DEF Sends, Run
  <2>2. /\ writes' = writes
        /\ worker'[w].pc = "paying" /\ worker'[w].request = tx.request
        /\ \A i \in DOMAIN writes : writes[i].by # w
        /\ \A i \in DOMAIN sent : sent[i].by # w
    BY <1>1, <1>5, <2>1, NothingAwaited DEF Sends, Goes
  <2>3. \A i \in DOMAIN sent' :
          \/ i \in DOMAIN sent /\ sent'[i] = sent[i]
          \/ i = Len(sent) + 1 /\ sent'[i] = tx
    BY <1>1, <2>1, AppendOf DEF Payments
  <2>4. QED
    BY <1>1, <1>5, <2>1, <2>2, <2>3 DEF Awaited, Sends, Others
<1>6. ASSUME NEW w \in Worker, Refrains(w)
      PROVE  Awaited'
  <2>1. /\ writes' = writes /\ sent' = sent /\ OldWrites(0) /\ OldSent(0)
        /\ \A i \in DOMAIN writes : writes[i].by # w
        /\ \A i \in DOMAIN sent : sent[i].by # w
    BY <1>1, <1>6, QueuesSame, NothingAwaited DEF Refrains
  <2>2. QED
    BY <1>1, <1>6, <2>1, OthersWait DEF Refrains
<1>7. ASSUME NEW ok \in BOOLEAN, Lands(ok)
      PROVE  Awaited'
  <2>1. /\ OldSent(1) /\ 1 \in DOMAIN sent /\ Head(sent) = sent[1]
        /\ sent[1].by \in Worker \cup {Nobody}
        /\ \A i \in DOMAIN sent' : i # 0 /\ sent'[i] = sent[i + 1]
        /\ writes' = writes /\ OldWrites(0) /\ Others(sent[1].by)
    BY <1>1, <1>7, SentTaken, QueuesSame DEF Lands, Answered
  <2>2. PICK w \in Worker \cup {Nobody} : w = sent[1].by
    BY <2>1
  <2>3. \A i \in DOMAIN sent' : sent'[i].by = w => w = Nobody
    <3> SUFFICES ASSUME NEW i \in DOMAIN sent', sent'[i].by = w, w \in Worker
                 PROVE  FALSE
      BY WorkerAssumption
    <3>1. i \in Nat /\ i + 1 \in DOMAIN sent /\ sent[i + 1].by = sent[1].by
      BY <2>1, <2>2 DEF OldSent
    <3>2. i + 1 = 1
      BY <1>1, <2>1, <2>2, <3>1 DEF Awaited
    <3>3. i = 0
      BY <3>1, <3>2
    <3>4. QED
      BY <2>1, <3>3
  <2>4. \A i \in DOMAIN writes' : writes'[i].by = w => w = Nobody
    <3>1. w \in Worker => worker[w].pc = "paying"
      BY <1>1, <2>1, <2>2 DEF Awaited
    <3>2. QED
      BY <1>1, <2>1, <3>1, NothingAwaited
  <2>5. QED
    BY <1>1, <2>1, <2>2, <2>3, <2>4, OthersWait
<1>8. ASSUME NEW w \in Worker, NEW pc \in {"idle", "fail"}, Leaves(w, pc)
      PROVE  Awaited'
  <2>1. /\ OldWrites(0) /\ OldSent(0) /\ Others(w)
        /\ \A i \in DOMAIN writes' : writes'[i].by # w
        /\ \A i \in DOMAIN sent' : sent'[i].by # w
    BY <1>1, <1>8, WritesForsaken, SentForsaken DEF Leaves, Abandon
  <2>2. QED
    BY <1>1, <2>1, OthersWait
<1>9. CASE Aside
  BY <1>1, <1>9 DEF Aside, Awaited
<1>10. QED
  BY <1>2, <1>3, <1>4, <1>5, <1>6, <1>7, <1>8, <1>9 DEF RunStep

-----------------------------------------------------------------------------
(* What an accepted write does to its request, and to that one alone.       *)
LEMMA EffectOn ==
  ASSUME TypeOK, NEW op \in Op, NEW r \in RequestId, Effect(op, r)
  PROVE  /\ Stored(r) /\ requests[r] \in Request /\ now' = now
         /\ \A x \in RequestId : x # r => requests'[x] = requests[x]
         /\ op = "claim" =>
              /\ LeaseFree(r) /\ Approved(r) /\ requests[r].tx_hash = NoHash
              /\ requests'[r].status = "executing" /\ requests'[r].claimed_at = now
         /\ op \in {"record", "close"} =>
              requests[r].status = "executing" /\ requests'[r].status = "executed"
         /\ op = "fail" =>
              requests[r].status = "executing" /\ requests'[r].status = "failed"
         /\ op = "bridge" =>
              requests[r].status = "executing" /\ requests'[r].status = "bridging"
         /\ op = "attest" =>
              requests[r].status = "bridging" /\ requests'[r].status = "executing"
<1>1. Stored(r)
  BY DEF Effect, Op, claim_execution, CanClaim, record_execution,
         CanRecordExecution, record_execution_failure, CanRecordFailure,
         record_bridge_initiated, CanRecordBridge, record_bridge_attested,
         CanRecordAttested, Approved, Stored
<1>2. requests[r] \in Request
  BY <1>1, StoredIsRequest
<1>3. requests \in [RequestId -> Request \cup {NotStored}]
  BY DEF TypeOK
<1>4. now' = now /\ \A x \in RequestId : x # r => requests'[x] = requests[x]
  BY <1>3 DEF Effect, Op, claim_execution, record_execution,
              record_execution_failure, record_bridge_initiated,
              record_bridge_attested
<1>5. CASE op = "claim"
  BY <1>1, <1>2, <1>3, <1>4, <1>5 DEF Effect, claim_execution, CanClaim, Request
<1>6. CASE op = "record"
  BY <1>1, <1>2, <1>3, <1>4, <1>6
  DEF Effect, record_execution, CanRecordExecution, Request
<1>7. CASE op = "close"
  BY <1>1, <1>2, <1>3, <1>4, <1>7
  DEF Effect, record_execution, CanRecordExecution, Request
<1>8. CASE op = "fail"
  BY <1>1, <1>2, <1>3, <1>4, <1>8
  DEF Effect, record_execution_failure, CanRecordFailure, Request
<1>9. CASE op = "bridge"
  BY <1>1, <1>2, <1>3, <1>4, <1>9
  DEF Effect, record_bridge_initiated, CanRecordBridge, Request
<1>10. CASE op = "attest"
  BY <1>1, <1>2, <1>3, <1>4, <1>10
  DEF Effect, record_bridge_attested, CanRecordAttested, Request
<1>11. QED
  BY <1>5, <1>6, <1>7, <1>8, <1>9, <1>10 DEF Op

(* What others do to the requests meanwhile: at most, a new one is stored.  *)
LEMMA AsideOn ==
  ASSUME TypeOK, Aside
  PROVE  /\ \A x \in RequestId :
              \/ requests'[x] = requests[x]
              \/ /\ ~Stored(x) /\ Stored(x)'
                 /\ requests'[x].status \in {"ready", "not_applicable"}
                 /\ now' = now
         /\ now' = now \/ (Clock /\ requests' = requests)
<1>1. requests \in [RequestId -> Request \cup {NotStored}]
  BY DEF TypeOK
<1>2. ASSUME NEW r \in RequestId, NEW t \in Terms, NEW approved \in BOOLEAN,
             queue_request(Gateway, Agent, r, t, approved)
      PROVE  /\ now' = now
             /\ \A x \in RequestId :
                  \/ requests'[x] = requests[x]
                  \/ /\ ~Stored(x) /\ Stored(x)'
                     /\ requests'[x].status \in {"ready", "not_applicable"}
  <2>1. now' = now /\ ~Stored(r)
    BY <1>2 DEF queue_request, CanQueue
  <2>2. PICK q \in {StoredRequest(t, "denied", "not_applicable"),
                   StoredRequest(t, "approved", "ready")} :
          requests' = [requests EXCEPT ![r] = q]
    BY <1>2 DEF queue_request
  <2>3. q.verdict # "none" /\ q.status \in {"ready", "not_applicable"}
    BY <2>2 DEF StoredRequest
  <2>4. QED
    BY <1>1, <2>1, <2>2, <2>3 DEF Stored
<1>3. CASE PolicyStep
  BY <1>2, <1>3 DEF PolicyStep, register_authority, register_vault,
                    register_delegation, set_policy_active
<1>4. QED
  BY <1>3 DEF Aside, VaultOwnerStep, Clock, Tick, Mint, allVars, vars

(* The writes applied, with what is known of them.                          *)
LEMMA AppliedWrite ==
  ASSUME BaseInv, NEW ok \in BOOLEAN, Applies(ok)
  PROVE  /\ 1 \in DOMAIN writes /\ Head(writes) = writes[1]
         /\ writes[1].op \in Op /\ writes[1].request \in RequestId
         /\ writes[1].by \in Worker \cup {Nobody}
         /\ Stored(writes[1].request)
         /\ OldWrites(1) /\ sent' = sent
         /\ \A i \in DOMAIN writes' :
              /\ i \in Nat /\ i # 0 /\ i + 1 \in DOMAIN writes
              /\ writes'[i] = writes[i + 1]
         /\ Answered(writes[1].by, ok)
         /\ ok => Effect(writes[1].op, writes[1].request)
         /\ ~ok => UNCHANGED vars
         /\ now' = now
<1>1. /\ SettlementTypeOK /\ writes \in Writes /\ OnApproved /\ TypeOK
  BY TypeParts DEF BaseInv
<1>2. /\ OldWrites(1) /\ 1 \in DOMAIN writes /\ Head(writes) = writes[1]
      /\ writes[1].op \in Op /\ writes[1].request \in RequestId
      /\ writes[1].by \in Worker \cup {Nobody}
      /\ \A i \in DOMAIN writes' : i # 0 /\ writes'[i] = writes[i + 1]
  BY <1>1, WritesTaken DEF Applies
<1>3. ok => Effect(writes[1].op, writes[1].request)
  BY <1>2 DEF Applies
<1>4. now' = now
  BY <1>1, <1>2, <1>3, EffectOn DEF Applies, vars
<1>5. Stored(writes[1].request)
  BY <1>1, <1>2 DEF OnApproved, Approved, Stored
<1>6. QED
  BY <1>2, <1>3, <1>4, <1>5 DEF Applies, OldWrites

(* From which place a worker comes to the place it is at after a step.      *)
Advances(from, to) ==
  \/ from = to \/ to = "idle"
  \/ from = "claim" /\ to = "claiming"
  \/ from = "claiming" /\ to = "pay"
  \/ from = "pay" /\ to \in {"paying", "fail"}
  \/ from = "paying" /\ to \in {"record", "fail"}
  \/ from = "record" /\ to = "recording"
  \/ from = "recording" /\ to = "fail"
  \/ from = "fail" /\ to = "failing"
  \/ from = "attest" /\ to = "attesting"
  \/ from = "attesting" /\ to = "close"
  \/ from = "close" /\ to = "closing"

(* A worker that moves is where it moved to.                                *)
LEMMA GoesTo ==
  ASSUME NEW w \in Worker, NEW pc, Goes(w, pc)
  PROVE  worker'[w].pc = pc
BY DEF Goes, Idle

(* An answer moves a worker along the edges of its program.                 *)
LEMMA AnsweredAdvances ==
  ASSUME WorkersTyped, NEW by \in Worker \cup {Nobody}, NEW ok \in BOOLEAN,
         Answered(by, ok), NEW v \in Worker
  PROVE  Advances(worker[v].pc, worker'[v].pc)
<1>1. CASE v = by
  <2>1. worker[v].pc \in Place
    BY Places DEF WorkersTyped, Run, Idle
  <2>2. worker'[v].pc = Resume(worker[v].pc, ok)
    BY <1>1, GoesTo DEF Answered
  <2>3. QED
    BY <2>1, <2>2, ResumePlace DEF Advances
<1>2. CASE v # by
  BY <1>2 DEF Answered, Others, Advances
<1>3. QED
  BY <1>1, <1>2

(* Every step moves a worker along such an edge, or starts it.              *)
LEMMA WorkersAdvance ==
  ASSUME SettlementTypeOK, RunStep, NEW v \in Worker
  PROVE  \/ Advances(worker[v].pc, worker'[v].pc) /\ Carries(v)
         \/ \E r \in RequestId, pc \in {"claim", "attest"} : Starts(v, r, pc)
<1>1. WorkersTyped
  BY TypeParts
<1>2. SUFFICES ASSUME ~(\E r \in RequestId, pc \in {"claim", "attest"} :
                          Starts(v, r, pc))
               PROVE  Advances(worker[v].pc, worker'[v].pc)
  BY WorkersCarry
<1>3. ASSUME NEW w \in Worker, v # w, Others(w)
      PROVE  Advances(worker[v].pc, worker'[v].pc)
  BY <1>3 DEF Others, Advances
<1>4. ASSUME NEW w \in Worker, NEW r \in RequestId, NEW pc \in {"claim", "attest"},
             Starts(w, r, pc)
      PROVE  Advances(worker[v].pc, worker'[v].pc)
  BY <1>2, <1>3, <1>4 DEF Starts
<1>5. ASSUME NEW w \in Worker, Posts(w)
      PROVE  Advances(worker[v].pc, worker'[v].pc)
  BY <1>3, <1>5, GoesTo, Places DEF Posts, Submits, Advances
<1>6. ASSUME NEW ok \in BOOLEAN, Applies(ok)
      PROVE  Advances(worker[v].pc, worker'[v].pc)
  BY <1>1, <1>6, TypeParts, WritesTaken, AnsweredAdvances DEF Applies
<1>7. ASSUME NEW w \in Worker, NEW fee \in Fee \cup {0},
             Sends(w, fee) \/ Refrains(w)
      PROVE  Advances(worker[v].pc, worker'[v].pc)
  BY <1>3, <1>7, GoesTo DEF Sends, Refrains, Advances
<1>8. ASSUME NEW ok \in BOOLEAN, Lands(ok)
      PROVE  Advances(worker[v].pc, worker'[v].pc)
  BY <1>1, <1>8, TypeParts, SentTaken, AnsweredAdvances DEF Lands
<1>9. ASSUME NEW w \in Worker, NEW pc \in {"idle", "fail"}, Leaves(w, pc)
      PROVE  Advances(worker[v].pc, worker'[v].pc)
  BY <1>3, <1>9, GoesTo DEF Leaves, Advances
<1>10. CASE Aside
  BY <1>10 DEF Aside, Advances
<1>11. QED
  BY <1>4, <1>5, <1>6, <1>7, <1>8, <1>9, <1>10 DEF RunStep

(* The second stage stays for the payments that have one.                   *)
LEMMA StillSplit ==
  ASSUME BaseInv, RunStep
  PROVE  StagesSplit'
<1>1. /\ SettlementTypeOK /\ PolicyInv /\ [Next]_vars /\ OnApproved
      /\ StagesSplit /\ TypeOK
      /\ writes \in Writes /\ \A w \in Worker : Busy(w) => worker[w] \in Run
  BY PolicyMoves, TypeParts DEF BaseInv
<1>2. \A r \in RequestId : Stored(r) => Stored(r)' /\ (Bridges(r)' <=> Bridges(r))
  BY <1>1, RequestsStay
<1>3. ASSUME NEW w \in Worker, worker'[w].pc \in BridgeStage
      PROVE  Bridges(worker[w].request)'
  <2>1. ASSUME Carries(w), worker[w].pc \in BridgeStage
        PROVE  Bridges(worker[w].request)'
    <3>1. Busy(w) /\ Busy(w)' /\ worker[w].request \in RequestId
      BY <1>1, <1>3, <2>1 DEF BridgeStage, Busy, Run
    <3>2. Bridges(worker[w].request) /\ Stored(worker[w].request)
      BY <1>1, <2>1, <3>1 DEF StagesSplit, OnApproved, Approved, Stored
    <3>3. QED
      BY <1>2, <2>1, <3>1, <3>2 DEF Carries
  <2>2. ASSUME NEW r \in RequestId, NEW pc \in {"claim", "attest"}, Starts(w, r, pc)
        PROVE  Bridges(worker[w].request)'
    <3>1. worker'[w].pc = pc /\ worker'[w].request = r /\ Stored(r)
      BY <2>2 DEF Starts, Approved, Stored
    <3>2. pc = "attest" /\ requests[r].status = "bridging"
      BY <1>3, <2>2, <3>1 DEF Starts, BridgeStage
    <3>3. QED
      BY <1>1, <1>2, <3>1, <3>2 DEF StagesSplit
  <2>3. Advances(worker[w].pc, worker'[w].pc) => worker[w].pc \in BridgeStage
    BY <1>3 DEF Advances, BridgeStage
  <2>4. QED
    BY <1>1, <2>1, <2>2, <2>3, WorkersAdvance
<1>4. ASSUME NEW i \in DOMAIN writes'
      PROVE  /\ writes'[i].op \in BridgeOp => Bridges(writes[i].request)'
             /\ writes'[i].op = "record" => ~Bridges(writes[i].request)'
  <2>1. \A j \in DOMAIN writes :
          writes[j].request \in RequestId /\ Stored(writes[j].request)
    BY <1>1, WritesHold DEF OnApproved, Approved, Stored
  <2>2. ASSUME NEW w \in Worker, Posts(w)
        PROVE  /\ writes'[i].op \in BridgeOp => Bridges(writes[i].request)'
               /\ writes'[i].op = "record" => ~Bridges(writes[i].request)'
    <3>1. /\ Busy(w) /\ worker[w] \in Run /\ OpOf(w) \in Op
          /\ Stored(worker[w].request)
      BY <1>1, <2>2, WaitingPlaces
      DEF Posts, Submits, Busy, OnApproved, Approved, Stored
    <3>2. PICK tx \in [op : Op, request : RequestId, by : Worker \cup {Nobody}] :
            /\ writes' = Append(writes, tx) /\ tx.op = OpOf(w)
            /\ tx.request = worker[w].request
      BY <2>2, <3>1 DEF Posts, Run
    <3>3. /\ tx.op \in BridgeOp => Bridges(tx.request)
          /\ tx.op = "record" => ~Bridges(tx.request)
      BY <1>1, <2>2, <3>2 DEF Posts, Submits, OpOf, BridgeOp, BridgeStage, StagesSplit
    <3>4. \/ i \in DOMAIN writes /\ writes'[i] = writes[i]
          \/ writes'[i] = tx
      BY <1>1, <3>2, AppendOf DEF Writes
    <3>5. QED
      BY <1>1, <1>2, <2>1, <3>1, <3>2, <3>3, <3>4 DEF StagesSplit
  <2>3. CASE OldWrites(0)
    BY <1>1, <1>2, <2>1, <2>3 DEF OldWrites, StagesSplit
  <2>4. CASE OldWrites(1)
    BY <1>1, <1>2, <2>1, <2>4 DEF OldWrites, StagesSplit
  <2>5. QED
    BY <1>1, <2>2, <2>3, <2>4, QueuesMove
<1>5. ASSUME NEW r \in RequestId, Stored(r)', requests'[r].status = "bridging"
      PROVE  Bridges(r)'
  <2>1. CASE requests'[r] = requests[r]
    BY <1>1, <1>2, <1>5, <2>1 DEF StagesSplit, Stored
  <2>2. ASSUME NEW ok \in BOOLEAN, Applies(ok)
        PROVE  Bridges(r)'
    <3>1. CASE ok /\ r = writes[1].request
      <4>1. writes[1].op = "bridge"
        BY <1>1, <1>5, <2>2, <3>1, AppliedWrite, EffectOn DEF Op
      <4>2. QED
        BY <1>1, <1>2, <2>2, <3>1, <4>1, AppliedWrite DEF StagesSplit, BridgeOp
    <3>2. CASE ~(ok /\ r = writes[1].request)
      BY <1>1, <2>1, <2>2, <3>2, AppliedWrite, EffectOn DEF vars
    <3>3. QED
      BY <3>1, <3>2
  <2>3. CASE Aside
    BY <1>1, <1>5, <2>1, <2>3, AsideOn
  <2>4. QED
    BY <2>1, <2>2, <2>3
    DEF RunStep, Starts, Posts, Sends, Refrains, Lands, Leaves, vars
<1>6. QED
  BY <1>3, <1>4, <1>5 DEF StagesSplit

(* The base holds throughout.                                               *)
LEMMA BaseInit == SettlementInit => BaseInv
<1> SUFFICES ASSUME SettlementInit PROVE BaseInv
  OBVIOUS
<1>1. PolicyInv /\ TypeOK
  BY InvInit DEF SettlementInit, PolicyInv
<1>2. /\ writes = <<>> /\ sent = <<>> /\ DOMAIN writes = {} /\ DOMAIN sent = {}
      /\ writes \in Writes /\ sent \in Payments
      /\ WorkersTyped /\ \A w \in Worker : ~Busy(w)
  BY DEF SettlementInit, Writes, Payments, WorkersTyped, Busy, Idle
<1>3. VaultProofs!VaultInv /\ Vault!TypeOK
  <2>1. /\ executed \in [RequestId -> BOOLEAN]
        /\ settled \in [RequestId -> Seq(VaultProofs!Settlement)]
    BY DEF SettlementInit
  <2>2. VaultProofs!SettledOnce
    BY DEF SettlementInit, VaultProofs!SettledOnce
  <2>3. /\ balance = MaxHeld /\ feeReserve = Reserve /\ feeReserveCap = Reserve
        /\ paused = FALSE /\ executor = Signer /\ messenger_set = TRUE
    BY DEF SettlementInit
  <2>4. /\ MaxHeld \in Nat /\ Reserve \in Nat /\ Reserve <= MaxHeld
        /\ Signer \in Account
    BY WorkerAssumption
  <2>5. VaultProofs!TypeOK
    BY <2>1, <2>3, <2>4 DEF VaultProofs!TypeOK
  <2>6. VaultProofs!FeeReserveBacked /\ VaultProofs!ReserveWithinCap
    BY <2>3, <2>4 DEF VaultProofs!FeeReserveBacked, VaultProofs!ReserveWithinCap
  <2>7. QED
    BY <2>2, <2>5, <2>6
    DEF VaultProofs!VaultInv, VaultProofs!TypeOK, Vault!TypeOK,
        VaultProofs!Settlement, Vault!Settlement
<1>4. SettlementTypeOK
  BY <1>1, <1>2, <1>3, WorkerAssumption
  DEF SettlementTypeOK, SettlementInit, WorkersTyped, Writes, Payments, Run
<1>5. StagesSplit
  BY <1>2 DEF StagesSplit, BridgeStage, Busy, SettlementInit, Init, Stored, NotStored
<1>6. QED
  BY <1>1, <1>2, <1>3, <1>4, <1>5
  DEF BaseInv, OnApproved, FeesQuoted, Awaited, Timely

(* Every step keeps the base invariant.                                     *)
LEMMA BaseStep == BaseInv /\ [SettlementNext]_allVars => BaseInv'
<1> SUFFICES ASSUME BaseInv, [SettlementNext]_allVars PROVE BaseInv'
  OBVIOUS
<1>1. RunStep
  BY NextIsRunStep DEF BaseInv, PolicyInv
<1>2. SettlementTypeOK' /\ PolicyInv' /\ VaultProofs!VaultInv'
  BY PartsMove
<1>3. OnApproved' /\ FeesQuoted' /\ Awaited' /\ Timely' /\ StagesSplit'
  BY <1>1, <1>2, AboutApproved, StillAwaited, RunsEnd, StillSplit
<1>4. QED
  BY <1>2, <1>3 DEF BaseInv

(* The base invariant holds throughout.                                     *)
LEMMA BaseInvariance == SettlementSpec => []BaseInv
BY BaseInit, BaseStep, PTL DEF SettlementSpec

(* Contract, vault, workers and queues keep their types, whatever fails.    *)
THEOREM SettlementTypeCorrect == SettlementSpec => []SettlementTypeOK
<1>1. BaseInv => SettlementTypeOK
  BY DEF BaseInv
<1>2. QED
  BY <1>1, BaseInvariance, PTL

-----------------------------------------------------------------------------
(* The lease.  Steps that make nobody a payer of the request and send no    *)
(* new report about it keep its holder and the order of its reports.        *)
NoNewPayer(r) ==
  \A v \in Worker : worker'[v].pc = "pay" /\ worker'[v].request = r =>
    worker[v].pc = "pay"

OldReports(r, k) ==
  \A i \in DOMAIN writes' :
    writes'[i].op \in {"record", "fail"} /\ writes'[i].request = r =>
      /\ i \in Nat /\ i + k \in DOMAIN writes
      /\ writes[i + k].op = writes'[i].op /\ writes[i + k].request = r
      /\ \A w \in Worker :
           writes[i + k].by = w /\ worker'[w].pc = "failing" => writes'[i].by = w

(* Without a new payer of r, who holds r after a step held it before and    *)
(* has kept its start.                                                      *)
LEMMA HoldersOld ==
  ASSUME SettlementTypeOK, RunStep, NEW r \in RequestId, NoNewPayer(r),
         NEW v \in Worker, Holds(v, r)'
  PROVE  /\ Holds(v, r) /\ Advances(worker[v].pc, worker'[v].pc)
         /\ worker'[v].since = worker[v].since
         /\ Paying(v)' => Paying(v)
<1>1. worker'[v].pc \in AfterClaim /\ worker'[v].request = r
  BY DEF Holds
<1>2. ASSUME NEW x \in RequestId, NEW pc \in {"claim", "attest"}, Starts(v, x, pc)
      PROVE  FALSE
  <2>1. worker'[v].pc = pc
    BY <1>2 DEF Starts
  <2>2. QED
    BY <1>1, <2>1 DEF AfterClaim
<1>3. Advances(worker[v].pc, worker'[v].pc) /\ Carries(v)
  BY <1>2, WorkersAdvance
<1>4. worker[v].request = r /\ worker'[v].since = worker[v].since
  BY <1>1, <1>3 DEF Carries, Busy, AfterClaim
<1>5. worker[v].pc \in AfterClaim /\ (Paying(v)' => Paying(v))
  BY <1>1, <1>3 DEF NoNewPayer, Advances, AfterClaim, Paying
<1>6. QED
  BY <1>3, <1>4, <1>5 DEF Holds

(* Without a new payer of r and without new reports about r, what links the *)
(* reports under way to the holder of r is kept.                            *)
LEMMA ReportsKept ==
  ASSUME SettlementTypeOK, RunStep, NEW r \in RequestId, NEW k \in {0, 1},
         OneHolder(r), ReportsInOrder(r), ReportsMatchHolder(r),
         NoNewPayer(r), OldReports(r, k)
  PROVE  OneHolder(r)' /\ ReportsInOrder(r)' /\ ReportsMatchHolder(r)'
<1>1. OneHolder(r)'
  BY HoldersOld DEF OneHolder
<1>2. ReportsInOrder(r)'
  <2> SUFFICES ASSUME NEW i \in DOMAIN writes', NEW j \in DOMAIN writes',
                      i < j, Reports(i, r)', Reports(j, r)'
               PROVE  writes'[i].op = "record" /\ writes'[j].op = "fail"
    BY DEF ReportsInOrder
  <2>1. /\ i \in Nat /\ j \in Nat /\ i + k \in DOMAIN writes /\ j + k \in DOMAIN writes
        /\ writes[i + k].op = writes'[i].op /\ writes[i + k].request = r
        /\ writes[j + k].op = writes'[j].op /\ writes[j + k].request = r
    BY DEF OldReports, Reports
  <2>2. i + k < j + k
    BY <2>1
  <2>3. Reports(i + k, r) /\ Reports(j + k, r)
    BY <2>1 DEF Reports
  <2>4. QED
    BY <2>1, <2>2, <2>3 DEF ReportsInOrder
<1>3. ReportsMatchHolder(r)'
  <2> SUFFICES ASSUME NEW w \in Worker, NEW i \in DOMAIN writes',
                      Holds(w, r)', Reports(i, r)'
               PROVE  /\ worker'[w].pc \in {"recording", "fail", "failing"}
                      /\ writes'[i].op = "fail" =>
                           worker'[w].pc = "failing" /\ writes'[i].by = w
    BY DEF ReportsMatchHolder
  <2>1. Holds(w, r) /\ Advances(worker[w].pc, worker'[w].pc)
    BY HoldersOld
  <2>2. PICK j \in DOMAIN writes :
          /\ writes[j].op = writes'[i].op /\ Reports(j, r)
          /\ \A v \in Worker :
               writes[j].by = v /\ worker'[v].pc = "failing" => writes'[i].by = v
    BY DEF OldReports, Reports
  <2>3. /\ worker[w].pc \in {"recording", "fail", "failing"}
        /\ writes[j].op = "fail" => worker[w].pc = "failing" /\ writes[j].by = w
    BY <2>1, <2>2 DEF ReportsMatchHolder
  <2>4. worker'[w].pc \in AfterClaim
    BY DEF Holds
  <2>5. QED
    BY <2>1, <2>2, <2>3, <2>4 DEF Advances, AfterClaim
<1>4. QED
  BY <1>1, <1>2, <1>3

(* A live claimant stays older than the lease, as long as the request stays.*)
LEMMA ClaimantsOld ==
  ASSUME SettlementTypeOK, RunStep, NEW r \in RequestId, ClaimsFresh(r),
         requests'[r] = requests[r]
  PROVE  ClaimsFresh(r)'
<1> SUFFICES ASSUME NEW w \in Worker, worker'[w].pc \in {"claim", "claiming"},
                    worker'[w].request = r, requests'[r].status = "executing"
             PROVE  requests'[r].claimed_at >= worker'[w].since
  BY DEF ClaimsFresh
<1>1. ASSUME NEW x \in RequestId, NEW pc \in {"claim", "attest"}, Starts(w, x, pc)
      PROVE  FALSE
  BY <1>1 DEF Starts
<1>2. Advances(worker[w].pc, worker'[w].pc) /\ Carries(w)
  BY <1>1, WorkersAdvance
<1>3. /\ worker[w].pc \in {"claim", "claiming"} /\ worker[w].request = r
      /\ worker'[w].since = worker[w].since
  BY <1>2 DEF Advances, Carries, Busy
<1>4. QED
  BY <1>3 DEF ClaimsFresh

(* If the request itself stays as it is, so does its lease.                 *)
LEMMA LeaseKept ==
  ASSUME SettlementTypeOK, RunStep, NEW r \in RequestId, NEW k \in {0, 1},
         LeaseOf(r), requests'[r] = requests[r],
         NoNewPayer(r), OldReports(r, k)
  PROVE  LeaseOf(r)'
<1>1. OneHolder(r)' /\ ReportsInOrder(r)' /\ ReportsMatchHolder(r)'
  BY ReportsKept DEF LeaseOf
<1>2. PayersClaimed(r)'
  BY HoldersOld DEF LeaseOf, PayersClaimed, Holds, Paying, AfterClaim
<1>3. OpenIsFree(r)'
  <2>1. \A i \in DOMAIN writes' : Reports(i, r)' =>
          \E j \in DOMAIN writes : Reports(j, r)
    BY DEF OldReports, Reports
  <2>2. QED
    BY <2>1, HoldersOld DEF LeaseOf, OpenIsFree
<1>4. ClaimsFresh(r)'
  BY ClaimantsOld DEF LeaseOf
<1>5. QED
  BY <1>1, <1>2, <1>3, <1>4 DEF LeaseOf

(* Somebody whose run has lasted less than the lease knows no expired one.  *)
LEMMA LeaseOutlivesRun ==
  ASSUME BaseInv, NEW w \in Worker, Busy(w), NEW r \in RequestId,
         requests[r] \in Request, requests[r].status = "executing",
         requests[r].claimed_at >= worker[w].since
  PROVE  now - requests[r].claimed_at < Lease
<1>1. /\ now \in Nat /\ worker[w].since \in Nat
      /\ now - worker[w].since <= MaxDuration
      /\ MaxDuration \in Nat /\ Lease \in Nat /\ MaxDuration < Lease
  BY TypeParts, WorkerAssumption, NumberAssumption
  DEF BaseInv, Timely, TypeOK, Run
<1>2. requests[r].claimed_at \in Int
  BY DEF Request, NoClaim
<1>3. QED
  BY <1>1, <1>2

(* The steps that leave the lease of a request alone: all but a report      *)
(* about it being sent and a write about it being applied.                  *)
LEMMA LeaseUntouched ==
  ASSUME BaseInv, NEW r \in RequestId, Stored(r), LeaseOf(r),
         \/ \E w \in Worker, x \in RequestId, pc \in {"claim", "attest"} :
              Starts(w, x, pc)
         \/ \E w \in Worker, fee \in Fee \cup {0} : Sends(w, fee)
         \/ \E w \in Worker : Refrains(w)
         \/ \E ok \in BOOLEAN : Lands(ok)
         \/ \E w \in Worker, pc \in {"idle", "fail"} : Leaves(w, pc)
         \/ Aside
  PROVE  LeaseOf(r)'
<1>1. /\ SettlementTypeOK /\ TypeOK /\ Awaited /\ WorkersTyped
      /\ writes \in Writes /\ sent \in Payments
  BY TypeParts DEF BaseInv, SettlementTypeOK
<1>2. RunStep
  BY DEF RunStep
<1>3. ASSUME OldWrites(0), \A i \in DOMAIN writes' : writes'[i] = writes[i]
      PROVE  OldReports(r, 0)
  BY <1>3 DEF OldWrites, OldReports
<1>4. writes' = writes => OldReports(r, 0)
  BY <1>1, <1>3, QueuesSame
<1>5. ASSUME NEW w \in Worker, Others(w), worker'[w].pc # "pay"
      PROVE  NoNewPayer(r)
  BY <1>5 DEF Others, NoNewPayer
<1>6. ASSUME NEW w \in Worker, NEW x \in RequestId, NEW pc \in {"claim", "attest"},
             Starts(w, x, pc)
      PROVE  LeaseOf(r)'
  <2>1. worker'[w].pc # "pay" /\ Others(w)
    BY <1>6 DEF Starts
  <2>2. NoNewPayer(r) /\ OldReports(r, 0) /\ requests'[r] = requests[r]
    BY <1>4, <1>5, <1>6, <2>1 DEF Starts, vars
  <2>3. QED
    BY <1>1, <1>2, <2>2, LeaseKept
<1>7. ASSUME NEW w \in Worker, NEW fee \in Fee \cup {0}, Sends(w, fee) \/ Refrains(w)
      PROVE  LeaseOf(r)'
  <2>1. worker'[w].pc # "pay" /\ Others(w)
    BY <1>7, GoesTo DEF Sends, Refrains
  <2>2. NoNewPayer(r) /\ OldReports(r, 0) /\ requests'[r] = requests[r]
    BY <1>4, <1>5, <1>7, <2>1 DEF Sends, Refrains, vars
  <2>3. QED
    BY <1>1, <1>2, <2>2, LeaseKept
<1>8. ASSUME NEW ok \in BOOLEAN, Lands(ok)
      PROVE  LeaseOf(r)'
  <2>1. PICK by \in Worker \cup {Nobody} :
          /\ Answered(by, ok)
          /\ by \in Worker => worker[by].pc = "paying"
    BY <1>1, <1>8, SentTaken DEF Lands, Awaited
  <2>2. NoNewPayer(r)
    <3>1. CASE by \in Worker
      <4>1. worker'[by].pc = Resume("paying", ok) /\ Others(by)
        BY <2>1, <3>1, GoesTo DEF Answered
      <4>2. worker'[by].pc # "pay"
        BY <4>1, Places, ResumePlace
      <4>3. QED
        BY <1>5, <3>1, <4>1, <4>2
    <3>2. CASE by \notin Worker
      BY <2>1, <3>2 DEF Answered, Others, NoNewPayer
    <3>3. QED
      BY <3>1, <3>2
  <2>3. OldReports(r, 0) /\ requests'[r] = requests[r]
    BY <1>4, <1>8 DEF Lands, vars
  <2>4. QED
    BY <1>1, <1>2, <2>2, <2>3, LeaseKept
<1>9. ASSUME NEW w \in Worker, NEW pc \in {"idle", "fail"}, Leaves(w, pc)
      PROVE  LeaseOf(r)'
  <2>1. worker'[w].pc = pc /\ Others(w)
    BY <1>9, GoesTo DEF Leaves
  <2>2. /\ OldWrites(0)
        /\ \A i \in DOMAIN writes' : writes[i].by # w => writes'[i] = writes[i]
    BY <1>1, <1>9, WritesForsaken DEF Leaves, Abandon
  <2>3. OldReports(r, 0)
    BY <2>1, <2>2 DEF OldWrites, OldReports
  <2>4. NoNewPayer(r) /\ requests'[r] = requests[r]
    BY <1>5, <1>9, <2>1 DEF Leaves, vars
  <2>5. QED
    BY <1>1, <1>2, <2>3, <2>4, LeaseKept
<1>10. CASE Aside
  <2>1. OldReports(r, 0) /\ requests'[r] = requests[r]
    BY <1>1, <1>4, <1>10, AsideOn DEF Aside
  <2>2. NoNewPayer(r)
    BY <1>10 DEF Aside, NoNewPayer
  <2>3. QED
    BY <1>1, <1>2, <2>1, <2>2, LeaseKept
<1>11. QED
  BY <1>6, <1>7, <1>8, <1>9, <1>10

(* A holder that reports stays the only one, and its reports in order.      *)
LEMMA LeaseReported ==
  ASSUME BaseInv, NEW r \in RequestId, Stored(r), ~Bridges(r), LeaseOf(r),
         NEW w \in Worker, Posts(w)
  PROVE  LeaseOf(r)'
<1>1. /\ SettlementTypeOK /\ writes \in Writes /\ RunStep
      /\ requests'[r] = requests[r]
      /\ \A v \in Worker : Busy(v) => worker[v] \in Run
  BY TypeParts DEF BaseInv, RunStep, Posts, vars
<1>2. worker[w] \in Run /\ OpOf(w) \in Op
  BY <1>1, WaitingPlaces DEF Posts, Submits, Busy
<1>3. PICK tx \in [op : Op, request : RequestId, by : Worker \cup {Nobody}] :
        /\ writes' = Append(writes, tx) /\ tx.by = w
        /\ tx.op = OpOf(w) /\ tx.request = worker[w].request
  BY <1>2 DEF Posts, Run
<1>4. /\ \A i \in DOMAIN writes :
           i \in Nat /\ i < Len(writes) + 1 /\ Len(writes) + 1 \in Nat
      /\ \A i \in DOMAIN writes' :
           \/ i \in DOMAIN writes /\ writes'[i] = writes[i] /\ i < Len(writes) + 1
           \/ i = Len(writes) + 1 /\ writes'[i] = tx
  BY <1>1, <1>3, AppendOf, LenProperties DEF Writes
<1>5. worker'[w].pc = Waiting[worker[w].pc] /\ Others(w)
  BY GoesTo DEF Posts
<1>6. NoNewPayer(r)
  BY <1>5, Places DEF Posts, Submits, Others, NoNewPayer
<1>7. CASE tx.op \notin {"record", "fail"} \/ tx.request # r
  <2>1. OldReports(r, 0)
    BY <1>4, <1>7 DEF OldReports
  <2>2. QED
    BY <1>1, <1>6, <2>1, LeaseKept
<1>8. CASE tx.op \in {"record", "fail"} /\ tx.request = r
  <2>1. /\ Holds(w, r) /\ tx.op = worker[w].pc
        /\ worker'[w].pc = IF tx.op = "record" THEN "recording" ELSE "failing"
    BY <1>3, <1>5, <1>8, Places DEF Posts, Submits, OpOf, Holds, AfterClaim
  <2>2. \A i \in DOMAIN writes : Reports(i, r) =>
          tx.op = "fail" /\ writes[i].op = "record"
    BY <1>8, <2>1 DEF LeaseOf, ReportsMatchHolder, Reports
  <2>3. \A v \in Worker : Holds(v, r)' => v = w
    BY <1>1, <1>6, <2>1, HoldersOld DEF LeaseOf, OneHolder
  <2>4. OneHolder(r)'
    BY <2>3 DEF OneHolder
  <2>5. PayersClaimed(r)'
    BY <1>1, <1>6, HoldersOld DEF LeaseOf, PayersClaimed, Holds, Paying, AfterClaim
  <2>6. OpenIsFree(r)'
    BY <1>1, <2>1 DEF LeaseOf, OpenIsFree
  <2>7. ClaimsFresh(r)'
    BY <1>1, ClaimantsOld DEF LeaseOf
  <2>8. \A i \in DOMAIN writes' : Reports(i, r)' =>
          \/ i \in DOMAIN writes /\ Reports(i, r) /\ writes'[i] = writes[i]
          \/ i = Len(writes) + 1 /\ writes'[i] = tx
    BY <1>4 DEF Reports
  <2>9. ReportsInOrder(r)'
    <3> SUFFICES ASSUME NEW i \in DOMAIN writes', NEW j \in DOMAIN writes',
                        i < j, Reports(i, r)', Reports(j, r)'
                 PROVE  writes'[i].op = "record" /\ writes'[j].op = "fail"
      BY DEF ReportsInOrder
    <3>1. CASE i \in DOMAIN writes /\ j \in DOMAIN writes
      BY <1>4, <2>8, <3>1 DEF LeaseOf, ReportsInOrder
    <3>2. CASE i \in DOMAIN writes /\ j = Len(writes) + 1
      BY <1>4, <2>2, <2>8, <3>2
    <3>3. CASE i = Len(writes) + 1
      BY <1>4, <3>3
    <3>4. QED
      BY <1>4, <3>1, <3>2, <3>3
  <2>10. ReportsMatchHolder(r)'
    BY <1>3, <1>8, <2>1, <2>2, <2>3, <2>8 DEF ReportsMatchHolder
  <2>11. QED
    BY <2>4, <2>5, <2>6, <2>7, <2>9, <2>10 DEF LeaseOf
<1>9. QED
  BY <1>7, <1>8

(* The write at the head of the queue leaves it, and only a claim that was  *)
(* accepted makes its submitter a payer.                                    *)
LEMMA ReportTaken ==
  ASSUME BaseInv, NEW ok \in BOOLEAN, Applies(ok), NEW r \in RequestId
  PROVE  /\ OldReports(r, 1)
         /\ ~(ok /\ writes[1].op = "claim" /\ writes[1].request = r)
              => NoNewPayer(r)
         /\ \A i \in DOMAIN writes' : Reports(i, r)' =>
              /\ i \in Nat /\ i # 0 /\ i + 1 \in DOMAIN writes
              /\ Reports(i + 1, r) /\ writes'[i] = writes[i + 1]
<1>1. /\ SettlementTypeOK /\ Awaited /\ WorkersTyped /\ 1 \in DOMAIN writes
      /\ writes[1].op \in Op /\ writes[1].by \in Worker \cup {Nobody}
      /\ Answered(writes[1].by, ok)
      /\ \A i \in DOMAIN writes' :
           i \in Nat /\ i # 0 /\ i + 1 \in DOMAIN writes /\ writes'[i] = writes[i + 1]
  BY TypeParts, AppliedWrite DEF BaseInv
<1>2. OldReports(r, 1)
  BY <1>1 DEF OldReports
<1>3. ASSUME ~(ok /\ writes[1].op = "claim" /\ writes[1].request = r),
             NEW v \in Worker, worker'[v].pc = "pay", worker'[v].request = r
      PROVE  worker[v].pc = "pay"
  <2>1. CASE v # writes[1].by
    BY <1>1, <1>3, <2>1 DEF Answered, Others
  <2>2. CASE v = writes[1].by
    <3>1. /\ worker[v].pc = WaitsFor(writes[1].op)
          /\ worker[v].request = writes[1].request
          /\ Goes(v, Resume(worker[v].pc, ok))
      BY <1>1, <2>2 DEF Awaited, Answered
    <3>2. Resume(worker[v].pc, ok) = "pay"
      BY <1>3, <3>1, GoesTo
    <3>3. worker[v].pc = "claiming" /\ ok
      BY <1>1, <3>1, <3>2, WaitingPlaces, Places, ResumePlace
    <3>4. writes[1].op = "claim"
      BY <1>1, <3>1, <3>3, Places DEF WaitsFor, Op
    <3>5. worker'[v].request = worker[v].request
      BY <3>1, <3>2 DEF Goes
    <3>6. QED
      BY <1>3, <3>1, <3>3, <3>4, <3>5
  <2>3. QED
    BY <2>1, <2>2
<1>4. QED
  BY <1>1, <1>2, <1>3 DEF NoNewPayer, Reports

(* A claim is accepted when nobody holds the request, or when its lease has *)
(* run out: then whoever submitted the claim has given up waiting for it.   *)
LEMMA LeaseClaimed ==
  ASSUME BaseInv, NEW r \in RequestId, Stored(r), ~Bridges(r), LeaseOf(r),
         Applies(TRUE), writes[1].op = "claim", writes[1].request = r
  PROVE  LeaseOf(r)'
<1>1. /\ SettlementTypeOK /\ TypeOK /\ PolicyInv /\ RunStep /\ Awaited /\ Timely
      /\ StagesSplit /\ WorkersTyped
      /\ \A v \in Worker : Busy(v) => worker[v] \in Run
  BY TypeParts DEF BaseInv, RunStep
<1>2. /\ writes[1].op \in Op /\ writes[1].by \in Worker \cup {Nobody}
      /\ 1 \in DOMAIN writes
      /\ Answered(writes[1].by, TRUE) /\ Effect("claim", r) /\ now' = now
  BY AppliedWrite
<1>3. /\ requests[r] \in Request /\ LeaseFree(r) /\ requests[r].tx_hash = NoHash
      /\ requests'[r].status = "executing" /\ requests'[r].claimed_at = now
  BY <1>1, <1>2, EffectOn DEF Op
<1>4. OldReports(r, 1)
  BY ReportTaken
<1>5. \A v \in Worker : Busy(v)' => worker'[v].since <= now
  BY <1>1, <1>2, RunsEnd DEF Timely
<1>6. ClaimsFresh(r)' /\ OpenIsFree(r)'
  <2>1. \A v \in Worker : Busy(v)' => now >= worker'[v].since
    <3>1. \A v \in Worker : Busy(v)' => worker'[v].since \in Nat /\ now \in Nat
      BY <1>1, QueuesMove DEF WorkersTyped, Busy, Run, Idle, TypeOK
    <3>2. QED
      BY <1>5, <3>1
  <2>2. QED
    BY <1>3, <2>1 DEF ClaimsFresh, OpenIsFree, Busy
<1>7. PayersClaimed(r)'
  <2>1. \A v \in Worker : Busy(v)' => worker'[v].since \in Nat /\ now \in Nat
    BY <1>1, QueuesMove DEF WorkersTyped, Busy, Run, Idle, TypeOK
  <2>2. \A v \in Worker : Paying(v)' => Busy(v)'
    BY DEF Paying, Busy
  <2>3. QED
    BY <1>3, <1>5, <2>1, <2>2 DEF PayersClaimed
<1>8. CASE requests[r].status = "executing"
  <2>1. writes[1].by \notin Worker
    <3> SUFFICES ASSUME NEW w \in Worker, w = writes[1].by PROVE FALSE
      OBVIOUS
    <3>1. worker[w].pc = "claiming" /\ worker[w].request = r /\ Busy(w)
      BY <1>1, <1>2, Places DEF Awaited, WaitsFor, Busy
    <3>2. requests[r].claimed_at >= worker[w].since
      BY <1>8, <3>1 DEF LeaseOf, ClaimsFresh
    <3>3. now - requests[r].claimed_at < Lease
      BY <1>3, <1>8, <3>1, <3>2, LeaseOutlivesRun
    <3>4. now - requests[r].claimed_at >= Lease
      BY <1>3, <1>8 DEF LeaseFree
    <3>5. /\ now \in Nat /\ requests[r].claimed_at \in Int /\ Lease \in Nat
      BY <1>1, <1>3, NumberAssumption DEF TypeOK, Request, NoClaim
    <3>6. QED
      BY <3>3, <3>4, <3>5
  <2>2. NoNewPayer(r)
    BY <1>2, <2>1 DEF Answered, Others, NoNewPayer
  <2>3. OneHolder(r)' /\ ReportsInOrder(r)' /\ ReportsMatchHolder(r)'
    BY <1>1, <1>4, <2>2, ReportsKept DEF LeaseOf
  <2>4. QED
    BY <1>6, <1>7, <2>3 DEF LeaseOf
<1>9. CASE requests[r].status # "executing"
  <2>1. requests[r].status # "executed"
    BY <1>1, <1>3 DEF PolicyInv, HashTrail, TrailOf
  <2>2. /\ \A v \in Worker : ~Holds(v, r)
        /\ \A i \in DOMAIN writes : ~Reports(i, r)
    BY <1>9, <2>1 DEF LeaseOf, OpenIsFree
  <2>3. \A v \in Worker : Holds(v, r)' => v = writes[1].by
    BY <1>2, <2>2 DEF Answered, Others, Holds
  <2>4. \A i \in DOMAIN writes' : ~Reports(i, r)'
    BY <2>2, ReportTaken
  <2>5. QED
    BY <1>6, <1>7, <2>3, <2>4
    DEF LeaseOf, OneHolder, ReportsInOrder, ReportsMatchHolder
<1>10. QED
  BY <1>8, <1>9

(* A report that is accepted ends the attempt it is about.                  *)
LEMMA LeaseEnds ==
  ASSUME BaseInv, NEW r \in RequestId, Stored(r), ~Bridges(r), LeaseOf(r),
         Applies(TRUE), writes[1].op # "claim", writes[1].request = r
  PROVE  LeaseOf(r)'
<1>1. /\ SettlementTypeOK /\ TypeOK /\ RunStep /\ StagesSplit /\ Awaited
      /\ WorkersTyped
  BY TypeParts DEF BaseInv, RunStep
<1>2. /\ writes[1].op \in Op /\ writes[1].by \in Worker \cup {Nobody}
      /\ 1 \in DOMAIN writes
      /\ Answered(writes[1].by, TRUE) /\ Effect(writes[1].op, r)
  BY AppliedWrite
<1>3. writes[1].op \in {"record", "fail"} /\ Reports(1, r)
  BY <1>1, <1>2 DEF StagesSplit, BridgeOp, Op, Reports
<1>4. /\ requests[r].status = "executing"
      /\ requests'[r].status = IF writes[1].op = "record" THEN "executed" ELSE "failed"
  BY <1>1, <1>2, <1>3, EffectOn
<1>5. NoNewPayer(r) /\ OldReports(r, 1)
  BY ReportTaken
<1>6. OneHolder(r)' /\ ReportsInOrder(r)' /\ ReportsMatchHolder(r)'
  BY <1>1, <1>5, ReportsKept DEF LeaseOf
<1>7. ClaimsFresh(r)'
  BY <1>4 DEF ClaimsFresh
<1>8. \A v \in Worker : Holds(v, r)' =>
        Holds(v, r) /\ worker[v].pc \in {"recording", "fail", "failing"} /\ ~Paying(v)'
  BY <1>1, <1>2, <1>3, <1>5, HoldersOld DEF LeaseOf, ReportsMatchHolder, Paying
<1>9. PayersClaimed(r)'
  BY <1>8 DEF PayersClaimed, Holds, Paying, AfterClaim
<1>10. OpenIsFree(r)'
  <2>1. CASE writes[1].op = "record"
    BY <1>4, <2>1 DEF OpenIsFree
  <2>2. CASE writes[1].op = "fail"
    <3>1. \A i \in DOMAIN writes' : ~Reports(i, r)'
      <4> SUFFICES ASSUME NEW i \in DOMAIN writes', Reports(i, r)' PROVE FALSE
        OBVIOUS
      <4>1. i \in Nat /\ i # 0 /\ i + 1 \in DOMAIN writes /\ Reports(i + 1, r)
        BY ReportTaken
      <4>2. 1 < i + 1
        BY <4>1
      <4>3. writes[1].op = "record"
        BY <1>2, <1>3, <4>1, <4>2 DEF LeaseOf, ReportsInOrder
      <4>4. QED
        BY <2>2, <4>3
    <3>2. ASSUME NEW v \in Worker, Holds(v, r)' PROVE FALSE
      <4>1. Holds(v, r) /\ worker[v].pc = "failing" /\ writes[1].by = v
        BY <1>2, <1>3, <1>8, <2>2, <3>2 DEF LeaseOf, ReportsMatchHolder
      <4>2. worker'[v].pc = Resume("failing", TRUE)
        BY <1>2, <4>1, GoesTo DEF Answered
      <4>3. worker'[v].pc = "idle"
        BY <4>2, Places, ResumePlace
      <4>4. QED
        BY <3>2, <4>3 DEF Holds, AfterClaim
    <3>3. QED
      BY <3>1, <3>2 DEF OpenIsFree
  <2>3. QED
    BY <1>3, <2>1, <2>2
<1>11. QED
  BY <1>6, <1>7, <1>9, <1>10 DEF LeaseOf

(* A write that is refused, or is about another request, changes no lease.  *)
LEMMA LeaseNotApplied ==
  ASSUME BaseInv, NEW r \in RequestId, Stored(r), LeaseOf(r),
         NEW ok \in BOOLEAN, Applies(ok), ~(ok /\ writes[1].request = r)
  PROVE  LeaseOf(r)'
<1>1. SettlementTypeOK /\ TypeOK /\ RunStep
  BY TypeParts DEF BaseInv, RunStep
<1>2. requests'[r] = requests[r]
  <2>1. /\ writes[1].op \in Op /\ writes[1].request \in RequestId
        /\ ok => Effect(writes[1].op, writes[1].request)
        /\ ~ok => UNCHANGED vars
    BY AppliedWrite
  <2>2. QED
    BY <1>1, <2>1, EffectOn DEF vars
<1>3. OldReports(r, 1) /\ NoNewPayer(r)
  BY ReportTaken
<1>4. QED
  BY <1>1, <1>2, <1>3, LeaseKept

(* A request that has just been stored is held by nobody.                   *)
LEMMA LeaseOfNew ==
  ASSUME BaseInv, RunStep, NEW r \in RequestId, ~Stored(r), Stored(r)'
  PROVE  LeaseOf(r)'
<1>1. SettlementTypeOK /\ TypeOK /\ OnApproved
  BY TypeParts DEF BaseInv
<1>2. requests'[r] # requests[r]
  BY DEF Stored
<1>3. ASSUME NEW ok \in BOOLEAN, Applies(ok) PROVE FALSE
  <2>1. /\ writes[1].op \in Op /\ writes[1].request \in RequestId
        /\ Stored(writes[1].request)
        /\ ok => Effect(writes[1].op, writes[1].request)
        /\ ~ok => UNCHANGED vars
    BY <1>3, AppliedWrite
  <2>2. QED
    BY <1>1, <1>2, <2>1, EffectOn DEF vars
<1>4. Aside
  BY <1>2, <1>3 DEF RunStep, Starts, Posts, Sends, Refrains, Lands, Leaves, vars
<1>5. /\ worker' = worker /\ writes' = writes
      /\ requests'[r].status \in {"ready", "not_applicable"}
  BY <1>1, <1>2, <1>4, AsideOn DEF Aside
<1>6. ~Approved(r)
  BY DEF Approved, Stored
<1>7. /\ \A w \in Worker : Busy(w) => worker[w].request # r
      /\ \A i \in DOMAIN writes : writes[i].request # r
  BY <1>1, <1>6 DEF OnApproved
<1>8. /\ \A w \in Worker : ~Holds(w, r)' /\ ~(Paying(w)' /\ worker'[w].request = r)
      /\ \A i \in DOMAIN writes' : ~Reports(i, r)'
  BY <1>5, <1>7 DEF Holds, Paying, Busy, AfterClaim, Reports
<1>9. QED
  BY <1>5, <1>8 DEF LeaseOf, ClaimsFresh, PayersClaimed, OneHolder, OpenIsFree,
                    ReportsInOrder, ReportsMatchHolder

(* Every step keeps the lease invariant.                                    *)
LEMMA LeaseStep ==
  BaseInv /\ LeaseInv /\ [SettlementNext]_allVars => LeaseInv'
<1> SUFFICES ASSUME BaseInv, LeaseInv, [SettlementNext]_allVars,
                    NEW r \in RequestId, Stored(r)', ~Bridges(r)'
             PROVE  LeaseOf(r)'
  BY DEF LeaseInv
<1>1. RunStep /\ SettlementTypeOK /\ PolicyInv
  BY NextIsRunStep DEF BaseInv, PolicyInv
<1>2. CASE ~Stored(r)
  BY <1>1, <1>2, LeaseOfNew
<1>3. CASE Stored(r)
  <2>1. ~Bridges(r) /\ LeaseOf(r)
    BY <1>1, <1>3, PolicyMoves, RequestsStay DEF LeaseInv
  <2>2. ASSUME NEW w \in Worker, Posts(w) PROVE LeaseOf(r)'
    BY <1>3, <2>1, <2>2, LeaseReported
  <2>3. ASSUME NEW ok \in BOOLEAN, Applies(ok) PROVE LeaseOf(r)'
    <3>1. CASE ~(ok /\ writes[1].request = r)
      BY <1>3, <2>1, <2>3, <3>1, LeaseNotApplied
    <3>2. CASE ok /\ writes[1].request = r
      <4>1. Applies(TRUE)
        BY <2>3, <3>2
      <4>2. QED
        BY <1>3, <2>1, <3>2, <4>1, LeaseClaimed, LeaseEnds
    <3>3. QED
      BY <3>1, <3>2
  <2>4. QED
    BY <1>1, <1>3, <2>1, <2>2, <2>3, LeaseUntouched DEF RunStep
<1>4. QED
  BY <1>2, <1>3

(* The lease invariant holds throughout.                                    *)
LEMMA LeaseInvariance == SettlementSpec => [](BaseInv /\ LeaseInv)
<1>1. SettlementInit => BaseInv /\ LeaseInv
  <2> SUFFICES ASSUME SettlementInit PROVE LeaseInv
    BY BaseInit
  <2>1. \A r \in RequestId : ~Stored(r)
    BY DEF SettlementInit, Init, Stored, NotStored
  <2>2. QED
    BY <2>1 DEF LeaseInv
<1>2. QED
  BY <1>1, BaseStep, LeaseStep, PTL DEF SettlementSpec

(* However late writes are applied, whichever waits time out and whichever  *)
(* workers are killed: two runs never pay the same one-stage request.       *)
THEOREM LeaseExcludes == SettlementSpec => []LeaseExclusion
<1>1. BaseInv /\ LeaseInv => LeaseExclusion
  <2> SUFFICES ASSUME BaseInv, LeaseInv, NEW v \in Worker, NEW w \in Worker,
                      Paying(v), Paying(w), worker[v].request = worker[w].request,
                      ~Bridges(worker[w].request)
               PROVE  v = w
    BY DEF LeaseExclusion
  <2>1. Busy(w) /\ worker[w].request \in RequestId /\ Stored(worker[w].request)
    BY TypeParts DEF BaseInv, OnApproved, Paying, Busy, Run, Approved, Stored
  <2>2. OneHolder(worker[w].request)
    BY <2>1 DEF LeaseInv, LeaseOf
  <2>3. QED
    BY <2>2 DEF OneHolder, Holds, Paying, AfterClaim
<1>2. QED
  BY <1>1, LeaseInvariance, PTL

(* Whoever pays such a request pays under a claim nobody may take over.     *)
THEOREM PayersHoldTheLease == SettlementSpec => []PaysUnderLease
<1>1. BaseInv /\ LeaseInv => PaysUnderLease
  <2> SUFFICES ASSUME BaseInv, LeaseInv, NEW w \in Worker, Paying(w),
                      ~Bridges(worker[w].request)
               PROVE  /\ requests[worker[w].request].status = "executing"
                      /\ now - requests[worker[w].request].claimed_at < Lease
    BY DEF PaysUnderLease
  <2>1. PICK r \in RequestId : r = worker[w].request /\ Stored(r) /\ Busy(w)
    BY TypeParts DEF BaseInv, OnApproved, Paying, Busy, Run, Approved, Stored
  <2>2. /\ requests[r].status = "executing"
        /\ requests[r].claimed_at >= worker[w].since
    BY <2>1 DEF LeaseInv, LeaseOf, PayersClaimed
  <2>3. requests[r] \in Request
    BY <2>1, TypeParts, StoredIsRequest DEF BaseInv
  <2>4. QED
    BY <2>1, <2>2, <2>3, LeaseOutlivesRun
<1>2. QED
  BY <1>1, LeaseInvariance, PTL

(* The composition takes only the contract's steps, so whatever is proved   *)
(* of every behaviour of the contract holds of it.                          *)
THEOREM KeepsToTheContract == SettlementSpec => Spec
<1>1. SettlementInit => Init
  BY DEF SettlementInit
<1>2. BaseInv /\ [SettlementNext]_allVars => [Next]_vars
  BY NextIsRunStep, PolicyMoves DEF BaseInv, PolicyInv
<1>3. QED
  BY <1>1, <1>2, BaseInvariance, PTL DEF SettlementSpec, Spec

-----------------------------------------------------------------------------
(* The vault.  A step settles one approved request on its approved terms,   *)
(* or none.                                                                 *)
Settles(r) ==
  /\ Lands(TRUE) /\ r = sent[1].request /\ 1 \in DOMAIN sent
  /\ r \in RequestId /\ Approved(r) /\ ~executed[r] /\ settled[r] = <<>>
  /\ executed'[r] /\ settled'[r] # <<>>
  /\ \A i \in DOMAIN settled'[r] :
       settled'[r][i] = [route     |-> RouteOfRequest(r),
                         recipient |-> requests[r].terms.recipient,
                         amount    |-> requests[r].terms.amount]
  /\ \A x \in RequestId : x # r =>
       executed'[x] = executed[x] /\ settled'[x] = settled[x]

(* A payment that lands at the vault settles its request, which had not     *)
(* been settled.                                                            *)
LEMMA VaultSettlesOne ==
  ASSUME BaseInv, Backend = "arc-vault", Lands(TRUE)
  PROVE  Settles(sent[1].request)
<1>1. /\ SettlementTypeOK /\ OnApproved /\ sent \in Payments
      /\ executed \in [RequestId -> BOOLEAN]
      /\ settled \in [RequestId -> Seq(Vault!Settlement)]
      /\ \A x \in RequestId : Len(settled[x]) = IF executed[x] THEN 1 ELSE 0
  BY TypeParts
  DEF BaseInv, SettlementTypeOK, Vault!TypeOK, VaultProofs!VaultInv,
      VaultProofs!SettledOnce
<1>2. PICK tx : /\ tx = sent[1] /\ tx = Head(sent) /\ 1 \in DOMAIN sent
                /\ tx.request \in RequestId /\ Approved(tx.request)
  BY <1>1, SentTaken DEF Lands, OnApproved
<1>3. PICK r \in RequestId : r = tx.request
  BY <1>2
<1>4. PICK t : /\ t = requests[r].terms
               /\ t.recipient \in Recipient /\ t.amount \in Nat
  BY <1>1, <1>2, <1>3, ApprovedTerms
<1>5. PICK e \in Vault!Settlement :
        e = [route |-> RouteOfRequest(r), recipient |-> t.recipient,
             amount |-> t.amount]
  <2>1. RouteOfRequest(r) \in {"direct", "cctp"}
    BY DEF RouteOfRequest, RouteOf
  <2>2. [route |-> RouteOfRequest(r), recipient |-> t.recipient,
         amount |-> t.amount] \in Vault!Settlement
    BY <1>4, <2>1 DEF Vault!Settlement
  <2>3. QED
    BY <2>2
<1>6. VaultSettles(tx)
  BY <1>2 DEF Lands
<1>7. /\ ~executed[r] /\ executed' = [executed EXCEPT ![r] = TRUE]
      /\ settled' = [settled EXCEPT ![r] = Append(@, e)]
  <2>1. CASE Bridges(r)
    BY <1>3, <1>4, <1>5, <1>6, <2>1
    DEF VaultSettles, Bridges, Vault!payoutCrossChain, Vault!CanPayCrossChain,
        Vault!CanPay, Vault!Settle
  <2>2. CASE ~Bridges(r)
    <3>1. RouteOfRequest(r) = "direct"
      BY <2>2 DEF Bridges, RouteOfRequest, RouteOf
    <3>2. QED
      BY <1>3, <1>4, <1>5, <1>6, <2>2, <3>1
      DEF VaultSettles, Vault!payout, Vault!CanPay, Vault!Settle
  <2>3. QED
    BY <2>1, <2>2
<1>8. settled[r] \in Seq(Vault!Settlement) /\ settled[r] = <<>>
  BY <1>1, <1>7, EmptySeq
<1>9. /\ settled'[r] # <<>> /\ \A i \in DOMAIN settled'[r] : settled'[r][i] = e
  <2>1. settled'[r] = Append(settled[r], e)
    BY <1>1, <1>7
  <2>2. /\ Len(settled[r]) + 1 \in DOMAIN Append(settled[r], e)
        /\ \A i \in DOMAIN Append(settled[r], e) :
             \/ i \in DOMAIN settled[r]
             \/ Append(settled[r], e)[i] = e
    BY <1>8, AppendOf
  <2>3. DOMAIN settled[r] = {}
    BY <1>8
  <2>4. QED
    BY <2>1, <2>2, <2>3
<1>10. /\ executed'[r]
       /\ \A x \in RequestId : x # r =>
            executed'[x] = executed[x] /\ settled'[x] = settled[x]
  BY <1>1, <1>7
<1>11. e = [route     |-> RouteOfRequest(r),
            recipient |-> requests[r].terms.recipient,
            amount    |-> requests[r].terms.amount]
  BY <1>4, <1>5
<1>12. Settles(r)
  BY <1>2, <1>3, <1>7, <1>8, <1>9, <1>10, <1>11 DEF Settles
<1>13. QED
  BY <1>2, <1>3, <1>12

(* No other step touches what the vault has executed.                       *)
LEMMA VaultStays ==
  ASSUME Backend = "arc-vault", RunStep, ~Lands(TRUE)
  PROVE  executed' = executed /\ settled' = settled
<1>1. VaultOwnerStep => executed' = executed /\ settled' = settled
  BY DEF VaultOwnerStep, Vault!setPaused, Vault!withdraw
<1>2. Aside => executed' = executed /\ settled' = settled
  BY <1>1 DEF Aside, PolicyStep, Clock, Mint, allVars, chain, vault
<1>3. QED
  BY <1>2 DEF RunStep, Starts, Posts, Applies, Sends, Refrains, Lands, Leaves,
              chain, vault

(* Money is never taken back: what was settled or minted stays so.          *)
LEMMA MoneyStays ==
  ASSUME BaseInv, PaidInv, Backend = "arc-vault", RunStep
  PROVE  /\ \A r \in RequestId : executed[r] =>
              executed'[r] /\ settled'[r] = settled[r]
         /\ \A r \in minted : r \in minted' /\ settled'[r] = settled[r]
         /\ minted' # minted => \E r \in RequestId : Mint(r)
<1>1. /\ executed \in [RequestId -> BOOLEAN] /\ minted \subseteq RequestId
      /\ \A x \in RequestId : Len(settled[x]) = IF executed[x] THEN 1 ELSE 0
      /\ \A r \in minted : settled[r] # <<>>
  BY DEF BaseInv, SettlementTypeOK, Vault!TypeOK, VaultProofs!VaultInv,
         VaultProofs!SettledOnce, PaidInv, MintedIsBurned
<1>2. CASE Lands(TRUE)
  <2>1. Settles(sent[1].request) /\ minted' = minted
    BY <1>2, VaultSettlesOne DEF Lands
  <2>2. QED
    BY <1>1, <2>1 DEF Settles
<1>3. CASE ~Lands(TRUE)
  <2>1. executed' = executed /\ settled' = settled
    BY <1>3, VaultStays
  <2>2. minted' = minted \/ \E r \in RequestId : Mint(r)
    BY DEF RunStep, Starts, Posts, Applies, Sends, Refrains, Lands, Leaves, Aside,
           PolicyStep, VaultOwnerStep, Clock, allVars, chain
  <2>3. QED
    BY <1>1, <2>1, <2>2 DEF Mint
<1>4. QED
  BY <1>2, <1>3

(* A worker comes to report a payment only when its payment has landed.     *)
LEMMA RecordsWhatLanded ==
  ASSUME BaseInv, RunStep, NEW v \in Worker,
         worker'[v].pc = "record", worker[v].pc # "record"
  PROVE  Lands(TRUE) /\ 1 \in DOMAIN sent /\ sent[1].by = v
         /\ worker'[v].request = sent[1].request
<1>1. SettlementTypeOK /\ Awaited
  BY DEF BaseInv
<1>2. ASSUME NEW w \in Worker, Others(w) PROVE v = w
  BY <1>2 DEF Others
<1>3. ASSUME NEW w \in Worker, NEW r \in RequestId, NEW pc \in {"claim", "attest"},
             Starts(w, r, pc)
      PROVE  FALSE
  BY <1>2, <1>3 DEF Starts
<1>4. ASSUME NEW w \in Worker, Posts(w) PROVE FALSE
  BY <1>2, <1>4, GoesTo, Places DEF Posts, Submits
<1>5. ASSUME NEW w \in Worker, NEW fee \in Fee \cup {0}, Sends(w, fee) \/ Refrains(w)
      PROVE  FALSE
  BY <1>2, <1>5, GoesTo DEF Sends, Refrains
<1>6. ASSUME NEW w \in Worker, NEW pc \in {"idle", "fail"}, Leaves(w, pc)
      PROVE  FALSE
  BY <1>2, <1>6, GoesTo DEF Leaves
<1>7. ASSUME NEW ok \in BOOLEAN, Applies(ok) PROVE FALSE
  <2>1. /\ writes[1].op \in Op /\ 1 \in DOMAIN writes
        /\ Answered(writes[1].by, ok)
    BY <1>7, AppliedWrite
  <2>2. v = writes[1].by
    BY <2>1 DEF Answered, Others
  <2>3. worker[v].pc = WaitsFor(writes[1].op)
    BY <1>1, <2>1, <2>2 DEF Awaited
  <2>4. worker'[v].pc = Resume(worker[v].pc, ok)
    BY <2>1, <2>2, GoesTo DEF Answered
  <2>5. QED
    BY <2>1, <2>3, <2>4, WaitingPlaces, Places, ResumePlace
<1>8. ASSUME NEW ok \in BOOLEAN, Lands(ok)
      PROVE  /\ ok /\ 1 \in DOMAIN sent /\ sent[1].by = v
             /\ worker'[v].request = sent[1].request
  <2>1. Answered(sent[1].by, ok) /\ 1 \in DOMAIN sent
    BY <1>1, <1>8, TypeParts, SentTaken DEF Lands
  <2>2. v = sent[1].by
    BY <2>1 DEF Answered, Others
  <2>3. /\ worker[v].pc = "paying" /\ worker[v].request = sent[1].request
        /\ Goes(v, Resume("paying", ok))
    BY <1>1, <2>1, <2>2 DEF Awaited, Answered
  <2>4. ok
    BY <2>3, GoesTo, Places, ResumePlace
  <2>5. QED
    BY <2>1, <2>2, <2>3, <2>4, Places, ResumePlace DEF Goes
<1>9. Aside => FALSE
  BY DEF Aside
<1>10. Lands(TRUE)
  BY <1>3, <1>4, <1>5, <1>6, <1>7, <1>8, <1>9 DEF RunStep
<1>11. QED
  BY <1>8, <1>10

(* Whatever has been settled is the approved payment, and Circle mints only *)
(* what was burned.                                                         *)
LEMMA StillAsApproved ==
  ASSUME BaseInv, PaidInv, Backend = "arc-vault", RunStep
  PROVE  PaidAsApproved' /\ MintedIsBurned' /\ NothingRelayed'
<1>1. /\ SettlementTypeOK /\ PolicyInv /\ [Next]_vars
      /\ PaidAsApproved /\ MintedIsBurned /\ NothingRelayed
      /\ minted \subseteq RequestId
  BY PolicyMoves DEF BaseInv, PaidInv, SettlementTypeOK
<1>2. \A r \in RequestId : Approved(r) =>
        /\ Approved(r)' /\ requests'[r].terms = requests[r].terms
        /\ RouteOfRequest(r)' = RouteOfRequest(r)
  BY <1>1, RequestsStay DEF Approved, Stored
<1>3. PaidAsApproved'
  <2> SUFFICES ASSUME NEW r \in RequestId, settled'[r] # <<>>
               PROVE  Approved(r)' /\ OnApprovedTerms(r)'
    BY DEF PaidAsApproved
  <2>1. CASE settled'[r] = settled[r]
    BY <1>1, <1>2, <2>1 DEF PaidAsApproved, OnApprovedTerms
  <2>2. CASE settled'[r] # settled[r]
    <3>1. Lands(TRUE) /\ Settles(sent[1].request)
      BY <2>2, VaultStays, VaultSettlesOne
    <3>2. r = sent[1].request
      BY <2>2, <3>1 DEF Settles
    <3>3. QED
      BY <1>2, <3>1, <3>2 DEF Settles, OnApprovedTerms
  <2>3. QED
    BY <2>1, <2>2
<1>4. MintedIsBurned'
  <2>1. \A r \in minted : settled'[r] = settled[r]
    BY MoneyStays
  <2>2. CASE minted' = minted
    BY <1>1, <2>1, <2>2 DEF MintedIsBurned, Burned
  <2>3. ASSUME NEW x \in RequestId, Mint(x) PROVE MintedIsBurned'
    <3>1. /\ settled' = settled /\ minted' = minted \cup {x}
          /\ Burned(x) /\ settled[x] # <<>>
      BY <2>3 DEF Mint, vault, Burned
    <3>2. QED
      BY <1>1, <3>1 DEF MintedIsBurned, Burned
  <2>4. QED
    BY <2>2, <2>3, MoneyStays
<1>5. NothingRelayed'
  <2>1. Aside => relayed' = relayed
    BY DEF Aside, PolicyStep, VaultOwnerStep, Clock, Mint, allVars, chain
  <2>2. relayed' = relayed
    BY <2>1 DEF RunStep, Starts, Posts, Applies, Sends, Refrains, Lands, Leaves,
                chain
  <2>3. QED
    BY <1>1, <2>2 DEF NothingRelayed
<1>6. QED
  BY <1>3, <1>4, <1>5

(* Nobody reports a payment that the vault has not made, or closes a        *)
(* cross-chain payment that has not been minted.                            *)
LEMMA StillSaysPaid ==
  ASSUME BaseInv, PaidInv, Backend = "arc-vault", RunStep
  PROVE  SaysPaid'
<1>1. /\ SettlementTypeOK /\ SaysPaid /\ writes \in Writes
      /\ \A w \in Worker : Busy(w) => worker[w] \in Run
  BY TypeParts DEF BaseInv, PaidInv
<1>2. /\ \A r \in RequestId : executed[r] => executed'[r]
      /\ \A r \in RequestId : r \in minted => r \in minted'
  BY MoneyStays
<1>3. ASSUME NEW w \in Worker, worker'[w].pc \in {"record", "recording"}
      PROVE  executed'[worker'[w].request]
  <2>1. CASE worker'[w].pc = "record" /\ worker[w].pc # "record"
    <3>1. Lands(TRUE) /\ worker'[w].request = sent[1].request
      BY <1>1, <2>1, RecordsWhatLanded
    <3>2. Settles(sent[1].request)
      BY <3>1, VaultSettlesOne
    <3>3. QED
      BY <3>1, <3>2 DEF Settles
  <2>2. CASE ~(worker'[w].pc = "record" /\ worker[w].pc # "record")
    <3>1. ASSUME NEW r \in RequestId, NEW pc \in {"claim", "attest"}, Starts(w, r, pc)
          PROVE  FALSE
      <4>1. worker'[w].pc = pc
        BY <3>1 DEF Starts
      <4>2. QED
        BY <1>3, <4>1
    <3>2. Advances(worker[w].pc, worker'[w].pc) /\ Carries(w)
      BY <1>1, <3>1, WorkersAdvance
    <3>3. worker[w].pc \in {"record", "recording"}
      BY <1>3, <2>2, <3>2 DEF Advances
    <3>4. Busy(w) /\ worker[w].request \in RequestId
          /\ worker'[w].request = worker[w].request
      BY <1>1, <1>3, <3>2, <3>3 DEF Carries, Busy, Run
    <3>5. QED
      BY <1>1, <1>2, <3>3, <3>4 DEF SaysPaid
  <2>3. QED
    BY <2>1, <2>2
<1>4. ASSUME NEW w \in Worker, worker'[w].pc \in BridgeStage
      PROVE  worker'[w].request \in minted'
  <2>1. ASSUME NEW r \in RequestId, NEW pc \in {"claim", "attest"}, Starts(w, r, pc)
        PROVE  worker'[w].request \in minted'
    <3>1. worker'[w].pc = pc /\ worker'[w].request = r
      BY <2>1 DEF Starts
    <3>2. pc = "attest"
      BY <1>4, <3>1 DEF BridgeStage
    <3>3. r \in minted
      BY <2>1, <3>2 DEF Starts
    <3>4. QED
      BY <1>2, <3>1, <3>3
  <2>2. ASSUME Advances(worker[w].pc, worker'[w].pc), Carries(w)
        PROVE  worker'[w].request \in minted'
    <3>1. worker[w].pc \in BridgeStage
      BY <1>4, <2>2 DEF Advances, BridgeStage
    <3>2. Busy(w) /\ worker[w].request \in RequestId
          /\ worker'[w].request = worker[w].request
      BY <1>1, <1>4, <2>2, <3>1 DEF Carries, Busy, Run, BridgeStage
    <3>3. QED
      BY <1>1, <1>2, <3>1, <3>2 DEF SaysPaid
  <2>3. QED
    BY <1>1, <2>1, <2>2, WorkersAdvance
<1>5. \A i \in DOMAIN writes :
        /\ writes[i].request \in RequestId
        /\ writes[i].op \in {"record", "bridge"} => executed[writes[i].request]
        /\ writes[i].op \in {"attest", "close"} => writes[i].request \in minted
  BY <1>1, WritesHold DEF SaysPaid
<1>6. ASSUME NEW i \in DOMAIN writes'
      PROVE  /\ writes'[i].op \in {"record", "bridge"} => executed'[writes'[i].request]
             /\ writes'[i].op \in {"attest", "close"} => writes'[i].request \in minted'
  <2>1. ASSUME NEW w \in Worker, Posts(w)
        PROVE  /\ writes'[i].op \in {"record", "bridge"} =>
                    executed'[writes'[i].request]
               /\ writes'[i].op \in {"attest", "close"} =>
                    writes'[i].request \in minted'
    <3>1. Busy(w) /\ worker[w] \in Run /\ OpOf(w) \in Op
      BY <1>1, <2>1, WaitingPlaces DEF Posts, Submits, Busy
    <3>2. PICK tx \in [op : Op, request : RequestId, by : Worker \cup {Nobody}] :
            /\ writes' = Append(writes, tx) /\ tx.op = OpOf(w)
            /\ tx.request = worker[w].request
      BY <2>1, <3>1 DEF Posts, Run
    <3>3. /\ tx.op \in {"record", "bridge"} => executed[tx.request]
          /\ tx.op \in {"attest", "close"} => tx.request \in minted
      BY <1>1, <2>1, <3>2 DEF Posts, Submits, OpOf, SaysPaid, BridgeStage
    <3>4. \/ i \in DOMAIN writes /\ writes'[i] = writes[i]
          \/ writes'[i] = tx
      BY <1>1, <3>2, AppendOf DEF Writes
    <3>5. QED
      BY <1>2, <1>5, <3>2, <3>3, <3>4
  <2>2. CASE OldWrites(0)
    BY <1>2, <1>5, <2>2 DEF OldWrites
  <2>3. CASE OldWrites(1)
    BY <1>2, <1>5, <2>3 DEF OldWrites
  <2>4. QED
    BY <1>1, <2>1, <2>2, <2>3, QueuesMove
<1>7. QED
  BY <1>3, <1>4, <1>6 DEF SaysPaid

(* What the vault has paid, and where it has arrived.                       *)
LEMMA PaidTimes ==
  ASSUME BaseInv, PaidInv, NEW r \in RequestId
  PROVE  /\ TimesPaid(r) = IF executed[r] THEN 1 ELSE 0
         /\ settled[r] # <<>> <=> executed[r]
         /\ r \in minted => executed[r]
<1>1. /\ settled \in [RequestId -> Seq(Vault!Settlement)]
      /\ Len(settled[r]) = IF executed[r] THEN 1 ELSE 0
      /\ relayed[r] = 0 /\ executed[r] \in BOOLEAN
      /\ r \in minted => settled[r] # <<>>
  BY DEF BaseInv, SettlementTypeOK, Vault!TypeOK, VaultProofs!VaultInv,
         VaultProofs!SettledOnce, PaidInv, NothingRelayed, MintedIsBurned
<1>2. settled[r] \in Seq(Vault!Settlement)
  BY <1>1
<1>3. settled[r] = <<>> <=> Len(settled[r]) = 0
  BY <1>2, EmptySeq
<1>4. TimesPaid(r) = IF executed[r] THEN 1 ELSE 0
  BY <1>1 DEF TimesPaid
<1>5. settled[r] # <<>> <=> executed[r]
  BY <1>1, <1>3
<1>6. QED
  BY <1>1, <1>4, <1>5

(* A request becomes executed only by a report, which the vault or Circle   *)
(* has made true.                                                           *)
LEMMA ReportIsTrue ==
  ASSUME BaseInv, PaidInv, Backend = "arc-vault", RunStep, NEW r \in RequestId,
         requests'[r].status = "executed", requests[r].status # "executed"
  PROVE  /\ Stored(r) /\ executed[r] /\ Delivered(r)
         /\ Applies(TRUE) /\ writes[1].request = r
<1>1. TypeOK /\ StagesSplit /\ SaysPaid
  BY TypeParts DEF BaseInv, PaidInv
<1>2. ~Aside
  BY <1>1, AsideOn
<1>3. PICK ok \in BOOLEAN : Applies(ok)
  BY <1>2 DEF RunStep, Starts, Posts, Sends, Refrains, Lands, Leaves, vars
<1>4. /\ writes[1].op \in Op /\ writes[1].request \in RequestId /\ 1 \in DOMAIN writes
      /\ Stored(writes[1].request)
      /\ ok => Effect(writes[1].op, writes[1].request)
      /\ ~ok => UNCHANGED vars
  BY <1>3, AppliedWrite
<1>5. ok /\ writes[1].request = r
  BY <1>1, <1>4, EffectOn DEF vars
<1>6. writes[1].op \in {"record", "close"}
  BY <1>1, <1>4, <1>5, EffectOn DEF Op
<1>7. CASE writes[1].op = "record"
  <2>1. executed[r] /\ ~Bridges(r)
    BY <1>1, <1>4, <1>5, <1>7 DEF SaysPaid, StagesSplit
  <2>2. Delivered(r)
    BY <2>1, PaidTimes DEF Delivered, Bridges
  <2>3. QED
    BY <1>3, <1>4, <1>5, <2>1, <2>2
<1>8. CASE writes[1].op = "close"
  <2>1. r \in minted /\ Bridges(r)
    BY <1>1, <1>4, <1>5, <1>8 DEF SaysPaid, StagesSplit, BridgeOp
  <2>2. executed[r] /\ Delivered(r)
    BY <2>1, PaidTimes DEF Delivered, Bridges
  <2>3. QED
    BY <1>3, <1>4, <1>5, <2>2
<1>9. QED
  BY <1>6, <1>7, <1>8

(* An executed request of a vault policy stays delivered, and one that      *)
(* becomes executed has been delivered.                                     *)
LEMMA StillDelivered ==
  ASSUME BaseInv, PaidInv, Backend = "arc-vault", RunStep, BaseInv',
         NothingRelayed', MintedIsBurned', PaidAsApproved', SaysPaid'
  PROVE  ExecutedIsDelivered'
<1> SUFFICES ASSUME NEW r \in RequestId, requests'[r].status = "executed"
             PROVE  executed'[r] /\ Delivered(r)'
  BY DEF ExecutedIsDelivered
<1>1. PolicyInv /\ [Next]_vars /\ TypeOK
  BY PolicyMoves, TypeParts DEF BaseInv
<1>2. executed[r] /\ Delivered(r)
  BY ReportIsTrue DEF PaidInv, ExecutedIsDelivered
<1>3. Approved(r)
  BY <1>2, PaidTimes DEF PaidInv, PaidAsApproved
<1>4. RouteOfRequest(r)' = RouteOfRequest(r)
  BY <1>1, <1>3, RequestsStay DEF Approved, Stored
<1>5. /\ executed'[r] /\ settled'[r] = settled[r]
      /\ r \in minted => r \in minted'
  BY <1>2, MoneyStays
<1>6. relayed'[r] = relayed[r]
  BY DEF PaidInv, NothingRelayed
<1>7. QED
  BY <1>2, <1>4, <1>5, <1>6 DEF Delivered, TimesPaid

(* Nothing is paid at first.                                                *)
LEMMA PaidInit ==
  ASSUME SettlementInit
  PROVE  PaidInv
<1>1. /\ \A r \in RequestId : /\ settled[r] = <<>> /\ relayed[r] = 0
                              /\ requests[r].status = "none"
      /\ minted = {} /\ writes = <<>> /\ DOMAIN writes = {}
      /\ \A w \in Worker : worker[w].pc = "idle"
  BY DEF SettlementInit, Init, NotStored, Idle
<1>2. QED
  BY <1>1 DEF PaidInv, PaidAsApproved, MintedIsBurned, NothingRelayed, SaysPaid,
              ExecutedIsDelivered, BridgeStage

(* Every step keeps the invariant about the money.                          *)
LEMMA PaidStep ==
  ASSUME Backend = "arc-vault", BaseInv, PaidInv, [SettlementNext]_allVars
  PROVE  PaidInv'
<1>1. RunStep /\ BaseInv'
  BY NextIsRunStep, BaseStep DEF BaseInv, PolicyInv
<1>2. PaidAsApproved' /\ MintedIsBurned' /\ NothingRelayed' /\ SaysPaid'
  BY <1>1, StillAsApproved, StillSaysPaid
<1>3. ExecutedIsDelivered'
  BY <1>1, <1>2, StillDelivered
<1>4. QED
  BY <1>2, <1>3 DEF PaidInv

(* The invariant about the money holds throughout.                          *)
LEMMA PaidInvariance ==
  ASSUME Backend = "arc-vault"
  PROVE  SettlementSpec => [](BaseInv /\ PaidInv)
<1>1. SettlementInit => BaseInv /\ PaidInv
  BY BaseInit, PaidInit
<1>2. BaseInv /\ PaidInv /\ [SettlementNext]_allVars => BaseInv' /\ PaidInv'
  BY BaseStep, PaidStep
<1>3. QED
  BY <1>1, <1>2, PTL DEF SettlementSpec

(* README.md:546: from the vault no request is ever paid twice, whatever    *)
(* workers, queues and chains do.                                           *)
THEOREM VaultPaysOnce ==
  ASSUME Backend = "arc-vault"
  PROVE  SettlementSpec => []PaidAtMostOnce
<1>1. BaseInv /\ PaidInv => PaidAtMostOnce
  <2> SUFFICES ASSUME BaseInv, PaidInv, NEW r \in RequestId
               PROVE  TimesPaid(r) <= 1
    BY DEF PaidAtMostOnce
  <2>1. TimesPaid(r) \in {0, 1}
    BY PaidTimes
  <2>2. QED
    BY <2>1
<1>2. QED
  BY <1>1, PaidInvariance, PTL

-----------------------------------------------------------------------------
(* The promise.  In the states that are reached, money is what the vault    *)
(* and Circle say it is, and never wrong.                                   *)
MoneySeen(r) ==
  IF executed[r] THEN IF Delivered(r) THEN "delivered" ELSE "sent" ELSE "none"

MoneyAsSeen == \A r \in RequestId : MoneyOf(r) = MoneySeen(r)

(* Under the invariants the money of a request is what MoneySeen says,      *)
(* which is never "wrong".                                                  *)
LEMMA MoneyIsSeen == BaseInv /\ PaidInv => MoneyAsSeen
<1> SUFFICES ASSUME BaseInv, PaidInv, NEW r \in RequestId
             PROVE  MoneyOf(r) = MoneySeen(r)
  BY DEF MoneyAsSeen
<1>1. /\ TimesPaid(r) = IF executed[r] THEN 1 ELSE 0
      /\ settled[r] # <<>> <=> executed[r]
  BY PaidTimes
<1>2. CASE executed[r]
  <2>1. TimesPaid(r) = 1 /\ OnApprovedTerms(r)
    BY <1>1, <1>2 DEF PaidInv, PaidAsApproved
  <2>2. /\ (TimesPaid(r) = 0) = FALSE
        /\ (TimesPaid(r) > 1 \/ ~OnApprovedTerms(r)) = FALSE
        /\ (TimesPaid(r) = 1 /\ OnApprovedTerms(r)) = TRUE
    BY <2>1
  <2>3. MoneyOf(r) = IF Delivered(r) THEN "delivered" ELSE "sent"
    BY <2>2 DEF MoneyOf
  <2>4. QED
    BY <1>2, <2>3 DEF MoneySeen
<1>3. CASE ~executed[r]
  <2>1. TimesPaid(r) = 0 /\ OnApprovedTerms(r)
    BY <1>1, <1>3 DEF OnApprovedTerms
  <2>2. /\ (TimesPaid(r) = 0) = TRUE
        /\ (TimesPaid(r) > 1 \/ ~OnApprovedTerms(r)) = FALSE
        /\ (TimesPaid(r) = 1 /\ OnApprovedTerms(r)) = FALSE
    BY <2>1
  <2>3. MoneyOf(r) = "none"
    BY <2>2 DEF MoneyOf
  <2>4. QED
    BY <1>3, <2>3 DEF MoneySeen
<1>4. QED
  BY <1>2, <1>3

(* The three things the promise sees of a request.                          *)
SameDecision(r) == requests'[r].verdict = requests[r].verdict
SameMoney(r) == MoneySeen(r)' = MoneySeen(r)
SameReport(r) ==
  requests'[r].status = "executed" <=> requests[r].status = "executed"

(* A step that changes no decision, money or report is none of Payment.     *)
LEMMA PromiseStutters ==
  ASSUME MoneyAsSeen, MoneyAsSeen',
         \A r \in RequestId : SameDecision(r) /\ SameMoney(r) /\ SameReport(r)
  PROVE  UNCHANGED Promise!paymentVars
BY DEF Promise!paymentVars, MoneyAsSeen, SameDecision, SameMoney, SameReport

(* A verdict on one request is Decide.                                      *)
LEMMA PromiseDecides ==
  ASSUME MoneyAsSeen, MoneyAsSeen', NEW r \in RequestId,
         requests[r].verdict = "none", requests'[r].verdict \in {"approved", "denied"},
         \A x \in RequestId : /\ x # r => SameDecision(x)
                              /\ SameMoney(x) /\ SameReport(x)
  PROVE  Promise!Decide(r)
BY DEF Promise!Decide, MoneyAsSeen, SameDecision, SameMoney, SameReport

(* The first payment of an approved request is Pay.                         *)
LEMMA PromisePays ==
  ASSUME MoneyAsSeen, MoneyAsSeen', NEW r \in RequestId, Approved(r),
         MoneySeen(r) = "none", MoneySeen(r)' \in {"sent", "delivered"},
         \A x \in RequestId : /\ x # r => SameMoney(x)
                              /\ SameDecision(x) /\ SameReport(x)
  PROVE  Promise!Pay(r)
<1>1. PICK progress \in {"sent", "delivered"} : progress = MoneySeen(r)'
  OBVIOUS
<1>2. [x \in RequestId |-> MoneyOf(x)]'
        = [[x \in RequestId |-> MoneyOf(x)] EXCEPT ![r] = progress]
  BY <1>1 DEF MoneyAsSeen, SameMoney
<1>3. MoneyOf(r) = "none" /\ requests[r].verdict = "approved"
  BY DEF MoneyAsSeen, Approved
<1>4. UNCHANGED <<[x \in RequestId |-> requests[x].verdict],
                  [x \in RequestId |-> requests[x].status = "executed"]>>
  BY DEF SameDecision, SameReport
<1>5. QED
  BY <1>2, <1>3, <1>4 DEF Promise!Pay

(* The arrival of a burn on its destination chain is Deliver.               *)
LEMMA PromiseDelivers ==
  ASSUME MoneyAsSeen, MoneyAsSeen', NEW r \in RequestId,
         MoneySeen(r) = "sent", MoneySeen(r)' = "delivered",
         \A x \in RequestId : /\ x # r => SameMoney(x)
                              /\ SameDecision(x) /\ SameReport(x)
  PROVE  Promise!Deliver(r)
BY DEF Promise!Deliver, MoneyAsSeen, SameDecision, SameMoney, SameReport

(* Recording a delivered payment as executed is Report.                     *)
LEMMA PromiseReports ==
  ASSUME MoneyAsSeen, MoneyAsSeen', NEW r \in RequestId,
         MoneySeen(r) = "delivered",
         requests[r].status # "executed", requests'[r].status = "executed",
         \A x \in RequestId : /\ x # r => SameReport(x)
                              /\ SameDecision(x) /\ SameMoney(x)
  PROVE  Promise!Report(r)
BY DEF Promise!Report, MoneyAsSeen, SameDecision, SameMoney, SameReport

(* What a promised payment looks like from one step to the next, as long as *)
(* neither the vault nor Circle moves.                                      *)
LEMMA SeenStays ==
  ASSUME BaseInv, PaidInv, RunStep, NEW r \in RequestId,
         executed'[r] = executed[r], r \in minted' <=> r \in minted,
         settled'[r] = settled[r], relayed' = relayed
  PROVE  SameMoney(r)
<1>1. CASE executed[r]
  <2>1. Stored(r)
    BY <1>1, PaidTimes DEF PaidInv, PaidAsApproved, Approved, Stored
  <2>2. RouteOfRequest(r)' = RouteOfRequest(r)
    BY <2>1, PolicyMoves, RequestsStay DEF BaseInv
  <2>3. QED
    BY <2>2 DEF SameMoney, MoneySeen, Delivered, TimesPaid
<1>2. CASE ~executed[r]
  BY <1>2 DEF SameMoney, MoneySeen
<1>3. QED
  BY <1>1, <1>2

(* Every step keeps the promise or does nothing it sees.                    *)
LEMMA PromiseStep ==
  ASSUME Backend = "arc-vault", BaseInv, PaidInv, RunStep, MoneyAsSeen, MoneyAsSeen'
  PROVE  [Promise!Next]_Promise!paymentVars
<1>1. /\ SettlementTypeOK /\ TypeOK /\ PolicyInv /\ [Next]_vars
      /\ requests \in [RequestId -> Request \cup {NotStored}]
      /\ ExecutedIsDelivered /\ PaidAsApproved
  BY PolicyMoves, TypeParts DEF BaseInv, PaidInv, SettlementTypeOK, TypeOK
<1>2. \A r \in RequestId : Stored(r) => SameDecision(r)
  BY <1>1, DecisionStep DEF DecisionKept, vars, SameDecision
<1>3. ASSUME executed' = executed, settled' = settled, relayed' = relayed,
             minted' = minted
      PROVE  \A r \in RequestId : SameMoney(r)
  BY <1>3, SeenStays
<1>4. ASSUME requests' = requests
      PROVE  \A r \in RequestId : SameDecision(r) /\ SameReport(r)
  BY <1>4 DEF SameDecision, SameReport
<1>5. ASSUME requests' = requests, executed' = executed, settled' = settled,
             relayed' = relayed, minted' = minted
      PROVE  [Promise!Next]_Promise!paymentVars
  BY <1>3, <1>4, <1>5, PromiseStutters
<1>6. ASSUME NEW r \in RequestId, NEW t \in Terms, NEW approved \in BOOLEAN,
             queue_request(Gateway, Agent, r, t, approved),
             executed' = executed, settled' = settled, relayed' = relayed,
             minted' = minted
      PROVE  [Promise!Next]_Promise!paymentVars
  <2>1. ~Stored(r)
    BY <1>6 DEF queue_request, CanQueue
  <2>2. PICK q \in {StoredRequest(t, "denied", "not_applicable"),
                   StoredRequest(t, "approved", "ready")} :
          requests' = [requests EXCEPT ![r] = q]
    BY <1>6 DEF queue_request
  <2>3. /\ q.verdict \in {"approved", "denied"} /\ q.status # "executed"
        /\ requests'[r] = q /\ \A x \in RequestId : x # r => requests'[x] = requests[x]
    BY <1>1, <2>2 DEF StoredRequest
  <2>4. requests[r].verdict = "none" /\ requests[r].status # "executed"
    BY <1>1, <2>1, PaidTimes
    DEF Stored, Approved, ExecutedIsDelivered, PaidAsApproved
  <2>5. \A x \in RequestId : x # r => SameDecision(x) /\ SameReport(x)
    BY <2>3 DEF SameDecision, SameReport
  <2>6. SameReport(r)
    BY <2>3, <2>4 DEF SameReport
  <2>7. Promise!Decide(r)
    BY <1>3, <1>6, <2>3, <2>4, <2>5, <2>6, PromiseDecides
  <2>8. QED
    BY <2>7 DEF Promise!Next
<1>7. ASSUME NEW r \in RequestId, Mint(r)
      PROVE  [Promise!Next]_Promise!paymentVars
  <2>1. /\ requests' = requests /\ executed' = executed /\ settled' = settled
        /\ relayed' = relayed /\ minted' = minted \cup {r} /\ r \notin minted
    BY <1>7 DEF Mint, vars, vault
  <2>2. PICK i \in DOMAIN settled[r] : settled[r][i].route = "cctp"
    BY <1>7 DEF Mint, Burned
  <2>3. settled[r] # <<>>
    BY <2>2
  <2>4. executed[r] /\ OnApprovedTerms(r)
    BY <1>1, <2>3, PaidTimes DEF PaidAsApproved
  <2>5. RouteOfRequest(r) = "cctp"
    BY <2>2, <2>4 DEF OnApprovedTerms
  <2>6. MoneySeen(r) = "sent" /\ MoneySeen(r)' = "delivered"
    BY <2>1, <2>4, <2>5 DEF MoneySeen, Delivered, RouteOfRequest
  <2>7. \A x \in RequestId : x # r => SameMoney(x)
    BY <2>1, SeenStays
  <2>8. Promise!Deliver(r)
    BY <1>4, <2>1, <2>6, <2>7, PromiseDelivers
  <2>9. QED
    BY <2>8 DEF Promise!Next
<1>8. CASE Lands(TRUE)
  <2>1. PICK r : r = sent[1].request /\ Settles(r)
    BY <1>8, VaultSettlesOne
  <2>2. /\ r \in RequestId /\ Approved(r) /\ ~executed[r] /\ executed'[r]
        /\ \A x \in RequestId : x # r =>
             executed'[x] = executed[x] /\ settled'[x] = settled[x]
    BY <2>1 DEF Settles
  <2>3. requests' = requests /\ minted' = minted /\ relayed' = relayed
    BY <1>8 DEF Lands, vars
  <2>4. MoneySeen(r) = "none" /\ MoneySeen(r)' \in {"sent", "delivered"}
    BY <2>2 DEF MoneySeen
  <2>5. \A x \in RequestId : x # r => SameMoney(x)
    BY <2>2, <2>3, SeenStays
  <2>6. Promise!Pay(r)
    BY <1>4, <2>2, <2>3, <2>4, <2>5, PromisePays
  <2>7. QED
    BY <2>2, <2>6 DEF Promise!Next
<1>9. CASE Applies(TRUE)
  <2>1. /\ executed' = executed /\ settled' = settled /\ relayed' = relayed
        /\ minted' = minted
    BY <1>9 DEF Applies, chain, vault
  <2>2. PICK r \in RequestId : /\ r = writes[1].request /\ Stored(r)
                               /\ writes[1].op \in Op /\ Effect(writes[1].op, r)
    BY <1>9, AppliedWrite
  <2>3. /\ \A x \in RequestId : x # r => requests'[x] = requests[x]
        /\ requests[r] \in Request
    BY <1>1, <2>2, EffectOn
  <2>4. \A x \in RequestId : SameDecision(x) /\ (x # r => SameReport(x))
    BY <1>2, <2>2, <2>3 DEF SameDecision, SameReport
  <2>5. requests[r].status = "executed" => requests'[r].status = "executed"
    <3>1. requests[r].status = "executed" => requests[r].tx_hash # NoHash
      BY <1>1, <2>2 DEF PolicyInv, HashTrail, TrailOf
    <3>2. requests[r].tx_hash # NoHash => requests'[r] = requests[r]
      BY <1>1, <2>2, DecisionStep DEF DecisionKept, vars
    <3>3. QED
      BY <3>1, <3>2
  <2>6. CASE SameReport(r)
    BY <1>3, <2>1, <2>4, <2>6, PromiseStutters
  <2>7. CASE ~SameReport(r)
    <3>1. requests[r].status # "executed" /\ requests'[r].status = "executed"
      BY <2>5, <2>7 DEF SameReport
    <3>2. executed[r] /\ Delivered(r)
      BY <3>1, ReportIsTrue
    <3>3. MoneySeen(r) = "delivered"
      BY <3>2 DEF MoneySeen
    <3>4. Promise!Report(r)
      BY <1>3, <2>1, <2>4, <3>1, <3>3, PromiseReports
    <3>5. QED
      BY <3>4 DEF Promise!Next
  <2>8. QED
    BY <2>6, <2>7
<1>10. CASE Aside
  <2>1. CASE VaultOwnerStep
    BY <1>5, <2>1 DEF VaultOwnerStep, vars, Vault!setPaused, Vault!withdraw
  <2>2. CASE Clock \/ UNCHANGED allVars
    BY <1>5, <2>2 DEF Clock, Tick, allVars, vars, chain, vault
  <2>3. CASE PolicyStep
    <3>1. /\ executed' = executed /\ settled' = settled /\ relayed' = relayed
          /\ minted' = minted
      BY <2>3 DEF PolicyStep, chain, vault
    <3>2. CASE requests' = requests
      BY <1>5, <3>1, <3>2
    <3>3. CASE \E r \in RequestId, t \in Terms, approved \in BOOLEAN :
                 queue_request(Gateway, Agent, r, t, approved)
      BY <1>6, <3>1, <3>3
    <3>4. QED
      BY <2>3, <3>2, <3>3
      DEF PolicyStep, register_authority, register_vault, register_delegation,
          set_policy_active
  <2>4. QED
    BY <1>7, <1>10, <2>1, <2>2, <2>3 DEF Aside
<1>11. CASE ~Lands(TRUE) /\ ~Applies(TRUE) /\ ~Aside
  <2>1. executed' = executed /\ settled' = settled
    BY <1>11, VaultStays
  <2>2. requests' = requests /\ relayed' = relayed /\ minted' = minted
    BY <1>11 DEF RunStep, Starts, Posts, Applies, Sends, Refrains, Lands, Leaves,
                 vars, chain
  <2>3. QED
    BY <1>5, <2>1, <2>2
<1>12. QED
  BY <1>8, <1>9, <1>10, <1>11

(* Paying from the vault implements the promise of module Payment: decided  *)
(* once, paid at most once and only on approved terms, and reported as      *)
(* executed only when the payee has the money, under every fault.           *)
THEOREM VaultKeepsPromise ==
  ASSUME Backend = "arc-vault"
  PROVE  SettlementSpec => KeepsPromise
<1>1. SettlementInit => Promise!Init
  <2> SUFFICES ASSUME SettlementInit PROVE Promise!Init
    OBVIOUS
  <2>1. \A r \in RequestId :
          /\ requests[r].verdict = "none" /\ requests[r].status # "executed"
          /\ ~executed[r]
    BY DEF SettlementInit, Init, NotStored
  <2>2. \A r \in RequestId : MoneyOf(r) = "none"
    BY <2>1, BaseInit, PaidInit, MoneyIsSeen DEF MoneyAsSeen, MoneySeen
  <2>3. QED
    BY <2>1, <2>2 DEF Promise!Init
<1>2. BaseInv' /\ PaidInv' => MoneyAsSeen'
  BY MoneyIsSeen, PTL
<1>3. BaseInv /\ PaidInv /\ BaseInv' /\ PaidInv' /\ [SettlementNext]_allVars
        => [Promise!Next]_Promise!paymentVars
  <2> SUFFICES ASSUME BaseInv, PaidInv, BaseInv', PaidInv', [SettlementNext]_allVars
               PROVE  [Promise!Next]_Promise!paymentVars
    OBVIOUS
  <2>1. RunStep
    BY NextIsRunStep DEF BaseInv, PolicyInv
  <2>2. QED
    BY <1>2, <2>1, MoneyIsSeen, PromiseStep
<1>4. QED
  BY <1>1, <1>3, PaidInvariance, PTL DEF SettlementSpec, KeepsPromise, Promise!Spec
=============================================================================
