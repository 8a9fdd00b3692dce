-------------------------------- MODULE Pilot --------------------------------
(***************************************************************************)
(* The pilot store: MongoDB collections that count submissions per window, *)
(* and project what GenLayer holds into rows and lifecycle events for the  *)
(* operators.  It authorizes nothing, but a submission the store cannot    *)
(* count is refused.                                                       *)
(*                                                                         *)
(* One serverless instance runs several handlers.  They share one memoised *)
(* connection and one memoised creation of the indexes (collections()), a  *)
(* promise each; a handler that calls a function of the store waits for    *)
(* both, so it fails when either does.  The client reconnects by itself    *)
(* once it has connected.  The spend route records what it did after it    *)
(* has answered, so a later poll of the same request may write first.      *)
(*                                                                         *)
(* What GenLayer does with a request is module TreasuryPolicy's: here it   *)
(* goes through execution statuses.  A row keeps the status; the other     *)
(* fields never change or are not compared.                                *)
(* The deployment is one with MONGODB_URI set.                             *)
(***************************************************************************)
EXTENDS Integers, Sequences, FiniteSets, FiniteSetsExt

CONSTANTS
  Key,             \* ids of one agent's API keys
  Agent,           \* that agent
  Tester,          \* an address that sends feedback
  IdempotencyKey,  \* idempotency keys the agent chooses
  Handler,         \* concurrent invocations in the instance
  Limit,           \* the limit of each identifier
  WindowSeconds,   \* the window of each identifier
  Grace,           \* how long a counter is kept after its window
  MinTime, MaxTime,  \* bounds of the clock
  MaxSteps,        \* bound on what GenLayer does
  MaxCalls,        \* bound on invocations
  MaxFaults        \* bound on outages, restarts and dropped writes

Identifier == Key \cup {Agent, Tester}
RequestId == Key \X IdempotencyKey

ASSUME PilotAssumption ==
  /\ Limit \in [Identifier -> Nat]
  /\ WindowSeconds \in [Identifier -> Nat \ {0}]
  /\ Grace \in Nat /\ MaxTime \in Nat /\ MinTime \in 0..MaxTime /\ MaxSteps \in Nat
  /\ MaxCalls \in Nat /\ MaxFaults \in Nat

VARIABLES
  now,         \* Date.now(), in units of the windows
  chain,       \* execution status of each request as GenLayer would tell it
  up,          \* the cluster can be reached
  memo,        \* how far the memoised promises of collections() are
  handler,     \* what each invocation does
  rate_limits, \* counters by identifier and start of their window
  requests,    \* pilot_requests: the row of each request
  events,      \* pilot_events, but for the rejections
  rejections,  \* number of request.rejected events
  feedback,    \* number of documents in pilot_feedback
  past,        \* history: the statuses each request has had, in order
  passed,      \* history: what was let through: identifier, time, number
  lost,        \* history: requests an event of which was not written
  poisoned,    \* history: a store call failed though the cluster was there
  calls, faults

losses == <<lost, poisoned>>
projection == <<requests, events, rejections>>
stored == <<rate_limits, projection, feedback>>
world == <<now, chain, past, up>>
bounds == <<calls, faults>>
pilotVars == <<world, memo, handler, stored, passed, losses, bounds>>

Stored == {"ready", "not_applicable", "executing", "bridging", "failed", "executed"}
Status == {"none", "submitted"} \cup Stored
EventType == {"request.accepted", "review.finalized",
              "execution.confirmed", "execution.failed"}

(* The statuses the policy contract moves an execution through.             *)
Lifecycle == {<<"submitted", "ready">>, <<"submitted", "not_applicable">>,
              <<"ready", "executing">>, <<"executing", "executed">>,
              <<"executing", "failed">>, <<"failed", "executing">>,
              <<"executing", "bridging">>, <<"bridging", "executing">>}

Idle == [pc |-> "idle"]
Waiting == {"key", "agent", "row", "event", "reject", "client", "feedback"}

PilotTypeOK ==
  /\ now \in MinTime..MaxTime
  /\ chain \in [RequestId -> Status]
  /\ memo \in {"none", "connecting", "connected", "indexing", "ready", "rejected"}
  /\ \A h \in Handler : handler[h].pc \in {"idle", "submit"} \cup Waiting
  /\ \A d \in DOMAIN rate_limits : rate_limits[d] \in Nat \ {0}
  /\ requests \in [RequestId -> Status]
  /\ \A e \in events : e.type \in EventType
  /\ (\E h \in Handler : handler[h].pc \in Waiting) =>
       memo \notin {"none", "connected"}

PilotInit ==
  /\ now = MinTime /\ up = TRUE /\ memo = "none"
  /\ chain = [r \in RequestId |-> "none"]
  /\ handler = [h \in Handler |-> Idle]
  /\ rate_limits = [d \in {} |-> 0]
  /\ requests = [r \in RequestId |-> "none"]
  /\ events = {} /\ rejections = 0 /\ feedback = 0
  /\ past = [r \in RequestId |-> <<>>]
  /\ passed = {}
  /\ lost = {} /\ poisoned = FALSE /\ calls = 0 /\ faults = 0

-----------------------------------------------------------------------------
(* database() and collections().                                           *)

(* A call starts whichever promise is not memoised.                         *)
Await(m) == CASE m = "none" -> "connecting"
              [] m = "connected" -> "indexing"
              [] OTHER -> m

(* Mutant: a rejected promise stays memoised.                               *)
KeepsRejection(m) == "rejected"

AfterRejection(m) == IF m = "connecting" THEN "none" ELSE "connected"

(* Mutant: a submission that cannot be counted is let through.              *)
FailsOpen(s) ==
  IF s.pc \in {"key", "agent"}
  THEN [pc |-> "submit", request |-> s.request, outage |-> s.outage,
        at |-> {<<s.request[1], s.at>>, <<Agent, s.at>>}]
  ELSE Idle

(* The spend route answers a refusal and records it after; every other      *)
(* failure of the store ends the invocation's work.                         *)
AfterFailure(s) ==
  IF s.pc \in {"key", "agent"} THEN [s EXCEPT !.pc = "reject"] ELSE Idle

(* The handlers in H do not get to write the event they were to write.      *)
LoseEvents(H) ==
  lost' = lost \cup {handler[h].request : h \in {g \in H : handler[g].pc = "event"}}

(* The handlers in H are told that the store has failed.                    *)
FailAll(H, m) ==
  /\ handler' = [h \in Handler |-> IF h \in H THEN AfterFailure(handler[h])
                                   ELSE handler[h]]
  /\ LoseEvents(H)
  /\ poisoned' = (poisoned \/ \E h \in H : ~handler[h].outage)
  /\ memo' = IF \E h \in H : handler'[h].pc \in Waiting THEN Await(m) ELSE m

(* A memoised promise settles.  Every waiting handler waits for it, and     *)
(* goes on to the next one in the same turn.                                *)
Settle ==
  /\ memo \in {"connecting", "indexing"}
  /\ LET waiting == {h \in Handler : handler[h].pc \in Waiting}
     IN  \/ /\ up
            /\ memo' = IF memo = "indexing" THEN "ready"
                       ELSE IF waiting = {} THEN "connected" ELSE "indexing"
            /\ UNCHANGED <<handler, losses>>
         \/ ~up /\ FailAll(waiting, AfterRejection(memo))
  /\ UNCHANGED <<world, stored, passed, bounds>>

Answering(h, pc) == handler[h].pc = pc /\ memo = "ready" /\ up

(* A settled promise does not help a call that finds the cluster gone.      *)
Unreachable(h) ==
  /\ handler[h].pc \in Waiting
  /\ memo = "rejected" \/ (memo = "ready" /\ ~up)
  /\ FailAll({h}, memo)
  /\ UNCHANGED <<world, stored, passed, bounds>>

(* pilotStoreHealth only opens the connection; what it learns is shown.     *)
Health ==
  /\ memo = "none" /\ memo' = "connecting"
  /\ UNCHANGED <<world, handler, stored, passed, losses, bounds>>

-----------------------------------------------------------------------------
(* The invocations.                                                         *)
Enter(h, pc) ==
  /\ handler' = [handler EXCEPT ![h].pc = pc]
  /\ memo' = IF pc \in Waiting THEN Await(memo) ELSE memo

Finish(h) == handler' = [handler EXCEPT ![h] = Idle] /\ UNCHANGED memo

Start(h, state) ==
  /\ handler[h] = Idle
  /\ calls < MaxCalls /\ calls' = calls + 1
  /\ handler' = [handler EXCEPT ![h] = state]
  /\ memo' = Await(memo)
  /\ UNCHANGED <<world, stored, passed, losses, faults>>

(* POST v1/spend, with a key that verifies.                                 *)
Spend(h) == \E r \in RequestId :
  Start(h, [pc |-> "key", request |-> r, allowed |-> FALSE, at |-> now,
            outage |-> ~up])

(* GET v1/requests/[id] and v1/history: each row read is projected.         *)
Projecting(r, status, accepted) ==
  [pc |-> "row", request |-> r, status |-> status, accepted |-> accepted,
   outage |-> ~up]

Poll(h) == \E r \in RequestId :
  chain[r] \in Stored /\ Start(h, Projecting(r, chain[r], FALSE))

PostFeedback(h) == Start(h, [pc |-> "client", outage |-> ~up])

-----------------------------------------------------------------------------
(* consumePilotRateLimit.                                                   *)
windowStart(i) == (now \div WindowSeconds[i]) * WindowSeconds[i]

expires_at(d) == d[2] + WindowSeconds[d[1]] + Grace

(* Mutant: the count is the one before the increment.                       *)
CountedBefore(i) == LET d == <<i, windowStart(i)>>
                    IN  IF d \in DOMAIN rate_limits THEN rate_limits[d] ELSE 0

counted(i) == LET d == <<i, windowStart(i)>>
              IN  (IF d \in DOMAIN rate_limits THEN rate_limits[d] ELSE 0) + 1

Count(i) ==
  rate_limits' = [d \in DOMAIN rate_limits \cup {<<i, windowStart(i)>>} |->
                    IF d = <<i, windowStart(i)>> THEN counted(i) ELSE rate_limits[d]]

Allowed(i) == counted(i) <= Limit[i]

(* What passes at one time under one identifier is numbered from one.       *)
Ticket(d) == <<d[1], d[2], 1 + Cardinality({p \in passed : p[1] = d[1] /\ p[2] = d[2]})>>

Pass(D) == passed' = passed \cup {Ticket(d) : d \in D}

(* Both counters are consumed before either answer is looked at: a refused  *)
(* key spends its agent's window too.                                       *)
LimitKey(h) ==
  /\ Answering(h, "key")
  /\ LET key == handler[h].request[1]
     IN  /\ Count(key)
         /\ handler' = [handler EXCEPT ![h].pc = "agent", ![h].at = now,
                                       ![h].allowed = Allowed(key)]
  /\ UNCHANGED <<world, memo, projection, feedback, passed, losses, bounds>>

(* A rate limited call is answered and not recorded.                        *)
LimitAgent(h) ==
  /\ Answering(h, "agent")
  /\ Count(Agent)
  /\ IF Allowed(Agent) /\ handler[h].allowed
     THEN /\ handler' = [handler EXCEPT ![h] =
                 [pc |-> "submit", request |-> @.request, outage |-> @.outage,
                  at |-> {<<@.request[1], @.at>>, <<Agent, now>>}]]
          /\ UNCHANGED memo
     ELSE Finish(h)
  /\ UNCHANGED <<world, projection, feedback, passed, losses, bounds>>

LimitFeedback(h) ==
  /\ Answering(h, "client")
  /\ Count(Tester)
  /\ IF Allowed(Tester)
     THEN Enter(h, "feedback") /\ Pass({<<Tester, now>>})
     ELSE Finish(h) /\ UNCHANGED passed
  /\ UNCHANGED <<world, projection, feedback, losses, bounds>>

recordPilotFeedback(h) ==
  /\ Answering(h, "feedback")
  /\ feedback' = feedback + 1
  /\ Finish(h)
  /\ UNCHANGED <<world, rate_limits, projection, passed, losses, bounds>>

(* The TTL index: a pass, some time later, removes what has expired.        *)
Expire ==
  /\ \E d \in DOMAIN rate_limits : now >= expires_at(d)
  /\ rate_limits' = [d \in {e \in DOMAIN rate_limits : now < expires_at(e)} |->
                        rate_limits[d]]
  /\ UNCHANGED <<world, memo, handler, projection, feedback, passed, losses, bounds>>

-----------------------------------------------------------------------------
(* submitSpendThroughPolicy: a request GenLayer holds is replayed, any      *)
(* other is submitted and shown as submitted.  An error is recorded.        *)
Become(r, status) ==
  /\ chain' = [chain EXCEPT ![r] = status]
  /\ past' = [past EXCEPT ![r] = Append(@, status)]

Observe(h, status, accepted) ==
  /\ handler' = [handler EXCEPT ![h] = Projecting(@.request, status, accepted)]
  /\ memo' = Await(memo)

(* Mutant: a replay is recorded as accepted.                                *)
ReplayAccepted(h) ==
  LET r == handler[h].request
  IN  chain[r] \in Stored /\ Observe(h, chain[r], TRUE) /\ UNCHANGED <<chain, past>>

Replay(h) ==
  LET r == handler[h].request
  IN  chain[r] \in Stored /\ Observe(h, chain[r], FALSE) /\ UNCHANGED <<chain, past>>

Submit(h) ==
  /\ handler[h].pc = "submit"
  /\ LET r == handler[h].request
     IN  \/ Replay(h) /\ UNCHANGED passed
         \/ /\ chain[r] \notin Stored
            /\ Become(r, "submitted")
            /\ Observe(h, "submitted", TRUE)
            /\ Pass(handler[h].at)
         \/ Enter(h, "reject") /\ UNCHANGED <<chain, past, passed>>
  /\ UNCHANGED <<now, up, stored, losses, bounds>>

(* GenLayer goes on with a request.                                         *)
Progress ==
  /\ MapThenSumSet(LAMBDA r : Len(past[r]), RequestId) < MaxSteps
  /\ \E r \in RequestId, status \in Stored :
       <<chain[r], status>> \in Lifecycle /\ Become(r, status)
  /\ UNCHANGED <<now, up, memo, handler, stored, passed, losses, bounds>>

-----------------------------------------------------------------------------
(* recordPilotRequest: the row is overwritten, then the event is added      *)
(* unless one with its key is there.                                        *)
eventForRequest(status) ==
  CASE status = "executed" -> "execution.confirmed"
    [] status = "failed"   -> "execution.failed"
    [] OTHER               -> "review.finalized"

EventOf(s) == [type |-> IF s.accepted THEN "request.accepted"
                        ELSE eventForRequest(s.status),
               request |-> s.request, status |-> s.status]

WriteRow(h) ==
  /\ Answering(h, "row")
  /\ requests' = [requests EXCEPT ![handler[h].request] = handler[h].status]
  /\ Enter(h, "event")
  /\ UNCHANGED <<world, rate_limits, events, rejections, feedback, passed, losses, bounds>>

(* The event's key is all of it but when it was created.                    *)
recordPilotEvent(h) ==
  /\ Answering(h, "event")
  /\ events' = events \cup {EventOf(handler[h])}
  /\ Finish(h)
  /\ UNCHANGED <<world, rate_limits, requests, rejections, feedback, passed, losses, bounds>>

(* A rejection is keyed by its correlation id; the second one under an id   *)
(* the client reuses is dropped.                                            *)
recordPilotRejection(h) ==
  /\ Answering(h, "reject")
  /\ rejections' \in {rejections, rejections + 1}
  /\ rejections = 0 => rejections' = 1
  /\ Finish(h)
  /\ UNCHANGED <<world, rate_limits, requests, events, feedback, passed, losses, bounds>>

-----------------------------------------------------------------------------
(* Faults.  An outage marks every invocation that is under way.             *)
Fault == faults < MaxFaults /\ faults' = faults + 1

Outage ==
  /\ up /\ up' = FALSE /\ Fault
  /\ handler' = [h \in Handler |-> IF handler[h] = Idle THEN Idle
                                   ELSE [handler[h] EXCEPT !.outage = TRUE]]
  /\ UNCHANGED <<now, chain, past, memo, stored, passed, losses, calls>>

Recover ==
  /\ ~up /\ up' = TRUE
  /\ UNCHANGED <<now, chain, past, memo, handler, stored, passed, losses, bounds>>

(* The platform recycles the instance.                                      *)
Recycle ==
  /\ handler' = [h \in Handler |-> Idle] /\ memo' = "none"
  /\ LoseEvents(Handler)
  /\ Fault
  /\ UNCHANGED <<world, poisoned, stored, passed, calls>>

(* GenLayer refuses or drops a submitted request.                           *)
Drop(r) ==
  /\ chain[r] = "submitted" /\ Become(r, "none") /\ Fault
  /\ UNCHANGED <<now, up, memo, handler, stored, passed, losses, calls>>

Tick ==
  /\ now < MaxTime /\ now' = now + 1
  /\ UNCHANGED <<chain, past, up, memo, handler, stored, passed, losses, bounds>>

HandlerStep(h) ==
  \/ Spend(h) \/ Poll(h) \/ PostFeedback(h)
  \/ LimitKey(h) \/ LimitAgent(h) \/ LimitFeedback(h)
  \/ Submit(h) \/ Unreachable(h)
  \/ WriteRow(h) \/ recordPilotEvent(h) \/ recordPilotRejection(h)
  \/ recordPilotFeedback(h)

PilotNext ==
  \/ \E h \in Handler : HandlerStep(h)
  \/ Settle \/ Health \/ Progress \/ Tick
  \/ Expire \/ Outage \/ Recover \/ Recycle
  \/ \E r \in RequestId : Drop(r)

PilotSpec == PilotInit /\ [][PilotNext]_pilotVars

-----------------------------------------------------------------------------
Had(r, status) == \E i \in DOMAIN past[r] : past[r][i] = status

(* docs/testnet-pilot-operations.md:68 and 5 -- the read model may be stale, *)
(* but is never wrong and its event log is append only: a row and an event   *)
(* show a status the request had, whoever writes them after whom,            *)
(* a request is accepted once however many submissions and replays race,     *)
(* and the status a row shows has its event unless writing it was lost.      *)
ProjectionTrue ==
  /\ \A r \in RequestId : requests[r] # "none" =>
       /\ Had(r, requests[r])
       /\ \/ \E e \in events : e.request = r /\ e.status = requests[r]
          \/ \E h \in Handler : /\ handler[h].pc = "event" /\ handler[h].request = r
                                /\ handler[h].status = requests[r]
          \/ r \in lost
  /\ \A e \in events : Had(e.request, e.status)
  /\ \A r \in RequestId :
       Cardinality({e \in events : e.type = "request.accepted" /\ e.request = r}) <= 1

(* pilotStore.ts:127 -- one unreachable moment does not poison the instance: *)
(* a store call fails only in an invocation during which the cluster was     *)
(* unreachable, not because an earlier one's promise was rejected.           *)
LostOnlyInOutage == ~poisoned

(* docs/testnet-pilot-operations.md:79 and 87 -- no window passes more than  *)
(* its limit and, windows being fixed, no period of their length more than   *)
(* twice as many; what the store cannot count is not let through.            *)
PassedIn(i, from, to) ==
  Cardinality({p \in passed : p[1] = i /\ p[2] >= from /\ p[2] < to})

SubmissionsBounded ==
  \A i \in Identifier, t \in 0..MaxTime :
    /\ PassedIn(i, t, t + WindowSeconds[i]) <= 2 * Limit[i]
    /\ t % WindowSeconds[i] = 0 =>
         PassedIn(i, t, t + WindowSeconds[i]) <= Limit[i]
=============================================================================
