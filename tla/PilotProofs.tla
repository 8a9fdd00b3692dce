----------------------------- MODULE PilotProofs -----------------------------
(***************************************************************************)
(* Theorems about Pilot, for every choice of its constants: any number of  *)
(* invocations, keys, requests, outages, restarts and dropped writes.      *)
(*                                                                         *)
(* What is known of an invocation depends on where it stands and on the    *)
(* history of its request, which only grows: InvocationOK.  The rest of    *)
(* the invariant relates the memoised promises to the invocations that     *)
(* wait for them, and the rows and events to the history.                  *)
(***************************************************************************)
EXTENDS Pilot, SequenceTheorems, FiniteSetTheorems, TLAPS

Unstarted == [pc : {"idle"}]

Counting == [pc : {"key", "agent", "reject"}, request : RequestId, allowed : BOOLEAN,
             at : Nat, outage : BOOLEAN]

Submitting == [pc : {"submit", "reject"}, request : RequestId, outage : BOOLEAN,
               at : SUBSET (Identifier \X Nat)]

Projections == [pc : {"row", "event"}, request : RequestId, status : Status,
                accepted : BOOLEAN, outage : BOOLEAN]

Feedback == [pc : {"client", "feedback"}, outage : BOOLEAN]

Invocation == Unstarted \cup Counting \cup Submitting \cup Projections \cup Feedback

(* An invocation under way in an outage is marked; what it is about to      *)
(* project is a status the request had, and accepted means submitted.       *)
InvocationOK(s, reachable, history) ==
  /\ s \in Invocation
  /\ ~reachable /\ s.pc # "idle" => s.outage = TRUE
  /\ s.pc \in {"row", "event"} =>
       /\ \E i \in DOMAIN history[s.request] : history[s.request][i] = s.status
       /\ s.status # "none" /\ (s.accepted => s.status = "submitted")

ChainOK ==
  /\ chain \in [RequestId -> Status] /\ past \in [RequestId -> Seq(Status)]
  /\ \A r \in RequestId : chain[r] # "none" => Had(r, chain[r])

(* Whoever waits has a promise to wait for, and none is left rejected.      *)
PromiseOK ==
  /\ memo \in {"none", "connecting", "connected", "indexing", "ready"}
  /\ (\E h \in Handler : handler[h].pc \in Waiting) => memo \notin {"none", "connected"}

Event == [type : EventType, request : RequestId, status : Status]

RowShown(r) ==
  \/ \E e \in events : e.request = r /\ e.status = requests[r]
  \/ \E h \in Handler : /\ handler[h].pc = "event" /\ handler[h].request = r
                        /\ handler[h].status = requests[r]
  \/ r \in lost

RowsOK ==
  /\ requests \in [RequestId -> Status]
  /\ \A r \in RequestId : requests[r] # "none" => Had(r, requests[r]) /\ RowShown(r)

EventsOK ==
  /\ events \subseteq Event
  /\ \A e \in events : /\ Had(e.request, e.status)
                       /\ e.type = "request.accepted" => e.status = "submitted"

CountersOK == \A d \in DOMAIN rate_limits : rate_limits[d] \in Nat \ {0}

HandlersOK ==
  /\ handler \in [Handler -> Invocation]
  /\ \A h \in Handler : InvocationOK(handler[h], up, past)

PilotInv ==
  /\ now \in MinTime..MaxTime /\ up \in BOOLEAN /\ poisoned = FALSE
  /\ HandlersOK /\ ChainOK /\ PromiseOK /\ RowsOK /\ EventsOK /\ CountersOK

-----------------------------------------------------------------------------
(* What the history says is said for good.                                  *)
Remembered == \A r \in RequestId : \A status \in Status : Had(r, status) => Had(r, status)'

(* A status is appended to the history of its request.                      *)
LEMMA BecomeRemembers ==
  ASSUME ChainOK, NEW r \in RequestId, NEW status \in Status, Become(r, status)
  PROVE  /\ ChainOK' /\ Remembered
         /\ \E i \in DOMAIN past'[r] : past'[r][i] = status
<1>1. /\ chain' = [chain EXCEPT ![r] = status]
      /\ past' = [past EXCEPT ![r] = Append(@, status)]
      /\ past \in [RequestId -> Seq(Status)] /\ chain \in [RequestId -> Status]
  BY DEF Become, ChainOK
<1>2. /\ past[r] \in Seq(Status) /\ past'[r] = Append(past[r], status)
      /\ \A q \in RequestId \ {r} : past'[q] = past[q] /\ chain'[q] = chain[q]
      /\ chain'[r] = status
  BY <1>1
<1>3. /\ Append(past[r], status) \in Seq(Status)
      /\ Len(past[r]) \in Nat /\ DOMAIN past[r] = 1..Len(past[r])
      /\ DOMAIN Append(past[r], status) = 1..(Len(past[r]) + 1)
      /\ \A i \in 1..Len(past[r]) : Append(past[r], status)[i] = past[r][i]
      /\ Append(past[r], status)[Len(past[r]) + 1] = status
  <2>1. Append(past[r], status) \in Seq(Status) /\ Len(Append(past[r], status)) = Len(past[r]) + 1
    BY <1>2, AppendProperties
  <2>2. QED
    BY <1>2, <2>1, AppendProperties, LenProperties
<1>4. \E i \in DOMAIN past'[r] : past'[r][i] = status
  BY <1>2, <1>3
<1>5. Remembered
  <2> SUFFICES ASSUME NEW q \in RequestId, NEW s \in Status, Had(q, s)
               PROVE  Had(q, s)'
    BY DEF Remembered
  <2>1. CASE q = r
    <3>1. PICK i \in DOMAIN past[r] : past[r][i] = s
      BY <2>1 DEF Had
    <3>2. i \in DOMAIN past'[r] /\ past'[r][i] = s
      BY <1>2, <1>3, <3>1
    <3>3. QED
      BY <2>1, <3>2 DEF Had
  <2>2. CASE q # r
    BY <1>2, <2>2 DEF Had
  <2>3. QED
    BY <2>1, <2>2
<1>6. past' \in [RequestId -> Seq(Status)] /\ chain' \in [RequestId -> Status]
  <2>1. past' \in [RequestId -> Seq(Status)]
    BY <1>1, <1>2, <1>3
  <2>2. QED
    BY <1>1, <2>1
<1>7. \A q \in RequestId :
        chain'[q] # "none" => \E i \in DOMAIN past'[q] : past'[q][i] = chain'[q]
  <2> SUFFICES ASSUME NEW q \in RequestId, chain'[q] # "none"
               PROVE  \E i \in DOMAIN past'[q] : past'[q][i] = chain'[q]
    OBVIOUS
  <2>1. CASE q = r
    BY <1>2, <1>4, <2>1
  <2>2. CASE q # r
    <3>1. chain'[q] = chain[q] /\ Had(q, chain[q]) /\ chain[q] \in Status
      BY <1>1, <1>2, <2>2 DEF ChainOK
    <3>2. QED
      BY <1>5, <3>1 DEF Remembered, Had
  <2>3. QED
    BY <2>1, <2>2
<1>8. ChainOK'
  BY <1>6, <1>7 DEF ChainOK, Had
<1>9. QED
  BY <1>4, <1>5, <1>8

(* A step that leaves GenLayer alone keeps what is known of its history.    *)
LEMMA SameHistory ==
  ASSUME ChainOK, UNCHANGED <<chain, past>>
  PROVE  ChainOK' /\ Remembered
BY DEF ChainOK, Remembered, Had

(* What is known of an invocation stays known while the history grows and   *)
(* no outage begins.                                                        *)
LEMMA InvocationStays ==
  ASSUME NEW s, InvocationOK(s, up, past), Remembered,
         up \in BOOLEAN, up' = up \/ up' = TRUE
  PROVE  InvocationOK(s, up', past')
<1>1. s.pc \in {"row", "event"} => s.request \in RequestId /\ s.status \in Status
  BY DEF InvocationOK, Invocation, Unstarted, Counting, Submitting, Projections, Feedback
<1>2. s.pc \in {"row", "event"} =>
        \E i \in DOMAIN past'[s.request] : past'[s.request][i] = s.status
  BY <1>1 DEF InvocationOK, Remembered, Had
<1>3. QED
  BY <1>2 DEF InvocationOK

(* Rows and events stay true to a history that grows, as long as whoever    *)
(* was about to write an event still is, has written it, or lost it.        *)
LEMMA RowsStay ==
  ASSUME RowsOK, Remembered, UNCHANGED requests,
         events \subseteq events', lost \subseteq lost',
         \A h \in Handler : handler[h].pc = "event" =>
           \/ /\ handler'[h].pc = "event" /\ handler'[h].request = handler[h].request
              /\ handler'[h].status = handler[h].status
           \/ \E e \in events' : e.request = handler[h].request /\ e.status = handler[h].status
           \/ handler[h].request \in lost'
  PROVE  RowsOK'
<1>1. \A r \in RequestId :
        requests[r] # "none" => \E i \in DOMAIN past'[r] : past'[r][i] = requests[r]
  BY DEF RowsOK, Remembered, Had
<1>2. ASSUME NEW r \in RequestId, requests[r] # "none"
      PROVE  \/ \E e \in events' : e.request = r /\ e.status = requests[r]
             \/ \E h \in Handler : /\ handler'[h].pc = "event" /\ handler'[h].request = r
                                   /\ handler'[h].status = requests[r]
             \/ r \in lost'
  <2>1. \/ \E e \in events : e.request = r /\ e.status = requests[r]
        \/ \E h \in Handler : /\ handler[h].pc = "event" /\ handler[h].request = r
                              /\ handler[h].status = requests[r]
        \/ r \in lost
    BY <1>2 DEF RowsOK, RowShown
  <2>2. QED
    BY <2>1
<1>3. QED
  BY <1>1, <1>2 DEF RowsOK, RowShown, Had

(* A recorded event stays true, because a request had its statuses for      *)
(* ever.                                                                    *)
LEMMA EventsStay ==
  ASSUME EventsOK, Remembered, UNCHANGED events
  PROVE  EventsOK'
BY DEF EventsOK, Event, Remembered, Had

-----------------------------------------------------------------------------
(* One invocation moves, and memoises what it then waits for.               *)
LEMMA OneMoves ==
  ASSUME PilotInv, NEW h \in Handler, NEW s,
         handler' = [handler EXCEPT ![h] = s], InvocationOK(s, up', past'),
         Remembered, UNCHANGED up,
         memo' \in {memo, Await(memo)}, s.pc \in Waiting => memo' = Await(memo)
  PROVE  /\ HandlersOK' /\ PromiseOK'
         /\ handler'[h] = s /\ \A g \in Handler \ {h} : handler'[g] = handler[g]
<1>1. handler \in [Handler -> Invocation] /\ s \in Invocation
  BY DEF PilotInv, HandlersOK, InvocationOK
<1>2. /\ handler' \in [Handler -> Invocation] /\ handler'[h] = s
      /\ \A g \in Handler \ {h} : handler'[g] = handler[g]
  BY <1>1
<1>3. \A g \in Handler : InvocationOK(handler[g], up', past')
  BY InvocationStays DEF PilotInv, HandlersOK
<1>4. HandlersOK'
  BY <1>2, <1>3 DEF HandlersOK
<1>5. PromiseOK'
  BY <1>2 DEF PilotInv, PromiseOK, Await
<1>6. QED
  BY <1>2, <1>4, <1>5

(* A failed invocation has nothing left to do, or a refusal to record.      *)
LEMMA AfterFailureOK ==
  ASSUME NEW s, NEW u, NEW history, InvocationOK(s, u, history)
  PROVE  /\ InvocationOK(AfterFailure(s), u, history)
         /\ AfterFailure(s).pc \notin {"none", "row", "event"}
<1>1. CASE s.pc \in {"key", "agent"}
  <2>1. s \in Counting
    BY <1>1 DEF InvocationOK, Invocation, Unstarted, Submitting, Projections, Feedback
  <2>2. /\ [s EXCEPT !.pc = "reject"] \in Counting
        /\ [s EXCEPT !.pc = "reject"].pc = "reject"
        /\ [s EXCEPT !.pc = "reject"].outage = s.outage
    BY <2>1 DEF Counting
  <2>3. QED
    BY <1>1, <2>2 DEF InvocationOK, Invocation, AfterFailure
<1>2. CASE s.pc \notin {"key", "agent"}
  BY <1>2 DEF InvocationOK, Invocation, Unstarted, AfterFailure, Idle
<1>3. QED
  BY <1>1, <1>2

(* The invocations in H are told that the store has failed, in an outage.   *)
LEMMA Failing ==
  ASSUME PilotInv, NEW H \in SUBSET Handler, NEW m \in {"none", "connected", "ready"},
         ~up, FailAll(H, m), UNCHANGED <<world, stored>>,
         \A h \in H : handler[h].pc \in Waiting,
         (\E h \in Handler \ H : handler[h].pc \in Waiting) => m = "ready"
  PROVE  PilotInv'
<1>1. UNCHANGED <<now, chain, past, up, requests, events, rate_limits>>
  BY DEF world, stored, projection
<1>2. ChainOK' /\ Remembered
  BY <1>1, SameHistory DEF PilotInv
<1>3. EventsOK' /\ CountersOK'
  BY <1>1, <1>2, EventsStay DEF PilotInv, CountersOK
<1>4. poisoned' = FALSE
  <2>1. \A h \in H : handler[h].outage = TRUE
    BY DEF PilotInv, HandlersOK, InvocationOK, Waiting
  <2>2. QED
    BY <2>1 DEF FailAll, PilotInv
<1>5. /\ \A h \in H : handler'[h] = AfterFailure(handler[h])
      /\ \A h \in Handler \ H : handler'[h] = handler[h]
      /\ handler' = [h \in Handler |-> handler'[h]]
  BY DEF FailAll
<1>6. \A h \in Handler : InvocationOK(handler'[h], up', past')
  BY <1>1, <1>5, AfterFailureOK DEF PilotInv, HandlersOK
<1>7. HandlersOK'
  <2>1. \A h \in Handler : handler'[h] \in Invocation
    BY <1>6 DEF InvocationOK
  <2>2. handler' \in [Handler -> Invocation]
    BY <1>5, <2>1
  <2>3. QED
    BY <1>6, <2>2 DEF HandlersOK
<1>8. PromiseOK'
  <2>1. memo' = IF \E h \in H : handler'[h].pc \in Waiting THEN Await(m) ELSE m
    BY DEF FailAll
  <2>2. CASE \E h \in H : handler'[h].pc \in Waiting
    BY <2>1, <2>2 DEF Await, PromiseOK
  <2>3. CASE ~ \E h \in H : handler'[h].pc \in Waiting
    BY <1>5, <2>1, <2>3 DEF PromiseOK
  <2>4. QED
    BY <2>2, <2>3
<1>9. RowsOK'
  <2>1. lost' = lost \cup {handler[h].request : h \in {g \in H : handler[g].pc = "event"}}
    BY DEF FailAll, LoseEvents
  <2>2. \A h \in Handler : handler[h].pc = "event" =>
          \/ handler'[h] = handler[h] \/ handler[h].request \in lost'
    BY <1>5, <2>1
  <2>3. lost \subseteq lost' /\ events \subseteq events'
    BY <1>1, <2>1
  <2>4. QED
    BY <1>1, <1>2, <2>2, <2>3, RowsStay DEF PilotInv
<1>10. QED
  BY <1>1, <1>2, <1>3, <1>4, <1>7, <1>8, <1>9 DEF PilotInv

(* An invocation moves and leaves rows and events alone.                    *)
LEMMA QuietMove ==
  ASSUME PilotInv, NEW h \in Handler, NEW s,
         handler' = [handler EXCEPT ![h] = s], InvocationOK(s, up', past'),
         memo' \in {memo, Await(memo)}, s.pc \in Waiting => memo' = Await(memo),
         ChainOK', Remembered, CountersOK', handler[h].pc # "event",
         UNCHANGED <<now, up, requests, events, losses>>
  PROVE  PilotInv'
<1>1. /\ HandlersOK' /\ PromiseOK'
      /\ \A g \in Handler \ {h} : handler'[g] = handler[g]
  BY OneMoves
<1>2. UNCHANGED <<lost, poisoned>>
  BY DEF losses
<1>3. RowsOK'
  <2>1. \A g \in Handler : handler[g].pc = "event" => handler'[g] = handler[g]
    BY <1>1
  <2>2. QED
    BY <1>2, <2>1, RowsStay DEF PilotInv
<1>4. EventsOK'
  BY EventsStay DEF PilotInv
<1>5. QED
  BY <1>1, <1>2, <1>3, <1>4 DEF PilotInv

(* An idle invocation is well whatever has happened.                        *)
LEMMA IdleOK == \A u, history : InvocationOK(Idle, u, history)
BY DEF InvocationOK, Invocation, Unstarted, Idle

-----------------------------------------------------------------------------
(* The connection: it is opened, or found to be gone in an outage.          *)
LEMMA ConnectionSteps ==
  ASSUME PilotInv, Settle \/ Health \/ \E h \in Handler : Unreachable(h)
  PROVE  PilotInv'
<1>1. CASE Health
  <2>1. /\ memo = "none" /\ memo' = "connecting"
        /\ UNCHANGED <<now, chain, past, up, handler, requests, events, rate_limits, lost,
                       poisoned>>
    BY <1>1 DEF Health, world, stored, projection, losses
  <2>2. ChainOK' /\ Remembered
    BY <2>1, SameHistory DEF PilotInv
  <2>3. HandlersOK' /\ PromiseOK' /\ CountersOK'
    BY <2>1 DEF PilotInv, HandlersOK, PromiseOK, CountersOK
  <2>4. RowsOK' /\ EventsOK'
    BY <2>1, <2>2, RowsStay, EventsStay DEF PilotInv
  <2>5. QED
    BY <2>1, <2>2, <2>3, <2>4 DEF PilotInv
<1>2. CASE Settle /\ up
  <2>1. /\ UNCHANGED <<now, chain, past, up, handler, requests, events, rate_limits, lost,
                       poisoned>>
        /\ memo' \in {"ready", "connected", "indexing"}
        /\ (\E h \in Handler : handler[h].pc \in Waiting) => memo' # "connected"
    BY <1>2 DEF Settle, world, stored, projection, losses
  <2>2. ChainOK' /\ Remembered
    BY <2>1, SameHistory DEF PilotInv
  <2>3. HandlersOK' /\ PromiseOK' /\ CountersOK'
    BY <2>1 DEF PilotInv, HandlersOK, PromiseOK, CountersOK
  <2>4. RowsOK' /\ EventsOK'
    BY <2>1, <2>2, RowsStay, EventsStay DEF PilotInv
  <2>5. QED
    BY <2>1, <2>2, <2>3, <2>4 DEF PilotInv
<1>3. CASE Settle /\ ~up
  <2> DEFINE H == {h \in Handler : handler[h].pc \in Waiting}
  <2>1. FailAll(H, AfterRejection(memo)) /\ UNCHANGED <<world, stored>>
    BY <1>3 DEF Settle
  <2>2. AfterRejection(memo) \in {"none", "connected", "ready"}
    BY DEF AfterRejection
  <2>3. QED
    BY <1>3, <2>1, <2>2, Failing
<1>4. ASSUME NEW h \in Handler, Unreachable(h) PROVE PilotInv'
  <2>1. memo = "ready" /\ ~up /\ handler[h].pc \in Waiting
    BY <1>4 DEF Unreachable, PilotInv, PromiseOK
  <2>2. FailAll({h}, "ready") /\ UNCHANGED <<world, stored>>
    BY <1>4, <2>1 DEF Unreachable
  <2>3. QED
    BY <2>1, <2>2, Failing
<1>5. QED
  BY <1>1, <1>2, <1>3, <1>4

(* The routes begin.                                                        *)
LEMMA Starting ==
  ASSUME PilotInv, NEW h \in Handler, NEW s, Start(h, s), InvocationOK(s, up, past)
  PROVE  PilotInv'
<1>1. /\ handler' = [handler EXCEPT ![h] = s] /\ memo' = Await(memo)
      /\ UNCHANGED <<now, up, chain, past, requests, events, rate_limits, losses>>
      /\ handler[h].pc # "event"
  BY DEF Start, world, stored, projection, Idle
<1>2. ChainOK' /\ Remembered /\ CountersOK'
  BY <1>1, SameHistory DEF PilotInv, CountersOK
<1>3. QED
  BY <1>1, <1>2, QuietMove

(* The entry of a spend, a poll or a feedback keeps the invariant.          *)
LEMMA Routes ==
  ASSUME PilotInv, NEW h \in Handler, Spend(h) \/ Poll(h) \/ PostFeedback(h)
  PROVE  PilotInv'
<1>1. now \in Nat /\ up \in BOOLEAN
  BY PilotAssumption DEF PilotInv
<1>2. CASE Spend(h)
  <2>1. PICK r \in RequestId :
          Start(h, [pc |-> "key", request |-> r, allowed |-> FALSE, at |-> now,
                    outage |-> ~up])
    BY <1>2 DEF Spend
  <2> DEFINE s == [pc |-> "key", request |-> r, allowed |-> FALSE, at |-> now,
                   outage |-> ~up]
  <2>2. s \in Counting /\ s.pc = "key" /\ (~up => s.outage = TRUE)
    BY <1>1 DEF Counting
  <2>3. InvocationOK(s, up, past)
    BY <2>2 DEF InvocationOK, Invocation
  <2>4. QED
    BY <2>1, <2>3, Starting
<1>3. CASE Poll(h)
  <2>1. PICK r \in RequestId :
          chain[r] \in Stored /\ Start(h, Projecting(r, chain[r], FALSE))
    BY <1>3 DEF Poll
  <2> DEFINE s == Projecting(r, chain[r], FALSE)
  <2>2. /\ s \in Projections /\ s.pc = "row" /\ (~up => s.outage = TRUE)
        /\ s.request = r /\ s.status = chain[r] /\ s.accepted = FALSE
        /\ chain[r] # "none"
    BY <1>1, <2>1 DEF Projecting, Projections, Status, Stored
  <2>3. \E i \in DOMAIN past[r] : past[r][i] = chain[r]
    BY <2>2 DEF PilotInv, ChainOK, Had
  <2>4. InvocationOK(s, up, past)
    BY <2>2, <2>3 DEF InvocationOK, Invocation
  <2>5. QED
    BY <2>1, <2>4, Starting
<1>4. CASE PostFeedback(h)
  <2> DEFINE s == [pc |-> "client", outage |-> ~up]
  <2>1. s \in Feedback /\ s.pc = "client" /\ (~up => s.outage = TRUE)
    BY <1>1 DEF Feedback
  <2>2. InvocationOK(s, up, past)
    BY <2>1 DEF InvocationOK, Invocation
  <2>3. QED
    BY <1>4, <2>2, Starting DEF PostFeedback
<1>5. QED
  BY <1>2, <1>3, <1>4

-----------------------------------------------------------------------------
(* A counter that is incremented is positive.                               *)
LEMMA CountKeeps ==
  ASSUME CountersOK, NEW i, Count(i)
  PROVE  CountersOK'
<1>1. counted(i) \in Nat \ {0}
  BY DEF counted, CountersOK
<1>2. QED
  BY <1>1 DEF Count, CountersOK

(* Counting a submission or a feedback document, or refusing it.            *)
LEMMA Limits ==
  ASSUME PilotInv, NEW h \in Handler, LimitKey(h) \/ LimitAgent(h) \/ LimitFeedback(h)
  PROVE  PilotInv'
<1>1. /\ UNCHANGED <<now, up, chain, past, requests, events, losses>>
      /\ memo = "ready" /\ up
      /\ handler[h].pc \in {"key", "agent", "client"}
  BY DEF LimitKey, LimitAgent, LimitFeedback, Answering, world, projection
<1>2. ChainOK' /\ Remembered
  BY <1>1, SameHistory DEF PilotInv
<1>3. CountersOK'
  BY CountKeeps DEF PilotInv, LimitKey, LimitAgent, LimitFeedback
<1>4. memo' = memo /\ Await(memo) = memo
  BY <1>1 DEF LimitKey, LimitAgent, LimitFeedback, Enter, Finish, Await
<1>5. handler[h] \in Invocation /\ handler \in [Handler -> Invocation] /\ now \in Nat
  BY PilotAssumption DEF PilotInv, HandlersOK
<1>6. CASE LimitKey(h)
  <2> DEFINE s == [handler[h] EXCEPT !.pc = "agent", !.at = now,
                                     !.allowed = Allowed(handler[h].request[1])]
  <2>1. handler[h].pc = "key" /\ handler[h] \in Counting
    BY <1>5, <1>6 DEF LimitKey, Answering, Invocation, Unstarted, Submitting, Projections,
                      Feedback
  <2>2. Allowed(handler[h].request[1]) \in BOOLEAN
    BY DEF Allowed
  <2>3. s \in Counting /\ s.pc = "agent"
    BY <1>5, <2>1, <2>2 DEF Counting
  <2>4. InvocationOK(s, up', past')
    BY <1>1, <2>3 DEF InvocationOK, Invocation
  <2>5. handler' = [handler EXCEPT ![h] = s]
    BY <1>5, <1>6 DEF LimitKey
  <2>6. QED
    BY <1>1, <1>2, <1>3, <1>4, <2>4, <2>5, QuietMove
<1>7. CASE LimitAgent(h)
  <2>1. handler[h].pc = "agent" /\ handler[h] \in Counting
    BY <1>5, <1>7 DEF LimitAgent, Answering, Invocation, Unstarted, Submitting, Projections,
                      Feedback
  <2> DEFINE s == [pc |-> "submit", request |-> handler[h].request,
                   outage |-> handler[h].outage,
                   at |-> {<<handler[h].request[1], handler[h].at>>, <<Agent, now>>}]
  <2>2. s \in Submitting /\ s.pc = "submit"
    <3>1. /\ handler[h].request \in RequestId /\ handler[h].outage \in BOOLEAN
          /\ handler[h].at \in Nat
      BY <2>1 DEF Counting
    <3>2. handler[h].request[1] \in Identifier /\ Agent \in Identifier
      BY <3>1 DEF RequestId, Identifier
    <3>3. {<<handler[h].request[1], handler[h].at>>, <<Agent, now>>}
            \in SUBSET (Identifier \X Nat)
      BY <1>5, <3>1, <3>2
    <3>4. QED
      BY <3>1, <3>3 DEF Submitting
  <2>3. InvocationOK(s, up', past') /\ InvocationOK(Idle, up', past')
    BY <1>1, <2>2, IdleOK DEF InvocationOK, Invocation
  <2>4. \/ handler' = [handler EXCEPT ![h] = s]
        \/ handler' = [handler EXCEPT ![h] = Idle]
    BY <1>5, <1>7 DEF LimitAgent, Finish
  <2>5. QED
    BY <1>1, <1>2, <1>3, <1>4, <2>3, <2>4, QuietMove
<1>8. CASE LimitFeedback(h)
  <2> DEFINE s == [handler[h] EXCEPT !.pc = "feedback"]
  <2>1. handler[h].pc = "client" /\ handler[h] \in Feedback
    BY <1>5, <1>8 DEF LimitFeedback, Answering, Invocation, Unstarted, Submitting,
                      Projections, Counting
  <2>2. s \in Feedback /\ s.pc = "feedback"
    BY <2>1 DEF Feedback
  <2>3. InvocationOK(s, up', past') /\ InvocationOK(Idle, up', past')
    BY <1>1, <2>2, IdleOK DEF InvocationOK, Invocation
  <2>4. \/ handler' = [handler EXCEPT ![h] = s]
        \/ handler' = [handler EXCEPT ![h] = Idle]
    BY <1>5, <1>8 DEF LimitFeedback, Enter, Finish
  <2>5. QED
    BY <1>1, <1>2, <1>3, <1>4, <2>3, <2>4, QuietMove
<1>9. QED
  BY <1>6, <1>7, <1>8

(* Submitting: GenLayer's copy is replayed, or the request is submitted, or *)
(* an error is recorded.                                                    *)
LEMMA Submits ==
  ASSUME PilotInv, NEW h \in Handler, Submit(h)
  PROVE  PilotInv'
<1> DEFINE r == handler[h].request
<1>1. /\ UNCHANGED <<now, up, requests, events, rate_limits, losses>>
      /\ handler[h].pc = "submit" /\ handler \in [Handler -> Invocation]
      /\ ChainOK /\ up \in BOOLEAN
  BY DEF Submit, stored, projection, PilotInv, HandlersOK
<1>2. /\ handler[h] \in Submitting /\ r \in RequestId
      /\ handler[h].outage \in BOOLEAN /\ (~up => handler[h].outage = TRUE)
  <2>1. handler[h] \in Invocation /\ (~up => handler[h].outage = TRUE)
    BY <1>1 DEF PilotInv, HandlersOK, InvocationOK
  <2>2. handler[h] \in Submitting
    BY <1>1, <2>1 DEF Invocation, Unstarted, Counting, Projections, Feedback
  <2>3. QED
    BY <2>1, <2>2 DEF Submitting
<1>3. CountersOK'
  BY <1>1 DEF PilotInv, CountersOK
<1>4. ASSUME NEW status \in Status \ {"none"}, NEW accepted \in BOOLEAN,
             accepted => status = "submitted", Observe(h, status, accepted),
             ChainOK', Remembered, \E i \in DOMAIN past'[r] : past'[r][i] = status
      PROVE  PilotInv'
  <2> DEFINE s == Projecting(r, status, accepted)
  <2>1. /\ s \in Projections /\ s.pc = "row" /\ (~up => s.outage = TRUE)
        /\ s.request = r /\ s.status = status /\ s.accepted = accepted
    BY <1>1, <1>2 DEF Projecting, Projections
  <2>2. InvocationOK(s, up', past')
    BY <1>1, <1>4, <2>1 DEF InvocationOK, Invocation
  <2>3. handler' = [handler EXCEPT ![h] = s] /\ memo' = Await(memo)
    BY <1>1, <1>4 DEF Observe
  <2>4. QED
    BY <1>1, <1>3, <1>4, <2>2, <2>3, QuietMove
<1>5. CASE Replay(h)
  <2>1. chain[r] \in Stored /\ Observe(h, chain[r], FALSE) /\ UNCHANGED <<chain, past>>
    BY <1>5 DEF Replay
  <2>2. chain[r] \in Status \ {"none"}
    BY <2>1 DEF Stored, Status
  <2>3. \E i \in DOMAIN past'[r] : past'[r][i] = chain[r]
    BY <1>1, <1>2, <2>1, <2>2 DEF ChainOK, Had
  <2>4. ChainOK' /\ Remembered
    BY <1>1, <2>1, SameHistory
  <2>5. QED
    BY <1>4, <2>1, <2>2, <2>3, <2>4
<1>6. CASE Become(r, "submitted") /\ Observe(h, "submitted", TRUE)
  <2>1. "submitted" \in Status \ {"none"}
    BY DEF Status
  <2>2. /\ ChainOK' /\ Remembered
        /\ \E i \in DOMAIN past'[r] : past'[r][i] = "submitted"
    BY <1>1, <1>2, <1>6, <2>1, BecomeRemembers
  <2>3. QED
    BY <1>4, <1>6, <2>1, <2>2
<1>7. CASE Enter(h, "reject") /\ UNCHANGED <<chain, past>>
  <2> DEFINE s == [handler[h] EXCEPT !.pc = "reject"]
  <2>1. s \in Submitting /\ s.pc = "reject" /\ s.outage = handler[h].outage
    BY <1>2 DEF Submitting
  <2>2. InvocationOK(s, up', past')
    BY <1>1, <1>2, <2>1 DEF InvocationOK, Invocation
  <2>3. handler' = [handler EXCEPT ![h] = s] /\ memo' = Await(memo)
    BY <1>1, <1>7 DEF Enter, Waiting
  <2>4. ChainOK' /\ Remembered
    BY <1>1, <1>7, SameHistory
  <2>5. QED
    BY <1>1, <1>3, <2>2, <2>3, <2>4, QuietMove
<1>8. QED
  BY <1>5, <1>6, <1>7 DEF Submit

-----------------------------------------------------------------------------
(* Projecting: the row, then its event.                                     *)
LEMMA WritesRow ==
  ASSUME PilotInv, NEW h \in Handler, WriteRow(h)
  PROVE  PilotInv'
<1> DEFINE r == handler[h].request
           s == [handler[h] EXCEPT !.pc = "event"]
<1>1. /\ UNCHANGED <<now, up, chain, past, events, rate_limits, lost, poisoned>>
      /\ handler[h].pc = "row" /\ memo' = memo /\ Await(memo) = memo
      /\ handler \in [Handler -> Invocation] /\ InvocationOK(handler[h], up, past)
      /\ requests' = [requests EXCEPT ![r] = handler[h].status]
      /\ handler' = [handler EXCEPT ![h].pc = "event"]
  BY DEF WriteRow, Answering, Enter, Waiting, Await, world, losses, PilotInv, HandlersOK
<1>2. handler[h] \in Projections
  BY <1>1 DEF InvocationOK, Invocation, Unstarted, Counting, Submitting, Feedback
<1>3. /\ r \in RequestId /\ handler[h].status \in Status \ {"none"}
      /\ \E i \in DOMAIN past[r] : past[r][i] = handler[h].status
  BY <1>1, <1>2 DEF InvocationOK, Projections
<1>4. /\ s \in Projections /\ s.pc = "event" /\ s.outage = handler[h].outage
      /\ s.request = r /\ s.status = handler[h].status /\ s.accepted = handler[h].accepted
  BY <1>2 DEF Projections
<1>5. InvocationOK(s, up', past')
  BY <1>1, <1>4 DEF InvocationOK, Invocation
<1>6. handler' = [handler EXCEPT ![h] = s]
  BY <1>1
<1>7. ChainOK' /\ Remembered
  BY <1>1, SameHistory DEF PilotInv
<1>8. /\ HandlersOK' /\ PromiseOK' /\ handler'[h] = s
      /\ \A g \in Handler \ {h} : handler'[g] = handler[g]
  BY <1>1, <1>5, <1>6, <1>7, OneMoves
<1>9. EventsOK' /\ CountersOK'
  BY <1>1, <1>7, EventsStay DEF PilotInv, CountersOK
<1>10. RowsOK'
  <2>1. /\ requests \in [RequestId -> Status] /\ requests' \in [RequestId -> Status]
        /\ requests'[r] = handler[h].status
        /\ \A q \in RequestId \ {r} : requests'[q] = requests[q]
    BY <1>1, <1>3 DEF PilotInv, RowsOK
  <2>2. ASSUME NEW q \in RequestId, requests'[q] # "none"
        PROVE  /\ \E i \in DOMAIN past'[q] : past'[q][i] = requests'[q]
               /\ \/ \E e \in events' : e.request = q /\ e.status = requests'[q]
                  \/ \E g \in Handler : /\ handler'[g].pc = "event"
                                        /\ handler'[g].request = q
                                        /\ handler'[g].status = requests'[q]
                  \/ q \in lost'
    <3>1. CASE q = r
      <4>1. \E i \in DOMAIN past'[q] : past'[q][i] = requests'[q]
        BY <1>1, <1>3, <2>1, <3>1
      <4>2. /\ handler'[h].pc = "event" /\ handler'[h].request = q
            /\ handler'[h].status = requests'[q]
        BY <1>4, <1>8, <2>1, <3>1
      <4>3. QED
        BY <4>1, <4>2
    <3>2. CASE q # r
      <4>1. requests'[q] = requests[q] /\ Had(q, requests[q]) /\ RowShown(q)
        BY <2>1, <2>2, <3>2 DEF PilotInv, RowsOK
      <4>2. \E i \in DOMAIN past'[q] : past'[q][i] = requests'[q]
        BY <1>1, <4>1 DEF Had
      <4>3. ASSUME NEW g \in Handler, handler[g].pc = "event", handler[g].request = q,
                   handler[g].status = requests[q]
            PROVE  g # h
        BY <1>1, <4>3
      <4>4. QED
        BY <1>1, <1>8, <4>1, <4>2, <4>3 DEF RowShown
    <3>3. QED
      BY <3>1, <3>2
  <2>3. QED
    BY <2>1, <2>2 DEF RowsOK, RowShown, Had
<1>11. QED
  BY <1>1, <1>7, <1>8, <1>9, <1>10 DEF PilotInv

(* Inserting an event keeps the invariant: its writer saw the status.       *)
LEMMA WritesEvent ==
  ASSUME PilotInv, NEW h \in Handler, recordPilotEvent(h)
  PROVE  PilotInv'
<1> DEFINE e == EventOf(handler[h])
<1>1. /\ UNCHANGED <<now, up, chain, past, requests, rate_limits, lost, poisoned, memo>>
      /\ handler[h].pc = "event" /\ events' = events \cup {e}
      /\ handler \in [Handler -> Invocation] /\ InvocationOK(handler[h], up, past)
      /\ handler' = [handler EXCEPT ![h] = Idle]
  BY DEF recordPilotEvent, Answering, Finish, world, losses, PilotInv, HandlersOK
<1>2. handler[h] \in Projections
  BY <1>1 DEF InvocationOK, Invocation, Unstarted, Counting, Submitting, Feedback
<1>3. ChainOK' /\ Remembered /\ CountersOK'
  BY <1>1, SameHistory DEF PilotInv, CountersOK
<1>4. /\ HandlersOK' /\ PromiseOK'
      /\ \A g \in Handler \ {h} : handler'[g] = handler[g]
  <2>1. InvocationOK(Idle, up', past') /\ Idle.pc \notin Waiting
    BY IdleOK DEF Idle, Waiting
  <2>2. QED
    BY <1>1, <1>3, <2>1, OneMoves
<1>5. /\ e \in Event /\ e.request = handler[h].request /\ e.status = handler[h].status
      /\ e.type = "request.accepted" => e.status = "submitted"
      /\ \E i \in DOMAIN past[e.request] : past[e.request][i] = e.status
  <2>1. eventForRequest(handler[h].status) \in EventType \ {"request.accepted"}
    BY DEF eventForRequest, EventType
  <2>2. "request.accepted" \in EventType
    BY DEF EventType
  <2>3. e \in Event /\ e.request = handler[h].request /\ e.status = handler[h].status
        /\ (e.type = "request.accepted" => handler[h].accepted)
    BY <1>2, <2>1, <2>2 DEF EventOf, Event, Projections
  <2>4. QED
    BY <1>1, <2>3 DEF InvocationOK
<1>6. EventsOK'
  <2>1. /\ events \subseteq Event
        /\ \A d \in events : /\ \E i \in DOMAIN past[d.request] : past[d.request][i] = d.status
                             /\ d.type = "request.accepted" => d.status = "submitted"
    BY DEF PilotInv, EventsOK, Had
  <2> HIDE DEF e
  <2>2. \A d \in events' : /\ \E i \in DOMAIN past'[d.request] : past'[d.request][i] = d.status
                           /\ d.type = "request.accepted" => d.status = "submitted"
    BY <1>1, <1>5, <2>1
  <2>3. QED
    BY <1>1, <1>5, <2>1, <2>2 DEF EventsOK, Had
<1>7. RowsOK'
  <2> HIDE DEF e
  <2>1. \A g \in Handler : handler[g].pc = "event" =>
          \/ handler'[g] = handler[g]
          \/ \E d \in events' : d.request = handler[g].request /\ d.status = handler[g].status
    BY <1>1, <1>4, <1>5
  <2>2. QED
    BY <1>1, <1>3, <2>1, RowsStay DEF PilotInv
<1>8. QED
  BY <1>1, <1>3, <1>4, <1>6, <1>7 DEF PilotInv

(* A rejection or a feedback document is counted.                           *)
LEMMA WritesCount ==
  ASSUME PilotInv, NEW h \in Handler, recordPilotRejection(h) \/ recordPilotFeedback(h)
  PROVE  PilotInv'
<1>1. /\ UNCHANGED <<now, up, chain, past, requests, events, rate_limits, losses, memo>>
      /\ handler[h].pc \in {"reject", "feedback"}
      /\ handler' = [handler EXCEPT ![h] = Idle]
  BY DEF recordPilotRejection, recordPilotFeedback, Answering, Finish, world, projection
<1>2. ChainOK' /\ Remembered /\ CountersOK'
  BY <1>1, SameHistory DEF PilotInv, CountersOK
<1>3. InvocationOK(Idle, up', past') /\ Idle.pc \notin Waiting
  BY IdleOK DEF Idle, Waiting
<1>4. QED
  BY <1>1, <1>2, <1>3, QuietMove

-----------------------------------------------------------------------------
(* GenLayer goes on with a request, or drops it.                            *)
LEMMA ChainSteps ==
  ASSUME PilotInv, Progress \/ \E r \in RequestId : Drop(r)
  PROVE  PilotInv'
<1>1. /\ \E r \in RequestId, status \in Status : Become(r, status)
      /\ UNCHANGED <<now, up, memo, handler, requests, events, rate_limits, lost, poisoned>>
  <2>1. Stored \subseteq Status /\ "none" \in Status
    BY DEF Status
  <2>2. QED
    BY <2>1 DEF Progress, Drop, stored, projection, losses
<1>2. ChainOK' /\ Remembered
  BY <1>1, BecomeRemembers DEF PilotInv
<1>3. HandlersOK'
  BY <1>1, <1>2, InvocationStays DEF PilotInv, HandlersOK
<1>4. RowsOK' /\ EventsOK'
  BY <1>1, <1>2, RowsStay, EventsStay DEF PilotInv
<1>5. PromiseOK' /\ CountersOK'
  BY <1>1 DEF PilotInv, PromiseOK, CountersOK
<1>6. QED
  BY <1>1, <1>2, <1>3, <1>4, <1>5 DEF PilotInv

(* Time passes, counters expire, the cluster comes back.                    *)
LEMMA QuietWorld ==
  ASSUME PilotInv, Tick \/ Expire \/ Recover \/ UNCHANGED pilotVars
  PROVE  PilotInv'
<1>1. /\ UNCHANGED <<chain, past, memo, handler, requests, events, lost, poisoned>>
      /\ up' = up \/ up' = TRUE
      /\ now' = now \/ (now < MaxTime /\ now' = now + 1)
      /\ \/ UNCHANGED rate_limits
         \/ rate_limits' = [d \in {e \in DOMAIN rate_limits : now < expires_at(e)} |->
                              rate_limits[d]]
  BY DEF Tick, Expire, Recover, pilotVars, world, stored, projection, losses
<1>2. now' \in MinTime..MaxTime /\ up' \in BOOLEAN
  <2>1. now' \in MinTime..MaxTime
    BY <1>1, PilotAssumption DEF PilotInv
  <2>2. up \in BOOLEAN
    BY DEF PilotInv
  <2>3. up' \in BOOLEAN
    BY <1>1, <2>2
  <2>4. QED
    BY <2>1, <2>3
<1>3. ChainOK' /\ Remembered
  BY <1>1, SameHistory DEF PilotInv
<1>4. HandlersOK'
  BY <1>1, <1>3, InvocationStays DEF PilotInv, HandlersOK
<1>5. RowsOK' /\ EventsOK'
  BY <1>1, <1>3, RowsStay, EventsStay DEF PilotInv
<1>6. PromiseOK' /\ CountersOK'
  BY <1>1 DEF PilotInv, PromiseOK, CountersOK
<1>7. QED
  BY <1>1, <1>2, <1>3, <1>4, <1>5, <1>6 DEF PilotInv

(* An outage marks whoever is under way.                                    *)
LEMMA OutageMarks ==
  ASSUME PilotInv, Outage
  PROVE  PilotInv'
<1> DEFINE marked(h) == IF handler[h] = Idle THEN Idle
                        ELSE [handler[h] EXCEPT !.outage = TRUE]
<1>1. /\ UNCHANGED <<now, chain, past, memo, requests, events, rate_limits, lost, poisoned>>
      /\ up' = FALSE /\ handler' = [h \in Handler |-> marked(h)]
      /\ handler \in [Handler -> Invocation]
      /\ \A h \in Handler : InvocationOK(handler[h], up, past)
  BY DEF Outage, stored, projection, losses, PilotInv, HandlersOK
<1>2. ChainOK' /\ Remembered /\ CountersOK'
  BY <1>1, SameHistory DEF PilotInv, CountersOK
<1>3. ASSUME NEW h \in Handler
      PROVE  /\ InvocationOK(marked(h), up', past') /\ marked(h).pc = handler[h].pc
             /\ handler[h].pc = "event" => /\ marked(h).request = handler[h].request
                                           /\ marked(h).status = handler[h].status
  <2> DEFINE s == handler[h]
             t == [s EXCEPT !.outage = TRUE]
  <2>1. s \in Invocation /\ InvocationOK(s, up, past) /\ past' = past
    BY <1>1
  <2>2. CASE s \in Unstarted
    <3>1. s = Idle
      BY <2>2 DEF Unstarted, Idle
    <3>2. QED
      BY <3>1, IdleOK DEF Idle
  <2>3. CASE s \in Counting
    <3>1. t \in Counting /\ t.pc = s.pc /\ t.outage = TRUE /\ s.pc \notin {"idle", "row", "event"}
      BY <2>3 DEF Counting
    <3>2. QED
      BY <3>1 DEF InvocationOK, Invocation, Idle
  <2>4. CASE s \in Submitting
    <3>1. t \in Submitting /\ t.pc = s.pc /\ t.outage = TRUE
          /\ s.pc \notin {"idle", "row", "event"}
      BY <2>4 DEF Submitting
    <3>2. QED
      BY <3>1 DEF InvocationOK, Invocation, Idle
  <2>5. CASE s \in Projections
    <3>1. /\ t \in Projections /\ t.pc = s.pc /\ t.outage = TRUE /\ s.pc # "idle"
          /\ t.request = s.request /\ t.status = s.status /\ t.accepted = s.accepted
      BY <2>5 DEF Projections
    <3>2. QED
      BY <2>1, <3>1 DEF InvocationOK, Invocation, Idle
  <2>6. CASE s \in Feedback
    <3>1. t \in Feedback /\ t.pc = s.pc /\ t.outage = TRUE /\ s.pc \notin {"idle", "row", "event"}
      BY <2>6 DEF Feedback
    <3>2. QED
      BY <3>1 DEF InvocationOK, Invocation, Idle
  <2>7. QED
    BY <2>1, <2>2, <2>3, <2>4, <2>5, <2>6 DEF Invocation
<1>4. \A h \in Handler : handler'[h] = marked(h)
  BY <1>1
<1>5. HandlersOK'
  <2>1. handler' \in [Handler -> Invocation]
    BY <1>1, <1>3 DEF InvocationOK
  <2> HIDE DEF marked
  <2>2. QED
    BY <1>3, <1>4, <2>1 DEF HandlersOK
<1>6. PromiseOK'
  <2> HIDE DEF marked
  <2>1. QED
    BY <1>1, <1>3, <1>4 DEF PilotInv, PromiseOK
<1>7. RowsOK' /\ EventsOK'
  <2> HIDE DEF marked
  <2>1. \A h \in Handler : handler[h].pc = "event" =>
          /\ handler'[h].pc = "event" /\ handler'[h].request = handler[h].request
          /\ handler'[h].status = handler[h].status
    BY <1>3, <1>4
  <2>2. QED
    BY <1>1, <1>2, <2>1, RowsStay, EventsStay DEF PilotInv
<1>8. QED
  BY <1>1, <1>2, <1>5, <1>6, <1>7 DEF PilotInv

(* A recycled instance forgets its invocations, and what they had to write. *)
LEMMA Recycles ==
  ASSUME PilotInv, Recycle
  PROVE  PilotInv'
<1>1. /\ UNCHANGED <<now, chain, past, up, requests, events, rate_limits, poisoned>>
      /\ handler' = [h \in Handler |-> Idle] /\ memo' = "none"
      /\ lost' = lost \cup
           {handler[h].request : h \in {g \in Handler : handler[g].pc = "event"}}
  BY DEF Recycle, LoseEvents, world, stored, projection
<1>2. ChainOK' /\ Remembered /\ CountersOK'
  BY <1>1, SameHistory DEF PilotInv, CountersOK
<1>3. HandlersOK' /\ PromiseOK'
  BY <1>1, IdleOK DEF HandlersOK, PromiseOK, InvocationOK, Idle, Waiting
<1>4. RowsOK' /\ EventsOK'
  <2>1. \A h \in Handler : handler[h].pc = "event" => handler[h].request \in lost'
    BY <1>1
  <2>2. lost \subseteq lost'
    BY <1>1
  <2>3. QED
    BY <1>1, <1>2, <2>1, <2>2, RowsStay, EventsStay DEF PilotInv
<1>5. QED
  BY <1>1, <1>2, <1>3, <1>4 DEF PilotInv

-----------------------------------------------------------------------------
(* The invariant holds at first and is inductive.                           *)
LEMMA PilotInvInit == PilotInit => PilotInv
<1> SUFFICES ASSUME PilotInit PROVE PilotInv
  OBVIOUS
<1> USE DEF PilotInit
<1>1. ChainOK
  <2>1. <<>> \in Seq(Status)
    BY EmptySeq
  <2>2. QED
    BY <2>1 DEF ChainOK, Status
<1>2. HandlersOK /\ PromiseOK
  BY IdleOK DEF HandlersOK, PromiseOK, InvocationOK, Idle, Waiting
<1>3. RowsOK /\ EventsOK /\ CountersOK
  BY DEF RowsOK, EventsOK, CountersOK, Status
<1>4. QED
  BY <1>1, <1>2, <1>3, PilotAssumption DEF PilotInv

(* Every step keeps the invariant: one case per group of actions.           *)
LEMMA PilotInvStep == PilotInv /\ [PilotNext]_pilotVars => PilotInv'
<1> SUFFICES ASSUME PilotInv, [PilotNext]_pilotVars PROVE PilotInv'
  OBVIOUS
<1>1. ASSUME NEW h \in Handler, HandlerStep(h) PROVE PilotInv'
  BY <1>1, Routes, Limits, Submits, ConnectionSteps, WritesRow, WritesEvent, WritesCount
  DEF HandlerStep
<1>2. CASE UNCHANGED pilotVars
  BY <1>2, QuietWorld
<1>3. QED
  BY <1>1, <1>2, ConnectionSteps, ChainSteps, QuietWorld, OutageMarks, Recycles
  DEF PilotNext

(* The invariant of the pilot store holds throughout.                       *)
LEMMA PilotInvariance == PilotSpec => []PilotInv
BY PilotInvInit, PilotInvStep, PTL DEF PilotSpec

(* The store, the memoised promises and the invocations have their types,   *)
(* and nobody waits for a promise that was never started.                   *)
THEOREM PilotTypeCorrect == PilotSpec => []PilotTypeOK
<1>1. PilotInv => PilotTypeOK
  <2> SUFFICES ASSUME PilotInv PROVE PilotTypeOK
    OBVIOUS
  <2>1. \A h \in Handler : handler[h].pc \in {"idle", "submit"} \cup Waiting
    BY DEF PilotInv, HandlersOK, Invocation, Unstarted, Counting, Submitting, Projections,
           Feedback, Waiting
  <2>2. QED
    BY <2>1 DEF PilotInv, ChainOK, PromiseOK, RowsOK, EventsOK, CountersOK, Event,
                PilotTypeOK
<1>2. QED
  BY <1>1, PilotInvariance, PTL

(* A store call fails only in an invocation that saw an outage: a rejected  *)
(* promise is never what a later invocation waits for.                      *)
THEOREM FailsOnlyInOutage == PilotSpec => []LostOnlyInOutage
<1>1. PilotInv => LostOnlyInOutage
  BY DEF PilotInv, LostOnlyInOutage
<1>2. QED
  BY <1>1, PilotInvariance, PTL

(* Rows and events show statuses the requests had, a request is accepted at *)
(* most once, and a row's status has its event unless writing it was lost.  *)
THEOREM ProjectionIsTrue == PilotSpec => []ProjectionTrue
<1>1. PilotInv => ProjectionTrue
  <2> SUFFICES ASSUME PilotInv PROVE ProjectionTrue
    OBVIOUS
  <2>1. ASSUME NEW r \in RequestId
        PROVE  Cardinality({e \in events : e.type = "request.accepted" /\ e.request = r}) <= 1
    <3> DEFINE A == {e \in events : e.type = "request.accepted" /\ e.request = r}
               a == [type |-> "request.accepted", request |-> r, status |-> "submitted"]
    <3>1. \A e \in A : e = a
      BY DEF PilotInv, EventsOK, Event
    <3>2. A = {} \/ A = {a}
      BY <3>1
    <3>3. Cardinality({}) = 0 /\ Cardinality({a}) = 1
      BY FS_EmptySet, FS_Singleton
    <3>4. QED
      BY <3>2, <3>3
  <2>2. QED
    BY <2>1 DEF PilotInv, RowsOK, RowShown, EventsOK, ProjectionTrue
<1>2. QED
  BY <1>1, PilotInvariance, PTL

-----------------------------------------------------------------------------
(* The limits.  What an invocation has counted and not yet used is a slot:  *)
(* an identifier and the time it was counted at.  In every window the       *)
(* tickets passed and the slots held are no more than the counter says, and *)
(* no more than the limit; the window that is open has neither before its   *)
(* first count, and a counter that has expired belongs to a closed one.     *)
Slots(s) == IF s.pc = "agent" /\ s.allowed = TRUE THEN {<<s.request[1], s.at>>}
            ELSE IF s.pc = "submit" THEN s.at ELSE {}

Held(f) == {x \in Handler \X (Identifier \X Nat) : x[2] \in Slots(f[x[1]])}

PassedBy(P, i, k) == {p \in P : p[1] = i /\ p[2] \div WindowSeconds[i] = k}
HeldBy(F, i, k) == {x \in F : x[2][1] = i /\ x[2][2] \div WindowSeconds[i] = k}
Used(P, F, i, k) == Cardinality(PassedBy(P, i, k)) + Cardinality(HeldBy(F, i, k))

Window(i, k) == <<i, k * WindowSeconds[i]>>

WindowOK(P, F, R, n, i, k) ==
  /\ Used(P, F, i, k) <= Limit[i]
  /\ Window(i, k) \in DOMAIN R => Used(P, F, i, k) <= R[Window(i, k)]
  /\ Window(i, k) \notin DOMAIN R /\ n < k * WindowSeconds[i] + WindowSeconds[i] =>
       Used(P, F, i, k) = 0

SlotsOK(f) ==
  \A h \in Handler : f[h].pc = "submit" =>
    \E a, b \in Identifier \X Nat : f[h].at = {a, b}

LimitsOK(P, f, R, n) ==
  /\ IsFiniteSet(P) /\ IsFiniteSet(Held(f)) /\ SlotsOK(f)
  /\ \A i \in Identifier, k \in Nat : WindowOK(P, Held(f), R, n, i, k)

LimitsInv ==
  /\ PilotInv /\ DOMAIN rate_limits \subseteq Identifier \X Nat
  /\ LimitsOK(passed, handler, rate_limits, now)

(* A time falls into the window its quotient numbers, and into no other; a  *)
(* period of a window's length meets two windows, and one that begins with  *)
(* a window only that one.                                                  *)
LEMMA Windows ==
  ASSUME NEW W \in Nat \ {0}, NEW x \in Nat
  PROVE  /\ x \div W \in Nat /\ (x \div W) * W <= x /\ x < (x \div W) * W + W
         /\ \A k \in Nat : k * W = (x \div W) * W => k = x \div W
         /\ \A t \in Nat : t <= x /\ x < t + W =>
              /\ x \div W \in {t \div W, (t \div W) + 1}
              /\ t % W = 0 => x \div W = t \div W
<1>1. x \div W \in Nat /\ (x \div W) * W <= x /\ x < (x \div W) * W + W
  OBVIOUS
<1>2. ASSUME NEW k \in Nat, NEW j \in Nat, k * W = j * W PROVE k = j
  BY <1>2
<1>3. ASSUME NEW t \in Nat, t <= x, x < t + W
      PROVE  x \div W \in {t \div W, (t \div W) + 1}
  BY <1>3
<1>4. ASSUME NEW t \in Nat, t <= x, x < t + W, t % W = 0
      PROVE  x \div W = t \div W
  BY <1>4
<1>5. QED
  BY <1>1, <1>2, <1>3, <1>4

(* What is used is a number, and no more is used when nothing was added.    *)
LEMMA UsedFewer ==
  ASSUME NEW P, IsFiniteSet(P), NEW F, IsFiniteSet(F), NEW G \in SUBSET F, NEW i, NEW k
  PROVE  /\ Used(P, F, i, k) \in Nat /\ Used(P, G, i, k) \in Nat
         /\ Used(P, G, i, k) <= Used(P, F, i, k)
<1>1. /\ IsFiniteSet(PassedBy(P, i, k)) /\ IsFiniteSet(HeldBy(F, i, k))
      /\ HeldBy(G, i, k) \in SUBSET HeldBy(F, i, k)
  BY FS_Subset DEF PassedBy, HeldBy
<1>2. /\ IsFiniteSet(HeldBy(G, i, k))
      /\ Cardinality(HeldBy(G, i, k)) <= Cardinality(HeldBy(F, i, k))
  BY <1>1, FS_Subset
<1>3. QED
  BY <1>1, <1>2, FS_CardinalityType DEF Used

(* A set with at most one more element, which only one window may have.     *)
LEMMA OneMore ==
  ASSUME NEW S, IsFiniteSet(S), NEW x, NEW T \in SUBSET (S \cup {x})
  PROVE  /\ IsFiniteSet(T) /\ Cardinality(T) \in Nat /\ Cardinality(S) \in Nat
         /\ Cardinality(T) <= Cardinality(S) + 1
         /\ x \notin T => Cardinality(T) <= Cardinality(S)
<1>1. /\ IsFiniteSet(S \cup {x}) /\ Cardinality(S \cup {x}) <= Cardinality(S) + 1
      /\ Cardinality(S) \in Nat
  BY FS_AddElement, FS_CardinalityType
<1>2. /\ IsFiniteSet(T) /\ Cardinality(T) \in Nat
      /\ Cardinality(T) <= Cardinality(S \cup {x})
      /\ Cardinality(S \cup {x}) \in Nat
  BY <1>1, FS_Subset, FS_CardinalityType
<1>3. x \notin T => Cardinality(T) <= Cardinality(S)
  BY FS_Subset
<1>4. QED
  BY <1>1, <1>2, <1>3

(* A slot is taken: only the window it falls into has one more.             *)
LEMMA UsedHeld ==
  ASSUME NEW P, IsFiniteSet(P), NEW F, IsFiniteSet(F), NEW x, NEW G \in SUBSET (F \cup {x}),
         NEW i, NEW k
  PROVE  /\ IsFiniteSet(G) /\ Used(P, G, i, k) \in Nat
         /\ Used(P, G, i, k) <= Used(P, F, i, k) + 1
         /\ ~(x[2][1] = i /\ x[2][2] \div WindowSeconds[i] = k) =>
              Used(P, G, i, k) <= Used(P, F, i, k)
<1>1. /\ IsFiniteSet(PassedBy(P, i, k)) /\ IsFiniteSet(HeldBy(F, i, k))
      /\ HeldBy(G, i, k) \in SUBSET (HeldBy(F, i, k) \cup {x})
      /\ ~(x[2][1] = i /\ x[2][2] \div WindowSeconds[i] = k) => x \notin HeldBy(G, i, k)
  BY FS_Subset DEF PassedBy, HeldBy
<1>2. Cardinality(PassedBy(P, i, k)) \in Nat /\ IsFiniteSet(G)
  BY <1>1, FS_CardinalityType, OneMore
<1>3. /\ Cardinality(HeldBy(G, i, k)) \in Nat /\ Cardinality(HeldBy(F, i, k)) \in Nat
      /\ Cardinality(HeldBy(G, i, k)) <= Cardinality(HeldBy(F, i, k)) + 1
      /\ x \notin HeldBy(G, i, k) =>
           Cardinality(HeldBy(G, i, k)) <= Cardinality(HeldBy(F, i, k))
  BY <1>1, OneMore
<1>4. QED
  BY <1>1, <1>2, <1>3 DEF Used

(* A ticket is passed: only the window it falls into has one more.          *)
LEMMA UsedPassed ==
  ASSUME NEW P, IsFiniteSet(P), NEW F, IsFiniteSet(F), NEW p, NEW Q \in SUBSET (P \cup {p}),
         NEW i, NEW k
  PROVE  /\ IsFiniteSet(Q) /\ Used(Q, F, i, k) \in Nat
         /\ Used(Q, F, i, k) <= Used(P, F, i, k) + 1
         /\ ~(p[1] = i /\ p[2] \div WindowSeconds[i] = k) =>
              Used(Q, F, i, k) <= Used(P, F, i, k)
<1>1. /\ IsFiniteSet(PassedBy(P, i, k)) /\ IsFiniteSet(HeldBy(F, i, k))
      /\ PassedBy(Q, i, k) \in SUBSET (PassedBy(P, i, k) \cup {p})
      /\ ~(p[1] = i /\ p[2] \div WindowSeconds[i] = k) => p \notin PassedBy(Q, i, k)
  BY FS_Subset DEF PassedBy, HeldBy
<1>2. Cardinality(HeldBy(F, i, k)) \in Nat /\ IsFiniteSet(Q)
  BY <1>1, FS_CardinalityType, OneMore
<1>3. /\ Cardinality(PassedBy(Q, i, k)) \in Nat /\ Cardinality(PassedBy(P, i, k)) \in Nat
      /\ Cardinality(PassedBy(Q, i, k)) <= Cardinality(PassedBy(P, i, k)) + 1
      /\ p \notin PassedBy(Q, i, k) =>
           Cardinality(PassedBy(Q, i, k)) <= Cardinality(PassedBy(P, i, k))
  BY <1>1, OneMore
<1>4. QED
  BY <1>1, <1>2, <1>3 DEF Used

(* A slot becomes a ticket: no window has more.                             *)
LEMMA UsedMoved ==
  ASSUME NEW P, IsFiniteSet(P), NEW F, IsFiniteSet(F), NEW x \in F, NEW p,
         p[1] = x[2][1], p[2] = x[2][2], NEW i, NEW k
  PROVE  /\ IsFiniteSet(P \cup {p}) /\ IsFiniteSet(F \ {x})
         /\ Used(P \cup {p}, F \ {x}, i, k) \in Nat
         /\ Used(P \cup {p}, F \ {x}, i, k) <= Used(P, F, i, k)
<1>1. IsFiniteSet(P \cup {p}) /\ IsFiniteSet(F \ {x})
  BY FS_AddElement, FS_RemoveElement
<1>2. CASE x[2][1] = i /\ x[2][2] \div WindowSeconds[i] = k
  <2>1. /\ PassedBy(P \cup {p}, i, k) = PassedBy(P, i, k) \cup {p}
        /\ HeldBy(F \ {x}, i, k) = HeldBy(F, i, k) \ {x} /\ x \in HeldBy(F, i, k)
    BY <1>2 DEF PassedBy, HeldBy
  <2>2. IsFiniteSet(PassedBy(P, i, k)) /\ IsFiniteSet(HeldBy(F, i, k))
    BY FS_Subset DEF PassedBy, HeldBy
  <2>3. /\ Cardinality(PassedBy(P, i, k) \cup {p}) \in Nat
        /\ Cardinality(PassedBy(P, i, k)) \in Nat
        /\ Cardinality(PassedBy(P, i, k) \cup {p}) <= Cardinality(PassedBy(P, i, k)) + 1
    BY <2>2, OneMore
  <2>4. /\ Cardinality(HeldBy(F, i, k) \ {x}) = Cardinality(HeldBy(F, i, k)) - 1
        /\ Cardinality(HeldBy(F, i, k)) \in Nat
        /\ Cardinality(HeldBy(F, i, k) \ {x}) \in Nat
    BY <2>1, <2>2, FS_RemoveElement, FS_CardinalityType
  <2> DEFINE Q == P \cup {p}
             G == F \ {x}
  <2>5. /\ Cardinality(PassedBy(Q, i, k)) \in Nat
        /\ Cardinality(PassedBy(Q, i, k)) <= Cardinality(PassedBy(P, i, k)) + 1
    BY <2>1, <2>3
  <2>6. /\ Cardinality(HeldBy(G, i, k)) \in Nat
        /\ Cardinality(HeldBy(G, i, k)) = Cardinality(HeldBy(F, i, k)) - 1
    BY <2>1, <2>4
  <2> HIDE DEF Q, G
  <2>7. Used(Q, G, i, k) \in Nat /\ Used(Q, G, i, k) <= Used(P, F, i, k)
    BY <2>3, <2>4, <2>5, <2>6 DEF Used
  <2>8. QED
    BY <1>1, <2>7 DEF Q, G
<1>3. CASE ~(x[2][1] = i /\ x[2][2] \div WindowSeconds[i] = k)
  <2>1. PassedBy(P \cup {p}, i, k) = PassedBy(P, i, k)
    BY <1>3 DEF PassedBy
  <2>2. Used(P \cup {p}, F, i, k) = Used(P, F, i, k)
    BY <2>1 DEF Used
  <2>3. F \ {x} \in SUBSET F
    OBVIOUS
  <2>4. QED
    BY <1>1, <2>2, <2>3, UsedFewer
<1>4. QED
  BY <1>2, <1>3

-----------------------------------------------------------------------------
(* Nothing is taken: slots may be given up, counters of closed windows may  *)
(* go, and time may pass.                                                   *)
LEMMA NothingTaken ==
  ASSUME NEW P, NEW f, NEW R, NEW n \in Nat, LimitsOK(P, f, R, n),
         NEW g, NEW S, NEW m \in Nat, n <= m,
         Held(g) \subseteq Held(f), SlotsOK(g), \A d \in DOMAIN R : R[d] \in Nat,
         DOMAIN S \subseteq DOMAIN R, \A d \in DOMAIN S : S[d] = R[d],
         \A d \in DOMAIN R \ DOMAIN S : n >= d[2] + WindowSeconds[d[1]]
  PROVE  LimitsOK(P, g, S, m)
<1>1. IsFiniteSet(P) /\ IsFiniteSet(Held(f)) /\ IsFiniteSet(Held(g))
  BY FS_Subset DEF LimitsOK
<1>2. ASSUME NEW i \in Identifier, NEW k \in Nat
      PROVE  WindowOK(P, Held(g), S, m, i, k)
  <2> DEFINE u == Used(P, Held(f), i, k)
             v == Used(P, Held(g), i, k)
             end == k * WindowSeconds[i] + WindowSeconds[i]
             d == Window(i, k)
  <2>1. u \in Nat /\ v \in Nat /\ v <= u
    BY <1>1, UsedFewer
  <2>2. /\ u <= Limit[i] /\ (d \in DOMAIN R => u <= R[d])
        /\ d \notin DOMAIN R /\ n < end => u = 0
    BY DEF LimitsOK, WindowOK
  <2>3. Limit[i] \in Nat /\ end \in Nat
    BY PilotAssumption
  <2>4. d \in DOMAIN R \ DOMAIN S => n >= end
    BY DEF Window
  <2> HIDE DEF u, v, end, d
  <2>5. v <= Limit[i]
    BY <2>1, <2>2, <2>3
  <2>6. d \in DOMAIN S => v <= S[d]
    BY <2>1, <2>2
  <2>7. d \notin DOMAIN S /\ m < end => v = 0
    BY <2>1, <2>2, <2>3, <2>4
  <2>8. QED
    BY <2>5, <2>6, <2>7 DEF WindowOK, u, v, end, d
<1>3. QED
  BY <1>1, <1>2 DEF LimitsOK

(* One is counted in the window that is open: at most one more is used, in  *)
(* that window, and none if the count is past the limit.                    *)
LEMMA OneCounted ==
  ASSUME NEW P, NEW f, NEW R, NEW n \in Nat, LimitsOK(P, f, R, n), NEW Q, NEW g, NEW S,
         NEW c \in Identifier, NEW o \in Nat, o = n \div WindowSeconds[c],
         DOMAIN S = DOMAIN R \cup {Window(c, o)},
         \A d \in DOMAIN R \ {Window(c, o)} : S[d] = R[d],
         \A d \in DOMAIN R : R[d] \in Nat,
         S[Window(c, o)] =
           (IF Window(c, o) \in DOMAIN R THEN R[Window(c, o)] ELSE 0) + 1,
         IsFiniteSet(Q), IsFiniteSet(Held(g)), SlotsOK(g),
         \A i \in Identifier, k \in Nat :
           /\ Used(Q, Held(g), i, k) \in Nat
           /\ Used(Q, Held(g), i, k) <= Used(P, Held(f), i, k) + 1
           /\ ~(i = c /\ k = o /\ S[Window(c, o)] <= Limit[c]) =>
                Used(Q, Held(g), i, k) <= Used(P, Held(f), i, k)
  PROVE  LimitsOK(Q, g, S, n)
<1>1. ASSUME NEW i \in Identifier, NEW k \in Nat
      PROVE  WindowOK(Q, Held(g), S, n, i, k)
  <2> DEFINE u == Used(P, Held(f), i, k)
             v == Used(Q, Held(g), i, k)
             end == k * WindowSeconds[i] + WindowSeconds[i]
             d == Window(i, k)
             e == Window(c, o)
  <2>1. /\ u \in Nat /\ v \in Nat /\ v <= u + 1
        /\ ~(i = c /\ k = o /\ S[e] <= Limit[c]) => v <= u
    <3>1. IsFiniteSet(P) /\ IsFiniteSet(Held(f))
      BY DEF LimitsOK
    <3>2. Used(P, Held(f), i, k) \in Nat
      BY <3>1, UsedFewer
    <3>3. QED
      BY <3>2
  <2>2. /\ u <= Limit[i] /\ (d \in DOMAIN R => u <= R[d])
        /\ d \notin DOMAIN R /\ n < end => u = 0
    BY DEF LimitsOK, WindowOK
  <2>3. Limit[i] \in Nat /\ end \in Nat
    BY PilotAssumption
  <2>4. d = e <=> (i = c /\ k = o)
    <3>1. d = e <=> (i = c /\ k * WindowSeconds[i] = o * WindowSeconds[c])
      BY DEF Window
    <3>2. WindowSeconds[c] \in Nat \ {0}
      BY PilotAssumption
    <3>3. k * WindowSeconds[c] = o * WindowSeconds[c] => k = o
      BY <3>2, Windows
    <3>4. QED
      BY <3>1, <3>3
  <2>5. i = c /\ k = o => n < end
    BY PilotAssumption, Windows
  <2> HIDE DEF u, v, end, d, e
  <2>6. CASE i = c /\ k = o
    <3>1. d = e /\ n < end /\ d \in DOMAIN S
      BY <2>4, <2>5, <2>6 DEF e
    <3>2. d \in DOMAIN R => R[d] \in Nat /\ S[d] = R[d] + 1
      BY <3>1 DEF e
    <3>3. d \notin DOMAIN R => S[d] = 1 /\ u = 0
      BY <2>2, <3>1 DEF e
    <3>4. v <= S[d]
      BY <2>1, <2>2, <3>2, <3>3
    <3>5. v <= Limit[i]
      <4>1. CASE S[e] <= Limit[c]
        <5>1. S[d] \in Nat /\ Limit[i] \in Nat /\ S[d] <= Limit[i]
          BY <2>3, <2>6, <3>1, <3>2, <3>3, <4>1
        <5>2. QED
          BY <2>1, <3>4, <5>1
      <4>2. CASE ~(S[e] <= Limit[c])
        BY <2>1, <2>2, <2>3, <4>2
      <4>3. QED
        BY <4>1, <4>2
    <3>6. QED
      BY <3>1, <3>4, <3>5 DEF WindowOK, u, v, end, d
  <2>7. CASE ~(i = c /\ k = o)
    <3>1. v <= u /\ d # e
      BY <2>1, <2>4, <2>7
    <3>2. d \in DOMAIN S => d \in DOMAIN R /\ S[d] = R[d] /\ R[d] \in Nat
      BY <3>1 DEF e
    <3>3. v <= Limit[i]
      BY <2>1, <2>2, <2>3, <3>1
    <3>4. d \in DOMAIN S => v <= S[d]
      BY <2>1, <2>2, <3>1, <3>2
    <3>5. d \notin DOMAIN S /\ n < end => v = 0
      BY <2>1, <2>2, <3>1 DEF e
    <3>6. QED
      BY <3>3, <3>4, <3>5 DEF WindowOK, u, v, end, d
  <2>8. QED
    BY <2>6, <2>7
<1>2. QED
  BY <1>1 DEF LimitsOK

-----------------------------------------------------------------------------
(* An invocation that takes no slot.                                        *)
Relaxes(s, t) ==
  /\ Slots(t) \subseteq Slots(s)
  /\ t.pc = "submit" => s.pc = "submit" /\ t.at = s.at

(* Steps that count nothing and let nobody pass keep the limits: a counter  *)
(* only goes away when its window has ended.                                *)
LEMMA QuietLimits ==
  ASSUME LimitsInv, PilotInv', UNCHANGED passed, now' \in {now, now + 1},
         \/ UNCHANGED rate_limits
         \/ rate_limits' = [d \in {e \in DOMAIN rate_limits : now < expires_at(e)} |->
                              rate_limits[d]],
         \A h \in Handler : Relaxes(handler[h], handler'[h])
  PROVE  LimitsInv'
<1>1. /\ now \in Nat /\ now' \in Nat /\ now <= now'
      /\ LimitsOK(passed, handler, rate_limits, now)
      /\ \A d \in DOMAIN rate_limits : rate_limits[d] \in Nat
      /\ DOMAIN rate_limits \subseteq Identifier \X Nat
  BY PilotAssumption DEF LimitsInv, PilotInv, CountersOK
<1>2. Held(handler') \subseteq Held(handler)
  BY DEF Relaxes, Held
<1>3. SlotsOK(handler')
  BY <1>1 DEF Relaxes, SlotsOK, LimitsOK
<1>4. /\ DOMAIN rate_limits' \subseteq DOMAIN rate_limits
      /\ \A d \in DOMAIN rate_limits' : rate_limits'[d] = rate_limits[d]
      /\ \A d \in DOMAIN rate_limits \ DOMAIN rate_limits' :
           now >= d[2] + WindowSeconds[d[1]]
  <2>1. ASSUME NEW d \in DOMAIN rate_limits, ~(now < expires_at(d))
        PROVE  now >= d[2] + WindowSeconds[d[1]]
    <3>1. d[2] \in Nat /\ WindowSeconds[d[1]] \in Nat /\ Grace \in Nat
      BY <1>1, PilotAssumption
    <3>2. QED
      BY <1>1, <2>1, <3>1 DEF expires_at
  <2>2. QED
    BY <2>1
<1>5. LimitsOK(passed, handler', rate_limits', now')
  BY <1>1, <1>2, <1>3, <1>4, NothingTaken
<1>6. QED
  BY <1>1, <1>4, <1>5 DEF LimitsInv

(* What relaxes: idle, a failed, a started or a projecting invocation.      *)
LEMMA Relaxed ==
  ASSUME NEW s
  PROVE  /\ Relaxes(s, s) /\ Relaxes(s, Idle)
         /\ \A t : t.pc \notin {"agent", "submit"} => Relaxes(s, t)
         /\ s \in Invocation => Relaxes(s, AfterFailure(s))
<1>1. Relaxes(s, s)
  BY DEF Relaxes
<1>2. \A t : t.pc \notin {"agent", "submit"} => Relaxes(s, t)
  BY DEF Relaxes, Slots
<1>3. Idle.pc = "idle"
  BY DEF Idle
<1>4. ASSUME s \in Invocation PROVE AfterFailure(s).pc \notin {"agent", "submit"}
  <2>1. CASE s.pc \in {"key", "agent"}
    <3>1. s \in Counting
      BY <1>4, <2>1 DEF Invocation, Unstarted, Submitting, Projections, Feedback
    <3>2. [s EXCEPT !.pc = "reject"].pc = "reject"
      BY <3>1 DEF Counting
    <3>3. QED
      BY <2>1, <3>2 DEF AfterFailure
  <2>2. CASE s.pc \notin {"key", "agent"}
    BY <1>3, <2>2 DEF AfterFailure
  <2>3. QED
    BY <2>1, <2>2
<1>5. QED
  BY <1>1, <1>2, <1>3, <1>4

(* One invocation goes on to where it holds no slot.                        *)
LEMMA LetsGo ==
  ASSUME LimitsInv, PilotInv', UNCHANGED <<passed, now, rate_limits>>,
         NEW h \in Handler, NEW s, handler' = [handler EXCEPT ![h] = s],
         s.pc \notin {"agent", "submit"}
  PROVE  LimitsInv'
<1>1. /\ handler'[h] = s /\ \A g \in Handler \ {h} : handler'[g] = handler[g]
      /\ now \in Nat
  BY PilotAssumption DEF LimitsInv, PilotInv, HandlersOK
<1>2. \A g \in Handler : Relaxes(handler[g], handler'[g])
  BY <1>1, Relaxed
<1>3. QED
  BY <1>1, <1>2, QuietLimits

(* The steps that count nothing and pass nothing.                           *)
LEMMA HandlersLetGo ==
  ASSUME LimitsInv, PilotInv', NEW h \in Handler,
         \/ Spend(h) \/ Poll(h) \/ PostFeedback(h) \/ WriteRow(h) \/ recordPilotEvent(h)
         \/ recordPilotRejection(h) \/ recordPilotFeedback(h)
  PROVE  LimitsInv'
<1>1. UNCHANGED <<passed, now, rate_limits>>
  BY DEF Spend, Poll, PostFeedback, Start, WriteRow, recordPilotEvent,
         recordPilotRejection, recordPilotFeedback, world, stored
<1>2. handler \in [Handler -> Invocation]
  BY DEF LimitsInv, PilotInv, HandlersOK
<1>3. CASE Spend(h)
  BY <1>1, <1>3, LetsGo DEF Spend, Start
<1>4. CASE Poll(h)
  <2>1. PICK r \in RequestId : Start(h, Projecting(r, chain[r], FALSE))
    BY <1>4 DEF Poll
  <2>2. Projecting(r, chain[r], FALSE).pc = "row"
    BY DEF Projecting
  <2>3. QED
    BY <1>1, <2>1, <2>2, LetsGo DEF Start
<1>5. CASE PostFeedback(h)
  <2> DEFINE s == [pc |-> "client", outage |-> ~up]
  <2>1. s.pc = "client" /\ handler' = [handler EXCEPT ![h] = s]
    BY <1>5 DEF PostFeedback, Start
  <2>2. QED
    BY <1>1, <2>1, LetsGo
<1>6. CASE WriteRow(h)
  <2>1. handler[h].pc = "row"
    BY <1>6 DEF WriteRow, Answering
  <2>2. handler[h] \in Projections
    BY <1>2, <2>1 DEF Invocation, Unstarted, Submitting, Counting, Feedback
  <2> DEFINE s == [handler[h] EXCEPT !.pc = "event"]
  <2>3. s.pc = "event" /\ handler' = [handler EXCEPT ![h] = s]
    BY <1>2, <1>6, <2>2 DEF WriteRow, Enter, Projections
  <2>4. QED
    BY <1>1, <2>3, LetsGo
<1>7. CASE recordPilotEvent(h) \/ recordPilotRejection(h) \/ recordPilotFeedback(h)
  <2>1. handler' = [handler EXCEPT ![h] = Idle] /\ Idle.pc = "idle"
    BY <1>7 DEF recordPilotEvent, recordPilotRejection, recordPilotFeedback, Finish, Idle
  <2>2. QED
    BY <1>1, <2>1, LetsGo
<1>8. QED
  BY <1>3, <1>4, <1>5, <1>6, <1>7

(* The connection, the chain, the clock and outages keep the limits: they   *)
(* take no slot for an invocation.                                          *)
LEMMA WorldLetsGo ==
  ASSUME LimitsInv, PilotInv',
         \/ Settle \/ Health \/ Progress \/ Tick \/ Expire \/ Outage \/ Recover \/ Recycle
         \/ \E r \in RequestId : Drop(r)
         \/ \E h \in Handler : Unreachable(h)
         \/ UNCHANGED pilotVars
  PROVE  LimitsInv'
<1>1. /\ UNCHANGED passed /\ now' \in {now, now + 1}
      /\ \/ UNCHANGED rate_limits
         \/ rate_limits' = [d \in {e \in DOMAIN rate_limits : now < expires_at(e)} |->
                              rate_limits[d]]
  BY DEF Settle, Health, Progress, Tick, Expire, Outage, Recover, Recycle, Drop,
         Unreachable, world, stored, pilotVars
<1>2. handler \in [Handler -> Invocation]
  BY DEF LimitsInv, PilotInv, HandlersOK
<1>3. ASSUME NEW g \in Handler PROVE Relaxes(handler[g], handler'[g])
  <2>1. CASE \E H \in SUBSET Handler, m \in {memo, AfterRejection(memo)} : FailAll(H, m)
    <3>1. handler'[g] \in {AfterFailure(handler[g]), handler[g]}
      BY <2>1 DEF FailAll
    <3>2. QED
      BY <1>2, <3>1, Relaxed
  <2>2. CASE UNCHANGED handler
    BY <2>2, Relaxed
  <2>3. CASE Recycle
    BY <2>3, Relaxed DEF Recycle
  <2>4. CASE Outage
    <3> DEFINE s == handler[g]
               t == [s EXCEPT !.outage = TRUE]
    <3>1. handler'[g] \in {Idle, t}
      BY <2>4 DEF Outage
    <3>2. s.pc \in {"idle"} \/ (t.pc = s.pc /\ t.request = s.request
                                /\ t.allowed = s.allowed /\ t.at = s.at)
      BY <1>2 DEF Invocation, Unstarted, Counting, Submitting, Projections, Feedback
    <3>3. s.pc = "idle" => handler'[g] = Idle
      BY <1>2, <2>4 DEF Outage, Invocation, Unstarted, Counting, Submitting, Projections,
                        Feedback, Idle
    <3> HIDE DEF s, t
    <3>4. s.pc # "idle" => Relaxes(s, t)
      BY <3>2 DEF Relaxes, Slots
    <3>5. QED
      BY <3>1, <3>3, <3>4, Relaxed DEF s
  <2>5. QED
    <3>1. Settle \/ (\E h \in Handler : Unreachable(h)) =>
            \/ UNCHANGED handler
            \/ \E H \in SUBSET Handler, m \in {memo, AfterRejection(memo)} : FailAll(H, m)
      BY DEF Settle, Unreachable
    <3>2. QED
      BY <2>1, <2>2, <2>3, <2>4, <3>1
      DEF Health, Progress, Tick, Expire, Recover, Drop, pilotVars
<1>4. QED
  BY <1>1, <1>3, QuietLimits

-----------------------------------------------------------------------------
(* What Count does to the counters.                                         *)
LEMMA CountsOne ==
  ASSUME LimitsInv, NEW c \in Identifier, Count(c)
  PROVE  LET o == now \div WindowSeconds[c]
         IN  /\ o \in Nat
             /\ DOMAIN rate_limits' = DOMAIN rate_limits \cup {Window(c, o)}
             /\ \A d \in DOMAIN rate_limits \ {Window(c, o)} : rate_limits'[d] = rate_limits[d]
             /\ \A d \in DOMAIN rate_limits : rate_limits[d] \in Nat
             /\ rate_limits'[Window(c, o)] =
                  (IF Window(c, o) \in DOMAIN rate_limits
                   THEN rate_limits[Window(c, o)] ELSE 0) + 1
             /\ rate_limits'[Window(c, o)] <= Limit[c] <=> Allowed(c)
             /\ DOMAIN rate_limits' \subseteq Identifier \X Nat
<1> DEFINE o == now \div WindowSeconds[c]
<1>1. now \in Nat /\ WindowSeconds[c] \in Nat \ {0}
  BY PilotAssumption DEF LimitsInv, PilotInv
<1>2. o \in Nat /\ o * WindowSeconds[c] \in Nat
  <2>1. o \in Nat
    BY <1>1, Windows
  <2> HIDE DEF o
  <2>2. QED
    BY <1>1, <2>1
<1>3. <<c, windowStart(c)>> = Window(c, o)
  BY DEF windowStart, Window
<1>4. /\ DOMAIN rate_limits' = DOMAIN rate_limits \cup {Window(c, o)}
      /\ \A d \in DOMAIN rate_limits \ {Window(c, o)} : rate_limits'[d] = rate_limits[d]
      /\ rate_limits'[Window(c, o)] = counted(c)
  BY <1>3 DEF Count
<1>5. counted(c) = (IF Window(c, o) \in DOMAIN rate_limits
                    THEN rate_limits[Window(c, o)] ELSE 0) + 1
  BY <1>3 DEF counted
<1>6. Window(c, o) \in Identifier \X Nat
  BY <1>2 DEF Window
<1>7. counted(c) <= Limit[c] <=> Allowed(c)
  BY DEF Allowed
<1>8. \A d \in DOMAIN rate_limits : rate_limits[d] \in Nat
  BY DEF LimitsInv, PilotInv, CountersOK
<1> HIDE DEF o
<1>9. DOMAIN rate_limits' \subseteq Identifier \X Nat
  BY <1>4, <1>6 DEF LimitsInv
<1>10. QED
  BY <1>2, <1>4, <1>5, <1>7, <1>8, <1>9 DEF o

(* One is counted, and the invocation takes the slot if it is allowed.      *)
LEMMA TakesSlot ==
  ASSUME LimitsInv, PilotInv', NEW h \in Handler, NEW c \in Identifier, Count(c),
         UNCHANGED <<now, passed>>,
         \A g \in Handler \ {h} : handler'[g] = handler[g],
         \/ Relaxes(handler[h], handler'[h])
         \/ /\ Allowed(c) /\ Slots(handler'[h]) \subseteq Slots(handler[h]) \cup {<<c, now>>}
            /\ handler'[h].pc = "submit" =>
                 \E a, b \in Identifier \X Nat : handler'[h].at = {a, b}
  PROVE  LimitsInv'
<1> DEFINE o == now \div WindowSeconds[c]
           x == <<h, <<c, now>>>>
<1>1. /\ now \in Nat /\ LimitsOK(passed, handler, rate_limits, now)
      /\ IsFiniteSet(passed) /\ IsFiniteSet(Held(handler)) /\ SlotsOK(handler)
  BY PilotAssumption DEF LimitsInv, PilotInv, LimitsOK
<1>2. SlotsOK(handler')
  BY <1>1 DEF SlotsOK, Relaxes
<1>3. /\ Held(handler') \subseteq Held(handler) \cup {x}
      /\ ~Allowed(c) => Held(handler') \subseteq Held(handler)
  <2>1. CASE Relaxes(handler[h], handler'[h])
    <3>1. \A g \in Handler : Slots(handler'[g]) \subseteq Slots(handler[g])
      BY <2>1 DEF Relaxes
    <3>2. QED
      BY <3>1 DEF Held
  <2>2. CASE Allowed(c) /\ Slots(handler'[h]) \subseteq Slots(handler[h]) \cup {<<c, now>>}
    <3>1. ASSUME NEW y \in Held(handler'), y # x PROVE y \in Held(handler)
      <4>1. /\ y \in Handler \X (Identifier \X Nat) /\ y[2] \in Slots(handler'[y[1]])
            /\ y = <<y[1], y[2]>>
        BY DEF Held
      <4>2. CASE y[1] = h
        <5>1. y[2] # <<c, now>>
          BY <3>1, <4>1, <4>2
        <5>2. y[2] \in Slots(handler[y[1]])
          BY <2>2, <4>1, <4>2, <5>1
        <5>3. QED
          BY <4>1, <5>2 DEF Held
      <4>3. CASE y[1] # h
        BY <4>1, <4>3 DEF Held
      <4>4. QED
        BY <4>2, <4>3
    <3>2. QED
      BY <2>2, <3>1
  <2>3. QED
    BY <2>1, <2>2
<1>4. /\ IsFiniteSet(Held(handler'))
      /\ \A i \in Identifier, k \in Nat :
           /\ Used(passed, Held(handler'), i, k) \in Nat
           /\ Used(passed, Held(handler'), i, k) <= Used(passed, Held(handler), i, k) + 1
           /\ ~(i = c /\ k = o /\ Allowed(c)) =>
                Used(passed, Held(handler'), i, k) <= Used(passed, Held(handler), i, k)
  <2>1. IsFiniteSet(Held(handler'))
    BY <1>1, <1>3, OneMore
  <2>2. ASSUME NEW i \in Identifier, NEW k \in Nat
        PROVE  /\ Used(passed, Held(handler'), i, k) \in Nat
               /\ Used(passed, Held(handler'), i, k) <= Used(passed, Held(handler), i, k) + 1
               /\ ~(i = c /\ k = o /\ Allowed(c)) =>
                    Used(passed, Held(handler'), i, k) <= Used(passed, Held(handler), i, k)
    <3>1. /\ Used(passed, Held(handler'), i, k) \in Nat
          /\ Used(passed, Held(handler'), i, k) <= Used(passed, Held(handler), i, k) + 1
          /\ ~(x[2][1] = i /\ x[2][2] \div WindowSeconds[i] = k) =>
               Used(passed, Held(handler'), i, k) <= Used(passed, Held(handler), i, k)
      BY <1>1, <1>3, UsedHeld
    <3>2. ~Allowed(c) =>
            Used(passed, Held(handler'), i, k) <= Used(passed, Held(handler), i, k)
      BY <1>1, <1>3, UsedFewer
    <3>3. (x[2][1] = i /\ x[2][2] \div WindowSeconds[i] = k) <=> (i = c /\ k = o)
      OBVIOUS
    <3>4. QED
      BY <3>1, <3>2, <3>3
  <2>3. QED
    BY <2>1, <2>2
<1>5. /\ o \in Nat
      /\ DOMAIN rate_limits' = DOMAIN rate_limits \cup {Window(c, o)}
      /\ \A d \in DOMAIN rate_limits \ {Window(c, o)} : rate_limits'[d] = rate_limits[d]
      /\ \A d \in DOMAIN rate_limits : rate_limits[d] \in Nat
      /\ rate_limits'[Window(c, o)] =
           (IF Window(c, o) \in DOMAIN rate_limits
            THEN rate_limits[Window(c, o)] ELSE 0) + 1
      /\ rate_limits'[Window(c, o)] <= Limit[c] <=> Allowed(c)
      /\ DOMAIN rate_limits' \subseteq Identifier \X Nat
  BY CountsOne
<1>6. LimitsOK(passed, handler', rate_limits', now)
  BY <1>1, <1>2, <1>4, <1>5, OneCounted
<1>7. QED
  BY <1>5, <1>6 DEF LimitsInv

(* One is counted, and a ticket is passed if it is allowed.                 *)
LEMMA TakesTicket ==
  ASSUME LimitsInv, PilotInv', NEW c \in Identifier, Count(c), UNCHANGED now,
         \A g \in Handler : Relaxes(handler[g], handler'[g]),
         \/ UNCHANGED passed
         \/ Allowed(c) /\ passed' \subseteq passed \cup {Ticket(<<c, now>>)}
  PROVE  LimitsInv'
<1> DEFINE o == now \div WindowSeconds[c]
           p == Ticket(<<c, now>>)
<1>1. /\ now \in Nat /\ LimitsOK(passed, handler, rate_limits, now)
      /\ IsFiniteSet(passed) /\ IsFiniteSet(Held(handler)) /\ SlotsOK(handler)
  BY PilotAssumption DEF LimitsInv, PilotInv, LimitsOK
<1>2. SlotsOK(handler') /\ Held(handler') \subseteq Held(handler)
  BY <1>1 DEF SlotsOK, Relaxes, Held
<1>3. IsFiniteSet(Held(handler')) /\ p[1] = c /\ p[2] = now
  BY <1>1, <1>2, FS_Subset DEF Ticket
<1> HIDE DEF p
<1>4. /\ IsFiniteSet(passed')
      /\ \A i \in Identifier, k \in Nat :
           /\ Used(passed', Held(handler'), i, k) \in Nat
           /\ Used(passed', Held(handler'), i, k) <= Used(passed, Held(handler), i, k) + 1
           /\ ~(i = c /\ k = o /\ Allowed(c)) =>
                Used(passed', Held(handler'), i, k) <= Used(passed, Held(handler), i, k)
  <2>1. passed' \subseteq passed \cup {p} /\ (~Allowed(c) => passed' = passed)
    BY DEF p
  <2>2. IsFiniteSet(passed')
    BY <1>1, <2>1, OneMore
  <2>3. ASSUME NEW i \in Identifier, NEW k \in Nat
        PROVE  /\ Used(passed', Held(handler'), i, k) \in Nat
               /\ Used(passed', Held(handler'), i, k) <= Used(passed, Held(handler), i, k) + 1
               /\ ~(i = c /\ k = o /\ Allowed(c)) =>
                    Used(passed', Held(handler'), i, k) <= Used(passed, Held(handler), i, k)
    <3> DEFINE u == Used(passed, Held(handler), i, k)
               v == Used(passed, Held(handler'), i, k)
               w == Used(passed', Held(handler'), i, k)
    <3>1. u \in Nat /\ v \in Nat /\ v <= u
      BY <1>1, <1>2, UsedFewer
    <3>2. w \in Nat /\ w <= v + 1 /\ (~(i = c /\ now \div WindowSeconds[i] = k) => w <= v)
      BY <1>1, <1>3, <2>1, UsedPassed
    <3>3. ~Allowed(c) => w = v
      BY <2>1
    <3>4. (i = c /\ now \div WindowSeconds[i] = k) <=> (i = c /\ k = o)
      OBVIOUS
    <3> HIDE DEF u, v, w
    <3>5. w <= u + 1 /\ (~(i = c /\ k = o /\ Allowed(c)) => w <= u)
      BY <3>1, <3>2, <3>3, <3>4
    <3>6. QED
      BY <3>2, <3>5 DEF u, w
  <2>4. QED
    BY <2>2, <2>3
<1>5. /\ o \in Nat
      /\ DOMAIN rate_limits' = DOMAIN rate_limits \cup {Window(c, o)}
      /\ \A d \in DOMAIN rate_limits \ {Window(c, o)} : rate_limits'[d] = rate_limits[d]
      /\ \A d \in DOMAIN rate_limits : rate_limits[d] \in Nat
      /\ rate_limits'[Window(c, o)] =
           (IF Window(c, o) \in DOMAIN rate_limits
            THEN rate_limits[Window(c, o)] ELSE 0) + 1
      /\ rate_limits'[Window(c, o)] <= Limit[c] <=> Allowed(c)
      /\ DOMAIN rate_limits' \subseteq Identifier \X Nat
  BY CountsOne
<1>6. LimitsOK(passed', handler', rate_limits', now)
  BY <1>1, <1>2, <1>3, <1>4, <1>5, OneCounted
<1>7. QED
  BY <1>5, <1>6 DEF LimitsInv

(* Each limited call counts under one identifier: a key that fits holds a   *)
(* slot from there, an agent that fits adds its own, feedback passes.       *)
LEMMA LimitersCount ==
  ASSUME LimitsInv, PilotInv', NEW h \in Handler,
         LimitKey(h) \/ LimitAgent(h) \/ LimitFeedback(h)
  PROVE  LimitsInv'
<1>1. handler \in [Handler -> Invocation] /\ now \in Nat /\ UNCHANGED now
  BY PilotAssumption DEF LimitsInv, PilotInv, HandlersOK, LimitKey, LimitAgent,
                         LimitFeedback, world
<1>2. CASE LimitKey(h)
  <2> DEFINE key == handler[h].request[1]
             s == [handler[h] EXCEPT !.pc = "agent", !.at = now, !.allowed = Allowed(key)]
  <2>1. handler[h].pc = "key" /\ handler[h] \in Counting
    BY <1>1, <1>2 DEF LimitKey, Answering, Invocation, Unstarted, Submitting, Projections,
                      Feedback
  <2>2. handler[h].request \in RequestId /\ key \in Identifier
    BY <2>1 DEF Counting, RequestId, Identifier
  <2>3. /\ s.pc = "agent" /\ s.request = handler[h].request /\ s.at = now
        /\ s.allowed = Allowed(key)
    BY <2>1 DEF Counting
  <2>4. /\ Count(key) /\ UNCHANGED passed /\ handler'[h] = s
        /\ \A g \in Handler \ {h} : handler'[g] = handler[g]
    BY <1>1, <1>2 DEF LimitKey
  <2> HIDE DEF s
  <2>5. Slots(s) = IF Allowed(key) THEN {<<key, now>>} ELSE {}
    BY <2>3 DEF Slots, Allowed
  <2>6. ~Allowed(key) => Relaxes(handler[h], s)
    BY <2>3, <2>5 DEF Relaxes
  <2>7. QED
    BY <1>1, <2>2, <2>3, <2>4, <2>5, <2>6, TakesSlot
<1>3. CASE LimitAgent(h)
  <2>1. handler[h].pc = "agent" /\ handler[h] \in Counting
    BY <1>1, <1>3 DEF LimitAgent, Answering, Invocation, Unstarted, Submitting, Projections,
                      Feedback
  <2> DEFINE a == <<handler[h].request[1], handler[h].at>>
             s == [pc |-> "submit", request |-> handler[h].request,
                   outage |-> handler[h].outage, at |-> {a, <<Agent, now>>}]
  <2>2. /\ Agent \in Identifier /\ a \in Identifier \X Nat
        /\ <<Agent, now>> \in Identifier \X Nat
    <3>1. handler[h].request \in RequestId /\ handler[h].at \in Nat
      BY <2>1 DEF Counting
    <3>2. QED
      BY <1>1, <3>1 DEF RequestId, Identifier
  <2>3. /\ Count(Agent) /\ UNCHANGED passed
        /\ \A g \in Handler \ {h} : handler'[g] = handler[g]
        /\ \/ handler'[h] = s /\ Allowed(Agent) /\ handler[h].allowed
           \/ handler'[h] = Idle
    BY <1>1, <1>3 DEF LimitAgent, Finish
  <2>4. CASE handler'[h] = Idle
    <3>1. Relaxes(handler[h], handler'[h])
      BY <2>4, Relaxed
    <3>2. QED
      BY <1>1, <2>2, <2>3, <3>1, TakesSlot
  <2>5. CASE handler'[h] = s /\ Allowed(Agent) /\ handler[h].allowed
    <3>1. handler[h].allowed = TRUE
      BY <2>1, <2>5 DEF Counting
    <3>2. Slots(handler[h]) = {a}
      BY <2>1, <3>1 DEF Slots
    <3>3. Slots(s) = {a, <<Agent, now>>}
      BY DEF Slots
    <3>4. handler'[h].at = {a, <<Agent, now>>}
      BY <2>5
    <3>5. Slots(handler'[h]) \subseteq Slots(handler[h]) \cup {<<Agent, now>>}
      BY <2>5, <3>2, <3>3
    <3> HIDE DEF s, a
    <3>6. QED
      BY <1>1, <2>2, <2>3, <2>5, <3>4, <3>5, TakesSlot
  <2>6. QED
    BY <2>3, <2>4, <2>5
<1>4. CASE LimitFeedback(h)
  <2>1. handler[h].pc = "client" /\ handler[h] \in Feedback
    BY <1>1, <1>4 DEF LimitFeedback, Answering, Invocation, Unstarted, Submitting,
                      Projections, Counting
  <2> DEFINE s == [handler[h] EXCEPT !.pc = "feedback"]
  <2>2. s.pc = "feedback"
    BY <2>1 DEF Feedback
  <2>3. /\ Count(Tester) /\ Tester \in Identifier
        /\ \A g \in Handler \ {h} : handler'[g] = handler[g]
        /\ handler'[h] \in {s, Idle}
        /\ UNCHANGED passed \/ (Allowed(Tester) /\ Pass({<<Tester, now>>}))
    BY <1>1, <1>4 DEF LimitFeedback, Enter, Finish, Identifier
  <2>4. \A g \in Handler : Relaxes(handler[g], handler'[g])
    BY <2>2, <2>3, Relaxed
  <2>5. Pass({<<Tester, now>>}) => passed' \subseteq passed \cup {Ticket(<<Tester, now>>)}
    BY DEF Pass
  <2>6. QED
    BY <1>1, <2>3, <2>4, <2>5, TakesTicket
<1>5. QED
  BY <1>2, <1>3, <1>4

(* A submission turns its slots into tickets.                               *)
LEMMA SubmitMoves ==
  ASSUME LimitsInv, PilotInv', NEW h \in Handler, Submit(h)
  PROVE  LimitsInv'
<1>1. /\ handler \in [Handler -> Invocation] /\ now \in Nat
      /\ UNCHANGED <<now, rate_limits>> /\ handler[h].pc = "submit"
  BY PilotAssumption DEF LimitsInv, PilotInv, HandlersOK, Submit, stored
<1>2. handler[h] \in Submitting
  BY <1>1 DEF Invocation, Unstarted, Counting, Projections, Feedback
<1>3. PICK t : handler' = [handler EXCEPT ![h] = t] /\ t.pc \in {"row", "reject"}
  <2>1. \A status, accepted :
          Projecting(handler[h].request, status, accepted).pc = "row"
    BY DEF Projecting
  <2>2. [handler[h] EXCEPT !.pc = "reject"].pc = "reject"
    BY <1>2 DEF Submitting
  <2>3. CASE \E status, accepted : Observe(h, status, accepted)
    <3>1. PICK status, accepted : Observe(h, status, accepted)
      BY <2>3
    <3>2. handler' =
            [handler EXCEPT ![h] = Projecting(handler[h].request, status, accepted)]
      BY <1>1, <3>1 DEF Observe
    <3>3. QED
      BY <2>1, <3>2
  <2>4. CASE Enter(h, "reject")
    BY <1>1, <2>2, <2>4 DEF Enter
  <2>5. QED
    BY <2>3, <2>4 DEF Submit, Replay
<1>4. UNCHANGED passed \/ Pass(handler[h].at)
  BY DEF Submit
<1>5. CASE UNCHANGED passed
  BY <1>1, <1>3, <1>5, LetsGo
<1>6. CASE Pass(handler[h].at)
  <2>1. /\ LimitsOK(passed, handler, rate_limits, now) /\ SlotsOK(handler)
        /\ IsFiniteSet(passed) /\ IsFiniteSet(Held(handler))
    BY DEF LimitsInv, LimitsOK
  <2>2. PICK a \in Identifier \X Nat, b \in Identifier \X Nat : handler[h].at = {a, b}
    BY <1>1, <2>1 DEF SlotsOK
  <2> DEFINE p == Ticket(a)
             q == Ticket(b)
             x == <<h, a>>
             y == <<h, b>>
             F == Held(handler)
             G == Held(handler')
  <2>3. /\ handler'[h] = t /\ \A g \in Handler \ {h} : handler'[g] = handler[g]
        /\ Slots(t) = {} /\ Slots(handler[h]) = {a, b}
    BY <1>1, <1>3, <2>2 DEF Slots
  <2>4. x \in F /\ y \in F
    BY <2>3 DEF Held
  <2>5. G \subseteq (F \ {x}) \ {y}
    <3>1. ASSUME NEW z \in G PROVE z \in F /\ z # x /\ z # y
      <4>1. z \in Handler \X (Identifier \X Nat) /\ z[2] \in Slots(handler'[z[1]])
        BY DEF Held
      <4>2. z[1] # h
        BY <2>3, <4>1
      <4>3. QED
        BY <2>3, <4>1, <4>2 DEF Held
    <3>2. QED
      BY <3>1
  <2>6. passed' = (passed \cup {p}) \cup {q}
    BY <1>6, <2>2 DEF Pass
  <2>7. p[1] = x[2][1] /\ p[2] = x[2][2] /\ q[1] = y[2][1] /\ q[2] = y[2][2]
    BY DEF Ticket
  <2>8. a = b => p = q /\ x = y
    OBVIOUS
  <2>9. a # b => y \in F \ {x}
    BY <2>4
  <2> HIDE DEF p, q, x, y, F, G
  <2>10. IsFiniteSet(passed) /\ IsFiniteSet(F) /\ G \in SUBSET F
    BY <2>1, <2>5 DEF F
  <2>11. /\ IsFiniteSet(passed') /\ IsFiniteSet(G)
    <3>1. IsFiniteSet((passed \cup {p}) \cup {q})
      BY <2>10, FS_AddElement
    <3>2. QED
      BY <2>6, <2>10, <3>1, FS_Subset
  <2>12. ASSUME NEW i \in Identifier, NEW k \in Nat
         PROVE  /\ Used(passed', G, i, k) \in Nat /\ Used(passed, F, i, k) \in Nat
                /\ Used(passed', G, i, k) <= Used(passed, F, i, k)
    <3>1. /\ IsFiniteSet(passed \cup {p}) /\ IsFiniteSet(F \ {x})
          /\ Used(passed \cup {p}, F \ {x}, i, k) \in Nat
          /\ Used(passed \cup {p}, F \ {x}, i, k) <= Used(passed, F, i, k)
          /\ Used(passed, F, i, k) \in Nat
      BY <2>4, <2>7, <2>10, UsedMoved, UsedFewer
    <3>2. CASE a = b
      <4>1. passed' = passed \cup {p} /\ G \in SUBSET (F \ {x})
        BY <2>5, <2>6, <2>8, <3>2
      <4>2. /\ Used(passed \cup {p}, G, i, k) \in Nat
            /\ Used(passed \cup {p}, G, i, k) <= Used(passed \cup {p}, F \ {x}, i, k)
        BY <3>1, <4>1, UsedFewer
      <4>3. QED
        BY <3>1, <4>1, <4>2
    <3>3. CASE a # b
      <4> DEFINE P1 == passed \cup {p}
                 F1 == F \ {x}
      <4>1. IsFiniteSet(P1) /\ IsFiniteSet(F1) /\ y \in F1
        BY <2>9, <3>1, <3>3
      <4>2. Used(P1, F1, i, k) \in Nat /\ Used(P1, F1, i, k) <= Used(passed, F, i, k)
        BY <3>1
      <4>3. passed' = P1 \cup {q} /\ G \in SUBSET (F1 \ {y})
        BY <2>5, <2>6
      <4> HIDE DEF P1, F1
      <4>4. /\ IsFiniteSet(P1 \cup {q}) /\ IsFiniteSet(F1 \ {y})
            /\ Used(P1 \cup {q}, F1 \ {y}, i, k) \in Nat
            /\ Used(P1 \cup {q}, F1 \ {y}, i, k) <= Used(P1, F1, i, k)
        BY <2>7, <4>1, UsedMoved
      <4>5. /\ Used(P1 \cup {q}, G, i, k) \in Nat
            /\ Used(P1 \cup {q}, G, i, k) <= Used(P1 \cup {q}, F1 \ {y}, i, k)
        BY <4>3, <4>4, UsedFewer
      <4>6. QED
        BY <3>1, <4>2, <4>3, <4>4, <4>5
    <3>4. QED
      BY <3>2, <3>3
  <2>13. SlotsOK(handler')
    <3>1. t.pc # "submit"
      BY <1>3
    <3>2. QED
      BY <2>1, <2>3, <3>1 DEF SlotsOK
  <2>14. LimitsOK(passed', handler', rate_limits, now)
    <3>1. ASSUME NEW i \in Identifier, NEW k \in Nat
          PROVE  WindowOK(passed', G, rate_limits, now, i, k)
      <4> DEFINE d == Window(i, k)
      <4>1. WindowOK(passed, F, rate_limits, now, i, k)
        BY <2>1 DEF LimitsOK, F
      <4>2. Limit[i] \in Nat /\ \A e \in DOMAIN rate_limits : rate_limits[e] \in Nat
        BY PilotAssumption DEF LimitsInv, PilotInv, CountersOK
      <4>3. /\ Used(passed', G, i, k) \in Nat /\ Used(passed, F, i, k) \in Nat
            /\ Used(passed', G, i, k) <= Used(passed, F, i, k)
        BY <2>12
      <4> HIDE DEF d
      <4>4. QED
        BY <4>1, <4>2, <4>3 DEF WindowOK
    <3>2. QED
      BY <2>11, <2>13, <3>1 DEF LimitsOK, G
  <2>15. QED
    BY <1>1, <2>14 DEF LimitsInv
<1>7. QED
  BY <1>4, <1>5, <1>6

-----------------------------------------------------------------------------
(* A ticket carries the time it was counted at.                             *)
TimesOK == \A p \in passed : p[2] \in Nat

(* Every step keeps it: a ticket takes its time from a counter.             *)
LEMMA TimesStep == PilotInv /\ TimesOK /\ [PilotNext]_pilotVars => TimesOK'
<1> SUFFICES ASSUME PilotInv, TimesOK, [PilotNext]_pilotVars PROVE TimesOK'
  OBVIOUS
<1>1. ASSUME NEW D \in SUBSET (Identifier \X Nat), Pass(D) PROVE TimesOK'
  <2>1. \A d \in D : Ticket(d)[2] \in Nat
    BY DEF Ticket
  <2>2. QED
    BY <1>1, <2>1 DEF Pass, TimesOK
<1>2. CASE UNCHANGED passed
  BY <1>2 DEF TimesOK
<1>3. ASSUME NEW h \in Handler, LimitFeedback(h) PROVE TimesOK'
  <2>1. {<<Tester, now>>} \in SUBSET (Identifier \X Nat)
    BY PilotAssumption DEF PilotInv, Identifier
  <2>2. QED
    BY <1>1, <1>2, <1>3, <2>1 DEF LimitFeedback
<1>4. ASSUME NEW h \in Handler, Submit(h) PROVE TimesOK'
  <2>1. handler[h].pc = "submit" /\ handler[h] \in Invocation
    BY <1>4 DEF Submit, PilotInv, HandlersOK
  <2>2. handler[h].at \in SUBSET (Identifier \X Nat)
    BY <2>1 DEF Invocation, Unstarted, Counting, Submitting, Projections, Feedback
  <2>3. QED
    BY <1>1, <1>2, <1>4, <2>2 DEF Submit
<1>5. ASSUME NEW h \in Handler, HandlerStep(h) PROVE TimesOK'
  BY <1>2, <1>3, <1>4, <1>5
  DEF HandlerStep, Spend, Poll, PostFeedback, Start, LimitKey, LimitAgent, Unreachable,
      WriteRow, recordPilotEvent, recordPilotRejection, recordPilotFeedback
<1>6. QED
  BY <1>2, <1>5
  DEF PilotNext, Settle, Health, Progress, Tick, Expire, Outage, Recover, Recycle, Drop,
      pilotVars

(* The invariant of the limits holds at first and is inductive.             *)
LEMMA LimitsInit == PilotInit => LimitsInv /\ TimesOK
<1> SUFFICES ASSUME PilotInit PROVE LimitsInv /\ TimesOK
  OBVIOUS
<1>1. PilotInv /\ passed = {} /\ DOMAIN rate_limits = {} /\ now \in Nat
  BY PilotInvInit, PilotAssumption DEF PilotInit
<1>2. \A h \in Handler : handler[h] = Idle
  BY DEF PilotInit
<1>3. Held(handler) = {} /\ SlotsOK(handler)
  BY <1>2 DEF Held, SlotsOK, Slots, Idle
<1>4. ASSUME NEW i \in Identifier, NEW k \in Nat
      PROVE  WindowOK(passed, Held(handler), rate_limits, now, i, k)
  <2>1. PassedBy(passed, i, k) = {} /\ HeldBy(Held(handler), i, k) = {}
    BY <1>1, <1>3 DEF PassedBy, HeldBy
  <2>2. Used(passed, Held(handler), i, k) = 0
    BY <2>1, FS_EmptySet DEF Used
  <2>3. QED
    BY <1>1, <2>2, PilotAssumption DEF WindowOK
<1>5. \A i \in Identifier, k \in Nat :
        WindowOK(passed, Held(handler), rate_limits, now, i, k)
  BY <1>4
<1>6. QED
  BY <1>1, <1>3, <1>5, FS_EmptySet DEF LimitsInv, LimitsOK, TimesOK

(* Every step keeps the limits: one case per group of actions.              *)
LEMMA LimitsStep == LimitsInv /\ [PilotNext]_pilotVars => LimitsInv'
<1> SUFFICES ASSUME LimitsInv, [PilotNext]_pilotVars PROVE LimitsInv'
  OBVIOUS
<1>1. PilotInv'
  BY PilotInvStep DEF LimitsInv
<1>2. ASSUME NEW h \in Handler, HandlerStep(h) PROVE LimitsInv'
  BY <1>1, <1>2, HandlersLetGo, WorldLetsGo, LimitersCount, SubmitMoves DEF HandlerStep
<1>3. QED
  BY <1>1, <1>2, WorldLetsGo DEF PilotNext

(* No fixed window of an identifier passes more than its limit, and no      *)
(* period of a window's length more than twice as many, however invocations *)
(* interleave, the cluster fails and expired counters are removed.          *)
THEOREM SubmissionsAreBounded == PilotSpec => []SubmissionsBounded
<1>1. LimitsInv /\ TimesOK => SubmissionsBounded
  <2> SUFFICES ASSUME LimitsInv, TimesOK, NEW i \in Identifier, NEW t \in 0..MaxTime
               PROVE  /\ PassedIn(i, t, t + WindowSeconds[i]) <= 2 * Limit[i]
                      /\ t % WindowSeconds[i] = 0 =>
                           PassedIn(i, t, t + WindowSeconds[i]) <= Limit[i]
    BY DEF SubmissionsBounded
  <2> DEFINE W == WindowSeconds[i]
             k == t \div W
             S == {p \in passed : p[1] = i /\ p[2] >= t /\ p[2] < t + W}
             A == PassedBy(passed, i, k)
             B == PassedBy(passed, i, k + 1)
  <2>1. W \in Nat \ {0} /\ t \in Nat /\ Limit[i] \in Nat
    BY PilotAssumption
  <2>2. k \in Nat /\ k + 1 \in Nat
    <3>1. k \in Nat
      BY <2>1, Windows
    <3> HIDE DEF k
    <3>2. QED
      BY <3>1
  <2>3. \A p \in S : /\ p \in A \/ p \in B
                     /\ t % W = 0 => p \in A
    <3>1. ASSUME NEW p \in S
          PROVE  /\ p[2] \div W \in {k, k + 1}
                 /\ t % W = 0 => p[2] \div W = k
      <4>1. p[2] \in Nat /\ t <= p[2] /\ p[2] < t + W
        BY <2>1 DEF TimesOK
      <4>2. QED
        BY <2>1, <4>1, Windows
    <3>2. QED
      BY <3>1 DEF PassedBy
  <2>4. ASSUME NEW j \in Nat
        PROVE  /\ IsFiniteSet(PassedBy(passed, i, j))
               /\ Cardinality(PassedBy(passed, i, j)) \in Nat
               /\ Cardinality(PassedBy(passed, i, j)) <= Limit[i]
    <3> DEFINE C == PassedBy(passed, i, j)
               D == HeldBy(Held(handler), i, j)
    <3>1. IsFiniteSet(C) /\ IsFiniteSet(D)
      BY FS_Subset DEF LimitsInv, LimitsOK, PassedBy, HeldBy
    <3>2. Cardinality(C) \in Nat /\ Cardinality(D) \in Nat
      BY <3>1, FS_CardinalityType
    <3>3. Cardinality(C) + Cardinality(D) <= Limit[i]
      BY DEF LimitsInv, LimitsOK, WindowOK, Used
    <3> HIDE DEF C, D
    <3>4. Cardinality(C) <= Limit[i]
      BY <2>1, <3>2, <3>3
    <3>5. QED
      BY <3>1, <3>2, <3>4 DEF C
  <2>5. PassedIn(i, t, t + W) = Cardinality(S)
    BY DEF PassedIn
  <2>6. /\ IsFiniteSet(A) /\ Cardinality(A) \in Nat /\ Cardinality(A) <= Limit[i]
        /\ IsFiniteSet(B) /\ Cardinality(B) \in Nat /\ Cardinality(B) <= Limit[i]
    BY <2>2, <2>4
  <2> HIDE DEF A, B, S
  <2>7. Cardinality(S) <= 2 * Limit[i]
    <3>1. /\ IsFiniteSet(A \cup B) /\ IsFiniteSet(A \cap B)
          /\ Cardinality(A \cup B) = Cardinality(A) + Cardinality(B) - Cardinality(A \cap B)
      BY <2>6, FS_Union, FS_Intersection
    <3>2. Cardinality(A \cap B) \in Nat /\ Cardinality(A \cup B) \in Nat
      BY <3>1, FS_CardinalityType
    <3>3. S \in SUBSET (A \cup B)
      BY <2>3
    <3>4. Cardinality(S) <= Cardinality(A \cup B) /\ Cardinality(S) \in Nat
      BY <3>1, <3>3, FS_Subset, FS_CardinalityType
    <3>5. QED
      BY <2>1, <2>6, <3>1, <3>2, <3>4
  <2>8. t % W = 0 => Cardinality(S) <= Limit[i]
    <3>1. ASSUME t % W = 0 PROVE Cardinality(S) <= Limit[i]
      <4>1. S \in SUBSET A
        BY <2>3, <3>1
      <4>2. Cardinality(S) <= Cardinality(A) /\ Cardinality(S) \in Nat
        BY <2>6, <4>1, FS_Subset, FS_CardinalityType
      <4>3. QED
        BY <2>1, <2>6, <4>2
    <3>2. QED
      BY <3>1
  <2>9. QED
    BY <2>5, <2>7, <2>8
<1>2. LimitsInv => PilotInv
  BY DEF LimitsInv
<1>3. QED
  BY <1>1, <1>2, LimitsInit, LimitsStep, TimesStep, PTL DEF PilotSpec
=============================================================================
