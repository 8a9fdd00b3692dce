\* Two invocations of the spend, poll and feedback routes in one instance.
CONSTANTS
  Key = {k1, k2}
  Agent = agent
  Tester = tester
  IdempotencyKey = {i1}
  Handler = {h1, h2}
  KeyLimit = 1
  AgentLimit = 2
  FeedbackLimit = 1
  Limit <- MCLimit
  WindowSeconds <- MCWindow
  Grace = 0
  MinTime = 1
  MaxTime = 2
  MaxSteps = 4
  MaxCalls = 3
  MaxFaults = 1

SPECIFICATION PilotSpec
SYMMETRY Symmetry
CHECK_DEADLOCK FALSE
INVARIANTS
  PilotTypeOK
  ProjectionTrue
  LostOnlyInOutage
  SubmissionsBounded
