SPECIFICATION FairSpec
CONSTANTS
  NULL = NULL
  Request = {r1, r2}
  Deployment = {d1}
  Endpoint = {e1}
  Evaluator = {v1}
  Defaults <- MCDefaults
  Overrides <- MCOverrides
  Sample <- MCSample
  MaxPast = 1
  MaxFuture = 0
  MaxTime = 2
  MaxFaults = 1
  MaxAttempts = 1
  MaxResets = 1
INVARIANT MessagesHaveFindings
PROPERTIES ImplementsReleaseWatch EveryReleaseIsSettled
\* The bounded clock and the finite set of requests run out.
CHECK_DEADLOCK FALSE
