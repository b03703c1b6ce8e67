SPECIFICATION Spec
CONSTANTS
  NULL = NULL
  Deployment = {d1}
  Endpoint = {e1, e2}
  Evaluator = {v1, v2}
  Defaults <- MCDefaultsShort
  Overrides <- MCOverrides
  Sample <- MCUnanswered
  MaxPast = 1
  MaxFuture = 0
  MaxTime = 2
  MaxFaults = 0
SYMMETRY TwoEvaluators
INVARIANTS OneRowPerEndpoint
\* The bounded clock and the bounded set of deployments run out.
CHECK_DEADLOCK FALSE
