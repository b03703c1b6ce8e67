SPECIFICATION Spec
CONSTANTS
  NULL = NULL
  Deployment = {d1, d2}
  Endpoint = {e1}
  Evaluator = {v1}
  Defaults <- MCDefaults
  Overrides <- MCOverrides
  Sample <- MCSample
  MaxPast = 1
  MaxFuture = 1
  MaxTime = 5
  MaxFaults = 1
SYMMETRY Symmetry
INVARIANTS TypeOK IncidentMatchesVerdict MissesAtMostOneCheck NoCheckServesTwoReleases SupersededHasSuccessor ShortfallIsExplained
PROPERTIES VerdictIsFinal
\* The bounded clock and the bounded set of deployments run out.
CHECK_DEADLOCK FALSE
