SPECIFICATION Spec
CONSTANTS
  NULL = NULL
  Latency = {100, 149, 150}
  Unexpected = {100}
  MaxChecks = 4
  Baselines <- MCBaselines
  Observations <- Window
  Thresholds <- MCThresholds
  Overrides <- MCNoOverride
INVARIANT RecordedMediansDecide
\* Each pair of windows is evaluated once.
CHECK_DEADLOCK FALSE
