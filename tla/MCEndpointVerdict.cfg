SPECIFICATION Spec
CONSTANTS
  NULL = NULL
  Latency = {0, 20, 100, 145}
  Unexpected = {20}
  MaxChecks = 4
  Baselines <- MCBaselines
  Observations <- Window
  Thresholds <- MCThresholds
  Overrides <- MCOverrides
INVARIANTS OutageIsReported UnchangedIsNotBlamed ZeroOverridesReport
\* Each pair of windows is evaluated once.
CHECK_DEADLOCK FALSE
