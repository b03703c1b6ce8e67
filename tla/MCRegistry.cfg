SPECIFICATION Spec
CONSTANTS
  enabled = enabled
  latency_pct = latency_pct
  low = low
  high = high
  NULL = NULL
  Request = {r1, r2, r3}
  Service = {s1}
  EndpointId = {x1, x2}
  Identity = {i1}
  ServiceOf <- MCServiceOf
  Column = {enabled, latency_pct}
  Nullable = {latency_pct}
  Value = {low, high}
  Settings <- MCSettings
  Changes <- MCChanges
SYMMETRY Symmetry
INVARIANTS TypeOK OneEndpointPerIdentity AppliedChangesHold DeletionHolds
\* Every request is made and answered once.
CHECK_DEADLOCK FALSE
