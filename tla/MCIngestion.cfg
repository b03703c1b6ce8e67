SPECIFICATION FairSpec
CONSTANTS
  Replica = {p1, p2}
  Request = {r1, r2, r3}
  e1 = e1
  e2 = e2
  k1 = k1
  s1 = s1
  Event = {e1, e2}
  Key = {k1}
  Service = {s1}
  KeyOf <- MCKeyOf
  ServiceOf <- MCServiceOf
  None = None
INVARIANTS TypeOK RowsAreUnique CreatedOnce AnswerIsDurable DeliveriesMatchDeployments RecoveryFindsWinner CreatorWinsItsDelivery ReceivedCountsDeployments
PROPERTIES EveryRequestAnswered ImplementsLedger
\* Finitely many requests are made: when all are answered nothing is left to do.
CHECK_DEADLOCK FALSE
