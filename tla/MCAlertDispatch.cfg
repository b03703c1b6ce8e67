SPECIFICATION FairSpec
CONSTANTS
  Incident = {i1, i2}
  None = None
  MaxAttempts = 3
  MaxFaults = 2
  MaxResets = 1
INVARIANTS TypeOK MessagesWithinAttempts SentWasDelivered BatchIsFresh
PROPERTIES SentIsFinal EveryIncidentSettles
