SPECIFICATION FairSpec
CONSTANTS
  Incident = {i1}
  None = None
  MaxAttempts = 5
  MaxFaults = 0
  MaxResets = 0
PROPERTIES RestoredChannelDelivers
