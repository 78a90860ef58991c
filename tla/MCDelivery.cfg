SPECIFICATION Spec
CONSTANTS
  Endpoint = {e1}
  Event = {v1, v2}
  MaxAttempts = 2
  MaxFaults = 1
  MaxSecrets = 2
  Null = Null
  Happening = {h1, h2, h3}
  Page = 1
  Retained = 2
  MaxRows = 4
INVARIANTS
  
  
  StreamMissesNothing

  
CHECK_DEADLOCK FALSE
