SPECIFICATION Spec
CONSTANTS
  p1 = p1
  p2 = p2
  Process = {p1, p2}
  Configured <- MCConfigured
  Call = {c1, c2}
  Exchange = {x1}
  MaxTokens = 2
  Unloader = {u1, u2}
  MaxLines = 3
  MaxRetries = 1
INVARIANTS
  StoreIsOwned
  ShutdownIsWhole
  CallsAreFinalized
  
  ConnectionIsKept
  ResultIsTheAnswer
PROPERTIES
  AllEnds
CHECK_DEADLOCK FALSE
