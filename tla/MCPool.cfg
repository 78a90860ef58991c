SPECIFICATION FairSpec
CONSTANTS
  Entries = {1, 2, 3}
  Remote = {2, 3}
  Unreliable = {2}
  Spillover = {3}
  PrefixCache = {2, 3}
  Structured = {1}
  MaxInFlight <- MCMaxInFlight
  Serves <- MCServes
  Steps <- MCSteps
  Preferred <- MCPreferred
  Demands <- MCDemands
  Handlers = {h1, h2}
  MaxRetries = 1
  MaxTokens = 1
  None = None
INVARIANTS
  PlacementIsRight
PROPERTIES
  RoutingIsSafe
