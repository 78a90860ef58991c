\* A stream; and loads, an unload, and joins that expire racing with generations.
SPECIFICATION FairLocalSpec
CONSTANTS
  MaxSize = 2
  MaxTokens = 4
  Gens = {g1, g2, g3}
  Loads = {l1, l2}
  Unloads = {u1}
  JoinMayExpire = TRUE
  NoGen = NoGen
INVARIANTS
  TokensAreKept
  StateIsTrue
PROPERTIES
  ActsAsGeneration
  NobodyIsStuck
CHECK_DEADLOCK FALSE
