\* An unload while requests are waiting.
SPECIFICATION Spec
CONSTANTS
  Gens = {g1, g2, g3}
  Loads = {l1}
  Unloads = {u1}
  JoinMayExpire = FALSE
  NoGen = NoGen
INVARIANTS
  UnloadedMeansIdle
CHECK_DEADLOCK FALSE
