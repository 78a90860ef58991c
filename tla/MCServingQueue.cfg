\* A handler cancelled while it waits for admission.
SPECIFICATION Spec
CONSTANTS
  r1 = r1
  r2 = r2
  r3 = r3
  k1 = k1
  k2 = k2
  gpu = gpu
  remote = remote
  Requests = {r1, r2, r3}
  Keys = {k1, k2}
  Local = Local
  KeyOf <- MCKeyOf
  MaxPerKey = 1
  Slots = 1
  Room = 1
  Backends = {gpu}
  LocalBackends = {gpu}
  MaxInFlight <- MCMaxInFlight
  Capable <- MCCapable
  None = None
INVARIANTS
  KeySlotsExact
