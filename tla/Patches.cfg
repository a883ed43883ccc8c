\* A server that is behind, or has nothing of the client, is patched.
CONSTANTS
  c1 = c1
  Clients = {c1}
  Payloads = {1, 2}
  NoOp = NoOp
  Replicas = {0, 1}
  Failures = 1
  NoGsn = 99
  Layout <- ThreeSlots
  SlotsOnTime = TRUE
  FalseSuspicion = FALSE
  MaxEpochs = 1
  MaxRequests = 2
  MaxSlots = 2
SPECIFICATION Spec
PROPERTIES PatchGoesToItsGsn
\* All clients may be gone and the epochs used up.
CHECK_DEADLOCK FALSE
