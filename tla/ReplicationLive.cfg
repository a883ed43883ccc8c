\* Every client that leaves or crashes is cleaned up after, with an epoch that may begin
\* in the middle of it.
CONSTANTS
  c1 = c1
  Clients = {c1}
  Payloads = {1, 2}
  NoOp = NoOp
  Replicas = {0, 1}
  Failures = 1
  NoGsn = 99
  Layout <- OneClient
  SlotsOnTime = TRUE
  FalseSuspicion = TRUE
  MaxEpochs = 2
  MaxRequests = 1
  MaxSlots = 2
SPECIFICATION FairSpec
PROPERTIES DepartedIsClosed
\* All clients may be gone and the epochs used up.
CHECK_DEADLOCK FALSE
