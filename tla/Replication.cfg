\* One client on two servers, suspected by anyone at any time, that may crash or leave.
CONSTANTS
  c1 = c1
  Clients = {c1}
  Payloads = {1, 2}
  NoOp = NoOp
  Replicas = {0, 1}
  Failures = 1
  NoGsn = 99
  Layout <- ThreeSlots
  SlotsOnTime = TRUE
  FalseSuspicion = TRUE
  MaxEpochs = 1
  MaxRequests = 2
  MaxSlots = 2
SPECIFICATION Spec
INVARIANTS TypeOK AckedIsDurable PrefixAgreement CutIsFinal FrozenBeforeGone
INVARIANTS ResponsesInOrder RecoveredIsWritten
PROPERTIES InsertFindsSlot
\* All clients may be gone and the epochs used up.
CHECK_DEADLOCK FALSE
