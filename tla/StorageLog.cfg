\* The storage server's log: two clients, two subscriber threads.
CONSTANTS
  c1 = c1
  c2 = c2
  Clients = {c1, c2}
  Payloads = {p}
  NoOp = NoOp
  Other = Other
  Schedules <- MCSchedules
  NumThreads = 2
  MaxGsn = 3
  MaxSlots = 2
SPECIFICATION FairSpec
INVARIANTS TypeOK ClientPrefix FinalizedIsFull IteratorInBounds
PROPERTIES ReleasedIsFinal ImplementsWriteOnceLog EverySlotDelivered
\* The server stops when an assertion fails or the bound on GSNs is reached.
CHECK_DEADLOCK FALSE
