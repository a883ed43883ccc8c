\* Three processes, two of which share a lock; each acquires and releases its lock.
\* The system stops when every worker has done so.
SPECIFICATION FairSpec
CONSTANTS
  p1 = p1
  p2 = p2
  p3 = p3
  k1 = k1
  k2 = k2
  None = None
  Procs <- ThreeProcs
  Keys <- TwoKeys
  KeyOf <- SharedByTwo
  SameFrame = TRUE
  MaxOps = 2
INVARIANTS TypeOK MutualExclusion HolderIsFirst
PROPERTIES EveryRequestReturns
CHECK_DEADLOCK FALSE
