\* Three servers, one more than have to answer; the rate is estimated or fixed. Epochs
\* are announced three ticks ahead and handled in time; the client acts on every tick.
\* The bound on time ends the run.
SPECIFICATION Spec
CONSTANTS
  s1 = s1
  s2 = s2
  s3 = s3
  Servers = {s1, s2, s3}
  Failures = 1
  MaxOutstanding = 1
  Burst = 1
  Duration = 3
  MinSlots = 1
  Rates = {1, 3}
  OrderDelay = 3
  Delay = 1
  MaxPause = 1
  Skew = 0
  MaxTime = 12
  MaxRequests = 3
SYMMETRY Symmetry
INVARIANTS SlotsInPlace TimelyUse RequestIntact
