\* A client or subscriber is stopped at any time; a client crashes once it has reached
\* all servers. The system stops when everyone is gone.
SPECIFICATION SessionsSpec
CONSTANTS
  Servers = {"s1", "s2"}
  Threads = {1, 2}
  Deployments <- Small
  EarlyCrash = FALSE
  FalseSuspicion = FALSE
  Interrupted = {}
INVARIANT EndedIsForgotten
PROPERTIES StopReturns CrashHandled
CHECK_DEADLOCK FALSE
