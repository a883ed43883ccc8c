\* Two receive queues of two requests each take turns on the smallest ring that
\* has room for them, with gaps at its end;
\* the payload may be in place before there is a receive request for it.
SPECIFICATION FairSpec
CONSTANTS
  RingSize = 23
  MaxLength = 4
  MaxInline = 2
  Alignment = 2
  Lengths <- ShortAndLong
  MaxOutstanding = 2
  SendRequests = 2
  NumBuffers = 3
  NumQueues = 2
  RecvRequests = 2
  BatchSize = 2
  QueuePairs = 4
  ImmValues = 128
  RingIndex = 2
  EarlyWrite = TRUE
  MaxMessages = 7
INVARIANTS UnreadIntact BufferUntilSent SendQueueFits
PROPERTIES EveryMessageProcessed
