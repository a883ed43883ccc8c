\* Three replicas with two senders each, a polling thread for each sender, two
\* application threads; the last entry needs a block to be recycled.
CONSTANTS
  Replicas = {1, 2, 3}
  Failures = 1
  Senders = 2
  Pollers = 2
  Apps = 2
  BlockSize = 2
  Sequential = FALSE
  InitialBlocks <- Zero
  MayStop = TRUE
  NumEntries = 5
SPECIFICATION FairSpec
INVARIANTS NoCrash DeliveredInOrder DeliveredIsReplicated StoredOrDelivered
PROPERTIES EveryEntryDelivered
\* The servers' logs are finite here and the subscriber may be stopped.
CHECK_DEADLOCK FALSE
