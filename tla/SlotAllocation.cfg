\* Three clients on two shards with any rates up to MaxRate, over two epochs.
\* The epochs are bounded: the system may stop.
CONSTANTS
  Clients = {1, 2, 3}
  ShardOf <- MCShardOf
  MinSlots = 1
  MaxRate = 3
  MaxEpochs = 2
SPECIFICATION Spec
INVARIANTS TypeOK ProportionalShare InStepWithOrder
CHECK_DEADLOCK FALSE
