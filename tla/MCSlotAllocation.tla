--------------------------- MODULE MCSlotAllocation -------------------------
(* Instance of SlotAllocation for TLC: two shards.                         *)
EXTENDS SlotAllocation

MCShardOf == [c \in Clients |-> IF c = 1 THEN 1 ELSE 0]
=============================================================================
