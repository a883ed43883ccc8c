---------------------------- MODULE MCReplication ---------------------------
(* Instances of Replication for TLC.                                       *)
EXTENDS Replication

CONSTANT c1

(* One client: two slots per epoch.                                        *)
OneClient == [A \in SUBSET Clients |-> IF A = {} THEN << >> ELSE <<c1, c1>>]

(* One client: all slots in one epoch.                                     *)
ThreeSlots == [A \in SUBSET Clients |-> IF A = {} THEN << >> ELSE <<c1, c1, c1>>]
=============================================================================
