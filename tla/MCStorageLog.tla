----------------------------- MODULE MCStorageLog ---------------------------
(* Instances of StorageLog for TLC.                                        *)
EXTENDS StorageLog

CONSTANTS c1, c2

(* An epoch with two slots for c1 and one for c2, one for c1 and a client  *)
(* of another shard, and one that only serves c2.                          *)
MCSchedules == {<<c1, c2, c1>>, <<c1, Other>>, <<c2>>}
=============================================================================
