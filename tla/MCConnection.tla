---------------------------- MODULE MCConnection ----------------------------
(* Instance of Connection for TLC.                                         *)
EXTENDS Connection

CONSTANTS p1, p2

TwoPeers == {p1, p2}
Eight == 0 .. 7
AnyQueues == {0, 1, 2}
AnyEnd == {"closed", "reset"}
=============================================================================
