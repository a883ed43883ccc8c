---------------------------- MODULE MCLockService ---------------------------
(* Instance of LockService for TLC.                                        *)
EXTENDS LockService

CONSTANTS p1, p2, p3, k1, k2

ThreeProcs == {p1, p2, p3}
TwoKeys == {k1, k2}

(* Two processes contend for k1; the third has k2 to itself.               *)
SharedByTwo == [p \in Procs |-> IF p = p3 THEN k2 ELSE k1]
=============================================================================
