---------------------------- MODULE MCClientPacing ----------------------------
(* Instance of ClientPacing: three servers, one failure to tolerate: a     *)
(* response does not wait for the slowest of them.                          *)
EXTENDS ClientPacing, TLC

Symmetry == Permutations(Servers)

=============================================================================
