------------------------------ MODULE MCChannel -----------------------------
(* Instance of Channel for TLC: messages that are sent inline, and the     *)
(* longest ones.                                                           *)
EXTENDS Channel

ShortAndLong == {1, 4}
=============================================================================
