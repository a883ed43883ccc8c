----------------------------- MODULE MCSubscriberLog ------------------------
(* Instance of SubscriberLog for TLC: what current_blocks_ holds at first. *)
EXTENDS SubscriberLog

Zero == {0}
=============================================================================
