----------------------------- MODULE WriteOnceLog ---------------------------
(***************************************************************************)
(* What a storage server promises to subscribers about its log: slots are  *)
(* created in GSN order, every slot is filled at most once, and delivery   *)
(* thread t hands out the slots t, t + NumThreads, t + 2*NumThreads, ...   *)
(* in that order, each exactly once and only with its final content.       *)
(***************************************************************************)
EXTENDS Integers, Sequences

CONSTANTS Owners, Values, Empty, NumThreads

VARIABLES slots,      \* the slots of the log, in GSN order
          cursor,     \* cursor[t]: index of the next slot thread t delivers
          delivered   \* delivered[t]: the slots thread t has delivered

vars == <<slots, cursor, delivered>>

Threads == 0 .. NumThreads - 1
Slot == [gsn : Nat, client : Owners, val : Values \cup {Empty}]

Init ==
  /\ slots = << >>
  /\ cursor = [t \in Threads |-> t]
  /\ delivered = [t \in Threads |-> << >>]

(* The log grows by one empty slot with a GSN above all the others. *)
Grow ==
  LET new == slots'[Len(slots) + 1] IN
  /\ Len(slots') = Len(slots) + 1
  /\ slots' = Append(slots, new)
  /\ new \in Slot /\ new.val = Empty
  /\ \A i \in 1 .. Len(slots) : slots[i].gsn < new.gsn
  /\ UNCHANGED <<cursor, delivered>>

(* An empty slot is filled, for good. *)
Fill ==
  \E i \in 1 .. Len(slots), v \in Values :
    /\ slots[i].val = Empty
    /\ slots' = [slots EXCEPT ![i].val = v]
    /\ UNCHANGED <<cursor, delivered>>

(* A thread delivers the next slot of its stride once it is filled. *)
Deliver(t) ==
  /\ cursor[t] < Len(slots)
  /\ slots[cursor[t] + 1].val # Empty
  /\ delivered' = [delivered EXCEPT ![t] = Append(@, slots[cursor[t] + 1])]
  /\ cursor' = [cursor EXCEPT ![t] = @ + NumThreads]
  /\ UNCHANGED slots

Next == Grow \/ Fill \/ \E t \in Threads : Deliver(t)

Spec == Init /\ [][Next]_vars
=============================================================================
