------------------------------- MODULE LogOps -------------------------------
(***************************************************************************)
(* The log of a storage server as a value (storage/log.h, storage/log.cpp) *)
(* A log is a sequence of entries.  The intrusive list through a client's  *)
(* entries (client_entries_, next, prev) is a function of that sequence:   *)
(* the entries of one client, in the order of the sequence.  Pointers into *)
(* the list are positions of the sequence, with 0 for nullptr.             *)
(* Blocks of NUM_ENTRIES_PER_BLOCK entries are left out: an index of the   *)
(* sequence stands for a block and an offset.                              *)
(***************************************************************************)
EXTENDS Integers, Sequences, FiniteSets

CONSTANTS Clients,   \* client IDs of this shard
          Payloads,  \* request payloads, data_length > 0
          NoOp       \* the content of a slot with data_length = 0

ASSUME NoOpIsNoPayload == NoOp \notin Payloads

(* log::entry: `data` stands for data and data_length. *)
Entry == [gsn : Nat, client : Clients, set : BOOLEAN, data : Payloads \cup {NoOp}]

NewEntry(gsn, c) == [gsn |-> gsn, client |-> c, set |-> FALSE, data |-> NoOp]

(* The entries of client c that come after position i. *)
After(log, c, i) == {k \in DOMAIN log : k > i /\ log[k].client = c}

(* entry->next of client c's list; with i = 0, first_entry_. 0 is nullptr. *)
NextOf(log, c, i) ==
  IF After(log, c, i) = {} THEN 0
  ELSE CHOOSE k \in After(log, c, i) : \A m \in After(log, c, i) : k <= m

(* The n-th entry of client c after position i, 0 if the list ends before. *)
(* A count of 0 wraps around in `while (--close)` and runs off the list.   *)
NthAfter(log, c, i, n) ==
  LET A == After(log, c, i) IN
  IF n = 0 \/ Cardinality(A) < n THEN 0
  ELSE CHOOSE k \in A : Cardinality({m \in A : m <= k}) = n

(* position::insert as one step: the slots of c after i and before k are   *)
(* closed, payload d goes to k.                                            *)
InsertAt(log, c, i, k, d) ==
  [m \in DOMAIN log |->
     IF m = k THEN [log[m] EXCEPT !.set = TRUE, !.data = d]
     ELSE IF m \in After(log, c, i) /\ m < k THEN [log[m] EXCEPT !.set = TRUE]
     ELSE log[m]]

(* Mutation: close returns at once for a client without a current entry.   *)
MutCloseAfter(log, c, i) ==
  [m \in DOMAIN log |->
     IF i # 0 /\ m \in After(log, c, i) THEN [log[m] EXCEPT !.set = TRUE] ELSE log[m]]

(* position::close as one step.                                            *)
CloseAfter(log, c, i) ==
  [m \in DOMAIN log |->
     IF m \in After(log, c, i) THEN [log[m] EXCEPT !.set = TRUE] ELSE log[m]]

(* Where position::close leaves current_entry_.                            *)
LastOf(log, c, i) ==
  LET A == After(log, c, i) IN
  IF A = {} THEN i ELSE CHOOSE k \in A : \A m \in A : m <= k

(* position::suffix: the entries of c up to position i with a GSN above    *)
(* begin, or all of them when begin is `none`; as a set of positions.      *)
Suffix(log, c, i, begin, none) ==
  {k \in DOMAIN log : /\ k <= i /\ log[k].client = c
                      /\ begin = none \/ log[k].gsn > begin}
=============================================================================
