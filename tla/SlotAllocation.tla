---------------------------- MODULE SlotAllocation --------------------------
(***************************************************************************)
(* How GSNs are handed to clients.  Once per epoch the ordering service    *)
(* sums up and sorts the rates of its active clients and sends them, with  *)
(* the first GSN of the epoch, to the storage servers (order/order.cpp);   *)
(* every server turns the message into the same interleaving of slots with *)
(* an error-diffusion loop (log::add_entries of storage/log.cpp).  Nothing *)
(* but this arithmetic keeps the servers' GSNs in step with the ordering   *)
(* service's gsn_base_.  The server may run several epochs behind.         *)
(***************************************************************************)
EXTENDS Integers, Sequences, FiniteSets

CONSTANTS Clients,   \* client IDs
          ShardOf,   \* the shard of each client
          MinSlots,  \* MIN_SLOTS, the granularity of rates
          MaxRate,   \* bound on the rates clients ask for
          MaxEpochs  \* bound on the number of epochs

ASSUME ClientsAssumption == Clients \subseteq Nat /\ IsFiniteSet(Clients)
ASSUME ShardOfAssumption == ShardOf \in [Clients -> Nat]
ASSUME MinSlotsAssumption == MinSlots \in Nat \ {0}
ASSUME BoundsAssumption == MaxRate \in Nat /\ MaxEpochs \in Nat

VARIABLES
  active,   \* order: the clients in client_state_ that have not failed
  rate,     \* order: num_slots of each client's state
  gsnBase,  \* order: gsn_base_, the first GSN of the next epoch
  epochs,   \* order: number of epochs sent
  inbox,    \* STORAGE_SLOTS messages on their way to the server
  msg,      \* server: the assignments of the running add_entries, or << >>
  i,        \* server: turns of the outer loop begun
  j,        \* server: next index of the inner loop
  errors,   \* server: the accumulated error of each assignment
  startGsn, \* server: slots.start_gsn
  yielded,  \* server: slots yielded per assignment of the running message
  count     \* server: number of slots yielded in all epochs

orderVars == <<active, rate, gsnBase, epochs>>
serverVars == <<msg, i, j, errors, startGsn, yielded, count>>
vars == <<orderVars, inbox, serverVars>>

-----------------------------------------------------------------------------
(* Ordering service.                                                       *)

(* util::align: round up to a multiple of n.                               *)
Align(n, x) == n * ((x + n - 1) \div n)

Assignment == [client : Clients, num : Nat \ {0}]
Message == [start : Nat, assign : Seq(Assignment)]

Init ==
  /\ active = {}
  /\ rate = [c \in Clients |-> MinSlots]
  /\ gsnBase = 0 /\ epochs = 0
  /\ inbox = << >>
  /\ msg = << >> /\ i = 0 /\ j = 1 /\ errors = << >> /\ yielded = << >>
  /\ startGsn = 0
  /\ count = 0

(* add_client takes the rate as the client introduces itself with it: one  *)
(* with a fixed rate has aligned it (client.cpp:47), one that estimates    *)
(* its rate starts with MIN_SLOTS.                                         *)
AddClient(c, n) ==
  /\ c \notin active
  /\ active' = active \cup {c}
  /\ rate' = [rate EXCEPT ![c] = Align(MinSlots, n)]
  /\ UNCHANGED <<gsnBase, epochs, inbox, serverVars>>

(* A client fails or finishes: it gets no slots in later epochs.  The rate *)
(* of a client that is not active is not used; it is reset to keep the     *)
(* state space small.                                                      *)
DropClient(c) ==
  /\ c \in active
  /\ active' = active \ {c}
  /\ rate' = [rate EXCEPT ![c] = MinSlots]
  /\ UNCHANGED <<gsnBase, epochs, inbox, serverVars>>

(* Mutation: a rate of 0 is taken as it is.                                *)
MutClientRate(c, n) ==
  /\ c \in active
  /\ rate' = [rate EXCEPT ![c] = Align(MinSlots, n)]
  /\ UNCHANGED <<active, gsnBase, epochs, inbox, serverVars>>

(* ORDER_CLIENT_RATE.                                                      *)
ClientRate(c, n) ==
  /\ c \in active
  /\ rate' = [rate EXCEPT ![c] = Align(MinSlots, IF n = 0 THEN 1 ELSE n)]
  /\ UNCHANGED <<active, gsnBase, epochs, inbox, serverVars>>

(* The order of std::greater on tuples (num_slots, shard_id, client_id).   *)
Greater(a, b) ==
  \/ rate[a] > rate[b]
  \/ rate[a] = rate[b] /\ ShardOf[a] > ShardOf[b]
  \/ rate[a] = rate[b] /\ ShardOf[a] = ShardOf[b] /\ a > b

(* Mutation: std::less in place of std::greater.                           *)
MutSortedSlots ==
  {s \in [1 .. Cardinality(active) -> active] :
     \A k \in DOMAIN s : \A l \in DOMAIN s : k < l => Greater(s[l], s[k])}

(* std::sort: the arrangements of the active clients that are sorted.      *)
SortedSlots ==
  {s \in [1 .. Cardinality(active) -> active] :
     \A k \in DOMAIN s : \A l \in DOMAIN s : k < l => Greater(s[k], s[l])}

(* Mutation: every client counts with MIN_SLOTS.                           *)
MutTotalSlots(s) == MinSlots * Len(s)

(* total_slots, summed up over the vector the loop over client_state_      *)
(* builds.                                                                 *)
TotalSlots(s) ==
  LET total[n \in 0 .. Len(s)] == IF n = 0 THEN 0 ELSE total[n - 1] + rate[s[n]]
  IN total[Len(s)]

(* The epoch timer expires.                                                *)
Epoch ==
  /\ epochs < MaxEpochs
  /\ \E s \in SortedSlots :
       /\ inbox' = Append(inbox,
            [start |-> gsnBase,
             assign |-> [k \in DOMAIN s |-> [client |-> s[k], num |-> rate[s[k]]]]])
       /\ gsnBase' = gsnBase + TotalSlots(s)
  /\ epochs' = epochs + 1
  /\ UNCHANGED <<active, rate, serverVars>>

-----------------------------------------------------------------------------
(* Storage server: log::add_entries.                                       *)

Num(k) == msg[k].num

(* errors starts with max_slots / slots.size() for every assignment.       *)
Initial(assign) == assign[1].num \div Len(assign)

(* The lambda yield: the next GSN goes to assignment k.  A server of       *)
(* another shard advances the GSN without adding an entry.                 *)
YieldSlot(k) ==
  /\ yielded' = [yielded EXCEPT ![k] = @ + 1]
  /\ count' = count + 1
  /\ startGsn' = startGsn + 1

(* STORAGE_SLOTS; a message without clients is ignored.                    *)
ReceiveSlots ==
  /\ msg = << >> /\ inbox # << >>
  /\ inbox' = Tail(inbox)
  /\ LET a == Head(inbox).assign IN
       IF a = << >> THEN UNCHANGED serverVars
       ELSE /\ msg' = a
            /\ i' = 0
            /\ j' = Len(a) + 1
            /\ errors' = [k \in 1 .. Len(a) |-> Initial(a)]
            /\ yielded' = [k \in 1 .. Len(a) |-> 0]
            /\ startGsn' = Head(inbox).start
            /\ UNCHANGED count
  /\ UNCHANGED orderVars

(* A turn of the outer loop yields a slot for the first assignment.        *)
YieldPrimary ==
  /\ msg # << >> /\ j = Len(msg) + 1 /\ i < Num(1)
  /\ i' = i + 1
  /\ j' = 2
  /\ YieldSlot(1)
  /\ UNCHANGED <<orderVars, inbox, msg, errors>>

(* A turn of the inner loop: diffuse the error of assignment j.            *)
YieldSecondary ==
  /\ msg # << >> /\ j <= Len(msg)
  /\ j' = j + 1
  /\ IF errors[j] - Num(j) < 0
     THEN /\ errors' = [errors EXCEPT ![j] = @ - Num(j) + Num(1)]
          /\ YieldSlot(j)
     ELSE /\ errors' = [errors EXCEPT ![j] = @ - Num(j)]
          /\ UNCHANGED <<yielded, count, startGsn>>
  /\ UNCHANGED <<orderVars, inbox, msg, i>>

Done == msg # << >> /\ j = Len(msg) + 1 /\ i = Num(1)

(* add_entries returns, its local variables are gone.                      *)
FinishSlots ==
  /\ Done
  /\ msg' = << >> /\ i' = 0 /\ j' = 1 /\ errors' = << >> /\ yielded' = << >>
  /\ UNCHANGED <<orderVars, inbox, startGsn, count>>

-----------------------------------------------------------------------------
Order ==
  \/ \E c \in Clients, n \in 1 .. MaxRate : AddClient(c, n)
  \/ \E c \in Clients : DropClient(c)
  \/ \E c \in Clients, n \in 0 .. MaxRate : ClientRate(c, n)
  \/ Epoch

Server == ReceiveSlots \/ YieldPrimary \/ YieldSecondary \/ FinishSlots

Next == Order \/ Server

Spec == Init /\ [][Next]_vars
-----------------------------------------------------------------------------
(* Types of all variables.                                                 *)
TypeOK ==
  /\ active \subseteq Clients
  /\ rate \in [Clients -> Nat \ {0}]
  /\ gsnBase \in Nat /\ epochs \in Nat
  /\ inbox \in Seq(Message)
  /\ msg \in Seq(Assignment)
  /\ i \in Nat /\ j \in Nat
  /\ errors \in Seq(Int) /\ yielded \in Seq(Nat)
  /\ startGsn \in Nat
  /\ count \in Nat

(* At any time of an epoch a client has its proportional share of the      *)
(* slots up to one slot: i turns out of Num(1) have been taken.  At the    *)
(* end, when i is Num(1), this leaves no slot too many or too few.         *)
ProportionalShare ==
  msg # << >> =>
    \A k \in 2 .. Len(msg) :
      LET turns == IF k < j THEN i ELSE i - 1 IN
      /\ yielded[k] * Num(1) - turns * Num(k) < Num(1)
      /\ turns * Num(k) - yielded[k] * Num(1) < Num(1)

(* The GSNs on the servers have neither gaps nor duplicates across epochs, *)
(* although each epoch's first GSN comes from the ordering service: the    *)
(* n-th slot that is ever yielded has GSN n, and a server that has caught  *)
(* up stands at the ordering service's gsn_base_.                          *)
InStepWithOrder ==
  /\ startGsn = count
  /\ msg = << >> /\ inbox = << >> => startGsn = gsnBase
=============================================================================
