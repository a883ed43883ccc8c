----------------------------- MODULE Replication ----------------------------
(***************************************************************************)
(* One shard: clients that write to every storage server of the shard, the *)
(* storage servers, and the ordering service that hands out slots and      *)
(* recovers the clients that fail (client/client.cpp, storage/storage.cpp, *)
(* order/order.cpp).                                                       *)
(*                                                                         *)
(* Every pair of processes is connected by a FIFO channel.  A broadcast of *)
(* a request is one step; a client that crashes loses any suffix of what   *)
(* it has sent to a server, which covers a crash inside the broadcast.     *)
(* A server handles a message in one step, under the client's lock; the    *)
(* steps of its threads inside the log are those of StorageLog.            *)
(***************************************************************************)
EXTENDS LogOps

CONSTANTS
  Replicas,       \* replica IDs of the shard
  Failures,       \* failures_: storage failures to tolerate
  NoGsn,          \* the largest uint64_t, "no GSN"
  Layout,         \* slots of an epoch, given the active clients
  SlotsOnTime,    \* are slots on the servers before their epoch begins?
  FalseSuspicion, \* may a client be suspected that is alive?
  MaxEpochs, MaxRequests, MaxSlots  \* bounds

ASSUME ReplicasAssumption == Replicas \subseteq Nat /\ IsFiniteSet(Replicas) /\ Replicas # {}
ASSUME FailuresAssumption == Failures \in Nat
ASSUME BoundsAssumption == MaxEpochs \in Nat /\ MaxRequests \in Nat /\ MaxSlots \in Nat
ASSUME LayoutAssumption == Layout \in [SUBSET Clients -> Seq(Clients)]
ASSUME NoGsnAssumption ==
  NoGsn \in Nat /\ \A A \in SUBSET Clients : MaxEpochs * Len(Layout[A]) < NoGsn
ASSUME SwitchesAssumption == SlotsOnTime \in BOOLEAN /\ FalseSuspicion \in BOOLEAN

VARIABLES
  \* ordering service
  gsnBase,    \* gsn_base_
  epochs,     \* number of epochs so far
  phase,      \* per client: "active", "failed", "requested" or "gone"
  cuts,       \* per client: map from replica to its cut
  flushed,    \* per client: replicas that have sent all their data
  data,       \* per client: map from GSN to recovered payload
  \* channels
  toStorage,  \* per replica: ordering service to control thread
  toOrder,    \* per replica: control thread to ordering service
  acks,       \* per client and replica: acknowledged GSNs
  byes,       \* per client: replicas whose STORAGE_FINISHED is on its way
  \* clients
  alive,      \* per client: it has not crashed
  assigned,   \* per client: slots it was told about
  consumed,   \* per client: slots it has used
  reqs,       \* per client: the messages it has sent to all servers
  reach,      \* per client and replica: how many of them arrive
  out,        \* per client: outstanding requests
  latest,     \* per client: latest_gsn
  response,   \* per client: map from request number to the GSN returned
  left,       \* per client: CLIENT_FINISHED to the ordering service: "no", "sent"
  \* storage servers
  log,        \* per replica: its log
  cur,        \* per replica and client: current_entry_ of the position
  latestGsn,  \* per replica and client: latest_gsn
  disc,       \* per replica: disconnected clients
  suspect,    \* per replica: clients whose connection has failed
  got,        \* per replica and client: client messages handled
  aborted     \* replicas whose process failed an assertion

orderVars == <<gsnBase, epochs, phase, cuts, flushed, data>>
clientVars == <<alive, assigned, consumed, reqs, reach, out, latest, response, left>>
storageVars == <<log, cur, latestGsn, disc, suspect, got, aborted>>
channelVars == <<toStorage, toOrder, acks, byes>>
vars == <<orderVars, channelVars, clientVars, storageVars>>

EmptyMap == [x \in {} |-> 0]

Init ==
  /\ gsnBase = 0 /\ epochs = 0
  /\ phase = [c \in Clients |-> "active"]
  /\ cuts = [c \in Clients |-> EmptyMap]
  /\ flushed = [c \in Clients |-> {}]
  /\ data = [c \in Clients |-> EmptyMap]
  /\ toStorage = [r \in Replicas |-> << >>]
  /\ toOrder = [r \in Replicas |-> << >>]
  /\ acks = [c \in Clients |-> [r \in Replicas |-> << >>]]
  /\ byes = [c \in Clients |-> {}]
  /\ alive = [c \in Clients |-> TRUE]
  /\ assigned = [c \in Clients |-> 0]
  /\ consumed = [c \in Clients |-> 0]
  /\ reqs = [c \in Clients |-> << >>]
  /\ reach = [c \in Clients |-> [r \in Replicas |-> MaxRequests + 1]]
  /\ out = [c \in Clients |-> << >>]
  /\ latest = [c \in Clients |-> NoGsn]
  /\ response = [c \in Clients |-> EmptyMap]
  /\ left = [c \in Clients |-> "no"]
  /\ log = [r \in Replicas |-> << >>]
  /\ cur = [r \in Replicas |-> [c \in Clients |-> 0]]
  /\ latestGsn = [r \in Replicas |-> [c \in Clients |-> NoGsn]]
  /\ disc = [r \in Replicas |-> {}]
  /\ suspect = [r \in Replicas |-> {}]
  /\ got = [r \in Replicas |-> [c \in Clients |-> 0]]
  /\ aborted = {}

-----------------------------------------------------------------------------
(* Ordering service.                                                       *)

(* Send the messages ms to every replica, in order.                        *)
Broadcast(ms) == toStorage' = [r \in Replicas |-> toStorage[r] \o ms]

(* The epoch timer expires: slots for every client that has not failed.    *)
Epoch ==
  LET active == {c \in Clients : phase[c] = "active"}
      owners == Layout[active] IN
  /\ epochs < MaxEpochs /\ active # {}
  /\ epochs' = epochs + 1
  /\ Broadcast(<<[type |-> "slots", start |-> gsnBase, owners |-> owners]>>)
  /\ gsnBase' = gsnBase + Len(owners)
  /\ assigned' = [c \in Clients |->
       IF alive[c] THEN assigned[c] + Cardinality({k \in DOMAIN owners : owners[k] = c})
       ELSE 0]
  /\ UNCHANGED <<phase, cuts, flushed, data, toOrder, acks, byes, alive, consumed,
                 reqs, reach, out, latest, response, left, storageVars>>

(* The lambda failed.                                                      *)
Failed(c) ==
  /\ phase' = [phase EXCEPT ![c] = "failed"]
  /\ Broadcast(<<[type |-> "freeze", client |-> c]>>)

(* The lambda requested.                                                   *)
Requested(c, min) ==
  /\ phase' = [phase EXCEPT ![c] = "requested"]
  /\ Broadcast(<<[type |-> "cut", client |-> c, begin |-> min]>>)

(* The patches for the recovered data d of client c, in the order of GSNs. *)
Patches(c, d) ==
  LET gsns == CHOOSE s \in [1 .. Cardinality(DOMAIN d) -> DOMAIN d] :
                \A k, m \in DOMAIN s : k < m => s[k] < s[m]
  IN [k \in DOMAIN gsns |->
        [type |-> "patch", client |-> c, gsn |-> gsns[k], data |-> d[gsns[k]]]]

(* The lambda finalized: roll forward if data was requested, then finalize *)
(* and forget the client.                                                  *)
Finalized(c) ==
  /\ Broadcast((IF phase[c] = "requested" THEN Patches(c, data[c]) ELSE << >>)
                 \o <<[type |-> "finalize", client |-> c]>>)
  /\ phase' = [phase EXCEPT ![c] = "gone"]

(* A failure event on the connection of the ordering service to c.         *)
OrderFailureEvent(c) ==
  /\ ~alive[c] \/ FalseSuspicion
  /\ phase[c] = "active"
  /\ Failed(c)
  /\ UNCHANGED <<gsnBase, epochs, cuts, flushed, data, toOrder, acks, byes,
                 clientVars, storageVars>>

(* CLIENT_FINISHED from c; ORDER_FINISHED needs no modelling, as it only   *)
(* ends the client's loop.                                                 *)
OrderClientFinished(c) ==
  /\ left[c] = "sent" /\ phase[c] # "gone"
  /\ Finalized(c)
  /\ UNCHANGED <<gsnBase, epochs, cuts, flushed, data, toOrder, acks, byes,
                 clientVars, storageVars>>

(* The next message from replica r has this type, and is consumed.         *)
FromStorage(r, type) ==
  /\ toOrder[r] # << >> /\ Head(toOrder[r]).type = type
  /\ toOrder' = [toOrder EXCEPT ![r] = Tail(@)]

(* ORDER_CLIENT_FREEZE: a server suspects the client.                      *)
OrderClientFreeze(r) ==
  /\ FromStorage(r, "freeze")
  /\ LET c == Head(toOrder[r]).client IN
       IF phase[c] = "active" THEN Failed(c) ELSE UNCHANGED <<phase, toStorage>>
  /\ UNCHANGED <<gsnBase, epochs, cuts, flushed, data, acks, byes, clientVars,
                 storageVars>>

(* cuts.begin()->second and cuts.rbegin()->second of a std::map from       *)
(* replica ID to cut: the cuts of the lowest and of the highest replica.   *)
Lowest(S) == CHOOSE r \in S : \A s \in S : r <= s
Highest(S) == CHOOSE r \in S : \A s \in S : s <= r
MinCut(ct) == ct[Lowest(DOMAIN ct)]

(* A cut "none" of the highest replica is replaced by that of the highest  *)
(* replica that has one.                                                   *)
MaxCut(ct) ==
  LET known == {r \in DOMAIN ct : ct[r] # NoGsn}
      max == ct[Highest(DOMAIN ct)] IN
  IF MinCut(ct) # max /\ max = NoGsn /\ known # {} THEN ct[Highest(known)] ELSE max

(* ORDER_CLIENT_CUT from replica r.                                        *)
OrderClientCut(r) ==
  /\ FromStorage(r, "cut")
  /\ LET m == Head(toOrder[r])
         c == m.client
         ct == [s \in DOMAIN cuts[c] \cup {r} |-> IF s = r THEN m.gsn ELSE cuts[c][s]] IN
       IF phase[c] \in {"active", "gone"} \/ r \in DOMAIN cuts[c]
       THEN UNCHANGED <<phase, cuts, toStorage>>
       ELSE /\ cuts' = [cuts EXCEPT ![c] = ct]
            /\ IF phase[c] = "failed" /\ DOMAIN ct = Replicas
               THEN IF MinCut(ct) = MaxCut(ct) THEN Finalized(c)
                    ELSE Requested(c, MinCut(ct))
               ELSE UNCHANGED <<phase, toStorage>>
  /\ UNCHANGED <<gsnBase, epochs, flushed, data, acks, byes, clientVars, storageVars>>

(* ORDER_CLIENT_DATA from replica r; a GSN "none" ends r's data.           *)
OrderClientData(r) ==
  /\ FromStorage(r, "data")
  /\ LET m == Head(toOrder[r])
         c == m.client IN
       IF phase[c] # "requested" \/ r \in flushed[c]
       THEN UNCHANGED <<phase, flushed, data, toStorage>>
       ELSE IF m.gsn = NoGsn
       THEN /\ flushed' = [flushed EXCEPT ![c] = @ \cup {r}]
            /\ IF flushed'[c] = Replicas THEN Finalized(c)
               ELSE UNCHANGED <<phase, toStorage>>
            /\ UNCHANGED data
       ELSE /\ data' = [data EXCEPT ![c] =
                 [g \in DOMAIN @ \cup {m.gsn} |-> IF g \in DOMAIN @ THEN @[g] ELSE m.data]]
            /\ UNCHANGED <<phase, flushed, toStorage>>
  /\ UNCHANGED <<gsnBase, epochs, cuts, acks, byes, clientVars, storageVars>>

-----------------------------------------------------------------------------
(* Clients.                                                                *)

(* The application's requests can be told apart: the q-th message of a     *)
(* client carries payload q, or no payload.                                *)
Submitted(c) == Payloads \cap {Len(reqs[c]) + 1}

SlotsOf(r, c) == Cardinality(After(log[r], c, 0))

(* Mutation: a request counts as one slot, however many it uses up.        *)
MutConsume(c, n) == consumed' = [consumed EXCEPT ![c] = @ + 1]

(* The client's share of the epoch that a request uses up.                 *)
Consume(c, n) == consumed' = [consumed EXCEPT ![c] = @ + n]

(* Send a request, or a no-op when nothing is outstanding, that uses n     *)
(* slots of the epochs that have begun, to all servers.                    *)
SendRequest(c, d, n) ==
  /\ alive[c] /\ left[c] = "no" /\ Len(reqs[c]) < MaxRequests
  /\ \A k \in DOMAIN reqs[c] : reqs[c][k].type # "bye"
  /\ consumed[c] + n <= assigned[c]
  /\ SlotsOnTime => \A r \in Replicas : consumed[c] + n <= SlotsOf(r, c)
  /\ d = NoOp => out[c] = << >>
  /\ reqs' = [reqs EXCEPT ![c] = Append(@, [type |-> "insert", data |-> d, num |-> n])]
  /\ Consume(c, n)
  /\ out' = [out EXCEPT ![c] =
       Append(@, [req |-> Len(reqs[c]) + 1, gsn |-> NoGsn, acks |-> 0])]
  /\ UNCHANGED <<orderVars, channelVars, alive, assigned, reach, latest, response,
                 left, storageVars>>

(* stop(): CLIENT_FINISHED goes to all servers.                            *)
SendBye(c) ==
  /\ alive[c]
  /\ \A k \in DOMAIN reqs[c] : reqs[c][k].type # "bye"
  /\ reqs' = [reqs EXCEPT ![c] = Append(@, [type |-> "bye"])]
  /\ UNCHANGED <<orderVars, channelVars, alive, assigned, consumed, reach, out,
                 latest, response, left, storageVars>>

(* The outstanding requests that an acknowledgement of GSN g can be for.   *)
Matching(c, g) == {k \in DOMAIN out[c] : out[c][k].gsn \in {NoGsn, g}}

(* Mutation: the search begins with the newest request.                    *)
MutAcked(c, g) == CHOOSE k \in Matching(c, g) : \A m \in Matching(c, g) : m <= k

(* The search through the outstanding requests, oldest first.              *)
Acked(c, g) == CHOOSE k \in Matching(c, g) : \A m \in Matching(c, g) : k <= m

(* Mutation: one acknowledgement too few.                                  *)
MutEnough(n) == n >= Failures

(* A request is complete with failures_ + 1 acknowledgements.              *)
Enough(n) == n > Failures

(* CLIENT_INSERT_ACK from replica r.                                       *)
InsertAck(c, r) ==
  LET g == Head(acks[c][r])
      k == Acked(c, g) IN
  /\ alive[c] /\ acks[c][r] # << >>
  /\ acks' = [acks EXCEPT ![c][r] = Tail(@)]
  /\ IF (latest[c] # NoGsn /\ g <= latest[c]) \/ Matching(c, g) = {}
     THEN UNCHANGED <<out, latest, response>>
     ELSE IF Enough(out[c][k].acks + 1)
     THEN /\ response' = [response EXCEPT ![c] =
               [q \in DOMAIN @ \cup {out[c][k].req} |->
                  IF q = out[c][k].req THEN g ELSE @[q]]]
          /\ latest' = [latest EXCEPT ![c] = g]
          /\ out' = [out EXCEPT ![c] =
               SubSeq(@, 1, k - 1) \o SubSeq(@, k + 1, Len(@))]
     ELSE /\ out' = [out EXCEPT ![c][k].gsn = g, ![c][k].acks = @ + 1]
          /\ UNCHANGED <<latest, response>>
  /\ UNCHANGED <<orderVars, toStorage, toOrder, byes, alive, assigned, consumed,
                 reqs, reach, left, storageVars>>

(* Mutation: the first server to finish is enough.                         *)
MutAllStorageFinished(c) ==
  /\ alive[c] /\ left[c] = "no" /\ byes[c] # {}
  /\ left' = [left EXCEPT ![c] = "sent"]
  /\ UNCHANGED <<orderVars, channelVars, alive, assigned, consumed, reqs, reach,
                 out, latest, response, storageVars>>

(* STORAGE_FINISHED has come from the last server: CLIENT_FINISHED goes to *)
(* the ordering service.                                                   *)
AllStorageFinished(c) ==
  /\ alive[c] /\ left[c] = "no" /\ byes[c] = Replicas
  /\ left' = [left EXCEPT ![c] = "sent"]
  /\ UNCHANGED <<orderVars, channelVars, alive, assigned, consumed, reqs, reach,
                 out, latest, response, storageVars>>

(* The client process dies and its memory is gone; what each server has    *)
(* yet to receive is lost from some message on, and so are messages to it. *)
Crash(c) ==
  /\ alive[c]
  /\ alive' = [alive EXCEPT ![c] = FALSE]
  /\ \E last \in [Replicas -> 0 .. Len(reqs[c])] :
       /\ \A r \in Replicas : last[r] >= got[r][c]
       /\ reach' = [reach EXCEPT ![c] = last]
  /\ acks' = [acks EXCEPT ![c] = [r \in Replicas |-> << >>]]
  /\ out' = [out EXCEPT ![c] = << >>]
  /\ latest' = [latest EXCEPT ![c] = NoGsn]
  /\ assigned' = [assigned EXCEPT ![c] = 0]
  /\ consumed' = [consumed EXCEPT ![c] = 0]
  /\ UNCHANGED <<orderVars, toStorage, toOrder, byes, reqs, response, left, storageVars>>

-----------------------------------------------------------------------------
(* Storage servers.                                                        *)

(* The control thread of replica r takes the next message, of this type.   *)
FromOrder(r, type) ==
  /\ r \notin aborted
  /\ toStorage[r] # << >> /\ Head(toStorage[r]).type = type
  /\ toStorage' = [toStorage EXCEPT ![r] = Tail(@)]

SendOrder(r, ms) == toOrder' = [toOrder EXCEPT ![r] = @ \o ms]

(* STORAGE_SLOTS.                                                          *)
StorageSlots(r) ==
  /\ FromOrder(r, "slots")
  /\ LET m == Head(toStorage[r]) IN
       log' = [log EXCEPT ![r] = @ \o
                 [k \in DOMAIN m.owners |-> NewEntry(m.start + k - 1, m.owners[k])]]
  /\ UNCHANGED <<orderVars, toOrder, acks, byes, clientVars, cur, latestGsn, disc,
                 suspect, got, aborted>>

(* A failure event on the connection of replica r to c.                    *)
StorageFailureEvent(r, c) ==
  /\ ~alive[c] \/ FalseSuspicion
  /\ r \notin aborted /\ c \notin suspect[r]
  /\ suspect' = [suspect EXCEPT ![r] = @ \cup {c}]
  /\ disc' = [disc EXCEPT ![r] = @ \cup {c}]
  /\ SendOrder(r, <<[type |-> "freeze", client |-> c]>>)
  /\ UNCHANGED <<orderVars, toStorage, acks, byes, clientVars, log, cur, latestGsn,
                 got, aborted>>

(* Mutation: the cut is reported but the client may go on.                 *)
MutStorageClientFreeze(r) ==
  /\ FromOrder(r, "freeze")
  /\ LET c == Head(toStorage[r]).client IN
       SendOrder(r, <<[type |-> "cut", client |-> c, gsn |-> latestGsn[r][c]]>>)
  /\ UNCHANGED <<orderVars, acks, byes, clientVars, storageVars>>

(* STORAGE_CLIENT_FREEZE.                                                  *)
StorageClientFreeze(r) ==
  /\ FromOrder(r, "freeze")
  /\ LET c == Head(toStorage[r]).client IN
       /\ disc' = [disc EXCEPT ![r] = @ \cup {c}]
       /\ SendOrder(r, <<[type |-> "cut", client |-> c, gsn |-> latestGsn[r][c]]>>)
  /\ UNCHANGED <<orderVars, acks, byes, clientVars, log, cur, latestGsn,
                 suspect, got, aborted>>

(* Mutation: no-ops are sent, too.                                         *)
MutHasData(e) == TRUE

(* Entries without payload are not sent to the ordering service.           *)
HasData(e) == e.data # NoOp

DataMessage(c, g, d) == [type |-> "data", client |-> c, gsn |-> g, data |-> d]

(* Mutation: the payload is always that of the current entry.              *)
MutEntryData(r, c, k) == DataMessage(c, log[r][k].gsn, log[r][cur[r][c]].data)

(* ORDER_CLIENT_DATA for the entry at position k.                          *)
EntryData(r, c, k) == DataMessage(c, log[r][k].gsn, log[r][k].data)

(* STORAGE_CLIENT_CUT: send the entries after the cut, newest first.       *)
StorageClientCut(r) ==
  /\ FromOrder(r, "cut")
  /\ LET c == Head(toStorage[r]).client
         ks == IF latestGsn[r][c] = NoGsn THEN {}
               ELSE {k \in Suffix(log[r], c, cur[r][c], Head(toStorage[r]).begin, NoGsn) :
                       HasData(log[r][k])}
         newestFirst == CHOOSE s \in [1 .. Cardinality(ks) -> ks] :
                          \A k, m \in DOMAIN s : k < m => s[k] > s[m] IN
       SendOrder(r, [n \in DOMAIN newestFirst |-> EntryData(r, c, newestFirst[n])]
                    \o <<DataMessage(c, NoGsn, NoOp)>>)
  /\ UNCHANGED <<orderVars, acks, byes, clientVars, storageVars>>

(* position::insert of replica r for c: payload d, using up n slots; the   *)
(* process aborts if the client has no more slots.                         *)
PositionInsert(r, c, d, n) ==
  LET k == NthAfter(log[r], c, cur[r][c], n) IN
  IF k = 0
  THEN /\ aborted' = aborted \cup {r}
       /\ UNCHANGED <<log, cur>>
  ELSE /\ log' = [log EXCEPT ![r] = InsertAt(@, c, cur[r][c], k, d)]
       /\ cur' = [cur EXCEPT ![r][c] = k]
       /\ UNCHANGED aborted

(* STORAGE_CLIENT_PATCH: the GSN is passed to insert as its `close`        *)
(* argument, the number of slots to use up.                                *)
StorageClientPatch(r) ==
  /\ FromOrder(r, "patch")
  /\ LET m == Head(toStorage[r]) IN
       IF m.gsn > latestGsn[r][m.client]
       THEN PositionInsert(r, m.client, m.data, m.gsn)
       ELSE UNCHANGED <<log, cur, aborted>>
  /\ UNCHANGED <<orderVars, toOrder, acks, byes, clientVars, latestGsn, disc,
                 suspect, got>>

(* STORAGE_CLIENT_FINALIZE: position::close.                               *)
StorageClientFinalize(r) ==
  /\ FromOrder(r, "finalize")
  /\ LET c == Head(toStorage[r]).client IN
       /\ log' = [log EXCEPT ![r] = CloseAfter(@, c, cur[r][c])]
       /\ cur' = [cur EXCEPT ![r][c] = LastOf(log[r], c, @)]
  /\ UNCHANGED <<orderVars, toOrder, acks, byes, clientVars, latestGsn, disc,
                 suspect, got, aborted>>

(* A client thread of replica r takes the next message of c.               *)
FromClient(r, c, type) ==
  /\ r \notin aborted
  /\ got[r][c] < Len(reqs[c]) /\ got[r][c] < reach[c][r]
  /\ reqs[c][got[r][c] + 1].type = type
  /\ got' = [got EXCEPT ![r][c] = @ + 1]

(* Mutation: only no-ops of a disconnected client are dropped.             *)
MutAccepts(r, c, m) == c \notin disc[r] \/ m.data # NoOp

(* The check of `disconnected` under the client's lock.                    *)
Accepts(r, c, m) == c \notin disc[r]

(* STORAGE_INSERT: insert and acknowledge, unless the client has been      *)
(* disconnected.                                                           *)
StorageInsert(r, c) ==
  /\ FromClient(r, c, "insert")
  /\ LET m == reqs[c][got[r][c] + 1] IN
       IF ~Accepts(r, c, m)
       THEN UNCHANGED <<log, cur, latestGsn, aborted, acks>>
       ELSE /\ PositionInsert(r, c, m.data, m.num)
            /\ IF r \in aborted' THEN UNCHANGED <<latestGsn, acks>>
               ELSE LET g == log[r][cur'[r][c]].gsn IN
                    /\ latestGsn' = [latestGsn EXCEPT ![r][c] = g]
                    /\ acks' = IF alive[c] THEN [acks EXCEPT ![c][r] = Append(@, g)]
                               ELSE acks
  /\ UNCHANGED <<orderVars, toStorage, toOrder, byes, clientVars, disc, suspect>>

(* CLIENT_FINISHED at a server.                                            *)
StorageClientFinished(r, c) ==
  /\ FromClient(r, c, "bye")
  /\ IF c \in disc[r] THEN UNCHANGED <<disc, byes>>
     ELSE /\ disc' = [disc EXCEPT ![r] = @ \cup {c}]
          /\ byes' = [byes EXCEPT ![c] = @ \cup {r}]
  /\ UNCHANGED <<orderVars, toStorage, toOrder, acks, clientVars, log, cur, latestGsn,
                 suspect, aborted>>

-----------------------------------------------------------------------------
OrderFromStorage(r) ==
  OrderClientFreeze(r) \/ OrderClientCut(r) \/ OrderClientData(r)

ControlThread(r) ==
  \/ StorageSlots(r) \/ StorageClientFreeze(r) \/ StorageClientCut(r)
  \/ StorageClientPatch(r) \/ StorageClientFinalize(r)

ClientThread(r, c) == StorageInsert(r, c) \/ StorageClientFinished(r, c)

Client(c) ==
  \/ \E d \in Submitted(c) \cup {NoOp}, n \in 1 .. MaxSlots : SendRequest(c, d, n)
  \/ SendBye(c)
  \/ \E r \in Replicas : InsertAck(c, r)
  \/ AllStorageFinished(c)
  \/ Crash(c)

Next ==
  \/ Epoch
  \/ \E c \in Clients : OrderFailureEvent(c) \/ OrderClientFinished(c) \/ Client(c)
  \/ \E r \in Replicas : OrderFromStorage(r) \/ ControlThread(r)
  \/ \E r \in Replicas, c \in Clients : StorageFailureEvent(r, c) \/ ClientThread(r, c)

Spec == Init /\ [][Next]_vars

(* The polling loops of the ordering service and of the servers run for    *)
(* ever, a broken connection is noticed, and a client that is leaving runs *)
(* until it has left or crashes.  Nothing forces epochs, requests or       *)
(* suspicions of a client that is alive.                                   *)
FairSpec ==
  /\ Spec
  /\ \A r \in Replicas : WF_vars(OrderFromStorage(r)) /\ WF_vars(ControlThread(r))
  /\ \A c \in Clients :
       /\ WF_vars(OrderClientFinished(c))
       /\ WF_vars(AllStorageFinished(c))
       /\ WF_vars(~alive[c] /\ OrderFailureEvent(c))
       /\ \A r \in Replicas : WF_vars(ClientThread(r, c))

-----------------------------------------------------------------------------
Gsn == Nat
Maps(S, T) == UNION {[D -> T] : D \in SUBSET S}
CMessage == [type : {"insert"}, data : Payloads \cup {NoOp}, num : Nat \ {0}]
              \cup [type : {"bye"}]

(* Types of all variables, except for the messages of the control channels.*)
TypeOK ==
  /\ gsnBase \in Gsn /\ epochs \in Nat
  /\ phase \in [Clients -> {"active", "failed", "requested", "gone"}]
  /\ \A c \in Clients :
       /\ DOMAIN cuts[c] \subseteq Replicas
       /\ \A r \in DOMAIN cuts[c] : cuts[c][r] \in Gsn
       /\ DOMAIN data[c] \subseteq Gsn
       /\ \A g \in DOMAIN data[c] : data[c][g] \in Payloads
       /\ \A q \in DOMAIN response[c] : response[c][q] \in Gsn
  /\ flushed \in [Clients -> SUBSET Replicas]
  /\ acks \in [Clients -> [Replicas -> Seq(Gsn)]]
  /\ byes \in [Clients -> SUBSET Replicas]
  /\ alive \in [Clients -> BOOLEAN]
  /\ assigned \in [Clients -> Nat] /\ consumed \in [Clients -> Nat]
  /\ reqs \in [Clients -> Seq(CMessage)]
  /\ reach \in [Clients -> [Replicas -> Nat]]
  /\ out \in [Clients -> Seq([req : Nat, gsn : Gsn, acks : Nat])]
  /\ latest \in [Clients -> Gsn]
  /\ left \in [Clients -> {"no", "sent"}]
  /\ log \in [Replicas -> Seq(Entry)]
  /\ cur \in [Replicas -> [Clients -> Nat]]
  /\ latestGsn \in [Replicas -> [Clients -> Gsn]]
  /\ disc \in [Replicas -> SUBSET Clients] /\ suspect \in [Replicas -> SUBSET Clients]
  /\ got \in [Replicas -> [Clients -> Nat]]
  /\ aborted \subseteq Replicas

(* Replica r holds payload d of client c at GSN g.                         *)
Holds(r, c, g, d) ==
  \E k \in DOMAIN log[r] : log[r][k] = [gsn |-> g, client |-> c, set |-> TRUE, data |-> d]

(* A response is given for a request only when more than Failures servers  *)
(* hold the payload at that very GSN.                                      *)
AckedIsDurable ==
  \A c \in Clients : \A q \in DOMAIN response[c] :
    Cardinality({r \in Replicas : Holds(r, c, response[c][q], reqs[c][q].data)}) > Failures

(* The requests of a client are answered with increasing GSNs, in the      *)
(* order in which they were sent.                                          *)
ResponsesInOrder ==
  \A c \in Clients : \A p, q \in DOMAIN response[c] :
    p < q => response[c][p] < response[c][q]

(* Up to the smaller of their latest GSNs for a client, two servers have   *)
(* the same entries for that client, whatever crashed in between.          *)
PrefixAgreement ==
  \A r, s \in Replicas, c \in Clients :
    latestGsn[r][c] # NoGsn /\ latestGsn[s][c] # NoGsn =>
      \A k \in DOMAIN log[r] :
        log[r][k].client = c /\ log[r][k].gsn <= latestGsn[r][c]
          /\ log[r][k].gsn <= latestGsn[s][c]
        => k \in DOMAIN log[s] /\ log[s][k] = log[r][k]

(* The cut that the ordering service works with is still the server's: the *)
(* server accepts nothing from the client once it has reported its cut.    *)
CutIsFinal ==
  \A c \in Clients : \A r \in DOMAIN cuts[c] :
    cuts[c][r] = latestGsn[r][c] /\ c \in disc[r]

(* The ordering service forgets a client only when no server will accept   *)
(* an insert from it any more.                                             *)
FrozenBeforeGone ==
  \A c \in Clients : phase[c] = "gone" => \A r \in Replicas : c \in disc[r]

(* What the ordering service rolls forward was written by the client at    *)
(* that GSN on some server.                                                *)
RecoveredIsWritten ==
  \A c \in Clients : \A g \in DOMAIN data[c] :
    \E r \in Replicas : Holds(r, c, g, data[c][g])

(* An insert always finds the slots that the client was promised.          *)
InsertFindsSlot ==
  [][\A r \in Replicas, c \in Clients :
       StorageInsert(r, c) => aborted' = aborted]_vars

(* The slots of a client that leaves or crashes are all closed in the end, *)
(* on every server.                                                        *)
DepartedIsClosed ==
  \A c \in Clients :
    (~alive[c] \/ \E k \in DOMAIN reqs[c] : reqs[c][k].type = "bye") ~>
      \/ aborted # {}
      \/ /\ phase[c] = "gone"
         /\ \A r \in Replicas : \A k \in DOMAIN log[r] :
              log[r][k].client = c => log[r][k].set

-----------------------------------------------------------------------------
(* What the comments of the recovery code say.                             *)

(* "if all servers are consistent then we can finalize, otherwise, we need *)
(* to request client data": a client that did not leave by itself is       *)
(* forgotten with equal cuts or after all servers have flushed             *)
(* (order.cpp:320).                                                        *)
FinalizedIfConsistent ==
  \A c \in Clients :
    phase[c] = "gone" /\ left[c] = "no" =>
      flushed[c] = Replicas \/ \A r, s \in Replicas : cuts[c][r] = cuts[c][s]

(* Replica r takes the patch m off its channel.                            *)
Patched(r, m) ==
  /\ toStorage[r] # << >> /\ m = Head(toStorage[r]) /\ m.type = "patch"
  /\ toStorage'[r] = Tail(toStorage[r])

HoldsNext(r, m) ==
  \E k \in DOMAIN log'[r] :
    log'[r][k] = [gsn |-> m.gsn, client |-> m.client, set |-> TRUE, data |-> m.data]

(* "patch the data into the client's log if we don't already have this     *)
(* data": a server that takes a patch then has the data at its GSN,        *)
(* whether it had some data of the client before or none.                  *)
PatchGoesToItsGsn ==
  [][\A r \in Replicas :
       LET m == Head(toStorage[r]) IN Patched(r, m) => HoldsNext(r, m)]_vars
=============================================================================
