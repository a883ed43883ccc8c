-------------------------------- MODULE Sessions --------------------------------
(***************************************************************************)
(* Who knows whom: how storage servers, a client and a subscriber join the *)
(* ordering service, how the client and the subscriber connect to the      *)
(* storage servers, how they take their leave, and how the crash of the    *)
(* client is noticed and handled.                                          *)
(*                                                                         *)
(* Every process is modelled by its threads.  A storage server has its     *)
(* main thread, which accepts connections, a control thread, a client      *)
(* thread and subscriber threads; the first three meet in the client's     *)
(* state, which whoever comes first allocates, and wait in it until the    *)
(* main thread has added the client.  What the log holds is left to        *)
(* Replication: a cut carries nothing here, and a client whose cuts have   *)
(* come is finalized at once.                                              *)
(***************************************************************************)
EXTENDS Naturals, Sequences, FiniteSets

CONSTANTS
  Servers,        \* storage servers of the one shard
  Threads,        \* subscriber threads of a storage server
  Deployments,    \* servers that are started, and how often client and subscriber run
  EarlyCrash,     \* may the client crash before it has reached all servers?
  FalseSuspicion, \* may a connection break while the client is alive?
  Interrupted     \* processes whose event thread has been interrupted before

(* No server is called like one of the other processes.                    *)
Setting ==
  /\ IsFiniteSet(Servers) /\ IsFiniteSet(Threads) /\ Servers # {} /\ Threads # {}
  /\ Servers \intersect {"client", "subscriber", "order"} = {}
  /\ Deployments \subseteq [servers : SUBSET Servers, runs : [{"client", "subscriber"} -> Nat]]
  /\ {EarlyCrash, FalseSuspicion} \subseteq BOOLEAN
  /\ Interrupted \subseteq Servers \union {"order"}

ASSUME SessionsAssumption == Setting

VARIABLES
  \* ordering service
  starting,         \* storage servers that have yet to join
  storageAddresses, \* storage_addresses_: servers that have joined
  orderMain,        \* the peer accepted by the main thread and not added yet
  clientState,      \* of the client: "none", "active" or "failed"
  cuts,             \* servers whose cut has come
  subscriberQueue,  \* does subscriber_queue_ have the subscriber?
  \* storage servers
  thread,           \* what the main, control and client threads are at
  location,         \* client_state_[client_id], named after the thread that allocated it
  state,            \* the objects: connected, disconnected, position closed
  subscribers,      \* does subscribers_ have the subscriber?
  changes,          \* subscriber_changes_
  polled, queue,    \* per subscriber thread: changes read, does it have the queue?
  \* client and subscriber
  pc, runs,         \* where its loop is, and how often it will be started again
  todo, queues,     \* servers to connect to, and servers connected to
  stop, stopped,    \* stop_, and has the loop noticed?
  finished,         \* subscriber: STORAGE_FINISHED per server
  orderFinished,    \* subscriber: order_finished
  \* messages by sender and receiver, and failures per process
  net,
  event             \* "none", "raised", "queued" or "handled"

orderingVars == <<starting, storageAddresses, orderMain, clientState, cuts, subscriberQueue>>
clientVars == <<thread, location, state>>
subscriberVars == <<subscribers, changes, polled, queue>>
peerVars ==
  <<pc, runs, todo, queues, stop, stopped, finished, orderFinished>>
sessionVars == <<orderingVars, clientVars, subscriberVars, peerVars, net, event>>

Peers == {"client", "subscriber"}
Nodes == Servers \union {"order"}
Waiters == {"main", "control", "client"}
Idle == [op |-> "idle", obj |-> "null", asleep |-> FALSE]
NewState == [connected |-> FALSE, disconnected |-> FALSE, closed |-> FALSE]

(* No message is under way and nobody has joined.                          *)
SessionsInit ==
  /\ \E d \in Deployments : starting = d.servers /\ runs = d.runs
  /\ storageAddresses = {} /\ orderMain = "none" /\ clientState = "none" /\ cuts = {}
  /\ subscriberQueue = FALSE
  /\ thread = [s \in Servers |-> [t \in Waiters |-> Idle]]
  /\ location = [s \in Servers |-> "null"]
  /\ state = [s \in Servers |-> [t \in Waiters |-> NewState]]
  /\ subscribers = [s \in Servers |-> FALSE] /\ changes = [s \in Servers |-> << >>]
  /\ polled = [s \in Servers |-> [k \in Threads |-> 0]]
  /\ queue = [s \in Servers |-> [k \in Threads |-> FALSE]]
  /\ pc = [p \in Peers |-> "off"]
  /\ todo = [p \in Peers |-> {}] /\ queues = [p \in Peers |-> {}]
  /\ stop = [p \in Peers |-> FALSE] /\ stopped = [p \in Peers |-> FALSE]
  /\ finished = [s \in Servers |-> 0] /\ orderFinished = FALSE
  /\ net = [c \in (Peers \union Nodes) \X (Peers \union Nodes) |-> << >>]
  /\ event = [n \in Nodes |-> "none"]

(* The next message of a channel, the channels without it, and with a      *)
(* message added to the channels of a set.                                 *)
Arrived(src, dst, m) == net[<<src, dst>>] # << >> /\ Head(net[<<src, dst>>]) = m
Taken(src, dst) == [net EXCEPT ![<<src, dst>>] = Tail(@)]
With(n, channels, m) == [c \in DOMAIN n |-> IF c \in channels THEN Append(n[c], m) ELSE n[c]]

-----------------------------------------------------------------------------
(* Ordering service: main thread *)

AddStorage(s) ==
  /\ s \in starting /\ starting' = starting \ {s}
  /\ storageAddresses' = storageAddresses \union {s}
  /\ UNCHANGED <<orderMain, clientState, cuts, subscriberQueue, clientVars, subscriberVars,
                 peerVars, net, event>>

(* A client or subscriber that the service knows already is turned away    *)
(* without an answer.                                                      *)
OrderAddClient ==
  /\ orderMain = "client"
  /\ IF clientState # "none" THEN UNCHANGED <<clientState, net>>
     ELSE clientState' = "active" /\ net' = With(net, {<<"order", "client">>}, "info")
  /\ orderMain' = "none"
  /\ UNCHANGED <<starting, storageAddresses, cuts, subscriberQueue, clientVars, subscriberVars,
                 peerVars, event>>

OrderAddSubscriber ==
  /\ orderMain = "subscriber"
  /\ IF subscriberQueue THEN UNCHANGED <<subscriberQueue, net>>
     ELSE subscriberQueue' = TRUE /\ net' = With(net, {<<"order", "subscriber">>}, "info")
  /\ orderMain' = "none"
  /\ UNCHANGED <<starting, storageAddresses, clientState, cuts, clientVars, subscriberVars,
                 peerVars, event>>

-----------------------------------------------------------------------------
(* Ordering service: loop *)

ToStorage == {"order"} \X storageAddresses

(* The lambda failed, with the message that led to it taken off n.         *)
Failed(n) ==
  IF clientState = "active"
    THEN clientState' = "failed" /\ net' = With(n, ToStorage, "freeze")
    ELSE UNCHANGED clientState /\ net' = n

OrderFailureEvent ==
  /\ event["order"] = "queued"
  /\ event' = [event EXCEPT !["order"] = "handled"]
  /\ Failed(net)
  /\ UNCHANGED <<starting, storageAddresses, orderMain, cuts, subscriberQueue, clientVars,
                 subscriberVars, peerVars>>

OrderClientFreeze(s) ==
  /\ Arrived(s, "order", "freeze")
  /\ Failed(Taken(s, "order"))
  /\ UNCHANGED <<starting, storageAddresses, orderMain, cuts, subscriberQueue, clientVars,
                 subscriberVars, peerVars, event>>

(* The lambda finalized.                                                   *)
Finalized(n) == clientState' = "none" /\ cuts' = {} /\ net' = With(n, ToStorage, "finalize")

OrderClientCut(s) ==
  /\ Arrived(s, "order", "cut")
  /\ LET n == Taken(s, "order") IN
       IF clientState # "failed" THEN UNCHANGED <<cuts, clientState>> /\ net' = n
       ELSE IF cuts \union {s} # storageAddresses
         THEN cuts' = cuts \union {s} /\ UNCHANGED clientState /\ net' = n
         ELSE Finalized(n)
  /\ UNCHANGED <<starting, storageAddresses, orderMain, subscriberQueue, clientVars, subscriberVars,
                 peerVars, event>>

OrderClientFinished ==
  /\ Arrived("client", "order", "bye")
  /\ LET n == Taken("client", "order") IN
       IF clientState = "none" THEN UNCHANGED <<cuts, clientState>> /\ net' = n
       ELSE Finalized(With(n, {<<"order", "client">>}, "order_finished"))
  /\ UNCHANGED <<starting, storageAddresses, orderMain, subscriberQueue, clientVars, subscriberVars,
                 peerVars, event>>

OrderSubscriberFinished ==
  /\ Arrived("subscriber", "order", "bye")
  /\ LET n == Taken("subscriber", "order") IN
       IF subscriberQueue THEN net' = With(n, {<<"order", "subscriber">>}, "order_finished")
                          ELSE net' = n
  /\ subscriberQueue' = FALSE
  /\ UNCHANGED <<starting, storageAddresses, orderMain, clientState, cuts, clientVars,
                 subscriberVars, peerVars, event>>

-----------------------------------------------------------------------------
(* Client and subscriber *)

Connected(s) == location[s] # "null" /\ state[s][location[s]].connected
Disconnected(s) == location[s] # "null" /\ state[s][location[s]].disconnected

Joined(p) == pc[p] = "loop" /\ queues[p] = storageAddresses
Added(p) == \A s \in storageAddresses : thread[s]["main"].op # p

(* Server s has added the client, or is about to.                          *)
Reached(s) == Connected(s) \/ (thread[s]["main"].op = "client" /\ ~ stop["client"])

(* The constructor returns once the service has accepted the connection;   *)
(* the storage servers have been started first.                            *)
Start(p) ==
  /\ pc[p] \in {"off", "ended"} /\ runs[p] > 0
  /\ starting = {} /\ orderMain = "none"
  /\ orderMain' = p
  /\ pc' = [pc EXCEPT ![p] = "loop"] /\ runs' = [runs EXCEPT ![p] = @ - 1]
  /\ stop' = [stop EXCEPT ![p] = FALSE] /\ stopped' = [stopped EXCEPT ![p] = FALSE]
  /\ orderFinished' = (orderFinished /\ p = "client")
  /\ UNCHANGED <<starting, storageAddresses, clientState, cuts, subscriberQueue, clientVars,
                 subscriberVars, todo, queues, finished, net, event>>

(* The handler of the storage info connects to one server after the other, *)
(* and the loop is held up meanwhile.                                      *)
StorageInfo(p) ==
  /\ pc[p] = "loop" /\ Arrived("order", p, "info")
  /\ pc' = [pc EXCEPT ![p] = "connecting"]
  /\ todo' = [todo EXCEPT ![p] = storageAddresses]
  /\ net' = Taken("order", p)
  /\ UNCHANGED <<orderingVars, clientVars, subscriberVars, runs, queues, stop, stopped, finished,
                 orderFinished, event>>

(* The connection is made: the servers that the service names do not fail  *)
(* here, so that the ways out when it is not (client.cpp:385-397,          *)
(* subscriber.cpp:132-146) are not taken.                                  *)
ConnectStorage(p, s) ==
  /\ pc[p] = "connecting" /\ s \in todo[p] /\ thread[s]["main"] = Idle
  /\ thread' = [thread EXCEPT ![s]["main"].op = p]
  /\ todo' = [todo EXCEPT ![p] = @ \ {s}]
  /\ queues' = [queues EXCEPT ![p] = @ \union {s}]
  /\ pc' = [pc EXCEPT ![p] = IF todo[p] = {s} THEN "loop" ELSE @]
  /\ UNCHANGED <<orderingVars, location, state, subscriberVars, runs, stop, stopped, finished,
                 orderFinished, net, event>>

Stop(p) ==
  /\ pc[p] \in {"loop", "connecting"} /\ ~ stop[p]
  /\ stop' = [stop EXCEPT ![p] = TRUE]
  /\ UNCHANGED <<orderingVars, clientVars, subscriberVars, pc, runs, todo, queues, stopped,
                 finished, orderFinished, net, event>>

(* The farewell goes to the servers known by then; only a subscriber tells *)
(* the ordering service at once.                                           *)
SendBye(p) ==
  /\ pc[p] = "loop" /\ stop[p] /\ ~ stopped[p]
  /\ stopped' = [stopped EXCEPT ![p] = TRUE]
  /\ net' = With(net, {p} \X (queues[p] \union (IF p = "subscriber" THEN {"order"} ELSE {})), "bye")
  /\ UNCHANGED <<orderingVars, clientVars, subscriberVars, pc, runs, todo, queues, stop, finished,
                 orderFinished, event>>

ClientStorageFinished(s) ==
  /\ pc["client"] = "loop" /\ Arrived(s, "client", "storage_finished")
  /\ queues' = [queues EXCEPT !["client"] = @ \ {s}]
  /\ LET n == Taken(s, "client") IN
       net' = IF queues["client"] = {s} THEN With(n, {<<"client", "order">>}, "bye") ELSE n
  /\ UNCHANGED <<orderingVars, clientVars, subscriberVars, pc, runs, todo, stop, stopped, finished,
                 orderFinished, event>>

ClientOrderFinished ==
  /\ pc["client"] = "loop" /\ Arrived("order", "client", "order_finished")
  /\ pc' = [pc EXCEPT !["client"] = "ended"]
  /\ net' = Taken("order", "client")
  /\ UNCHANGED <<orderingVars, clientVars, subscriberVars, runs, todo, queues, stop, stopped,
                 finished, orderFinished, event>>

MutAllFinished(n) == n = 1

(* One farewell comes from each subscriber thread of a server.             *)
AllFinished(n) == n = Cardinality(Threads)

SubscriberStorageFinished(s) ==
  /\ pc["subscriber"] = "loop" /\ Arrived(s, "subscriber", "storage_finished")
  /\ net' = Taken(s, "subscriber")
  /\ IF s \notin queues["subscriber"] THEN UNCHANGED <<finished, queues, pc>>
     ELSE LET all == AllFinished(finished[s] + 1) IN
       /\ finished' = [finished EXCEPT ![s] = IF all THEN 0 ELSE @ + 1]
       /\ queues' = [queues EXCEPT !["subscriber"] = IF all THEN @ \ {s} ELSE @]
       /\ pc' = [pc EXCEPT !["subscriber"] =
                   IF orderFinished /\ queues'["subscriber"] = {} THEN "ended" ELSE @]
  /\ UNCHANGED <<orderingVars, clientVars, subscriberVars, runs, todo, stop, stopped,
                 orderFinished, event>>

SubscriberOrderFinished ==
  /\ pc["subscriber"] = "loop" /\ Arrived("order", "subscriber", "order_finished")
  /\ net' = Taken("order", "subscriber")
  /\ orderFinished' = TRUE
  /\ pc' = [pc EXCEPT !["subscriber"] = IF queues["subscriber"] = {} THEN "ended" ELSE @]
  /\ UNCHANGED <<orderingVars, clientVars, subscriberVars, runs, todo, queues, stop, stopped,
                 finished, event>>

Crash ==
  /\ pc["client"] \in {"loop", "connecting"}
  /\ EarlyCrash \/ \A s \in storageAddresses : Reached(s)
  /\ pc' = [pc EXCEPT !["client"] = "crashed"]
  /\ UNCHANGED <<orderingVars, clientVars, subscriberVars, runs, todo, queues, stop, stopped,
                 finished, orderFinished, net, event>>

-----------------------------------------------------------------------------
(* Failures: the device raises an event when a send to the client fails,   *)
(* at the ordering service by its heartbeats and at a storage server by an *)
(* acknowledgement.  The event thread of the process passes it on, unless  *)
(* an interrupted ppoll has left EINTR in errno, which nothing clears.     *)

RaiseEvent(n) ==
  /\ event[n] = "none"
  /\ pc["client"] = "crashed" \/ (FalseSuspicion /\ pc["client"] = "loop")
  /\ IF n = "order" THEN clientState = "active" ELSE Connected(n) /\ ~ Disconnected(n)
  /\ event' = [event EXCEPT ![n] = "raised"]
  /\ UNCHANGED <<orderingVars, clientVars, subscriberVars, peerVars, net>>

PollEvents(n) ==
  /\ event[n] = "raised" /\ n \notin Interrupted
  /\ event' = [event EXCEPT ![n] = "queued"]
  /\ UNCHANGED <<orderingVars, clientVars, subscriberVars, peerVars, net>>

-----------------------------------------------------------------------------
(* Storage server: the state of the client.  A thread that finds none      *)
(* allocates one and tries to put it in place; if another was faster, the  *)
(* other's is used.                                                        *)

Busy(t, s, op) == [thread EXCEPT ![s][t] = [op |-> op, obj |-> location[s], asleep |-> FALSE]]

MutExchange(s, t) == t

Exchange(s, t) == IF location[s] = "null" THEN t ELSE location[s]

GetClientState(s, t) ==
  /\ thread[s][t].op \notin {"idle", "subscriber"} /\ thread[s][t].obj = "null"
  /\ location' = [location EXCEPT ![s] = Exchange(s, t)]
  /\ thread' = [thread EXCEPT ![s][t].obj = location'[s]]
  /\ UNCHANGED <<orderingVars, state, subscriberVars, peerVars, net, event>>

Has(s, t, op) == thread[s][t].op = op /\ thread[s][t].obj # "null" /\ ~ thread[s][t].asleep

Asleep(s) == {t \in Waiters : thread[s][t].asleep}

MutStorageAddClient(s) ==
  /\ Has(s, "main", "client")
  /\ state' = [state EXCEPT ![s][thread[s]["main"].obj].connected = TRUE]
  /\ thread' = [thread EXCEPT ![s]["main"] = Idle]
  /\ UNCHANGED <<orderingVars, location, subscriberVars, peerVars, net, event>>

(* Main thread: the client is marked as connected, and one thread that     *)
(* waits for this is woken.                                                *)
StorageAddClient(s) ==
  /\ Has(s, "main", "client")
  /\ LET o == thread[s]["main"].obj IN
       IF state[s][o].connected
         THEN UNCHANGED state /\ thread' = [thread EXCEPT ![s]["main"] = Idle]
         ELSE /\ state' = [state EXCEPT ![s][o].connected = TRUE]
              /\ \E t \in IF Asleep(s) = {} THEN {"main"} ELSE Asleep(s) :
                   thread' = [thread EXCEPT ![s][t].asleep = FALSE, ![s]["main"] = Idle]
  /\ UNCHANGED <<orderingVars, location, subscriberVars, peerVars, net, event>>

(* The threads that wait until the client is connected.                    *)
Sleep(s, t) ==
  /\ Has(s, t, thread[s][t].op) /\ thread[s][t].op \in {"failure", "freeze", "bye"}
  /\ ~ state[s][thread[s][t].obj].connected
  /\ thread' = [thread EXCEPT ![s][t].asleep = TRUE]
  /\ UNCHANGED <<orderingVars, location, state, subscriberVars, peerVars, net, event>>

(* Control thread: a failure event, a message of the ordering service.     *)
TakeFailure(s) ==
  /\ thread[s]["control"] = Idle /\ event[s] = "queued"
  /\ event' = [event EXCEPT ![s] = "handled"]
  /\ thread' = Busy("control", s, "failure")
  /\ UNCHANGED <<orderingVars, location, state, subscriberVars, peerVars, net>>

TakeFromOrder(s) ==
  /\ thread[s]["control"] = Idle /\ net[<<"order", s>>] # << >>
  /\ thread' = Busy("control", s, Head(net[<<"order", s>>]))
  /\ net' = Taken("order", s)
  /\ UNCHANGED <<orderingVars, location, state, subscriberVars, peerVars, event>>

(* The client is marked as disconnected, and the ordering service is told: *)
(* that the client has failed, or what the server has of it.               *)
Disconnect(s) ==
  /\ \E op \in {"failure", "freeze"} :
       /\ Has(s, "control", op)
       /\ net' = With(net, {<<s, "order">>}, IF op = "failure" THEN "freeze" ELSE "cut")
  /\ LET o == thread[s]["control"].obj IN
       /\ state[s][o].connected
       /\ state' = [state EXCEPT ![s][o].disconnected = TRUE]
  /\ thread' = [thread EXCEPT ![s]["control"] = Idle]
  /\ UNCHANGED <<orderingVars, location, subscriberVars, peerVars, event>>

Finalize(s) ==
  /\ Has(s, "control", "finalize")
  /\ state' = [state EXCEPT ![s][thread[s]["control"].obj].closed = TRUE]
  /\ thread' = [thread EXCEPT ![s]["control"] = Idle]
  /\ UNCHANGED <<orderingVars, location, subscriberVars, peerVars, net, event>>

(* Client thread: the farewell of the client.                              *)
TakeFromClient(s) ==
  /\ thread[s]["client"] = Idle /\ net[<<"client", s>>] # << >>
  /\ thread' = Busy("client", s, Head(net[<<"client", s>>]))
  /\ net' = Taken("client", s)
  /\ UNCHANGED <<orderingVars, location, state, subscriberVars, peerVars, event>>

StorageClientFinished(s) ==
  /\ Has(s, "client", "bye")
  /\ LET o == thread[s]["client"].obj IN
       /\ state[s][o].connected
       /\ state' = [state EXCEPT ![s][o].disconnected = TRUE]
       /\ net' = IF state[s][o].disconnected THEN net
                 ELSE With(net, {<<s, "client">>}, "storage_finished")
  /\ thread' = [thread EXCEPT ![s]["client"] = Idle]
  /\ UNCHANGED <<orderingVars, location, subscriberVars, peerVars, event>>

-----------------------------------------------------------------------------
(* Storage server: subscribers.  Both threads that change the set put the  *)
(* change into the bag, under the lock; every subscriber thread reads the  *)
(* changes in their order, one per turn.                                   *)

StorageAddSubscriber(s) ==
  /\ thread[s]["main"].op = "subscriber"
  /\ IF subscribers[s] THEN UNCHANGED <<subscribers, changes>>
     ELSE /\ subscribers' = [subscribers EXCEPT ![s] = TRUE]
          /\ changes' = [changes EXCEPT ![s] = Append(@, "add")]
  /\ thread' = [thread EXCEPT ![s]["main"] = Idle]
  /\ UNCHANGED <<orderingVars, location, state, polled, queue, peerVars, net, event>>

StorageSubscriberFinished(s) ==
  /\ thread[s]["control"] = Idle /\ Arrived("subscriber", s, "bye")
  /\ IF ~ subscribers[s] THEN UNCHANGED <<subscribers, changes>>
     ELSE /\ subscribers' = [subscribers EXCEPT ![s] = FALSE]
          /\ changes' = [changes EXCEPT ![s] = Append(@, "remove")]
  /\ net' = Taken("subscriber", s)
  /\ UNCHANGED <<orderingVars, clientVars, polled, queue, peerVars, event>>

HasChange(s, k) == polled[s][k] < Len(changes[s])
NextChange(s, k) == changes[s][polled[s][k] + 1]

GetChange(s, k) ==
  /\ HasChange(s, k)
  /\ polled' = [polled EXCEPT ![s][k] = @ + 1]
  /\ queue' = [queue EXCEPT ![s][k] = NextChange(s, k) = "add"]
  /\ net' = IF NextChange(s, k) = "add" THEN net
            ELSE With(net, {<<s, "subscriber">>}, "storage_finished")
  /\ UNCHANGED <<orderingVars, clientVars, subscribers, changes, peerVars, event>>

-----------------------------------------------------------------------------
(* The threads *)

OrderMain == OrderAddClient \/ OrderAddSubscriber \/ \E s \in Servers : AddStorage(s)

OrderLoop ==
  \/ OrderFailureEvent \/ OrderClientFinished \/ OrderSubscriberFinished
  \/ \E s \in Servers : OrderClientFreeze(s) \/ OrderClientCut(s)

PeerLoop(p) == StorageInfo(p) \/ SendBye(p) \/ \E s \in Servers : ConnectStorage(p, s)

ClientLoop ==
  \/ PeerLoop("client") \/ ClientOrderFinished
  \/ \E s \in Servers : ClientStorageFinished(s)

SubscriberControl ==
  \/ PeerLoop("subscriber") \/ SubscriberOrderFinished
  \/ \E s \in Servers : SubscriberStorageFinished(s)

Main(s) == StorageAddClient(s) \/ StorageAddSubscriber(s) \/ GetClientState(s, "main")

Control(s) ==
  \/ TakeFailure(s) \/ TakeFromOrder(s) \/ GetClientState(s, "control") \/ Sleep(s, "control")
  \/ Disconnect(s) \/ Finalize(s) \/ StorageSubscriberFinished(s)

ClientThread(s) ==
  \/ TakeFromClient(s) \/ GetClientState(s, "client") \/ Sleep(s, "client")
  \/ StorageClientFinished(s)

SessionsNext ==
  \/ OrderMain \/ OrderLoop \/ ClientLoop \/ SubscriberControl \/ Crash
  \/ \E p \in Peers : Start(p) \/ Stop(p)
  \/ \E s \in Servers : Main(s) \/ Control(s) \/ ClientThread(s)
  \/ \E s \in Servers, k \in Threads : GetChange(s, k)
  \/ \E n \in Nodes : RaiseEvent(n) \/ PollEvents(n)

(* Every thread runs on, and heartbeats find out that the client is gone;  *)
(* nobody need start, stop or crash.                                       *)
Fairness ==
  /\ WF_sessionVars(OrderMain) /\ WF_sessionVars(OrderLoop) /\ WF_sessionVars(ClientLoop)
  /\ WF_sessionVars(SubscriberControl)
  /\ \A s \in Servers :
       WF_sessionVars(Main(s)) /\ WF_sessionVars(Control(s)) /\ WF_sessionVars(ClientThread(s))
  /\ \A s \in Servers, k \in Threads : WF_sessionVars(GetChange(s, k))
  /\ \A n \in Nodes : WF_sessionVars(PollEvents(n))
  /\ WF_sessionVars(RaiseEvent("order"))

SessionsSpec == SessionsInit /\ [][SessionsNext]_sessionVars /\ Fairness

-----------------------------------------------------------------------------
(* A subscriber's or client's memory and queue pairs go when its stop      *)
(* returns, and a send to a subscriber that is gone stops the server: by   *)
(* then neither the ordering service nor any thread of a server has it     *)
(* any more, and no thread has been told to remove a queue that it does    *)
(* not have (storage.cpp:412, subscriber.cpp:181, client.cpp:373).         *)
EndedIsForgotten ==
  /\ pc["subscriber"] = "ended" =>
       /\ ~ subscriberQueue
       /\ \A s \in Servers, k \in Threads : ~ queue[s][k] /\ ~ HasChange(s, k)
  /\ pc["client"] = "ended" =>
       /\ clientState = "none"
       /\ \A s \in storageAddresses : Disconnected(s)
  /\ \A s \in Servers, k \in Threads :
       HasChange(s, k) => (NextChange(s, k) = "remove" <=> queue[s][k])

(* stop of a client and of a subscriber returns: the farewells find all    *)
(* who have to answer them (client.cpp:114, subscriber.cpp:87).  This is   *)
(* so whenever stop was called, if the loop notices it once it has joined  *)
(* all servers and, for a subscriber, they have added it.  Farewells are   *)
(* sent once, to the servers known by then (subscriber.cpp:110,            *)
(* client.cpp:233): a stop that is noticed earlier may never return.       *)
StopReturns ==
  \A p \in Peers :
    stop[p] /\ ~ stopped[p] /\ Joined(p) /\ (p = "subscriber" => Added(p)) ~>
      pc[p] \in {"ended", "crashed"}

(* A client that crashes ends up disconnected at every server, with its    *)
(* slots closed, for which all subscribers wait, and forgotten by the      *)
(* ordering service, whoever notices first (order.cpp:219,                 *)
(* storage.cpp:228).                                                       *)
CrashHandled ==
  pc["client"] = "crashed" ~>
    /\ clientState = "none"
    /\ \A s \in storageAddresses : Disconnected(s) /\ state[s][location[s]].closed

=============================================================================
