----------------------------- MODULE Connection -----------------------------
(***************************************************************************)
(* How connections are set up and torn down (network/manager.cpp): peers   *)
(* connect to a server over a socket, the two ends exchange the indices of *)
(* the receive buffers that they have set aside for one another, and each  *)
(* ends up with send queues that write into the other's buffers.           *)
(*                                                                         *)
(* A server handles one connection at a time, under the locks of its       *)
(* manager.  A peer may die at any moment.                                 *)
(***************************************************************************)
EXTENDS Integers, Sequences, FiniteSets, FiniteSetsExt

CONSTANTS
  Peers,        \* processes that connect
  Buffers,      \* indices of receive buffers, 0 .. MAX_QUEUE_PAIRS - 1
  ServerQueues, \* num_queues of the server
  PeerQueues,   \* values of num_queues that a peer may ask for
  Ends,         \* how a dead peer's socket ends: "closed" and "reset"
  None,         \* no peer
  MaxDeaths, MaxDestroyed  \* bounds

ASSUME BuffersAssumption == Buffers \subseteq Nat /\ IsFiniteSet(Buffers)
ASSUME QueuesAssumption == ServerQueues \in Nat /\ PeerQueues \subseteq Nat
ASSUME EndsAssumption == Ends \subseteq {"closed", "reset"}
ASSUME NoneAssumption == None \notin Peers

VARIABLES
  pc,        \* per peer: step of connect it waits in, "idle", "open" or "dead"
  asked,     \* per peer: its num_queues argument
  up, down,  \* per peer: data on the socket to and from the server
  ended,     \* per peer: how its side of the socket ended, or "no"
  mine,      \* per peer: receive buffers it has set aside
  theirs,    \* per peer: index_ of its send queues
  backlog,   \* peers whose connection waits to be accepted
  serving,   \* the peer in accept, or None
  step,      \* step of accept
  free,      \* free_receive_buffers_ of the server
  rings,     \* receive buffers of the connection being accepted
  conns,     \* connections of the server: [peer, rings, index]
  deaths, destroyed  \* counters of the bounds

peerVars == <<pc, asked, mine, theirs, deaths>>
serverVars == <<backlog, serving, step, free, rings, conns, destroyed>>
vars == <<peerVars, serverVars, up, down, ended>>

Init ==
  /\ pc = [p \in Peers |-> "idle"]
  /\ asked = [p \in Peers |-> 0]
  /\ up = [p \in Peers |-> << >>]
  /\ down = [p \in Peers |-> << >>]
  /\ ended = [p \in Peers |-> "no"]
  /\ mine = [p \in Peers |-> << >>]
  /\ theirs = [p \in Peers |-> << >>]
  /\ backlog = {} /\ serving = None /\ step = "poll"
  /\ free = Buffers
  /\ rings = << >>
  /\ conns = {}
  /\ deaths = 0 /\ destroyed = 0

-----------------------------------------------------------------------------
(* Mutation: zero is not special for the other end.                        *)
MutNumQueues(a, b) == IF a = 0 THEN 1 ELSE IF b = 0 THEN a ELSE Min({a, b})

(* The number of queues of a connection, given what the two ends ask for.  *)
NumQueues(a, b) ==
  IF a = 0 /\ b = 0 THEN 1
  ELSE IF a = 0 \/ b = 0 THEN Max({a, b}) ELSE Min({a, b})

(* create_receive_buffer, n times: _Find_first in the bitmap f.            *)
Lowest(f, n) ==
  CHOOSE s \in [1 .. n -> f] : /\ \A i, j \in 1 .. n : i < j => s[i] < s[j]
                               /\ \A b \in f : \A i \in 1 .. n :
                                    b < s[i] => \E j \in 1 .. n : s[j] = b

(* Send m to peer p.  When its process is dead, its host answers with a    *)
(* reset; recv goes on returning 0 after that on a socket that the peer    *)
(* has closed in good order.                                               *)
Answer(p, m) ==
  /\ down' = [down EXCEPT ![p] = Append(@, m)]
  /\ UNCHANGED ended

Put(chan, p, m) == [chan EXCEPT ![p] = Append(@, m)]
Take(chan, p) == [chan EXCEPT ![p] = Tail(@)]

-----------------------------------------------------------------------------
(* connect.                                                                *)

(* Connect the socket.                                                     *)
Connect(p, n) ==
  /\ pc[p] = "idle"
  /\ pc' = [pc EXCEPT ![p] = "send num"]
  /\ asked' = [asked EXCEPT ![p] = n]
  /\ backlog' = backlog \cup {p}
  /\ UNCHANGED <<mine, theirs, deaths, serving, step, free, rings, conns, destroyed,
                 up, down, ended>>

(* Send num_queues, then the size, then the indices of the receive buffers.*)
ConnectSend(p) ==
  /\ \/ /\ pc[p] = "send num"
        /\ up' = Put(up, p, asked[p])
        /\ pc' = [pc EXCEPT ![p] = "num"]
     \/ /\ pc[p] = "send size"
        /\ up' = Put(up, p, "size")
        /\ pc' = [pc EXCEPT ![p] = "size"]
     \/ /\ pc[p] = "send data"
        /\ up' = Put(up, p, mine[p])
        /\ pc' = [pc EXCEPT ![p] = "data"]
  /\ UNCHANGED <<asked, mine, theirs, deaths, serverVars, down, ended>>

(* Receive the server's num_queues and create the queues with their        *)
(* receive buffers, of which create_receive_buffer asserts that there are  *)
(* enough.                                                                 *)
ConnectNum(p) ==
  /\ pc[p] = "num" /\ down[p] # << >>
  /\ LET n == NumQueues(asked[p], Head(down[p])) IN
       /\ Cardinality(Buffers) >= n
       /\ mine' = [mine EXCEPT ![p] = Lowest(Buffers, n)]
  /\ down' = Take(down, p)
  /\ pc' = [pc EXCEPT ![p] = "send size"]
  /\ UNCHANGED <<asked, theirs, deaths, serverVars, up, ended>>

(* Receive the server's size.                                              *)
ConnectSize(p) ==
  /\ pc[p] = "size" /\ down[p] # << >>
  /\ down' = Take(down, p)
  /\ pc' = [pc EXCEPT ![p] = "send data"]
  /\ UNCHANGED <<asked, mine, theirs, deaths, serverVars, up, ended>>

(* Receive the server's indices and create the send queues.                *)
ConnectData(p) ==
  /\ pc[p] = "data" /\ down[p] # << >>
  /\ theirs' = [theirs EXCEPT ![p] = Head(down[p])]
  /\ down' = Take(down, p)
  /\ pc' = [pc EXCEPT ![p] = "open"]
  /\ UNCHANGED <<asked, mine, deaths, serverVars, up, ended>>

(* The peer's process dies, in or after connect.  Its socket is closed in  *)
(* good order only if nothing was left to read.                            *)
Die(p) ==
  /\ pc[p] \notin {"idle", "dead"} /\ deaths < MaxDeaths
  /\ pc' = [pc EXCEPT ![p] = "dead"]
  /\ deaths' = deaths + 1
  /\ \E e \in Ends : /\ e = "closed" => down[p] = << >>
                     /\ ended' = [ended EXCEPT ![p] = e]
  /\ UNCHANGED <<asked, mine, theirs, serverVars, up, down>>

(* The process is started again, when the server is done with its socket.  *)
Restart(p) ==
  /\ pc[p] = "dead" /\ p # serving /\ p \notin backlog
  /\ pc' = [pc EXCEPT ![p] = "idle"]
  /\ up' = [up EXCEPT ![p] = << >>]
  /\ down' = [down EXCEPT ![p] = << >>]
  /\ ended' = [ended EXCEPT ![p] = "no"]
  /\ mine' = [mine EXCEPT ![p] = << >>]
  /\ theirs' = [theirs EXCEPT ![p] = << >>]
  /\ UNCHANGED <<asked, deaths, serverVars>>

-----------------------------------------------------------------------------
(* accept.                                                                 *)

(* Mutation: the other connections that wait are dropped.                  *)
MutAccept(p) ==
  /\ serving = None /\ p \in backlog
  /\ serving' = p /\ backlog' = {}
  /\ step' = "num"
  /\ UNCHANGED <<peerVars, free, rings, conns, destroyed, up, down, ended>>

(* Take a connection off the socket.                                       *)
Accept(p) ==
  /\ serving = None /\ p \in backlog
  /\ serving' = p /\ backlog' = backlog \ {p}
  /\ step' = "num"
  /\ UNCHANGED <<peerVars, free, rings, conns, destroyed, up, down, ended>>

(* Something has arrived.                                                  *)
Arrived(s) == serving # None /\ step = s /\ up[serving] # << >>

(* Receive the peer's num_queues and send one's own, create the queues     *)
(* with their receive buffers.  accept asserts that there are enough.      *)
AcceptNum ==
  /\ Arrived("num")
  /\ LET n == NumQueues(ServerQueues, Head(up[serving])) IN
       /\ Cardinality(free) >= n
       /\ rings' = Lowest(free, n)
       /\ free' = free \ {rings'[i] : i \in 1 .. n}
  /\ up' = Take(up, serving)
  /\ Answer(serving, ServerQueues)
  /\ step' = "size"
  /\ UNCHANGED <<peerVars, backlog, serving, conns, destroyed>>

AcceptSize ==
  /\ Arrived("size")
  /\ up' = Take(up, serving)
  /\ Answer(serving, "size")
  /\ step' = "data"
  /\ UNCHANGED <<peerVars, backlog, serving, free, rings, conns, destroyed>>

(* Receive the peer's indices, send one's own, and create the send queues. *)
AcceptData ==
  /\ Arrived("data")
  /\ up' = Take(up, serving)
  /\ Answer(serving, rings)
  /\ conns' = conns \cup {[peer |-> serving, rings |-> rings, index |-> Head(up[serving])]}
  /\ rings' = << >>
  /\ serving' = None /\ step' = "poll"
  /\ UNCHANGED <<peerVars, backlog, free, destroyed>>

(* A send or recv on the socket of a dead peer returns an error: the       *)
(* queues are freed, but not the receive buffers set aside for them.  When *)
(* the socket was closed in good order, recv returns 0, which the loop in  *)
(* detail::recv does not take for an error: accept goes on for ever.       *)
AcceptFails ==
  /\ serving # None /\ ended[serving] = "reset"
  /\ rings' = << >>
  /\ serving' = None /\ step' = "poll"
  /\ UNCHANGED <<peerVars, backlog, free, conns, destroyed, up, down, ended>>

(* ~send_queue of all the queues of a connection: free_recv_buffer of      *)
(* index_, which is the index of the receive buffer at the other end.  If  *)
(* the peer has not died, it has said goodbye, which it does once it has   *)
(* returned from connect, and its process ends.                            *)
Destroy(k) ==
  /\ destroyed < MaxDestroyed
  /\ pc[k.peer] # "data"
  /\ conns' = conns \ {k}
  /\ free' = free \cup {k.index[i] : i \in DOMAIN k.index}
  /\ destroyed' = destroyed + 1
  /\ pc' = [pc EXCEPT ![k.peer] =
       IF @ = "open" /\ theirs[k.peer] = k.rings THEN "dead" ELSE @]
  /\ UNCHANGED <<asked, mine, theirs, deaths, backlog, serving, step, rings, up, down,
                 ended>>

-----------------------------------------------------------------------------
Peer(p) == ConnectSend(p) \/ ConnectNum(p) \/ ConnectSize(p) \/ ConnectData(p)
AcceptStep == AcceptNum \/ AcceptSize \/ AcceptData \/ AcceptFails
Server == AcceptStep \/ \E p \in Peers : Accept(p)

Next ==
  \/ \E p \in Peers, n \in PeerQueues : Connect(p, n)
  \/ \E p \in Peers : Peer(p) \/ Die(p) \/ Restart(p)
  \/ Server
  \/ \E k \in conns : Destroy(k)

Spec == Init /\ [][Next]_vars

(* connect and accept are loops in threads of their own; nothing forces a  *)
(* peer to connect, to die or to be started again.                         *)
FairSpec ==
  /\ Spec
  /\ WF_vars(Server)
  /\ \A p \in Peers : WF_vars(Peer(p))

-----------------------------------------------------------------------------
(* When both ends of a connection are up, each send queue of an end writes *)
(* into the buffer that the other end set aside for it, whatever number of *)
(* queues they asked for and whoever died before.                          *)
EndsMatch ==
  \A p \in Peers : pc[p] = "open" =>
    \E k \in conns :
      /\ k.peer = p /\ k.index = mine[p] /\ theirs[p] = k.rings
      /\ Len(k.index) = Len(k.rings)

(* accept is in the loop of detail::recv with nothing more to come, for    *)
(* the peer has closed its socket in good order (manager.cpp:639).         *)
Spins == serving # None /\ ended[serving] = "closed" /\ up[serving] = << >>

(* A peer that connects is connected in the end, unless it dies, whoever   *)
(* else dies in the handshake, at whichever step and however its socket    *)
(* ends: with one exception, for which the server holds its locks for      *)
(* ever, that accept waits for more from a peer that has closed its socket.*)
EveryoneConnects ==
  \A p \in Peers : pc[p] = "send num" ~> (pc[p] \in {"open", "dead"} \/ Spins)
=============================================================================
