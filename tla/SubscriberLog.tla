----------------------------- MODULE SubscriberLog --------------------------
(***************************************************************************)
(* A subscriber: polling threads that collect the copies of an entry from  *)
(* the replicas and insert it into the subscriber's log, application       *)
(* threads that iterate over the log and hand the entries to the callback, *)
(* and the control thread that recycles the blocks of the log              *)
(* (subscriber/subscriber.cpp, subscriber/log.cpp).                        *)
(*                                                                         *)
(* Storage thread s of every replica sends the entries s, s + Senders, ... *)
(* of the log in that order; entry g goes to polling thread g % Pollers.   *)
(* The network keeps the order of each sender, and nothing else: which     *)
(* sender's message a polling thread finds next is arbitrary.              *)
(* There is one shard, as NUM_SHARDS says, so an entry's index in the log  *)
(* of a server is its GSN.                                                 *)
(***************************************************************************)
EXTENDS Integers, Sequences, FiniteSets

CONSTANTS
  Replicas,       \* storage servers
  Failures,       \* failures_
  Senders,        \* number of subscriber threads of a storage server
  Pollers,        \* polling_threads_
  Apps,           \* application_threads_
  BlockSize,      \* NUM_ENTRIES_PER_BLOCK
  Sequential,     \* the subscriber's option `sequential`
  InitialBlocks,  \* what the uninitialised iterator::current_blocks_ may hold
  MayStop,        \* may the subscriber be stopped?
  NumEntries      \* bound: entries in the servers' logs

ASSUME ReplicasAssumption == IsFiniteSet(Replicas) /\ Failures \in Nat
ASSUME ThreadsAssumption ==
  Senders \in Nat \ {0} /\ Pollers \in Nat \ {0} /\ Apps \in Nat \ {0}
ASSUME BlockSizeAssumption == BlockSize \in Nat /\ BlockSize >= Apps
ASSUME InitialBlocksAssumption == InitialBlocks \subseteq Nat /\ InitialBlocks # {}
ASSUME OptionsAssumption ==
  Sequential \in BOOLEAN /\ MayStop \in BOOLEAN /\ NumEntries \in Nat

Sender == 0 .. Senders - 1
Poller == 0 .. Pollers - 1
App == 0 .. Apps - 1
Gsn == 0 .. NumEntries - 1
None == -1           \* no GSN, nullptr
Physical == {1, 2}   \* the two blocks of memory that are ever allocated

VARIABLES
  got,        \* per polling thread, replica and sender: GSNs below were received
  latest,     \* per polling thread and sender: latest delivered GSN
  acks,       \* per polling thread: num_acks of its current_requests
  inserting,  \* per polling thread: the GSN inside position::insert
  posBlocks,  \* per polling thread and sender: current_blocks_ of its position
  mem,        \* the entries of each block of memory
  blocks,     \* blocks_: a block of memory or None for each block of the log
  counters,   \* counters_: iterators that have gone over each block
  first,      \* block_ and counter_ of the log: index of the block to recycle
  numBlocks,  \* num_blocks_
  iter,       \* per application thread: its iterator
  delivered,  \* per application thread: the GSNs of its callbacks
  process,    \* process_
  done,       \* threads that have returned
  crashed     \* a null or past-the-end pointer was followed

pollVars == <<got, latest, acks, inserting, posBlocks>>
logVars == <<mem, blocks, counters, first, numBlocks>>
vars == <<pollVars, logVars, iter, delivered, process, done, crashed>>

Init ==
  /\ got = [q \in Poller |-> [r \in Replicas |-> [s \in Sender |-> 0]]]
  /\ latest = [q \in Poller |-> [s \in Sender |-> None]]
  /\ acks = [q \in Poller |-> [g \in Gsn |-> 0]]
  /\ inserting = [q \in Poller |-> None]
  /\ posBlocks = [q \in Poller |-> [s \in Sender |-> 0]]
  /\ mem = [b \in Physical |-> [k \in 0 .. BlockSize - 1 |-> None]]
  /\ blocks = <<1, 2>>
  /\ counters = <<0, 0>>
  /\ first = 1
  /\ numBlocks = 2
  \* A sequential_iterator sets entry_index_ to 0; it is then sliced to an
  \* iterator, so that this is all that is left of it.
  /\ iter \in [App -> [index : 0 .. Apps - 1, block : {0}, known : InitialBlocks,
                       entry : {<< >>}]]
  /\ \A a \in App : iter[a].index = IF Sequential THEN 0 ELSE a
  /\ delivered = [a \in App |-> << >>]
  /\ process = TRUE
  /\ done = {}
  /\ crashed = FALSE

-----------------------------------------------------------------------------
(* Polling threads.                                                        *)

(* The entries that sender s sends to polling thread q.                    *)
Stream(s, q) == {g \in Gsn : g % Senders = s /\ g % Pollers = q}

(* Mutation: one copy too few.                                             *)
MutEnough(n) == n >= Failures

(* An entry is delivered with failures_ + 1 copies.                        *)
Enough(n) == n > Failures

(* A SUBSCRIBER_LOG_ENTRY of sender s of replica r.                        *)
Receive(q, r, s) ==
  LET rest == {g \in Stream(s, q) : g >= got[q][r][s]}
      g == CHOOSE g \in rest : \A h \in rest : g <= h IN
  /\ process /\ inserting[q] = None
  /\ rest # {}
  /\ got' = [got EXCEPT ![q][r][s] = g + 1]
  /\ IF latest[q][s] # None /\ g <= latest[q][s]
     THEN UNCHANGED <<latest, acks, inserting>>
     ELSE IF Enough(acks[q][g] + 1)
     THEN /\ latest' = [latest EXCEPT ![q][s] = g]
          /\ inserting' = [inserting EXCEPT ![q] = g]
          /\ acks' = [acks EXCEPT ![q][g] = 0]
     ELSE /\ acks' = [acks EXCEPT ![q][g] = @ + 1]
          /\ UNCHANGED <<latest, inserting>>
  /\ UNCHANGED <<posBlocks, logVars, iter, delivered, process, done, crashed>>

BlockOf(g) == g \div BlockSize

(* The block of memory of block b of the log, None if there is none.       *)
MemoryOf(b) == IF b + 1 \in DOMAIN blocks THEN blocks[b + 1] ELSE None

(* The end of position::insert: store the entry into its block.            *)
StoreEntry(q, g) ==
  IF MemoryOf(BlockOf(g)) = None
  THEN crashed' = TRUE /\ UNCHANGED mem
  ELSE /\ mem' = [mem EXCEPT ![MemoryOf(BlockOf(g))][g % BlockSize] = g]
       /\ UNCHANGED crashed

(* Mutation: insert does not wait for the block.                           *)
MutInsert(q) ==
  LET g == inserting[q] IN
  /\ g # None
  /\ StoreEntry(q, g)
  /\ inserting' = [inserting EXCEPT ![q] = None]
  /\ UNCHANGED <<got, latest, acks, posBlocks, blocks, counters, first, numBlocks,
                 iter, delivered, process, done>>

(* position::insert, once it no longer spins: the entry's block exists.    *)
Insert(q) ==
  LET g == inserting[q]
      s == g % Senders IN
  /\ g # None
  /\ BlockOf(g) < posBlocks[q][s] \/ BlockOf(g) < numBlocks
  /\ posBlocks' = [posBlocks EXCEPT ![q][s] =
                     IF BlockOf(g) < @ THEN @ ELSE numBlocks]
  /\ StoreEntry(q, g)
  /\ inserting' = [inserting EXCEPT ![q] = None]
  /\ UNCHANGED <<got, latest, acks, blocks, counters, first, numBlocks, iter,
                 delivered, process, done>>

(* The loop of poll ends once process_ is false.                           *)
PollEnd(q) ==
  /\ ~process /\ inserting[q] = None
  /\ <<"poll", q>> \notin done
  /\ done' = done \cup {<<"poll", q>>}
  /\ UNCHANGED <<pollVars, logVars, iter, delivered, process, crashed>>

-----------------------------------------------------------------------------
(* Control thread.                                                         *)

(* Mutation: a block is recycled before the last iterator has left it.     *)
MutGoneOver == counters[first] >= Apps - 1

(* All iterators have gone over the first block.                           *)
GoneOver == counters[first] = Apps

(* Mutation: the block is not cleared.                                     *)
MutClear(b) == UNCHANGED mem

(* memset of a block.                                                      *)
Clear(b) == mem' = [mem EXCEPT ![b] = [k \in 0 .. BlockSize - 1 |-> None]]

(* recycle_blocks: clear the block and put it to the back.                 *)
Recycle ==
  /\ process
  /\ GoneOver
  /\ Clear(blocks[first])
  /\ blocks' = Append([blocks EXCEPT ![first] = None], blocks[first])
  /\ counters' = Append(counters, 0)
  /\ numBlocks' = numBlocks + 1
  /\ first' = first + 1
  /\ UNCHANGED <<pollVars, iter, delivered, process, done, crashed>>

(* The last server has said goodbye after stop(): control sets process_ to *)
(* false and returns.                                                      *)
Stop ==
  /\ MayStop /\ process
  /\ process' = FALSE
  /\ UNCHANGED <<pollVars, logVars, iter, delivered, done, crashed>>

-----------------------------------------------------------------------------
(* Application threads: iterator::next_entry.                              *)

NextBlock(a) == BlockOf(iter[a].index)

(* A block is there: the first test of the `if`, or the second with the    *)
(* value of num_blocks_ that it loads.                                     *)
BlockKnown(a) == NextBlock(a) < iter[a].known \/ NextBlock(a) < numBlocks

(* Mutation: the counter of a block that is left behind is not raised.     *)
MutCount(a) == UNCHANGED counters

(* The counters of the blocks that iterator a leaves behind.               *)
Count(a) ==
  counters' = [b \in DOMAIN counters |->
                 IF b - 1 >= iter[a].block /\ b - 1 < NextBlock(a)
                 THEN counters[b] + 1 ELSE counters[b]]

(* Without an entry under consideration, obtain the next one.              *)
Obtain(a) ==
  /\ <<"app", a>> \notin done
  /\ iter[a].entry = << >> /\ BlockKnown(a)
  /\ Count(a)
  /\ iter' = [iter EXCEPT ![a] =
       [index |-> @.index + Apps,
        block |-> NextBlock(a),
        known |-> IF NextBlock(a) < @.known THEN @.known ELSE numBlocks,
        entry |-> <<MemoryOf(NextBlock(a)), @.index % BlockSize>>]]
  /\ crashed' = (MemoryOf(NextBlock(a)) = None)
  /\ UNCHANGED <<pollVars, mem, blocks, first, numBlocks, delivered, process, done>>

(* What the entry under consideration points to.                           *)
Entry(a) == mem[iter[a].entry[1]][iter[a].entry[2]]

(* The entry has been stored: deliver and free it.                         *)
Deliver(a) ==
  /\ <<"app", a>> \notin done
  /\ iter[a].entry # << >> /\ Entry(a) # None
  /\ delivered' = [delivered EXCEPT ![a] = Append(@, Entry(a))]
  /\ iter' = [iter EXCEPT ![a].entry = << >>]
  /\ UNCHANGED <<pollVars, logVars, process, done, crashed>>

(* The loop over the remaining entries ends.                               *)
ProcessEnd(a) ==
  /\ ~process /\ <<"app", a>> \notin done
  /\ IF iter[a].entry = << >> THEN ~BlockKnown(a) ELSE Entry(a) = None
  /\ done' = done \cup {<<"app", a>>}
  /\ UNCHANGED <<pollVars, logVars, iter, delivered, process, crashed>>

-----------------------------------------------------------------------------
Poll(q) ==
  \/ \E r \in Replicas, s \in Sender : Receive(q, r, s)
  \/ Insert(q)
  \/ PollEnd(q)

Process(a) == Obtain(a) \/ Deliver(a) \/ ProcessEnd(a)

Next ==
  /\ ~crashed
  /\ \/ \E q \in Poller : Poll(q)
     \/ Recycle
     \/ Stop
     \/ \E a \in App : Process(a)

Spec == Init /\ [][Next]_vars

(* All threads keep running and the servers' messages arrive.  Nobody has  *)
(* to stop the subscriber.                                                 *)
FairSpec ==
  /\ Spec
  /\ WF_vars(~crashed /\ Recycle)
  /\ \A a \in App : WF_vars(~crashed /\ Process(a))
  /\ \A q \in Poller :
       /\ WF_vars(~crashed /\ (Insert(q) \/ PollEnd(q)))
       /\ \A r \in Replicas, s \in Sender : WF_vars(~crashed /\ Receive(q, r, s))

-----------------------------------------------------------------------------
(* No thread follows a pointer to a block that has been recycled or does   *)
(* not exist yet.                                                          *)
NoCrash == ~crashed

(* Every application thread delivers exactly the entries of its stride, in *)
(* order, without gaps or repetitions, although the memory is reused.      *)
DeliveredInOrder ==
  \A a \in App : \A k \in DOMAIN delivered[a] : delivered[a][k] = a + (k - 1) * Apps

Delivered(g) == \E a \in App : \E k \in DOMAIN delivered[a] : delivered[a][k] = g

(* Only entries that more than Failures replicas have sent are delivered.  *)
DeliveredIsReplicated ==
  \A g \in Gsn : Delivered(g) =>
    Cardinality({r \in Replicas : got[g % Pollers][r][g % Senders] > g}) > Failures

(* An entry that has enough copies is not lost when blocks are recycled:   *)
(* it is on its way into the log, at its place in the log, or delivered.   *)
StoredOrDelivered ==
  \A g \in Gsn :
    latest[g % Pollers][g % Senders] >= g =>
      \/ inserting[g % Pollers] = g
      \/ Delivered(g)
      \/ MemoryOf(BlockOf(g)) # None /\ mem[MemoryOf(BlockOf(g))][g % BlockSize] = g

(* Every entry of the servers' logs is delivered in the end, unless the    *)
(* subscriber is stopped before.                                           *)
EveryEntryDelivered == <>(~process \/ \A g \in Gsn : Delivered(g))
=============================================================================
