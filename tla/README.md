# ZipLog: a TLA+ verification project

ZipLog is a totally ordered shared log over RDMA. This directory holds TLA+ models
of its core, TLC configurations that check them, and TLAPS proofs of the safety
properties of all of them. `PROJECT.json` lists every component, run,
mutant, finding, hazard and theorem, and maps every definition to source lines.

## 1. The system

| Part | State | Operations | Hard because |
|---|---|---|---|
| Ordering service (`order/order.cpp`) | clients with rate and failure state (`failed`, `requested`, cuts, flushed, data), `gsn_base_` | epoch timer: hand out slots; rate requests; failure protocol freeze → cut → data → patch → finalize; farewells | messages of several servers in any order, false suspicions, a client that leaves while it is being frozen |
| Storage server (`storage/storage.cpp`) | per client: connected, disconnected, `latest_gsn`, position in the log; subscribers | main thread (accepts clients and subscribers), control thread (slots, freeze, cut, patch, finalize), client threads (insert, farewell), subscriber threads (send) | threads of three kinds on one lock-free log; a client's state that whoever comes first allocates, and in which threads wait until it has connected |
| Storage log (`storage/log.cpp`) | blocks of entries, per-client linked lists, `num_entries_` | `add_entries`, `position::insert/suffix/close`, `iterator::next_entry` | publication order of payload, flag, link and count |
| Client (`client/client.cpp`) | epochs, slots assigned and consumed, outstanding requests | send a request or a no-op using up *n* slots, switch epochs, ask for a rate, count acknowledgements, leave | it may die between two sends; GSNs are learned from acknowledgements; its clock must agree with the ordering service's |
| Subscriber (`subscriber/*.cpp`) | two blocks of memory reused for the whole log, counters, iterators | poll and count copies, insert, deliver, recycle blocks, stop | blocks are recycled under running iterators; bounded memory |
| Queues (`network/send_queue.cpp`, `recv_queue.*`) | offset in the remote ring, outstanding messages, posted receive requests | `send`, `recv`, `arm` | no flow control besides receive requests |
| Connections (`network/manager.cpp`) | bitmap of receive buffers, backlog, handshake | `accept`, `connect`, `~send_queue`, events of the device | peers die in the handshake; indices of two machines are mixed |
| Lock service (`lock_service/*`) | a queue per key in every process, a flag per request | `acquire`, `release`, `callback` | replicated state driven by the log; pointers to dead stack frames |

Interaction: once per epoch the ordering service tells the servers which client owns
how many of the next GSNs, and tells each client how many it has. All servers derive
the same interleaving. A client sends each request to all servers with the *number*
of slots to use up, never a GSN; a server's acknowledgement carries the GSN. Servers
send filled slots to subscribers, which deliver an entry when `failures + 1` copies
have come. Clients and subscribers learn of the storage servers from the ordering
service, connect to each, and say goodbye to each. The lock service runs on a
subscriber and a client.

What makes the parts correct: every slot is filled once and then never changes; all
servers fill it alike; an acknowledged request is on `failures + 1` servers and stays
there; a departed client's slots are closed; subscribers deliver everything once and
in order; rings and buffers are not overwritten while in use; slots are at the servers
before they are used and are used within an epoch; whoever leaves is forgotten by all,
and its `stop` returns; locks exclude.

## 2. Modules

| Module | Models | Instances |
|---|---|---|
| `LogOps` | operators on a log shared by two models: next entry of a client, insert, close, suffix | – |
| `WriteOnceLog` | abstract specification: a log that grows, whose slots are filled once, and from which each thread delivers its share in order | – |
| `StorageLog` | one server's log at the grain of accesses to shared memory | `MCStorageLog` |
| `SlotAllocation` | rates → slots message → error diffusion in `add_entries` | `MCSlotAllocation` |
| `Replication` | ordering service, clients and storage servers together: inserts, acknowledgements, suspicion, crash, recovery, farewell | `MCReplication` |
| `SubscriberLog` | polling, application and control threads of a subscriber | `MCSubscriberLog` |
| `Channel` | one direction of a connection: sender, devices, receive queues | `MCChannel` |
| `Connection` | the handshake and the life of receive buffers | `MCConnection` |
| `LockService` | workers and callbacks on top of a log | `MCLockService` |
| `ClientPacing` | clock, epochs, the client's loop, its application and the servers' acknowledgements, in bounded time | `MCClientPacing` |
| `Sessions` | joining, leaving and failing: the threads of ordering service, servers, a client and a subscriber | `MCSessions` |
| `StorageLogProofs`, `SubscriberLogProofs`, `LockServiceProofs`, `ClientPacingProofs`, `ChannelProofs`, `ConnectionProofs`, `ReplicationProofs` | the theorems about the module they are named after | – |
| `OrderingProofs` | theorems about `SlotAllocation` and `Sessions` | – |

How state and actions correspond to the code:

* **StorageLog.** `log` is the sequence of entries (a client's linked list is the
  subsequence it owns), `numEntries` is `num_entries_`, `cur` is each position's
  `current_entry_`. `Yield`/`Publish` are the two halves of `add_entries`;
  `InsertBegin`, `InsertClose`, `InsertData`, `InsertSet` are the stores of
  `position::insert`; `FinalizeBegin/Step/End` those of `position::close`. The client's
  lock, which control and client threads share, is the guard `op[c]` idle.
  `LoadNumEntries`, `Seek`, `PollSet`, `Send` are `iterator::next_entry` and the send
  that follows. `Freeze` lets a client thread insert no more. Release/acquire pairs of
  the code make each of these steps visible in order, so sequential consistency is a
  fair reading of them; the relaxed stores of `set` in the `close` paths carry no
  payload.
* **SlotAllocation.** One action per turn of the loops of `add_entries`; the server may
  be several epochs behind the ordering service.
* **Replication.** `phase[c]` is the client's entry in `client_state_` (`active`,
  `failed`, `requested`, `gone`). `toStorage` and `toOrder` are the FIFO queue pairs;
  `reqs`, `got` and `reach` are a client's message stream to each server and how much
  of it survives its crash. A request's number of slots and its moment are free
  within the epochs announced; with `SlotsOnTime` they come after the slots message,
  which is what the start of an epoch `EPOCH_DURATION` ahead is for.
  Handlers run under the lock of the service or of the client, so each is one action.
* **SubscriberLog.** Physical blocks, list of blocks with recycled ones nulled, the
  counters, and each thread's cached number of blocks. Entries are their GSNs.
* **Channel.** Bytes of the ring hold the number of the message written last; the
  device (external) executes requests in order, and with `EarlyWrite` may have put a
  payload in place before it has a receive request.
* **Connection.** `up`/`down` are the socket; how a dead peer's socket ends (reset, or
  closed in good order, after which `accept` finds nothing more and goes on waiting) is a
  choice, whatever is sent to it afterwards. `Destroy` is `~send_queue`, after a farewell or
  the peer's death. A peer takes as many buffers as both ends agree on, and goes on only
  if it has them (`create_receive_buffer` asserts it, `manager.cpp:282`).
* **ClientPacing.** `now` is the clock; every message carries the time by which it is
  handled, and `Tick` waits for what is due, so that delays are bounded by constants.
  `Turn` is one round of the client's loop: it may switch to the next epoch
  (`SwitchEpoch`), ask for another rate (`EstimateRate`; the controller's arithmetic is
  any of `Rates`), and send a request, a no-op or nothing. `Generate` and `Buffer` are
  the load generator of `client/main.cpp` and its ring of buffers; the servers are
  connected from the start, and a send that has to wait for room in its queue is a pause
  of the loop. Nothing is left of the data; a GSN is the rank of a slot.
* **Sessions.** A thread of a server is `[op, obj, asleep]`: the message it works on,
  the client state object it got from `get_client_state` (named after the thread that
  allocated it) and whether it sleeps on the condition variable, which `StorageAddClient`
  wakes one thread of. `location` is the shared pointer that `Exchange`, the
  compare-and-exchange, sets. `changes` is the bag, `polled` how far each subscriber
  thread has read it. `event` is a failure on its way from the device through the
  event thread to whoever handles it. Cuts carry no data: what recovery does with them
  is `Replication`'s.
* **LockService.** `SameFrame` says whether the flags of `acquire` and `release` have
  one address, which depends on the build.

## 3. Runs

Passing runs, and what each shows, with its bounds:

| Run | Shows | Bounds |
|---|---|---|
| `storage_log` | types, prefix property, no open slot after finalize, iterators in bounds, released slots final, refinement of `WriteOnceLog`; filled and finalized slots are delivered | 2 clients, 2 subscriber threads, 3 GSNs, requests of 1–2 slots: every pair of operations overlaps |
| `slot_allocation` | even shares, which are exact at the end of an epoch, contiguous GSNs in step with `gsn_base_` | 3 clients on 2 shards, all rates 1–3, 2 epochs: ties, uneven divisions, clients that come and go |
| `replication` | acknowledged is durable, servers agree, cuts are final, no client is forgotten before its servers have stopped it, responses in order, recovered data is what was written, inserts find their slots | 1 client, 2 servers, 3 slots, 2 requests and a farewell, crash and suspicion at any time |
| `replication_live` | a departed client's slots are closed | 1 client, 2 servers, 2 epochs, 1 request, crash and suspicion at any time |
| `subscriber_log` | no dangling block, order, `failures + 1` copies, nothing lost, everything delivered | 3 replicas, 2 senders with a polling thread each, 2 application threads, blocks of 2, 5 entries: the last entry needs a recycled block; late copies happen |
| `channel` | ring, send buffers and send queue are never overrun; every message is processed | 2 receive queues of 2 requests, 7 messages of two lengths, a ring of 23 bytes, the least that satisfies `Room` (section 4), for messages of up to 4: the ring wraps, with gaps |
| `connection` | both ends agree on rings; everyone connects, unless `accept` spins on a closed socket | 2 peers that ask for 0–2 queues, 8 buffers, 1 death at any step, after which the socket is reset or closed, 1 connection that ends |
| `lock_service` | mutual exclusion, agreement of the queues, requests return | 3 processes, 2 keys, acquire and release |
| `client_pacing` | slots are at every server before a client uses them; none is left open beyond the epoch after its own; no buffer is filled again before `Failures + 1` servers have got what was in it | 3 servers, 1 failure: a response does not wait for the slowest server; 12 ticks: epochs of 3 ticks begin up to three times, so that leftovers, late acknowledgements and changes of rate meet; 1 or 3 slots per epoch, fixed or estimated; 3 requests on a ring of 2 buffers, 2 sendings outstanding; messages of the ordering service take up to a whole epoch |
| `sessions` | whoever has left is known to no thread; a `stop` that is noticed after all servers are joined returns; a crash is cleaned up after everywhere | three deployments: a client and 2 servers; a subscriber that comes twice and 2 servers; both and 1 server; 2 subscriber threads per server; `stop` at any time |

One client is enough in `Replication`: its failure state, position, channel and data
are per client, and clients share only the slots messages, which `SlotAllocation` and
`StorageLog` cover with several.

Each property of each run has a mutant of a mapped definition (`Mut…`, next to it)
under which TLC finds the property violated.

Runs that must fail state what a comment says and the code does not do; the
quotations are in `PROJECT.json`, "findings":

| Run | What the code does |
|---|---|
| `cuts` | takes two different cuts for the same when the last replica has nothing of the client (and compares only the first and the last of three) |
| `patches` | uses a GSN as the number of slots to use up, and never patches a server that has nothing of the client |

Because `cuts` and `patches` show defects of recovery, the passing Replication runs do
not claim that servers agree *after* a patch; they claim it of what clients wrote
(`PrefixAgreement`) and of what recovery collects (`RecoveredIsWritten`).

### What the instances leave out on purpose

Some constants choose between what the code does in an environment that suits it and
what it does otherwise. The checked runs use the first value; with the second the named
property fails (the flags of `Sessions` only affect liveness: `EndedIsForgotten` is
proved for all their values):

| Constant | Checked | Otherwise | Fails | Why |
|---|---|---|---|---|
| `Replication.SlotsOnTime` | `TRUE` | `FALSE` | `InsertFindsSlot` | clients and servers learn of an epoch by separate messages; only its start in the future (`EPOCH_DURATION`) keeps a request behind its slots, and `insert` asserts that they are there (`log.cpp:156`); `ClientPacing` shows when it does |
| `ClientPacing.OrderDelay`, `Skew` | 3 (the length of an epoch), 0 | 4, or 1 | `SlotsInPlace` | a slots message later than an epoch, or a client's clock ahead of the ordering service's, lets a client use slots its servers do not have (`client.cpp:241`); proved if `InTime` (section 4) |
| `ClientPacing.Delay` | 1 | 2 | `TimelyUse` | a no-op is sent only when nothing is outstanding (`client.cpp:286`), so an idle client uses up old slots only after the acknowledgement of what it sent last; proved if `Paced` (section 4): an epoch outlasts a message, its acknowledgement and a pause of the loop |
| `SubscriberLog.Sequential` | `FALSE` | `TRUE`, 2 application threads | `DeliveredInOrder` | the conditional expression at `subscriber.cpp:260` slices the `sequential_iterator`; both threads process entries 0, 2, … |
| `SubscriberLog.Pollers` | one per sender | 1, with 2 senders | `EveryEntryDelivered` | a polling thread that waits for a block keeps the other sender's entries, which would free one, in its queue (`subscriber/log.cpp:66`) |
| `SubscriberLog.InitialBlocks` | `{0}` | a large number | `NoCrash` | `current_blocks_` of an iterator (`subscriber/log.h:164`) has no initial value |
| `Channel.RingSize` | 23, the least with `Room` | 20 or 21 | `UnreadIntact` | `storage::add_subscriber` warns of an overflow only when the longest messages that fit into the ring are fewer than the receive requests (`storage.cpp:163-168`), which is so below 16 here; it counts neither the gap at the end of the ring nor the message that the device may write before a receive request is posted for it. With the sizes of the code one receive queue per thread has room, two do not, and the code does not warn of two |
| `LockService.SameFrame` | `TRUE` | `FALSE` | `EveryRequestReturns` | for a release, `callback` sets the flag of the acquire (`lock_service.cpp:57`) |
| `Sessions.EarlyCrash` | `FALSE` | `TRUE` | `CrashHandled` | a server that the client had not reached when it died is told to freeze it, and its control thread waits for the client for ever (`storage.cpp:234`); when the client thread waits too, for the farewell, `notify_one` (`storage.cpp:152`) wakes only one of them |
| `Sessions.FalseSuspicion` | `FALSE` | `TRUE` | `StopReturns` | a server that has disconnected a client does not answer its farewell (`storage.cpp:365`) |
| `Sessions.Interrupted` | `{}` | `{"order"}` | `CrashHandled` | `errno` keeps the `EINTR` of an earlier `ppoll`, and events are dropped (`manager.cpp:123`) |
| `Sessions.Deployments` | a client runs once | twice | `StopReturns` | `connected` and `disconnected` of a client ID are never reset (`storage.cpp:140`) |

The models show more that no property can rule out, because the code does it:

* After `Stop` a polling thread that waits for a block waits for ever (`SubscriberLog`,
  `Insert`).
* `detail::recv` takes 0, the end of a socket that was closed in good order, for progress
  (`manager.cpp:639`): `accept` then spins with the manager's locks held, and nobody else
  connects. A process that dies with nothing unread closes its socket so. `EveryoneConnects`
  names this state, `Spins`, as its only exception.
* `Destroy` frees the other end's index in its own bitmap (`send_queue.cpp:34`), so that
  the next connection can be given a ring that is in use.
* A response does not wait for the slowest server. When a client has more than
  `Failures + 1` servers and the payload is too long to be inlined, a server that is behind
  may be sent what the buffer holds by then, the next request (`client/main.cpp:78`).
  `RequestIntact` says that this never concerns the servers that a response rests on.
* The control loop sends its farewells once, to those it knows by then
  (`subscriber.cpp:110`, `client.cpp:233`). If `stop` is noticed before all storage servers
  are joined, some never get one, and the answers that the loop waits for never come: the
  clean shutdown of a subscriber on `Ctrl+C` of `docs/EXAMPLE_DEPLOYMENT.md:94` does not
  happen then. `StopReturns` is about a stop that is noticed later.
* `request` of the lock service returns when the entry is delivered, though the client
  may store the response, on the stack of that call, later (`lock_service.cpp:119`).

### Fairness

Weak fairness of the steps of loops that poll for ever (control, client, subscriber,
polling and application threads; ordering service), of spinning waits, and of the
devices. Each is a thread pinned to a core or a reliable connection with unlimited
retries. Nothing forces an epoch, a request, a suspicion of a living client, a crash
or a stop. In `Replication` a broken connection is noticed in the end; in
`LockService` a worker releases what it has acquired, as its loop does. In `Sessions`
every thread runs on and the ordering service's heartbeats find out that a client has
crashed; that a server finds out too is not assumed. `ClientPacing` has no liveness
properties: its bounded delays make `TimelyUse` an invariant.

Deadlock is not checked where the system may stop: the bounds are used up, all clients
are gone, an assertion has stopped a server, or a thread spins.

## 4. Proofs

The theorems hold for every value of the constants that satisfies the assumptions named
in the component's module, which TLC evaluates in every run. Where a theorem needs more,
the condition is in its statement: `SlotsOnTime`, `InTime`, `Paced`,
`GoodStart`, `Room`. Each is a condition on the
deployment; the table in section 3 shows what happens without it, and the instances that
TLC checks satisfy it.

| Module | Theorem | Property |
|---|---|---|
| `StorageLogProofs` | `TypeCorrect`, `PrefixHolds`, `FinalizedFull`, `IteratorsInBounds` | `TypeOK`, `ClientPrefix`, `FinalizedIsFull`, `IteratorInBounds` |
| | `ReleasedStaysFinal` | the action property `ReleasedIsFinal` |
| | `Refinement` | `Spec` implements `WriteOnceLog!Spec` |
| `OrderingProofs` | `TypeCorrect`, `SharesAreProportional`, `ServersStayInStep` | `TypeOK`, `ProportionalShare`, `InStepWithOrder` of `SlotAllocation` |
| | `EndedIsForgottenEverywhere` | `EndedIsForgotten` of `Sessions` |
| `ReplicationProofs` | `TypeCorrect`, `CutsAreFinal`, `GoneIsFrozen`, `RecoveredDataIsReal` | `TypeOK`, `CutIsFinal`, `FrozenBeforeGone`, `RecoveredIsWritten` |
| | `LogsAgree`, `AnswersAreDurable`, `AnswersInOrder` | `PrefixAgreement`, `AckedIsDurable`, `ResponsesInOrder` |
| | `InsertsFindSlots`, if `SlotsOnTime` | the action property `InsertFindsSlot` |
| `ClientPacingProofs` | `SlotsAreInPlace`, if `InTime` | `SlotsInPlace` |
| | `SlotsUsedInTime`, if `Paced` | `TimelyUse` |
| | `RequestsStayIntact` | `RequestIntact` |
| `SubscriberLogProofs` | `NoThreadCrashes`, `DeliveryInOrder`, `DeliveryIsReplicated`, `NoEntryLost`, all if `GoodStart` | `NoCrash`, `DeliveredInOrder`, `DeliveredIsReplicated`, `StoredOrDelivered` |
| `LockServiceProofs` | `TypeCorrect`, `LockIsExclusive`, `HolderLeadsQueue` | `TypeOK`, `MutualExclusion`, `HolderIsFirst` |
| `ChannelProofs` | `SendQueueNeverOverflows`, `BufferNeverOverwritten` | `SendQueueFits`, `BufferUntilSent` |
| | `UnreadNeverOverwritten`, if `Room` | `UnreadIntact` |
| `ConnectionProofs` | `ConnectionEndsMatch` | `EndsMatch` |

None of these properties but the types is inductive. Several of the invariants say that
there *exists* a value that no process keeps (an order of all slots, a history of a
queue, a ledger of announcements) from which the states of all processes can be
derived. It ties together processes that never talk to each other, which is what
agreement between them is about. It is quantified in the invariant instead of being a
variable of the model, so that the model stays a model of the code.

*StorageLog.* `ClientPrefix` (a client's entries are released exactly up to its
position): a step of `insert` needs to know that the entry it is about
to release is the client's next one, and an iterator that it looks at an entry below
the published end. `IInv` adds `CurOK` (a position points to an entry of its client),
`OpOK` (where an operation in progress stands: the entry it works on is its own and
still open), `FinalOK` (a finalized client's position is its last entry), `IterOK`
(where iterators stand) and `GsnOK` (GSNs are below the next one to be given). Each
action is one lemma with a step per conjunct it can disturb. Changes of the log are
reduced to three shapes (an entry is released, gets its payload, or is appended), for
which frame lemmas are proved once; refinement and `ReleasedIsFinal` follow from
the same three shapes. `NextOf`, a CHOOSE of a least position, is characterised by
`NextOfIsFirst` from the well-foundedness of the natural numbers.

*SlotAllocation.* `Diffused` says what the error of each client is in the middle of
the loop: `errors[k]` is between 0 and the largest rate, and differs from
`yielded[k] * Num(1) - turns * Num(k)` by its initial value only. `Chained` says that
the slots messages on their way to the server follow one another without gaps up to
`gsnBase`; `InStep` counts the slots that the message at hand still has to give.
Sums over a message are functions of partial sums (`PartialSums`, `Remaining`) whose
existence the invariant states, so that a step only changes them from one place on and
no recursive definition has to be reasoned about.

*Replication*, in six layers, each of which uses the ones before:
1. `Types`, types of all messages and of what may be in which queue.
2. `LogInv`: one log on its own. A client's entries are filled up to its position and
   open after it, and a step only adds slots and fills open ones (`KeptAll`).
3. `RecoveryInv`: what a server has reported and what is on its way is sound and stays
   so (a cut in a queue is the last GSN of a client the server no longer serves; data in
   a queue is in its log), orders that follow the freeze go to servers that have
   disconnected the client, and data is asked for after all cuts have come.
4. `SlotsInv`: there is a sequence of owners of all slots ever handed out of which
   every log, and every log together with the slots messages on their way to it, is a
   prefix.
5. `PlacesInv`: there is for every client a place in the log for each of its requests,
   and for every server a number of requests it has accepted, which are at these places
   with no-ops between. `PrefixAgreement` follows: places do not depend on the server,
   because they only depend on the owners of slots and on how many slots the requests
   use up. `AnswersInv` adds which acknowledgements are on their way, that a request
   that waits has as many as servers have sent, and that `latest` is the place of the
   last answered request: a client matches an acknowledgement with the first request
   whose GSN it has or that has none yet, and the invariant says why this is the right one.
6. `PromiseInv`, with `SlotsOnTime`: the slots that a client's requests use up by then
   never exceed those that a server has received.

`SlotsOnTime` is a parameter of `Replication`, which has no time. That it holds when
clocks and delays are good enough is `SlotsAreInPlace` of *ClientPacing*: a ledger of
announcements explains the client's epochs, its queue, and the queue and slots of every
server; what a server has not handled is not overdue; so with
`InTime == OrderDelay + Skew <= Duration` everything announced before the client's
current epoch has been handled when that epoch begins, and its own announcement one
tick later. `IdealInPlace` is this argument; it includes the boundary, where an epoch
begins at the very moment at which its announcement is due.

*SubscriberLog.* `PollInv` is about counting copies: how many are counted of an entry,
in which order they can come, and that a polling thread that waits to insert is at the
entry that it counted last. `LogInv` is about blocks: there are never more than two in
use (`TwoBlocks`), counters are the numbers of iterators that have gone over the end of a
block (`CountersOK`), no cached number of blocks is ahead (`PositionsOK`), where each
iterator and its history stand (`IteratorAt`, `HistoryAt`), that memory holds only what
belongs there (`MemoryAt`), and that what was stored is kept until every thread that it
belongs to has passed (`KeptAt`). `GoodStart` excludes what breaks these properties: the
sliced sequential iterator with several threads, and an uninitialised number of blocks.
TLC checked both invariants before they were proved.

*LockService.* The queues of all processes are a function of the log alone: `IInv` says
that there is a history of queues, one after each entry of the log, of which every
process has the one at its position, and where the requests of each worker can be in it,
depending on what the worker does. A worker holds its lock in *all* elements of the
history from its own position on, and two workers cannot both be first in the last one.

*ClientPacing*, the other two. For `RequestIntact`, `FlightInv` says that there is a
ledger of everything the client has sent and, for every server, how much of it the server
has inserted and how much of that the client has seen acknowledged. The load generator has
at most `MaxOutstanding` requests without a response on a larger ring, so a buffer that is
filled again belongs to a request no later than one that has its response
(`LateIsIntact`). That one was settled by acknowledgements of `Failures + 1` servers, each of
which handles what it gets in order: all of these have got the earlier request too, and the
proof shows that they are among the servers that `Got` it. For `TimelyUse`, `TimedInv` bounds when
messages are due: epochs begin more than `Duration` apart, everything in flight when an
epoch begins was sent before, so after twice `Delay` nothing is outstanding, and the next
turn of the loop sends. With `Paced` that turn is within the epoch.

*Channel.* `SendInv` keeps the books of the send queue: `sent_messages_` counts what the
sender has not seen completed, only the last of it asks for a completion, and it does so
exactly when the sender waits for it before it posts more. `BufInv` says which messages
the send buffers hold. `UnreadIntact` has no flow control to rest on but the receive
requests: `LateInv` says how far the unread messages of a queue can be behind what the
device executes (each queue gets every `NumQueues`-th message and has `RecvRequests`
requests), which makes `Window`; `PlaceInv` that messages are put one behind the other,
and that the `k`-th last begins at most `k` of the longest messages before the next
place, on the same lap or, with the gap at the end of the ring, on the one before; `RingInv` that what is unread is still there.
`Room == (Window + 1) * Align(MaxLength) + MaxLength - 1 <= RingSize` is where the gap
enters: it is what `storage::add_subscriber` leaves out.

*Connection.* The ends take turns: `Turns` says, for each step of a peer, which step the
server is in, that at most one message is under way between them, and what it contains.
The number of queues is computed at both ends, from the same two numbers, and the buffers
that an end takes are those it announces. `Lowest`, the first free bits of the
bitmap, is shown to have the length asked for. Of a peer that has
died in the handshake only what is left on its socket is known (`Sent`), until the server
is done with it and the peer is started again.

*Sessions* (whose specification is called `SessionsSpec`, so that `OrderingProofs` can
extend it next to `SlotAllocation`). `EndedIsForgotten` is about everybody whom someone who has left has met, so
`SInv` follows each acquaintance. `ServedInv`: a server and the subscriber are strangers,
being introduced, acquainted or taking leave. Changes of the set of subscribers alternate
between `add` and `remove`; a subscriber thread has or has not the subscriber according to
how many it has read, and is at most one or two changes behind; farewells on their way to
the subscriber are counted against the threads that have caught up, so the subscriber has
one from every thread only when no thread knows it any more. `TokenInv`: what the ordering
service knows and what is on its way to a peer are one token that moves. `MeetingInv`: the
subscriber has connections only to servers it has been told of. `ObjInv`: though any of
three threads may allocate the state of a client, all use the one that won
the compare-and-exchange. `ClientInv`: before a client takes leave of the ordering service
every server has disconnected it. None of this needs a client that is stopped late, or a
suspicion that is true.

Left to TLC:
* the eight liveness properties (`EverySlotDelivered`, `DepartedIsClosed`,
  `EveryEntryDelivered`, `EveryMessageProcessed`, `EveryoneConnects`,
  `EveryRequestReturns`, `StopReturns`, `CrashHandled`): the prover has no rules for
  fairness and ENABLED;
* the two runs that must fail, whose counterexamples are executions.

Every other property of the passing runs is stated by a theorem.

## 5. Not modelled

* The arithmetic of the client's rate estimation (floating point): `ClientPacing` lets
  it come to any rate.
* Crashes of storage servers and of the ordering service, and of a process that holds a
  lock: the code does not handle them. Crashes of subscribers: a send to one fails an
  assertion and stops the server.
* Failed sends on a broken connection: the error path of `send_queue` with
  `assert_on_failure_` = false reads completions that depend on the device; `Sessions`
  takes such a send to end in an event.
* The destructors, which stop and join the threads of a process that is shut down.
* Layout of messages, device start-up, memory allocation and huge pages, pinning of
  threads, logging, command lines, statistics and benchmarks, vendored libraries.

## 6. Plan

Done: the modules above, in the order StorageLog, SlotAllocation, Replication,
SubscriberLog, Channel, Connection, LockService, ClientPacing, Sessions.

Proved: every invariant and action property of the passing runs, and the refinement of
`WriteOnceLog` (section 4).

Open: the hazards in `PROJECT.json` that have a note instead of a property; the liveness
properties beyond the instances that TLC checks; what servers agree on after a patch,
once the code of recovery does what its comments say.
